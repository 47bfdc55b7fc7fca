---------------------------- MODULE ConsoleProofs ----------------------------
(* Proofs about the console: its sign-in (SignIn), for any number of tabs,   *)
(* tokens and logins, whatever fails and in whatever order answers arrive;   *)
(* and its pages (Screens, Pages), for any number of keys, acts of the user  *)
(* and versions, and for every panel that is as careful as those of Pages.   *)
EXTENDS SignIn, Screens, Pages, FiniteSetTheorems, WellFoundedInduction, TLAPS

-----------------------------------------------------------------------------
(* Sign-in *)

\* What holds of a tab: it keeps its type, and the demo data is gone from a
\* console that is shown.
Good(r) == r \in Tab /\ (r.status = "authenticated" => ~r.seeds)

IInv == TypeOK /\ \A t \in Tabs : Good(tab[t])

-----------------------------------------------------------------------------
(* What the parts of the handlers do to the record of a tab *)

LEMMA RunType ==
    ASSUME NEW at \in {"prepare-login", "prepare-refresh", "refresh", "whoami",
                       "prepare-callback", "exchange", "whoami-after-callback"},
           NEW k \in 0..MaxTokens
    PROVE  Run(at, k) \in Suspended
  BY DEF Run, Suspended

\* The runs of a tab and one more.
LEMMA OneMore ==
    ASSUME NEW r, Good(r), NEW k \in Suspended
    PROVE  r.runs \cup {k} \in SUBSET Suspended
  BY DEF Good, Tab

LEMMA RunsGood ==
    ASSUME NEW r, Good(r), NEW runs \in SUBSET Suspended
    PROVE  Good([r EXCEPT !.runs = runs])
  BY DEF Good, Tab

LEMMA CallsGood ==
    ASSUME NEW r, Good(r), NEW cs \in SUBSET (0..MaxTokens)
    PROVE  Good([r EXCEPT !.calls = cs])
  BY DEF Good, Tab

LEMMA StartLoginGood ==
    ASSUME NEW r, Good(r)
    PROVE  Good(StartLogin(r))
<1>1. Run("prepare-login", 0) \in Suspended
  BY SignInAssumption DEF Run, Suspended
<1>2. r.runs \cup {Run("prepare-login", 0)} \in SUBSET Suspended
  BY <1>1, OneMore
<1> DEFINE runs == r.runs \cup {Run("prepare-login", 0)}
<1>3. StartLogin(r) = IF r.redirecting THEN r
                      ELSE [r EXCEPT !.redirecting = TRUE, !.status = "redirecting",
                                     !.runs = runs]
  BY DEF StartLogin
<1>4. runs \in SUBSET Suspended
  BY <1>2
<1> HIDE DEF runs
<1>5. CASE r.redirecting
  BY <1>3, <1>5
<1>6. CASE ~r.redirecting
  <2> DEFINE s == [r EXCEPT !.redirecting = TRUE, !.status = "redirecting", !.runs = runs]
  <2>1. s \in Tab
    BY <1>4 DEF Good, Tab
  <2>2. s.status = "redirecting"
    BY DEF Good, Tab
  <2>3. StartLogin(r) = s
    BY <1>3, <1>6
  <2> HIDE DEF s
  <2> QED BY <2>1, <2>2, <2>3 DEF Good
<1> QED BY <1>5, <1>6

LEMMA BootstrapGood ==
    ASSUME NEW r, Good(r), stored \in 0..MaxTokens
    PROVE  Good(Bootstrap(r))
<1>1. /\ Run("prepare-refresh", stored) \in Suspended
      /\ Run("whoami", stored) \in Suspended
      /\ Run("prepare-callback", 0) \in Suspended
  BY SignInAssumption DEF Run, Suspended
<1>2. /\ r.runs \cup {Run("prepare-refresh", stored)} \in SUBSET Suspended
      /\ r.runs \cup {Run("whoami", stored)} \in SUBSET Suspended
      /\ r.runs \cup {Run("prepare-callback", 0)} \in SUBSET Suspended
  BY <1>1, OneMore
<1>3. Good([r EXCEPT !.runs = r.runs \cup {Run("prepare-callback", 0)}])
  BY <1>2, RunsGood
<1>4. Good([r EXCEPT !.runs = r.runs \cup {Run("prepare-refresh", stored)}])
  BY <1>2, RunsGood
<1>5. Good([r EXCEPT !.bearer = stored, !.runs = r.runs \cup {Run("whoami", stored)}])
  <2> DEFINE runs == r.runs \cup {Run("whoami", stored)}
  <2>1. runs \in SUBSET Suspended
    BY <1>2
  <2> HIDE DEF runs
  <2>2. Good([r EXCEPT !.bearer = stored, !.runs = runs])
    BY <2>1 DEF Good, Tab
  <2> QED BY <2>2 DEF runs
<1> QED BY <1>3, <1>4, <1>5 DEF Bootstrap

LEMMA BootEffectGood ==
    ASSUME NEW r, Good(r), stored \in 0..MaxTokens
    PROVE  Good(BootEffect(r))
<1>1. Good([r EXCEPT !.booted = TRUE])
  BY DEF Good, Tab
<1> QED BY <1>1, BootstrapGood DEF BootEffect

LEMMA LoadedGood ==
    ASSUME NEW t \in Tabs, Good(tab[t]), NEW url \in 0..MaxLogins, NEW denied \in BOOLEAN
    PROVE  Good(Loaded(t, url, denied))
<1> DEFINE r == tab[t]
           a == [r EXCEPT !.page = "app", !.leaving = "no", !.url = url,
                          !.denied = denied, !.asked = 0]
           b == [a EXCEPT !.status = "loading", !.mode = "oidc", !.bearer = 0,
                          !.mounted = FALSE, !.booted = FALSE]
           c == [b EXCEPT !.redirecting = FALSE, !.ready = FALSE, !.seeds = TRUE,
                          !.runs = {}, !.calls = {}, !.trouble = FALSE]
<1>0. 0 \in 0..MaxLogins /\ 0 \in 0..MaxTokens
  BY SignInAssumption
<1>1. r \in Tab
  BY DEF Good
<1>2. Loaded(t, url, denied) = c
  BY DEF Loaded
<1> HIDE DEF r
<1>3. a \in Tab
  BY <1>0, <1>1 DEF Tab
<1> HIDE DEF a
<1>4. b \in Tab /\ b.status = "loading"
  BY <1>0, <1>3 DEF Tab
<1> HIDE DEF b
<1>5. c \in Tab /\ c.status = "loading"
  BY <1>4 DEF Tab
<1> HIDE DEF c
<1> QED BY <1>2, <1>5 DEF Good

LEMMA ShowGood ==
    ASSUME NEW r, Good(r), NEW k \in Suspended
    PROVE  Good(Show(r, k))
<1>1. ClearSeeds(r) \in Tab /\ ~ClearSeeds(r).seeds
  BY DEF ClearSeeds, Good, Tab
<1> DEFINE mode == IF k.at = "whoami-after-callback" \/ k.tok # 0 THEN "oidc" ELSE "dev-bypass"
           url  == IF k.at = "whoami-after-callback" THEN 0 ELSE r.url
           c    == ClearSeeds(r)
<1>2. mode \in {"dev-bypass", "oidc"} /\ url \in 0..MaxLogins
  <2>1. 0 \in 0..MaxLogins /\ r.url \in 0..MaxLogins
    BY SignInAssumption DEF Good, Tab
  <2> QED BY <2>1
<1>3. Show(r, k) = [c EXCEPT !.status = "authenticated", !.mode = mode, !.url = url]
  BY DEF Show
<1>4. c \in Tab /\ ~c.seeds
  BY <1>1
<1> HIDE DEF mode, url, c
<1> QED BY <1>2, <1>3, <1>4 DEF Good, Tab

LEMMA ResumedGood ==
    ASSUME NEW t \in Tabs, Good(tab[t]), NEW k \in tab[t].runs
    PROVE  Good(Resumed(t, k)) /\ k \in Suspended
<1>1. tab[t].runs \ {k} \in SUBSET Suspended /\ k \in Suspended
  BY DEF Good, Tab
<1> QED BY <1>1, RunsGood DEF Resumed

\* Storing a good record in a tab.
LEMMA SetTab ==
    ASSUME tab \in [Tabs -> Tab], \A u \in Tabs : Good(tab[u]),
           NEW t \in Tabs, NEW r, Good(r), tab' = [tab EXCEPT ![t] = r]
    PROVE  tab' \in [Tabs -> Tab] /\ \A u \in Tabs : Good(tab'[u])
  BY DEF Good

LEMMA ClearAndLoginGood ==
    ASSUME tab \in [Tabs -> Tab], \A u \in Tabs : Good(tab[u]),
           NEW t \in Tabs, NEW r, Good(r), ClearAndLogin(t, r)
    PROVE  /\ tab' \in [Tabs -> Tab] /\ \A u \in Tabs : Good(tab'[u])
           /\ stored' \in 0..MaxTokens
<1> DEFINE c == [r EXCEPT !.bearer = 0, !.pending = 0]
<1>0. 0 \in 0..MaxLogins /\ 0 \in 0..MaxTokens
  BY SignInAssumption
<1>1. Good(c)
  BY <1>0 DEF Good, Tab
<1>2. tab' = [tab EXCEPT ![t] = StartLogin(c)] /\ stored' = 0
  BY DEF ClearAndLogin
<1> HIDE DEF c
<1>3. Good(StartLogin(c))
  BY <1>1, StartLoginGood
<1> QED BY <1>0, <1>2, <1>3, SetTab

-----------------------------------------------------------------------------

LEMMA InitIInv == Init => IInv
<1> SUFFICES ASSUME Init PROVE IInv
  OBVIOUS
<1>1. /\ 0 \in 0..MaxTokens /\ 0 \in 0..MaxLogins /\ 0 \in 0..MaxReloads
      /\ stored \in 0..MaxTokens
  BY SignInAssumption DEF Init
<1>2. 1..stored \subseteq Tokens
  BY <1>1, SignInAssumption DEF Tokens
<1>3. tab \in [Tabs -> Tab]
  BY <1>1 DEF Init, Tab
<1>4. \A t \in Tabs : tab[t].status = "loading"
  BY DEF Init
<1>5. \A t \in Tabs : Good(tab[t])
  BY <1>3, <1>4 DEF Good
<1> QED BY <1>1, <1>2, <1>3, <1>5 DEF IInv, TypeOK, Init

\* What a handler leaves of the other variables.
Others == /\ stored \in 0..MaxTokens
          /\ fresh \subseteq Tokens /\ live \subseteq Tokens /\ refreshable \subseteq Tokens
          /\ issued \in 0..MaxTokens /\ logins \in 0..MaxLogins /\ exchanged \subseteq 0..MaxLogins
          /\ world \in Worlds

Together == tab \in [Tabs -> Tab] /\ (\A t \in Tabs : Good(tab[t])) /\ Others

LEMMA SameIInv == IInv <=> Together
  BY DEF IInv, Together, Others, TypeOK

LEMMA SameIInvNext == Together' => IInv'
  BY DEF IInv, Together, Others, TypeOK

\* An action that stores a good record and leaves the other variables alone.
LEMMA QuietStep ==
    ASSUME Together, NEW t \in Tabs, NEW r, Good(r), tab' = [tab EXCEPT ![t] = r],
           UNCHANGED <<stored, tokenVars, logins, exchanged, world>>
    PROVE  Together'
<1>1. tab' \in [Tabs -> Tab] /\ \A u \in Tabs : Good(tab'[u])
  BY SetTab DEF Together
<1>2. Others'
  BY DEF Together, Others, tokenVars
<1> QED BY <1>1, <1>2 DEF Together

LEMMA BrowserKeeps ==
    ASSUME Together, NEW t \in Tabs,
           Open(t) \/ Reload(t) \/ Leave(t) \/ \E ok \in BOOLEAN : Return(t, ok)
    PROVE  Together'
<1>0. Good(tab[t]) /\ tab[t] \in Tab /\ 0 \in 0..MaxLogins
  BY SignInAssumption DEF Together
<1>1. CASE Open(t)
  BY <1>0, <1>1, LoadedGood, QuietStep DEF Open
<1>2. CASE Reload(t)
  <2> DEFINE r == Loaded(t, tab[t].url, tab[t].denied)
             n == tab[t].reloads + 1
             b == tab[t].url # 0
  <2>1. tab[t].url \in 0..MaxLogins /\ tab[t].denied \in BOOLEAN
    BY <1>0 DEF Tab
  <2>2. Good(r)
    BY <1>0, <2>1, LoadedGood
  <2>3. n \in 0..MaxReloads /\ b \in BOOLEAN
    BY <1>0, <1>2, SignInAssumption DEF Tab, Reload
  <2>4. tab' = [tab EXCEPT ![t] = [r EXCEPT !.reloads = n, !.trouble = b]]
    BY <1>2 DEF Reload
  <2> HIDE DEF r, n, b
  <2>5. Good([r EXCEPT !.reloads = n, !.trouble = b])
    BY <2>2, <2>3 DEF Good, Tab
  <2> QED BY <1>2, <2>4, <2>5, QuietStep DEF Reload
<1>3. CASE Leave(t)
  <2> DEFINE r == [tab[t] EXCEPT !.page = "idp", !.leaving = "no", !.runs = {}, !.calls = {}]
  <2>1. Good(r)
    BY <1>0 DEF Good, Tab
  <2>2. Good(Loaded(t, 0, FALSE))
    BY <1>0, LoadedGood
  <2>3. tab' = [tab EXCEPT ![t] = IF tab[t].leaving = "home" THEN Loaded(t, 0, FALSE) ELSE r]
    BY <1>3 DEF Leave
  <2> HIDE DEF r
  <2>4. Good(IF tab[t].leaving = "home" THEN Loaded(t, 0, FALSE) ELSE r)
    BY <2>1, <2>2
  <2> QED BY <1>3, <2>3, <2>4, QuietStep DEF Leave
<1>4. ASSUME NEW ok \in BOOLEAN, Return(t, ok) PROVE Together'
  <2> DEFINE r == Loaded(t, tab[t].asked, ~ok)
             b == ~ok
  <2>1. tab[t].asked \in 0..MaxLogins /\ b \in BOOLEAN
    BY <1>0 DEF Tab
  <2>2. Good(r)
    BY <1>0, <2>1, LoadedGood
  <2>3. tab' = [tab EXCEPT ![t] = [r EXCEPT !.trouble = b]]
    BY <1>4 DEF Return
  <2> HIDE DEF r, b
  <2>4. Good([r EXCEPT !.trouble = b])
    BY <2>1, <2>2 DEF Good, Tab
  <2> QED BY <1>4, <2>3, <2>4, QuietStep DEF Return
<1> QED BY <1>1, <1>2, <1>3, <1>4

\* The steps of the boot, up to the call that asks who the user is.
LEMMA BootKeeps ==
    ASSUME Together, NEW t \in Tabs,
           \/ MountEffect(t) \/ Call(t) \/ Login(t) \/ Retry(t)
           \/ \E c \in tab[t].calls : Answer(t, c)
    PROVE  Together'
<1>0. Good(tab[t]) /\ tab[t] \in Tab /\ stored \in 0..MaxTokens
  BY DEF Together, Others
<1>1. CASE MountEffect(t)
  <2> DEFINE m == [tab[t] EXCEPT !.mounted = TRUE]
  <2>1. Good(m)
    BY <1>0 DEF Good, Tab
  <2>2. tab' = [tab EXCEPT ![t] = IF Strict THEN BootEffect(BootEffect(m)) ELSE BootEffect(m)]
    BY <1>1 DEF MountEffect
  <2> HIDE DEF m
  <2>3. Good(BootEffect(m)) /\ Good(BootEffect(BootEffect(m)))
    BY <1>0, <2>1, BootEffectGood
  <2>4. Good(IF Strict THEN BootEffect(BootEffect(m)) ELSE BootEffect(m))
    BY <2>3
  <2> QED BY <1>1, <2>2, <2>4, QuietStep DEF MountEffect
<1>2. CASE Call(t)
  <2>1. tab[t].calls \cup {tab[t].bearer} \in SUBSET (0..MaxTokens)
    BY <1>0 DEF Tab
  <2>2. Good([tab[t] EXCEPT !.calls = tab[t].calls \cup {tab[t].bearer}])
    BY <1>0, <2>1, CallsGood
  <2> QED BY <1>2, <2>2, QuietStep DEF Call
<1>3. CASE Login(t)
  BY <1>0, <1>3, StartLoginGood, QuietStep DEF Login
<1>4. CASE Retry(t)
  <2> DEFINE r == [tab[t] EXCEPT !.status = "loading", !.booted = FALSE, !.redirecting = FALSE]
  <2>1. Good(r)
    BY <1>0 DEF Good, Tab
  <2>2. tab' = [tab EXCEPT ![t] = Bootstrap(r)]
    BY <1>4 DEF Retry
  <2> HIDE DEF r
  <2>3. Good(Bootstrap(r))
    BY <1>0, <2>1, BootstrapGood
  <2> QED BY <1>4, <2>2, <2>3, QuietStep DEF Retry
<1>5. ASSUME NEW c \in tab[t].calls, Answer(t, c) PROVE Together'
  <2>1. tab[t].calls \ {c} \in SUBSET (0..MaxTokens)
    BY <1>0 DEF Tab
  <2>2. Good([tab[t] EXCEPT !.calls = tab[t].calls \ {c}])
    BY <1>0, <2>1, CallsGood
  <2>3. tab' = [tab EXCEPT ![t] = [tab[t] EXCEPT !.calls = tab[t].calls \ {c}]]
    BY <1>5 DEF Answer, Answered
  <2> QED BY <1>5, <2>2, <2>3, QuietStep DEF Answer
<1> QED BY <1>1, <1>2, <1>3, <1>4, <1>5

\* A token set goes with a new login.
LEMMA DropKeeps ==
    ASSUME Together, NEW t \in Tabs, NEW r, Good(r), ClearAndLogin(t, r),
           UNCHANGED <<tokenVars, logins, exchanged, world>>
    PROVE  Together'
<1>1. /\ tab' \in [Tabs -> Tab] /\ \A u \in Tabs : Good(tab'[u])
      /\ stored' \in 0..MaxTokens
  BY ClearAndLoginGood DEF Together
<1>2. Others'
  BY <1>1 DEF Together, Others, tokenVars
<1> QED BY <1>1, <1>2 DEF Together

\* A new token set comes with the call that asks who the user is.
LEMMA IssueKeeps ==
    ASSUME Together, NEW t \in Tabs, NEW k \in tab[t].runs,
           Refreshed(t, k) \/ Exchanged(t, k)
    PROVE  Together'
<1> DEFINE next == issued + 1
           r == Resumed(t, k)
           at == IF Refreshed(t, k) THEN "whoami" ELSE "whoami-after-callback"
<1>0. Good(tab[t]) /\ next \in Tokens /\ next \in 0..MaxTokens
  BY SignInAssumption DEF Together, Others, Refreshed, Exchanged, Tokens
<1>1. Good(r)
  BY <1>0, ResumedGood
<1>2. /\ Run("whoami", next) \in Suspended
      /\ Run("whoami-after-callback", next) \in Suspended
  BY <1>0 DEF Run, Suspended
<1> DEFINE a == r.runs \cup {Run("whoami", next)}
           b == r.runs \cup {Run("whoami-after-callback", next)}
<1>3. a \in SUBSET Suspended /\ b \in SUBSET Suspended
  BY <1>1, <1>2, OneMore
<1>4. \/ tab' = [tab EXCEPT ![t] = [r EXCEPT !.bearer = next, !.runs = a]]
      \/ tab' = [tab EXCEPT ![t] = [r EXCEPT !.bearer = next, !.runs = b]]
  BY DEF Refreshed, Exchanged
<1>5. Others'
  BY <1>0 DEF Together, Others, Refreshed, Exchanged
<1> HIDE DEF next, r, at, a, b
<1>6. Good([r EXCEPT !.bearer = next, !.runs = a]) /\ Good([r EXCEPT !.bearer = next, !.runs = b])
  BY <1>0, <1>1, <1>3 DEF Good, Tab
<1>7. tab' \in [Tabs -> Tab] /\ \A u \in Tabs : Good(tab'[u])
  BY <1>4, <1>6, SetTab DEF Together
<1> QED BY <1>5, <1>7 DEF Together

LEMMA FailingGood ==
    ASSUME NEW r, Good(r)
    PROVE  Good(Failing(r))
  BY DEF Failing, Good, Tab

\* The other steps of the boot and of a login.
LEMMA AwaitKeeps ==
    ASSUME Together, NEW t \in Tabs, NEW k \in tab[t].runs,
           \/ BeginLogin(t, k) \/ LoginFails(t, k) \/ PreparedRefresh(t, k)
           \/ CheckCallback(t, k) \/ CallbackRefused(t, k) \/ CallbackFails(t, k)
           \/ Admitted(t, k) \/ WhoAmIFails(t, k)
    PROVE  Together'
<1> DEFINE r == Resumed(t, k)
<1>0. /\ Good(tab[t]) /\ tab[t] \in Tab /\ 0 \in 0..MaxLogins
      /\ Good(r) /\ k \in Suspended /\ k.tok \in 0..MaxTokens /\ 0 \in 0..MaxTokens
  <2>1. Good(tab[t]) /\ tab[t] \in Tab
    BY DEF Together
  <2>2. Good(r) /\ k \in Suspended
    BY <2>1, ResumedGood
  <2>3. k.tok \in 0..MaxTokens
    BY <2>2 DEF Suspended
  <2>4. 0 \in 0..MaxLogins /\ 0 \in 0..MaxTokens
    BY SignInAssumption
  <2> QED BY <2>1, <2>2, <2>3, <2>4
<1>1. CASE BeginLogin(t, k)
  <2> DEFINE n == logins + 1
  <2>1. n \in 0..MaxLogins
    <3>1. logins \in 0..MaxLogins /\ logins < MaxLogins
      BY <1>1 DEF Together, Others, BeginLogin
    <3> QED BY <3>1, SignInAssumption
  <2>2. tab' = [tab EXCEPT ![t] = [r EXCEPT !.ready = TRUE, !.pending = n, !.asked = n,
                                             !.leaving = "idp"]]
    BY <1>1 DEF BeginLogin
  <2>3. Others'
    BY <1>1, <2>1 DEF Together, Others, BeginLogin, tokenVars
  <2> HIDE DEF r, n
  <2>4. Good([r EXCEPT !.ready = TRUE, !.pending = n, !.asked = n, !.leaving = "idp"])
    BY <1>0, <2>1 DEF Good, Tab
  <2>5. tab' \in [Tabs -> Tab] /\ \A u \in Tabs : Good(tab'[u])
    BY <2>2, <2>4, SetTab DEF Together
  <2> QED BY <2>3, <2>5 DEF Together
<1>2. CASE LoginFails(t, k)
  <2> DEFINE f == Failing(r)
  <2>1. Good(f)
    BY <1>0, FailingGood
  <2>2. tab' = [tab EXCEPT ![t] = [f EXCEPT !.redirecting = FALSE]]
    BY <1>2 DEF LoginFails
  <2> HIDE DEF f
  <2>3. Good([f EXCEPT !.redirecting = FALSE])
    BY <2>1 DEF Good, Tab
  <2> QED BY <1>2, <2>2, <2>3, QuietStep DEF LoginFails
<1>3. CASE PreparedRefresh(t, k)
  <2> DEFINE runs == r.runs \cup {Run("refresh", k.tok)}
  <2>1. Run("refresh", k.tok) \in Suspended
    BY <1>0 DEF Run, Suspended
  <2>2. runs \in SUBSET Suspended
    BY <1>0, <2>1, OneMore
  <2>3. tab' = [tab EXCEPT ![t] = [r EXCEPT !.ready = TRUE, !.runs = runs]]
    BY <1>3 DEF PreparedRefresh
  <2> HIDE DEF r, runs
  <2>4. Good([r EXCEPT !.ready = TRUE, !.runs = runs])
    BY <1>0, <2>2 DEF Good, Tab
  <2> QED BY <1>3, <2>3, <2>4, QuietStep DEF PreparedRefresh
<1>4. CASE CheckCallback(t, k)
  <2> DEFINE runs == r.runs \cup {Run("exchange", 0)}
  <2>1. Run("exchange", 0) \in Suspended
    BY <1>0 DEF Run, Suspended
  <2>2. runs \in SUBSET Suspended
    BY <1>0, <2>1, OneMore
  <2>3. tab' = [tab EXCEPT ![t] = [r EXCEPT !.ready = TRUE, !.pending = 0, !.runs = runs]]
    BY <1>4 DEF CheckCallback
  <2>4. Others'
    <3>1. tab[t].url \in 0..MaxLogins
      BY <1>0 DEF Tab
    <3> QED BY <1>4, <3>1 DEF Together, Others, CheckCallback, tokenVars
  <2> HIDE DEF r, runs
  <2>5. Good([r EXCEPT !.ready = TRUE, !.pending = 0, !.runs = runs])
    BY <1>0, <2>2 DEF Good, Tab
  <2>6. tab' \in [Tabs -> Tab] /\ \A u \in Tabs : Good(tab'[u])
    BY <2>3, <2>5, SetTab DEF Together
  <2> QED BY <2>4, <2>6 DEF Together
<1>5. CASE CallbackRefused(t, k)
  <2>1. tab' = [tab EXCEPT ![t] = [r EXCEPT !.ready = TRUE, !.status = "error"]]
    BY <1>5 DEF CallbackRefused
  <2> HIDE DEF r
  <2>2. Good([r EXCEPT !.ready = TRUE, !.status = "error"])
    BY <1>0 DEF Good, Tab
  <2> QED BY <1>5, <2>1, <2>2, QuietStep DEF CallbackRefused
<1>6. CASE CallbackFails(t, k)
  BY <1>0, <1>6, FailingGood, QuietStep DEF CallbackFails
<1>7. CASE Admitted(t, k)
  BY <1>0, <1>7, ShowGood, QuietStep DEF Admitted
<1>8. CASE WhoAmIFails(t, k)
  BY <1>0, <1>8, FailingGood, QuietStep DEF WhoAmIFails
<1> QED BY <1>1, <1>2, <1>3, <1>4, <1>5, <1>6, <1>7, <1>8

LEMMA NextKeeps == IInv /\ [Next]_vars => IInv'
<1> SUFFICES ASSUME Together, [Next]_vars PROVE Together'
  BY SameIInv, SameIInvNext
<1>0. 0 \in 0..MaxLogins /\ 0 \in 0..MaxTokens
  BY SignInAssumption
<1>1. ASSUME NEW t \in Tabs, NEW k \in tab[t].runs, Resume(t, k) PROVE Together'
  <2>1. Good(Resumed(t, k))
    BY ResumedGood DEF Together
  <2>2. CASE RefreshFails(t, k) \/ Refused(t, k)
    BY <2>1, <2>2, DropKeeps DEF RefreshFails, Refused
  <2>3. CASE Refreshed(t, k) \/ Exchanged(t, k)
    BY <2>3, IssueKeeps
  <2> QED BY <1>1, <2>2, <2>3, AwaitKeeps DEF Resume
<1>2. ASSUME NEW t \in Tabs, NEW c \in tab[t].calls, NEW last \in {TRUE, ~Bursts},
             Unauthorized(t, c, last)
      PROVE  Together'
  <2>1. Good(tab[t]) /\ tab[t].calls \ {c} \in SUBSET (0..MaxTokens)
    BY DEF Together, Good, Tab
  <2>2. Good(Answered(t, c, last))
    BY <2>1, CallsGood DEF Answered
  <2> QED BY <1>2, <2>2, DropKeeps DEF Unauthorized
<1>3. ASSUME NEW t \in Tabs, Logout(t) PROVE Together'
  <2> DEFINE r == [tab[t] EXCEPT !.bearer = 0, !.pending = 0, !.status = "redirecting",
                                 !.leaving = "home"]
  <2>0. Good(tab[t])
    BY DEF Together
  <2>1. Good(r)
    BY <1>0, <2>0 DEF Good, Tab
  <2>2. tab' = [tab EXCEPT ![t] = r] /\ stored' = 0
    BY <1>3 DEF Logout
  <2> HIDE DEF r
  <2>3. tab' \in [Tabs -> Tab] /\ \A u \in Tabs : Good(tab'[u])
    BY <2>1, <2>2, SetTab DEF Together
  <2>4. Others'
    BY <1>0, <1>3, <2>2 DEF Together, Others, Logout, tokenVars
  <2> QED BY <2>3, <2>4 DEF Together
<1>4. ASSUME NEW k \in Tokens, Expire(k) PROVE Together'
  BY <1>4 DEF Expire, Together, Others
<1>5. CASE UNCHANGED vars
  BY <1>5 DEF vars, Together, Others
<1> QED BY <1>1, <1>2, <1>3, <1>4, <1>5, BrowserKeeps, BootKeeps DEF Next

\* Storage, tokens and tabs keep their types.
THEOREM TypeCorrect == Spec => []TypeOK
<1>1. IInv => TypeOK
  BY DEF IInv
<1> QED BY <1>1, InitIInv, NextKeeps, PTL DEF Spec

\* AuthProvider shows the console only after clearSeedStoresForApiMode,
\* whatever fails, is retried, or answers late.
THEOREM SeedsGoFirst == Spec => []ShownWithoutSeeds
<1>1. IInv => ShownWithoutSeeds
  BY DEF IInv, Good, ShownWithoutSeeds
<1> QED BY <1>1, InitIInv, NextKeeps, PTL DEF Spec

-----------------------------------------------------------------------------
(* One function of AuthProvider at a time                                   *)
(*                                                                          *)
(* Until a document has shown the console (its seeds are in the stores) no  *)
(* page calls knaic-api, and one function of AuthProvider is under way at   *)
(* most: everything else follows from which one it is. Afterwards that is   *)
(* so while a token has one call in flight; with one tab and late answers,  *)
(* a console either holds the stored token set or has dropped it.           *)

CallbackRuns == {"prepare-callback", "exchange", "whoami-after-callback"}

Awaits(r, at) == \E k \in r.runs : k.at = at

Doc(r) ==
    /\ r.page # "app" => r.runs = {} /\ r.calls = {}
    /\ r.page = "closed" => r.leaving = "no"
    /\ r.page = "app" /\ ~r.mounted =>
          /\ r.runs = {} /\ r.calls = {} /\ r.status = "loading"
          /\ r.seeds /\ r.leaving = "no" /\ ~r.redirecting
    /\ r.page = "app" /\ ~r.seeds => r.url = 0
    /\ \A k \in r.runs : IF k.at \in CallbackRuns THEN r.url # 0
                         ELSE k.at = "prepare-login" \/ r.url = 0

Orderly(r) ==
    /\ \A k, l \in r.runs : k = l
    /\ \A c, d \in r.calls : c = d
    /\ r.runs # {} => r.calls = {} /\ r.status \in {"loading", "redirecting"}
    /\ r.status = "authenticated" => r.calls \subseteq {r.bearer}
    /\ r.status = "error" => r.calls = {}
    /\ r.leaving = "idp" => /\ r.runs = {} /\ r.calls = {}
                            /\ r.status = "redirecting" /\ r.asked = r.pending
    /\ r.redirecting => r.leaving # "no" \/ Awaits(r, "prepare-login")
    /\ \A k \in r.runs :
        /\ k.at = "prepare-login" => r.status = "redirecting"
        /\ k.at = "whoami" => r.bearer = k.tok
        /\ k.at = "whoami-after-callback" => r.bearer = k.tok /\ k.tok # 0
    /\ r.status = "authenticated" /\ r.mode = "oidc" /\ r.bearer = 0 => r.leaving # "no"
    /\ r.seeds => r.calls = {} /\ r.status # "authenticated" /\ r.leaving # "home"

\* What a refused callback needs: an error the document has seen.
Calm(r) ==
    /\ r.status = "error" => r.trouble
    /\ r.page = "idp" => r.asked = r.pending
    /\ r.page = "app" /\ r.url # 0 /\ ~r.trouble /\ (~r.mounted \/ Awaits(r, "prepare-callback"))
          => ~r.denied /\ r.pending = r.url

\* The one tab, where stored is s and the fresh token sets are f.
Alone(r, s, f) ==
    IF r.seeds
    THEN \A k \in r.runs :
            /\ k.at \in {"whoami", "whoami-after-callback"} => s = k.tok
            /\ k.at \in {"prepare-refresh", "refresh"} => s = k.tok /\ k.tok \notin f
    ELSE \/ /\ s = 0 /\ r.bearer = 0
            /\ \A k \in r.runs : k.tok = 0 /\ k.at \in {"prepare-login", "whoami"}
            /\ r.status = "authenticated" => r.mode = "dev-bypass"
         \/ /\ r.status = "authenticated" /\ r.runs = {} /\ s = r.bearer
            /\ r.leaving = "no" /\ ~r.redirecting /\ r.calls \subseteq {r.bearer}
            /\ r.mode = "oidc" => r.bearer # 0

TabInv(r, s, f) ==
    /\ Doc(r)
    /\ r.page = "app" /\ (r.seeds \/ ~Bursts) => Orderly(r)
    /\ ~Bursts => Calm(r)
    /\ OneTab /\ r.page = "app" => Alone(r, s, f)

OneOpen ==
    OneTab => \A t, u \in Tabs : tab[t].page # "closed" /\ tab[u].page # "closed" => t = u

\* The logins tabs have begun are their own, and their codes unused.
LoginsApart ==
    /\ exchanged \subseteq 1..logins
    /\ \A t \in Tabs : tab[t].pending # 0 =>
          /\ tab[t].pending <= logins /\ tab[t].pending \notin exchanged
          /\ \A u \in Tabs : tab[u].pending = tab[t].pending => u = t

TabsInv == \A t \in Tabs : TabInv(tab[t], stored, fresh)

\* A login that fails, a refresh, a 401: what a document must look like when
\* its token set goes.
Dropping(q) ==
    /\ q \in Tab /\ q.mounted /\ q.page = "app" /\ Doc(q)
    /\ q.seeds \/ ~Bursts =>
          /\ q.runs = {} /\ q.calls = {} /\ q.leaving # "idp"
          /\ q.redirecting => q.leaving = "home"
          /\ q.seeds => q.status # "authenticated" /\ q.leaving # "home"
    /\ ~Bursts => (q.status = "error" => q.trouble)
    /\ OneTab /\ ~q.seeds =>
          /\ \A k \in q.runs : k.tok = 0 /\ k.at \in {"prepare-login", "whoami"}
          /\ q.status = "authenticated" => q.mode = "dev-bypass" \/ ~q.redirecting

LEMMA DroppedTab ==
    ASSUME NEW q, NEW f, Dropping(q)
    PROVE  TabInv(StartLogin([q EXCEPT !.bearer = 0, !.pending = 0]), 0, f)
<1>1. PICK m : m = StartLogin([q EXCEPT !.bearer = 0, !.pending = 0])
  OBVIOUS
<1>2. PICK p : p = Run("prepare-login", 0)
  OBVIOUS
<1>3. p.at = "prepare-login" /\ p.tok = 0
  BY <1>2 DEF Run
<1>4. m = IF q.redirecting THEN [q EXCEPT !.bearer = 0, !.pending = 0]
          ELSE [q EXCEPT !.bearer = 0, !.pending = 0, !.redirecting = TRUE,
                         !.status = "redirecting", !.runs = q.runs \cup {p}]
  BY <1>1, <1>2 DEF StartLogin, Dropping, Tab
<1>5. Doc(m)
  BY <1>3, <1>4 DEF Dropping, Doc, Tab, CallbackRuns
<1>6. m.page = "app" /\ (m.seeds \/ ~Bursts) => Orderly(m)
  BY <1>3, <1>4 DEF Dropping, Orderly, Awaits, Tab
<1>7. ~Bursts => Calm(m)
  BY <1>3, <1>4 DEF Dropping, Calm, Awaits, Tab
<1>8. OneTab /\ m.page = "app" => Alone(m, 0, f)
  BY <1>3, <1>4 DEF Dropping, Alone, Tab
<1> QED BY <1>1, <1>5, <1>6, <1>7, <1>8 DEF TabInv

\* What a document must look like when bootstrap is called.
Bootable(q) ==
    /\ q \in Tab /\ q.mounted /\ q.page = "app" /\ Doc(q)
    /\ q.status = "loading" /\ ~q.redirecting
    /\ q.seeds \/ ~Bursts => q.runs = {} /\ q.calls = {} /\ q.leaving # "idp"
    /\ q.seeds => q.leaving # "home"
    /\ ~Bursts /\ q.url # 0 /\ ~q.trouble => ~q.denied /\ q.pending = q.url
    /\ OneTab /\ ~q.seeds =>
          /\ stored = 0 /\ q.bearer = 0
          /\ \A k \in q.runs : k.tok = 0 /\ k.at \in {"prepare-login", "whoami"}

LEMMA BootTab ==
    ASSUME NEW q, Bootable(q)
    PROVE  TabInv(Bootstrap(q), stored, fresh)
<1>1. PICK m : m = Bootstrap(q)
  OBVIOUS
<1> DEFINE p == IF q.url # 0 THEN Run("prepare-callback", 0)
                ELSE IF stored # 0 /\ stored \notin fresh THEN Run("prepare-refresh", stored)
                ELSE Run("whoami", stored)
<1>2. /\ p.at = IF q.url # 0 THEN "prepare-callback"
                ELSE IF stored # 0 /\ stored \notin fresh THEN "prepare-refresh" ELSE "whoami"
      /\ q.url = 0 => p.tok = stored
  BY DEF Run
<1>3. m = IF p.at = "whoami" THEN [q EXCEPT !.bearer = stored, !.runs = q.runs \cup {p}]
          ELSE [q EXCEPT !.runs = q.runs \cup {p}]
  BY <1>1, <1>2 DEF Bootstrap, IsCallbackPath, HasUsableAccessToken
<1> HIDE DEF p
<1>5. Doc(m)
  BY <1>2, <1>3 DEF Bootable, Doc, Tab, CallbackRuns
<1>6. m.page = "app" /\ (m.seeds \/ ~Bursts) => Orderly(m)
  BY <1>2, <1>3 DEF Bootable, Orderly, Awaits, Tab
<1>7. ~Bursts => Calm(m)
  BY <1>2, <1>3 DEF Bootable, Calm, Awaits, Tab
<1>8. OneTab /\ m.page = "app" => Alone(m, stored, fresh)
  BY <1>2, <1>3 DEF Bootable, Doc, Alone, Tab
<1> QED BY <1>1, <1>5, <1>6, <1>7, <1>8 DEF TabInv

\* A document that has just replaced another one.
LEMMA LoadedTab ==
    ASSUME NEW m \in Tab, NEW s, NEW f, m.page = "app", m.status = "loading", m.leaving = "no",
           ~m.mounted, ~m.redirecting, m.seeds, m.runs = {}, m.calls = {},
           ~Bursts /\ m.url # 0 /\ ~m.trouble => ~m.denied /\ m.pending = m.url
    PROVE  TabInv(m, s, f)
<1>1. Doc(m) /\ Orderly(m) /\ Alone(m, s, f)
  BY DEF Doc, Orderly, Alone, Awaits
<1>2. ~Bursts => Calm(m)
  BY DEF Calm, Awaits
<1> QED BY <1>1, <1>2 DEF TabInv

\* The fields of a document that was just loaded.
LEMMA LoadedFields ==
    ASSUME NEW t \in Tabs, tab[t] \in Tab, NEW url, NEW denied,
           NEW m, m = Loaded(t, url, denied)
    PROVE  /\ m.page = "app" /\ m.status = "loading" /\ m.leaving = "no" /\ ~m.mounted
           /\ ~m.redirecting /\ m.seeds /\ m.runs = {} /\ m.calls = {} /\ ~m.trouble
           /\ m.url = url /\ m.denied = denied /\ m.pending = tab[t].pending
           /\ m.reloads = tab[t].reloads
<1>1. PICK r \in Tab : r = tab[t]
  OBVIOUS
<1>2. PICK a : a = [r EXCEPT !.page = "app", !.leaving = "no", !.url = url, !.denied = denied,
                       !.asked = 0, !.status = "loading", !.mode = "oidc", !.bearer = 0]
  OBVIOUS
<1>3. m = [a EXCEPT !.mounted = FALSE, !.booted = FALSE, !.redirecting = FALSE, !.ready = FALSE,
                    !.seeds = TRUE, !.runs = {}, !.calls = {}, !.trouble = FALSE]
  BY <1>1, <1>2 DEF Loaded
<1>4. /\ a.page = "app" /\ a.status = "loading" /\ a.leaving = "no"
      /\ a.url = url /\ a.denied = denied /\ a.pending = r.pending /\ a.reloads = r.reloads
      /\ DOMAIN a = DOMAIN r
  BY <1>2 DEF Tab
<1>5. /\ DOMAIN r = DOMAIN m
      /\ {"mounted", "redirecting", "seeds", "runs", "calls", "trouble", "page", "status",
          "leaving", "url", "denied", "pending", "reloads"} \subseteq DOMAIN r
  BY <1>3, <1>4 DEF Tab
<1> QED BY <1>1, <1>3, <1>4, <1>5

LEMMA BrowserTab ==
    ASSUME Together, TabsInv, NEW t \in Tabs,
           Open(t) \/ Reload(t) \/ Leave(t) \/ \E ok \in BOOLEAN : Return(t, ok)
    PROVE  TabInv(tab'[t], stored', fresh')
<1>1. PICK r \in Tab : r = tab[t]
  BY DEF Together
<1>2. TabInv(r, stored, fresh)
  BY <1>1 DEF TabsInv
<1>3. Together'
  BY BrowserKeeps
<1>4. PICK n : n = tab'[t]
  OBVIOUS
<1>5. n \in Tab
  BY <1>3, <1>4 DEF Together
<1>6. CASE Open(t) \/ (Leave(t) /\ r.leaving = "home")
  <2>1. n = Loaded(t, 0, FALSE)
    BY <1>1, <1>4, <1>6 DEF Open, Leave, Together
  <2>2. PICK denied : n = Loaded(t, 0, denied)
    BY <2>1
  <2>3. /\ n.page = "app" /\ n.status = "loading" /\ n.leaving = "no" /\ ~n.mounted
        /\ ~n.redirecting /\ n.seeds /\ n.runs = {} /\ n.calls = {} /\ n.url = 0
    BY <1>1, <2>2, LoadedFields
  <2> QED BY <1>4, <1>5, <2>3, LoadedTab
<1>7. CASE Reload(t)
  <2>1. PICK m : m = Loaded(t, r.url, r.denied)
    OBVIOUS
  <2>2. n = [m EXCEPT !.reloads = r.reloads + 1, !.trouble = r.url # 0]
    BY <1>1, <1>4, <1>7, <2>1 DEF Reload, Together
  <2>3. /\ m.page = "app" /\ m.status = "loading" /\ m.leaving = "no" /\ ~m.mounted
        /\ ~m.redirecting /\ m.seeds /\ m.runs = {} /\ m.calls = {} /\ m.url = r.url
    BY <1>1, <2>1, LoadedFields
  <2>4. DOMAIN m = DOMAIN n
    BY <2>2
  <2>5. /\ n.page = "app" /\ n.status = "loading" /\ n.leaving = "no" /\ ~n.mounted
        /\ ~n.redirecting /\ n.seeds /\ n.runs = {} /\ n.calls = {} /\ n.url = r.url
        /\ n.trouble = (r.url # 0)
    BY <2>2, <2>3, <2>4 DEF Tab
  <2> QED BY <1>4, <1>5, <2>5, LoadedTab
<1>8. CASE Leave(t) /\ r.leaving # "home"
  <2>1. n = [r EXCEPT !.page = "idp", !.leaving = "no", !.runs = {}, !.calls = {}]
    BY <1>1, <1>4, <1>8 DEF Leave, Together
  <2>2. r.leaving = "idp" /\ n.page = "idp" /\ n.runs = {} /\ n.calls = {}
        /\ n.asked = r.asked /\ n.pending = r.pending /\ n.status = r.status
        /\ n.trouble = r.trouble
    BY <1>1, <1>8, <2>1 DEF Leave, Tab
  <2>3. Doc(n)
    BY <2>2 DEF Doc
  <2>4. ~Bursts => Calm(r) /\ r.asked = r.pending
    <3>1. r.page = "app" \/ r.page = "idp" \/ r.page = "closed"
      BY DEF Tab
    <3> QED BY <1>2, <2>2, <3>1 DEF TabInv, Doc, Orderly, Calm
  <2>5. ~Bursts => Calm(n)
    BY <2>2, <2>4 DEF Calm
  <2>6. TabInv(n, stored', fresh')
    BY <2>2, <2>3, <2>5 DEF TabInv
  <2> QED BY <1>4, <2>6
<1>9. ASSUME NEW ok \in BOOLEAN, Return(t, ok) PROVE TabInv(tab'[t], stored', fresh')
  <2>1. PICK m : m = Loaded(t, r.asked, ~ok)
    OBVIOUS
  <2>2. n = [m EXCEPT !.trouble = ~ok]
    BY <1>1, <1>4, <1>9, <2>1 DEF Return, Together
  <2>3. /\ m.page = "app" /\ m.status = "loading" /\ m.leaving = "no" /\ ~m.mounted
        /\ ~m.redirecting /\ m.seeds /\ m.runs = {} /\ m.calls = {} /\ m.url = r.asked
        /\ m.denied = ~ok /\ m.pending = r.pending
    BY <1>1, <2>1, LoadedFields
  <2>4. DOMAIN m = DOMAIN n
    BY <2>2
  <2>5. /\ n.page = "app" /\ n.status = "loading" /\ n.leaving = "no" /\ ~n.mounted
        /\ ~n.redirecting /\ n.seeds /\ n.runs = {} /\ n.calls = {} /\ n.url = r.asked
        /\ n.denied = ~ok /\ n.pending = r.pending /\ n.trouble = ~ok
    BY <2>2, <2>3, <2>4 DEF Tab
  <2>6. ~Bursts => r.pending = r.asked
    BY <1>1, <1>2, <1>9 DEF Return, TabInv, Calm
  <2> QED BY <1>4, <1>5, <2>5, <2>6, LoadedTab
<1> QED BY <1>6, <1>7, <1>8, <1>9

\* The mount effects, the buttons of an error, and the calls of the pages.
LEMMA MountTab ==
    ASSUME Together, TabsInv, NEW t \in Tabs, MountEffect(t)
    PROVE  TabInv(tab'[t], stored', fresh')
<1>1. PICK r \in Tab : r = tab[t]
  BY DEF Together
<1>2. TabInv(r, stored, fresh) /\ r.page = "app" /\ ~r.mounted
  BY <1>1 DEF TabsInv, MountEffect
<1>3. PICK m : m = [r EXCEPT !.mounted = TRUE]
  OBVIOUS
<1>4. PICK q : q = [m EXCEPT !.booted = TRUE]
  OBVIOUS
<1>5. Doc(r) /\ (r.seeds \/ ~Bursts => Orderly(r)) /\ (~Bursts => Calm(r))
      /\ (OneTab => Alone(r, stored, fresh))
  BY <1>2 DEF TabInv
<1>6. /\ r.runs = {} /\ r.calls = {} /\ r.status = "loading" /\ r.seeds /\ r.leaving = "no"
      /\ ~r.redirecting
  BY <1>2, <1>5 DEF Doc
<1>7. TabInv(m, stored, fresh)
  <2>1. Doc(m)
    BY <1>3, <1>5, <1>6 DEF Doc, Tab
  <2>2. Orderly(m)
    BY <1>3, <1>5, <1>6 DEF Orderly, Awaits, Tab
  <2>3. ~Bursts => Calm(m)
    BY <1>2, <1>3, <1>5, <1>6 DEF Calm, Awaits, Tab
  <2>4. Alone(m, stored, fresh)
    BY <1>3, <1>6 DEF Alone, Tab
  <2> QED BY <2>1, <2>2, <2>3, <2>4 DEF TabInv
<1>8. TabInv(Bootstrap(q), stored, fresh)
  <2>1. Bootable(q)
    BY <1>2, <1>3, <1>4, <1>5, <1>6 DEF Bootable, Doc, Calm, Tab
  <2> QED BY <2>1, BootTab
<1>9. (Bootstrap(q)).booted
  BY <1>3, <1>4 DEF Bootstrap, Tab
<1>10. /\ tab'[t] = m \/ tab'[t] = Bootstrap(q)
       /\ stored' = stored /\ fresh' = fresh
  BY <1>1, <1>3, <1>4, <1>9 DEF MountEffect, BootEffect, Together, tokenVars
<1> QED BY <1>7, <1>8, <1>10

LEMMA ButtonTab ==
    ASSUME Together, TabsInv, NEW t \in Tabs, Login(t) \/ Retry(t)
    PROVE  TabInv(tab'[t], stored', fresh')
<1>1. PICK r \in Tab : r = tab[t]
  BY DEF Together
<1>2. /\ TabInv(r, stored, fresh) /\ r.page = "app" /\ r.status = "error"
      /\ stored' = stored /\ fresh' = fresh
  BY <1>1 DEF TabsInv, Login, Retry, SignInFailed, tokenVars
<1>3. r.mounted /\ Doc(r)
  BY <1>2 DEF TabInv, Doc
<1>4. r.seeds \/ ~Bursts => /\ r.runs = {} /\ r.calls = {} /\ r.leaving # "idp" /\ Orderly(r)
  BY <1>2 DEF TabInv, Orderly
<1>5. ~Bursts => r.trouble
  BY <1>2 DEF TabInv, Calm
<1>6. OneTab /\ ~r.seeds => /\ stored = 0 /\ r.bearer = 0
                            /\ \A k \in r.runs : k.tok = 0 /\ k.at \in {"prepare-login", "whoami"}
  BY <1>2 DEF TabInv, Alone
<1>7. CASE Login(t)
  <2>1. PICK p : p = Run("prepare-login", 0)
    OBVIOUS
  <2>2. PICK n : n = tab'[t]
    OBVIOUS
  <2>3. p.at = "prepare-login" /\ p.tok = 0
    BY <2>1 DEF Run
  <2>4. n = IF r.redirecting THEN r
            ELSE [r EXCEPT !.redirecting = TRUE, !.status = "redirecting", !.runs = r.runs \cup {p}]
    BY <1>1, <1>7, <2>1, <2>2 DEF Login, StartLogin, Together
  <2>5. CASE r.redirecting
    BY <1>2, <2>2, <2>4, <2>5
  <2>6. CASE ~r.redirecting
    <3>1. Doc(n)
      BY <1>2, <1>3, <2>3, <2>4, <2>6 DEF Doc, Tab, CallbackRuns
    <3>2. n.page = "app" /\ (n.seeds \/ ~Bursts) => Orderly(n)
      BY <1>4, <2>3, <2>4, <2>6 DEF Orderly, Awaits, Tab
    <3>3. ~Bursts => Calm(n)
      BY <1>2, <1>5, <2>3, <2>4, <2>6 DEF Calm, Awaits, Tab
    <3>4. OneTab => Alone(n, stored, fresh)
      BY <1>2, <1>4, <1>6, <2>3, <2>4, <2>6 DEF Alone, Tab
    <3> QED BY <1>2, <2>2, <3>1, <3>2, <3>3, <3>4 DEF TabInv
  <2> QED BY <2>5, <2>6
<1>8. CASE Retry(t)
  <2>1. PICK q : q = [r EXCEPT !.status = "loading", !.booted = FALSE, !.redirecting = FALSE]
    OBVIOUS
  <2>2. tab'[t] = Bootstrap(q)
    BY <1>1, <1>8, <2>1 DEF Retry, Together
  <2>3. Bootable(q)
    BY <1>2, <1>3, <1>4, <1>5, <1>6, <2>1 DEF Bootable, Doc, Orderly, Tab
  <2> QED BY <1>2, <2>2, <2>3, BootTab
<1> QED BY <1>7, <1>8

LEMMA PageTab ==
    ASSUME Together, TabsInv, NEW t \in Tabs,
           Call(t) \/ (\E c \in tab[t].calls : Answer(t, c)) \/ Logout(t)
    PROVE  TabInv(tab'[t], stored', fresh')
<1>1. PICK r \in Tab : r = tab[t]
  BY DEF Together
<1>2. TabInv(r, stored, fresh) /\ fresh' = fresh
  BY <1>1 DEF TabsInv, Call, Answer, Logout, tokenVars
<1>3. PICK n : n = tab'[t]
  OBVIOUS
<1>4. CASE Call(t)
  <2>1. /\ n = [r EXCEPT !.calls = r.calls \cup {r.bearer}] /\ stored' = stored
        /\ r.page = "app" /\ r.status = "authenticated" /\ r.bearer \notin r.calls
    BY <1>1, <1>3, <1>4 DEF Call, Gate, Together
  <2>2. Doc(n)
    BY <1>2, <2>1 DEF TabInv, Doc, Tab
  <2>3. n.page = "app" /\ (n.seeds \/ ~Bursts) => Orderly(n)
    BY <1>2, <2>1 DEF TabInv, Orderly, Awaits, Tab
  <2>4. ~Bursts => Calm(n)
    BY <1>2, <2>1 DEF TabInv, Calm, Awaits, Tab
  <2>5. OneTab /\ n.page = "app" => Alone(n, stored, fresh)
    <3>1. r.seeds => Orderly(r)
      BY <1>2, <2>1 DEF TabInv
    <3> QED BY <1>2, <2>1, <3>1 DEF TabInv, Orderly, Alone, Tab
  <2> QED BY <1>2, <1>3, <2>1, <2>2, <2>3, <2>4, <2>5 DEF TabInv
<1>5. ASSUME NEW c \in tab[t].calls, Answer(t, c) PROVE TabInv(tab'[t], stored', fresh')
  <2>1. n = [r EXCEPT !.calls = r.calls \ {c}] /\ stored' = stored /\ c \in r.calls
    BY <1>1, <1>3, <1>5 DEF Answer, Answered, Together
  <2>2. Doc(n)
    BY <1>2, <2>1 DEF TabInv, Doc, Tab
  <2>3. n.page = "app" /\ (n.seeds \/ ~Bursts) => Orderly(n)
    BY <1>2, <2>1 DEF TabInv, Orderly, Awaits, Tab
  <2>4. ~Bursts => Calm(n)
    BY <1>2, <2>1 DEF TabInv, Calm, Awaits, Tab
  <2>5. OneTab /\ n.page = "app" => Alone(n, stored, fresh)
    BY <1>2, <2>1 DEF TabInv, Orderly, Alone, Tab
  <2> QED BY <1>2, <1>3, <2>1, <2>2, <2>3, <2>4, <2>5 DEF TabInv
<1>6. CASE Logout(t)
  <2>1. /\ n = [r EXCEPT !.bearer = 0, !.pending = 0, !.status = "redirecting", !.leaving = "home"]
        /\ stored' = 0 /\ r.page = "app" /\ r.status = "authenticated"
    BY <1>1, <1>3, <1>6 DEF Logout, Gate, Together
  <2>2. ~r.seeds
    BY <1>2, <2>1 DEF TabInv, Orderly
  <2>3. Doc(n)
    BY <1>2, <2>1, <2>2 DEF TabInv, Doc, Tab
  <2>4. ~Bursts => Orderly(n)
    BY <1>2, <2>1, <2>2 DEF TabInv, Orderly, Awaits, Tab
  <2>5. ~Bursts => Calm(n)
    BY <1>2, <2>1, <2>2 DEF TabInv, Doc, Orderly, Calm, Awaits, Tab
  <2>6. OneTab => Alone(n, 0, fresh)
    BY <1>2, <2>1, <2>2 DEF TabInv, Alone, Tab
  <2>7. ~n.seeds
    BY <2>1, <2>2 DEF Tab
  <2> QED BY <1>2, <1>3, <2>1, <2>3, <2>4, <2>5, <2>6, <2>7 DEF TabInv
<1> QED BY <1>4, <1>5, <1>6

\* A function of AuthProvider that is resumed in a tab.
LEMMA AtResume ==
    ASSUME Together, TabsInv, NEW t \in Tabs, NEW k \in tab[t].runs,
           NEW r, r = tab[t]
    PROVE  /\ r \in Tab /\ k \in r.runs /\ r.page = "app" /\ r.mounted
           /\ Doc(r)
           /\ r.seeds \/ ~Bursts => Orderly(r)
           /\ ~Bursts => Calm(r)
           /\ OneTab => Alone(r, stored, fresh)
           /\ k \in Suspended /\ k.tok \in 0..MaxTokens
<1>1. r \in Tab /\ TabInv(r, stored, fresh) /\ k \in r.runs
  BY DEF Together, TabsInv
<1>2. r.page = "app" /\ r.mounted
  BY <1>1 DEF TabInv, Doc
<1>3. k \in Suspended
  BY <1>1 DEF Tab
<1>4. k.tok \in 0..MaxTokens
  BY <1>3 DEF Suspended
<1> QED BY <1>1, <1>2, <1>3, <1>4 DEF TabInv

LEMMA LoginTab ==
    ASSUME Together, TabsInv, NEW t \in Tabs, NEW k \in tab[t].runs,
           BeginLogin(t, k) \/ LoginFails(t, k)
    PROVE  TabInv(tab'[t], stored', fresh')
<1>1. PICK r : r = tab[t]
  OBVIOUS
<1>2. /\ r \in Tab /\ k \in r.runs /\ r.page = "app" /\ r.mounted /\ Doc(r)
      /\ r.seeds \/ ~Bursts => Orderly(r)
      /\ ~Bursts => Calm(r)
      /\ OneTab => Alone(r, stored, fresh)
  BY <1>1, AtResume
<1>3. PICK n : n = tab'[t]
  OBVIOUS
<1>4. k.at = "prepare-login" /\ stored' = stored /\ fresh' = fresh
  BY DEF BeginLogin, LoginFails, Suspends, tokenVars
<1>5. CASE BeginLogin(t, k)
  <2>1. n = [r EXCEPT !.ready = TRUE, !.pending = logins + 1, !.asked = logins + 1,
                      !.leaving = "idp", !.runs = r.runs \ {k}]
    BY <1>1, <1>2, <1>3, <1>5 DEF BeginLogin, Resumed, Together, Tab
  <2>2. Doc(n)
    BY <1>2, <2>1 DEF Doc, Tab
  <2>3. n.seeds \/ ~Bursts => Orderly(n)
    BY <1>2, <1>4, <2>1 DEF Orderly, Awaits, Tab
  <2>4. ~Bursts => Calm(n)
    BY <1>2, <1>4, <2>1 DEF Orderly, Calm, Awaits, Tab
  <2>5. OneTab => Alone(n, stored, fresh)
    BY <1>2, <2>1 DEF Alone, Tab
  <2> QED BY <1>3, <1>4, <2>2, <2>3, <2>4, <2>5 DEF TabInv
<1>6. CASE LoginFails(t, k)
  <2>1. n = [r EXCEPT !.status = "error", !.trouble = TRUE, !.redirecting = FALSE,
                      !.runs = r.runs \ {k}]
    BY <1>1, <1>2, <1>3, <1>6 DEF LoginFails, Failing, Resumed, Together, Tab
  <2>2. Doc(n)
    BY <1>2, <2>1 DEF Doc, Tab
  <2>3. n.seeds \/ ~Bursts => Orderly(n)
    BY <1>2, <1>4, <2>1 DEF Orderly, Awaits, Tab
  <2>4. ~Bursts => Calm(n)
    BY <1>2, <2>1 DEF Calm, Awaits, Tab
  <2>5. OneTab => Alone(n, stored, fresh)
    BY <1>2, <2>1 DEF Alone, Tab
  <2> QED BY <1>3, <1>4, <2>2, <2>3, <2>4, <2>5 DEF TabInv
<1> QED BY <1>5, <1>6

\* What fails without a new login, and a callback that is refused.
LEMMA FailsTab ==
    ASSUME Together, TabsInv, NEW t \in Tabs, NEW k \in tab[t].runs,
           CallbackFails(t, k) \/ WhoAmIFails(t, k) \/ CallbackRefused(t, k)
    PROVE  TabInv(tab'[t], stored', fresh')
<1>1. PICK r : r = tab[t]
  OBVIOUS
<1>2. /\ r \in Tab /\ k \in r.runs /\ r.page = "app" /\ r.mounted /\ Doc(r)
      /\ r.seeds \/ ~Bursts => Orderly(r)
      /\ ~Bursts => Calm(r)
      /\ OneTab => Alone(r, stored, fresh)
  BY <1>1, AtResume
<1>3. PICK n : n = tab'[t]
  OBVIOUS
<1>4. k.at # "prepare-login" /\ stored' = stored /\ fresh' = fresh
  BY DEF CallbackFails, WhoAmIFails, CallbackRefused, Suspends, AsksWhoAmI, tokenVars
<1>5. CASE CallbackFails(t, k) \/ WhoAmIFails(t, k)
  <2>1. n = [r EXCEPT !.status = "error", !.trouble = TRUE, !.runs = r.runs \ {k}]
    <3>1. n = Failing(Resumed(t, k))
      BY <1>3, <1>5 DEF CallbackFails, WhoAmIFails, Together
    <3> QED BY <1>1, <1>2, <3>1 DEF Failing, Resumed, Tab
  <2>2. Doc(n)
    BY <1>2, <2>1 DEF Doc, Tab
  <2>3. n.seeds \/ ~Bursts => Orderly(n)
    BY <1>2, <1>4, <2>1 DEF Orderly, Awaits, Tab
  <2>4. ~Bursts => Calm(n)
    BY <1>2, <2>1 DEF Calm, Awaits, Tab
  <2>5. OneTab => Alone(n, stored, fresh)
    BY <1>2, <2>1 DEF Alone, Tab
  <2> QED BY <1>3, <1>4, <2>2, <2>3, <2>4, <2>5 DEF TabInv
<1>6. CASE CallbackRefused(t, k)
  <2>1. /\ n = [r EXCEPT !.ready = TRUE, !.status = "error", !.runs = r.runs \ {k}]
        /\ k.at = "prepare-callback" /\ (r.denied \/ r.pending # r.url)
    BY <1>1, <1>2, <1>3, <1>6 DEF CallbackRefused, Suspends, Resumed, Together, Tab
  <2>2. Doc(n) /\ r.url # 0
    BY <1>2, <2>1 DEF Doc, CallbackRuns, Tab
  <2>3. n.seeds \/ ~Bursts => Orderly(n)
    BY <1>2, <1>4, <2>1 DEF Orderly, Awaits, Tab
  <2>4. ~Bursts => Calm(n)
    BY <1>2, <2>1, <2>2 DEF Calm, Awaits, Tab
  <2>5. OneTab => Alone(n, stored, fresh)
    BY <1>2, <2>1 DEF Alone, Tab
  <2> QED BY <1>3, <1>4, <2>2, <2>3, <2>4, <2>5 DEF TabInv
<1> QED BY <1>5, <1>6

\* The steps of a boot that go on to the next await.
LEMMA GoesOnTab ==
    ASSUME Together, TabsInv, NEW t \in Tabs, NEW k \in tab[t].runs,
           PreparedRefresh(t, k) \/ CheckCallback(t, k)
    PROVE  TabInv(tab'[t], stored', fresh')
<1>1. PICK r : r = tab[t]
  OBVIOUS
<1>2. /\ r \in Tab /\ k \in r.runs /\ r.page = "app" /\ r.mounted /\ Doc(r)
      /\ r.seeds \/ ~Bursts => Orderly(r)
      /\ ~Bursts => Calm(r)
      /\ OneTab => Alone(r, stored, fresh)
  BY <1>1, AtResume
<1>3. PICK n : n = tab'[t]
  OBVIOUS
<1>4. stored' = stored /\ fresh' = fresh
  BY DEF PreparedRefresh, CheckCallback, tokenVars
<1>5. CASE PreparedRefresh(t, k)
  <2>1. PICK p : p = Run("refresh", k.tok)
    OBVIOUS
  <2>2. p.at = "refresh" /\ p.tok = k.tok /\ k.at = "prepare-refresh"
    BY <1>5, <2>1 DEF Run, PreparedRefresh, Suspends
  <2>3. n = [r EXCEPT !.ready = TRUE, !.runs = (r.runs \ {k}) \cup {p}]
    BY <1>1, <1>2, <1>3, <1>5, <2>1 DEF PreparedRefresh, Resumed, Together, Tab
  <2>4. Doc(n)
    BY <1>2, <2>2, <2>3 DEF Doc, CallbackRuns, Tab
  <2>5. n.seeds \/ ~Bursts => Orderly(n)
    BY <1>2, <2>2, <2>3 DEF Orderly, Awaits, Tab
  <2>6. ~Bursts => Calm(n)
    BY <1>2, <2>2, <2>3 DEF Calm, Awaits, Tab
  <2>7. OneTab => Alone(n, stored, fresh)
    BY <1>2, <2>2, <2>3 DEF Orderly, Alone, Tab
  <2> QED BY <1>3, <1>4, <2>4, <2>5, <2>6, <2>7 DEF TabInv
<1>6. CASE CheckCallback(t, k)
  <2>1. PICK p : p = Run("exchange", 0)
    OBVIOUS
  <2>2. p.at = "exchange" /\ p.tok = 0 /\ k.at = "prepare-callback"
    BY <1>6, <2>1 DEF Run, CheckCallback, Suspends
  <2>3. n = [r EXCEPT !.ready = TRUE, !.pending = 0, !.runs = (r.runs \ {k}) \cup {p}]
    BY <1>1, <1>2, <1>3, <1>6, <2>1 DEF CheckCallback, Resumed, Together, Tab
  <2>4. Doc(n) /\ r.seeds /\ Orderly(r)
    BY <1>2, <2>2, <2>3 DEF Doc, CallbackRuns, Tab
  <2>5. Orderly(n)
    BY <1>2, <2>2, <2>3, <2>4 DEF Orderly, Awaits, Tab
  <2>6. ~Bursts => Calm(n)
    BY <1>2, <2>2, <2>3, <2>4 DEF Orderly, Calm, Awaits, Tab
  <2>7. OneTab => Alone(n, stored, fresh)
    BY <1>2, <2>2, <2>3, <2>4 DEF Orderly, Alone, Tab
  <2> QED BY <1>3, <1>4, <2>4, <2>5, <2>6, <2>7 DEF TabInv
<1> QED BY <1>5, <1>6

\* A new token set, and the call that asks who its user is.
LEMMA IssuedTab ==
    ASSUME Together, TabsInv, NEW t \in Tabs, NEW k \in tab[t].runs,
           Refreshed(t, k) \/ Exchanged(t, k)
    PROVE  TabInv(tab'[t], stored', fresh')
<1>1. PICK r : r = tab[t]
  OBVIOUS
<1>2. /\ r \in Tab /\ k \in r.runs /\ r.page = "app" /\ r.mounted /\ Doc(r)
      /\ r.seeds \/ ~Bursts => Orderly(r)
      /\ ~Bursts => Calm(r)
      /\ OneTab => Alone(r, stored, fresh)
  BY <1>1, AtResume
<1>3. PICK n : n = tab'[t]
  OBVIOUS
<1> DEFINE at == IF k.at = "refresh" THEN "whoami" ELSE "whoami-after-callback"
<1>4. PICK p : p = Run(at, issued + 1)
  OBVIOUS
<1>5. /\ k.at \in {"refresh", "exchange"}
      /\ p.at = at /\ p.tok = issued + 1 /\ p.tok # 0 /\ stored' = p.tok
  <2>1. issued \in Nat
    BY SignInAssumption DEF Together, Others
  <2> QED BY <1>4, <2>1 DEF Refreshed, Exchanged, Suspends, Run
<1>6. n = [r EXCEPT !.bearer = p.tok, !.runs = (r.runs \ {k}) \cup {p}]
  <2>1. CASE Refreshed(t, k)
    <3>1. k.at = "refresh"
      BY <2>1 DEF Refreshed, Suspends
    <3>2. p = Run("whoami", issued + 1)
      BY <1>4, <3>1
    <3>3. n = [Resumed(t, k) EXCEPT !.bearer = issued + 1, !.runs = Resumed(t, k).runs \cup {p}]
      BY <1>3, <2>1, <3>2 DEF Refreshed, Together
    <3> QED BY <1>1, <1>2, <1>5, <3>3 DEF Resumed, Tab
  <2>2. CASE Exchanged(t, k)
    <3>1. k.at = "exchange"
      BY <2>2 DEF Exchanged, Suspends
    <3>2. p = Run("whoami-after-callback", issued + 1)
      BY <1>4, <3>1
    <3>3. n = [Resumed(t, k) EXCEPT !.bearer = issued + 1, !.runs = Resumed(t, k).runs \cup {p}]
      BY <1>3, <2>2, <3>2 DEF Exchanged, Together
    <3> QED BY <1>1, <1>2, <1>5, <3>3 DEF Resumed, Tab
  <2> QED BY <2>1, <2>2
<1>7. Doc(n)
  BY <1>2, <1>5, <1>6 DEF Doc, CallbackRuns, Tab
<1>8. n.seeds \/ ~Bursts => Orderly(n)
  BY <1>2, <1>5, <1>6 DEF Orderly, Awaits, Tab
<1>9. ~Bursts => Calm(n)
  BY <1>2, <1>5, <1>6 DEF Orderly, Calm, Awaits, Tab
<1>10. OneTab => Alone(n, p.tok, fresh')
  BY <1>2, <1>5, <1>6 DEF Orderly, Alone, Tab
<1> QED BY <1>3, <1>5, <1>7, <1>8, <1>9, <1>10 DEF TabInv

\* The console is shown.
LEMMA AdmittedTab ==
    ASSUME Together, TabsInv, NEW t \in Tabs, NEW k \in tab[t].runs, Admitted(t, k)
    PROVE  TabInv(tab'[t], stored', fresh')
<1>1. PICK r : r = tab[t]
  OBVIOUS
<1>2. /\ r \in Tab /\ k \in r.runs /\ r.page = "app" /\ r.mounted /\ Doc(r)
      /\ r.seeds \/ ~Bursts => Orderly(r)
      /\ ~Bursts => Calm(r)
      /\ OneTab => Alone(r, stored, fresh)
  BY <1>1, AtResume
<1>3. PICK n : n = tab'[t]
  OBVIOUS
<1>4. k.at \in {"whoami", "whoami-after-callback"} /\ stored' = stored /\ fresh' = fresh
  BY DEF Admitted, AsksWhoAmI, tokenVars
<1> DEFINE url == IF k.at = "whoami-after-callback" THEN 0 ELSE r.url
           mode == IF k.at = "whoami-after-callback" \/ k.tok # 0 THEN "oidc" ELSE "dev-bypass"
<1>5. n = [r EXCEPT !.runs = r.runs \ {k}, !.seeds = FALSE, !.status = "authenticated",
                    !.mode = mode, !.url = url]
  <2>1. n = Show(Resumed(t, k), k)
    BY <1>3 DEF Admitted, Together
  <2> QED BY <1>1, <1>2, <2>1 DEF Show, ClearSeeds, Resumed, Tab
<1>6. /\ n.runs = r.runs \ {k} /\ ~n.seeds /\ n.status = "authenticated" /\ n.mode = mode
      /\ n.url = url /\ n.page = "app" /\ n.mounted /\ n.calls = r.calls /\ n.bearer = r.bearer
      /\ n.leaving = r.leaving /\ n.redirecting = r.redirecting
  BY <1>2, <1>5 DEF Tab
<1>7. r.url # 0 => r.runs = {k} /\ k.at = "whoami-after-callback"
  <2>1. r.url # 0 => r.seeds /\ k.at = "whoami-after-callback"
    BY <1>2, <1>4 DEF Doc, CallbackRuns
  <2>2. r.seeds => r.runs = {k}
    BY <1>2 DEF Orderly
  <2> QED BY <2>1, <2>2
<1>8. n.url = 0 /\ Doc(n)
  BY <1>2, <1>6, <1>7 DEF Doc, CallbackRuns
<1>9. ~Bursts => Orderly(n)
  BY <1>2, <1>4, <1>6, <1>7 DEF Doc, CallbackRuns, Orderly, Awaits
<1>10. ~Bursts => Calm(n)
  BY <1>6, <1>8 DEF Calm
<1>11. OneTab => Alone(n, stored, fresh)
  <2> SUFFICES ASSUME OneTab PROVE Alone(n, stored, fresh)
    OBVIOUS
  <2>1. CASE r.seeds
    <3>1. n.runs = {}
      BY <1>2, <1>6, <2>1 DEF Orderly
    <3>2. r.leaving = "no" /\ ~r.redirecting /\ r.calls = {}
      <4>1. r.leaving \in {"no", "idp", "home"}
        BY <1>2 DEF Tab
      <4> QED BY <1>2, <1>4, <2>1, <4>1 DEF Orderly, Awaits
    <3>3. stored = k.tok /\ r.bearer = k.tok
      BY <1>2, <1>4, <2>1 DEF Orderly, Alone
    <3>4. mode = "oidc" => k.tok # 0
      BY <1>2, <1>4, <2>1 DEF Orderly
    <3> QED BY <1>6, <3>1, <3>2, <3>3, <3>4 DEF Alone
  <2>2. CASE ~r.seeds
    BY <1>2, <1>4, <1>6, <2>2 DEF Alone
  <2> QED BY <2>1, <2>2
<1> QED BY <1>3, <1>4, <1>6, <1>8, <1>9, <1>10, <1>11 DEF TabInv

\* A token set that is dropped, and the login that replaces it.
LEMMA DropTab ==
    ASSUME Together, TabsInv, NEW t \in Tabs,
           \/ \E k \in tab[t].runs : RefreshFails(t, k) \/ Refused(t, k)
           \/ \E c \in tab[t].calls : \E last \in {TRUE, ~Bursts} : Unauthorized(t, c, last)
    PROVE  TabInv(tab'[t], stored', fresh')
<1>1. PICK r : r = tab[t]
  OBVIOUS
<1>2. ASSUME NEW q, Dropping(q), ClearAndLogin(t, q), fresh' = fresh
      PROVE  TabInv(tab'[t], stored', fresh')
  <2>1. stored' = 0 /\ tab'[t] = StartLogin([q EXCEPT !.bearer = 0, !.pending = 0])
    BY <1>2 DEF ClearAndLogin, Together
  <2> QED BY <1>2, <2>1, DroppedTab
<1>3. ASSUME NEW k \in tab[t].runs, RefreshFails(t, k) \/ Refused(t, k)
      PROVE  TabInv(tab'[t], stored', fresh')
  <2>1. /\ r \in Tab /\ k \in r.runs /\ r.page = "app" /\ r.mounted /\ Doc(r)
        /\ r.seeds \/ ~Bursts => Orderly(r)
        /\ ~Bursts => Calm(r)
        /\ OneTab => Alone(r, stored, fresh)
    BY <1>1, AtResume
  <2>2. PICK q : q = Resumed(t, k)
    OBVIOUS
  <2>3. /\ k.at \in {"prepare-refresh", "refresh", "whoami", "whoami-after-callback"}
        /\ ClearAndLogin(t, q) /\ fresh' = fresh
    BY <1>3, <2>2 DEF RefreshFails, Refused, Suspends, AsksWhoAmI, tokenVars
  <2>4. q = [r EXCEPT !.runs = r.runs \ {k}]
    BY <1>1, <2>2 DEF Resumed
  <2>5. /\ q.runs = r.runs \ {k} /\ q.mounted /\ q.page = "app" /\ q.url = r.url
        /\ q.seeds = r.seeds /\ q.calls = r.calls /\ q.leaving = r.leaving /\ q.mode = r.mode
        /\ q.redirecting = r.redirecting /\ q.status = r.status /\ q.trouble = r.trouble
    BY <2>1, <2>4 DEF Tab
  <2>6. q \in Tab
    BY <2>1, <2>4 DEF Tab
  <2>7. Doc(q)
    BY <2>1, <2>5 DEF Doc
  <2>8. r.leaving \in {"no", "idp", "home"}
    BY <2>1 DEF Tab
  <2>9. Dropping(q)
    BY <2>1, <2>3, <2>5, <2>6, <2>7, <2>8 DEF Dropping, Orderly, Calm, Alone, Awaits
  <2> QED BY <1>2, <2>3, <2>9
<1>4. ASSUME NEW c \in tab[t].calls, NEW last \in {TRUE, ~Bursts}, Unauthorized(t, c, last)
      PROVE  TabInv(tab'[t], stored', fresh')
  <2>1. r \in Tab /\ TabInv(r, stored, fresh) /\ c \in r.calls
    BY <1>1 DEF Together, TabsInv
  <2>2. /\ r.page = "app" /\ r.mounted /\ Doc(r)
        /\ r.seeds \/ ~Bursts => Orderly(r)
        /\ ~Bursts => Calm(r)
        /\ OneTab => Alone(r, stored, fresh)
    BY <2>1 DEF TabInv, Doc
  <2>3. PICK q : q = Answered(t, c, last)
    OBVIOUS
  <2>4. ClearAndLogin(t, q) /\ fresh' = fresh
    BY <1>4, <2>3 DEF Unauthorized, tokenVars
  <2>5. q = IF last THEN [r EXCEPT !.calls = r.calls \ {c}] ELSE r
    BY <1>1, <2>3 DEF Answered
  <2>6. /\ q.runs = r.runs /\ q.mounted /\ q.page = "app" /\ q.url = r.url
        /\ q.seeds = r.seeds /\ q.leaving = r.leaving /\ q.mode = r.mode
        /\ q.redirecting = r.redirecting /\ q.status = r.status /\ q.trouble = r.trouble
        /\ ~Bursts => q.calls = r.calls \ {c}
    BY <2>1, <2>2, <2>5 DEF Tab
  <2>7. q \in Tab
    BY <2>1, <2>5 DEF Tab
  <2>8. Doc(q)
    BY <2>2, <2>6 DEF Doc
  <2>9. ~r.seeds
    BY <2>1, <2>2 DEF Orderly
  <2>10. r.leaving \in {"no", "idp", "home"}
    BY <2>1 DEF Tab
  <2>11. ~Bursts => /\ q.runs = {} /\ q.calls = {} /\ q.leaving # "idp"
                    /\ q.redirecting => q.leaving = "home"
    BY <2>1, <2>2, <2>6, <2>10 DEF Orderly, Awaits
  <2>12. OneTab => /\ \A k \in q.runs : k.tok = 0 /\ k.at \in {"prepare-login", "whoami"}
                   /\ q.status = "authenticated" => q.mode = "dev-bypass" \/ ~q.redirecting
    BY <2>2, <2>6, <2>9 DEF Alone
  <2>13. Dropping(q)
    BY <2>2, <2>6, <2>7, <2>8, <2>9, <2>11, <2>12 DEF Dropping, Calm
  <2> QED BY <1>2, <2>4, <2>13
<1> QED BY <1>3, <1>4

\* The other tabs at a step of tab t: they are as they were, and none of them
\* is open when there is one tab.
Moves(t) ==
    /\ world' = world
    /\ \A u \in Tabs : u # t => tab'[u] = tab[u]
    /\ tab[t].page # "closed" \/ (OneTab => \A u \in Tabs : tab[u].page = "closed")

LEMMA MovesKeep ==
    ASSUME Together, TabsInv, OneOpen, NEW t \in Tabs, Moves(t),
           TabInv(tab'[t], stored', fresh')
    PROVE  TabsInv' /\ OneOpen'
<1>1. (OneTab <=> OneTab') /\ (Bursts <=> Bursts')
  BY DEF Moves, OneTab, Bursts
<1>2. ASSUME NEW u \in Tabs, u # t
      PROVE  TabInv(tab'[u], stored', fresh') /\ (OneTab => tab'[u].page = "closed")
  <2>1. tab'[u] = tab[u] /\ TabInv(tab[u], stored, fresh)
    BY <1>2 DEF Moves, TabsInv
  <2>2. OneTab => tab[u].page = "closed"
    BY <1>2 DEF Moves, OneOpen
  <2> QED BY <2>1, <2>2 DEF TabInv
<1>3. \A u \in Tabs : TabInv(tab'[u], stored', fresh')
  BY <1>2
<1>4. TabsInv'
  BY <1>1, <1>3 DEF TabsInv, TabInv
<1>5. OneOpen'
  BY <1>1, <1>2 DEF OneOpen
<1> QED BY <1>4, <1>5

\* A step that begins no login and sends no code: a tab keeps its pending
\* login or forgets it, and no exchange begins.
Idles(r, n) ==
    /\ n.pending \in {r.pending, 0}
    /\ \A k \in n.runs \ r.runs : k.at # "exchange"

LEMMA StartLoginIdles ==
    ASSUME NEW q \in Tab
    PROVE  /\ StartLogin(q).pending = q.pending
           /\ \A k \in StartLogin(q).runs \ q.runs : k.at # "exchange"
<1>1. PICK p : p = Run("prepare-login", 0)
  OBVIOUS
<1>2. p.at = "prepare-login"
  BY <1>1 DEF Run
<1>3. PICK m : m = StartLogin(q)
  OBVIOUS
<1>4. m = IF q.redirecting THEN q
          ELSE [q EXCEPT !.redirecting = TRUE, !.status = "redirecting", !.runs = q.runs \cup {p}]
  BY <1>1, <1>3 DEF StartLogin
<1>5. m.pending = q.pending /\ \A k \in m.runs \ q.runs : k.at # "exchange"
  BY <1>2, <1>4 DEF Tab
<1> QED BY <1>3, <1>5

LEMMA BootstrapIdles ==
    ASSUME NEW q \in Tab
    PROVE  /\ Bootstrap(q).pending = q.pending
           /\ \A k \in Bootstrap(q).runs \ q.runs : k.at # "exchange"
<1> DEFINE p == IF q.url # 0 THEN Run("prepare-callback", 0)
                ELSE IF stored # 0 /\ stored \notin fresh THEN Run("prepare-refresh", stored)
                ELSE Run("whoami", stored)
<1>1. PICK m : m = Bootstrap(q)
  OBVIOUS
<1>2. p.at = IF q.url # 0 THEN "prepare-callback"
             ELSE IF stored # 0 /\ stored \notin fresh THEN "prepare-refresh" ELSE "whoami"
  BY DEF Run
<1>3. m = IF p.at = "whoami" THEN [q EXCEPT !.bearer = stored, !.runs = q.runs \cup {p}]
          ELSE [q EXCEPT !.runs = q.runs \cup {p}]
  BY <1>1, <1>2 DEF Bootstrap, IsCallbackPath, HasUsableAccessToken
<1> HIDE DEF p
<1>4. p.at # "exchange"
  BY <1>2
<1>5. m.pending = q.pending /\ \A k \in m.runs \ q.runs : k.at # "exchange"
  BY <1>3, <1>4 DEF Tab
<1> QED BY <1>1, <1>5

LEMMA ClearIdles ==
    ASSUME Together, NEW t \in Tabs, NEW q \in Tab, q.runs \subseteq tab[t].runs,
           ClearAndLogin(t, q)
    PROVE  Idles(tab[t], tab'[t])
<1>1. PICK c : c = [q EXCEPT !.bearer = 0, !.pending = 0]
  OBVIOUS
<1>0. 0 \in 0..MaxTokens /\ 0 \in 0..MaxLogins
  BY SignInAssumption
<1>2. c \in Tab /\ c.pending = 0 /\ c.runs = q.runs
  BY <1>0, <1>1 DEF Tab
<1>3. tab'[t] = StartLogin(c)
  BY <1>1 DEF ClearAndLogin, Together
<1> QED BY <1>2, <1>3, StartLoginIdles DEF Idles

LEMMA BrowserIdles ==
    ASSUME Together, NEW t \in Tabs,
           \/ Open(t) \/ Reload(t) \/ Leave(t) \/ \E ok \in BOOLEAN : Return(t, ok)
           \/ Call(t) \/ Logout(t) \/ \E c \in tab[t].calls : Answer(t, c)
    PROVE  Idles(tab[t], tab'[t])
<1>1. PICK r \in Tab : r = tab[t]
  BY DEF Together
<1>2. PICK n : n = tab'[t]
  OBVIOUS
<1>3. ASSUME NEW url, NEW denied, NEW m, m = Loaded(t, url, denied)
      PROVE  m.pending = r.pending /\ m.runs = {}
  BY <1>1, <1>3, LoadedFields
<1>4. CASE Open(t) \/ (Leave(t) /\ r.leaving = "home")
  <2>1. n = Loaded(t, 0, FALSE)
    BY <1>1, <1>2, <1>4 DEF Open, Leave, Together
  <2>2. PICK denied : n = Loaded(t, 0, denied)
    BY <2>1
  <2> QED BY <1>1, <1>2, <1>3, <2>2 DEF Idles
<1>5. CASE Reload(t)
  <2>1. PICK m : m = Loaded(t, r.url, r.denied)
    OBVIOUS
  <2>2. n = [m EXCEPT !.reloads = r.reloads + 1, !.trouble = r.url # 0]
    BY <1>1, <1>2, <1>5, <2>1 DEF Reload, Together
  <2>3. n.pending = m.pending /\ n.runs = m.runs
    BY <2>2
  <2> QED BY <1>1, <1>2, <1>3, <2>1, <2>3 DEF Idles
<1>6. CASE Leave(t) /\ r.leaving # "home"
  <2>1. n = [r EXCEPT !.page = "idp", !.leaving = "no", !.runs = {}, !.calls = {}]
    BY <1>1, <1>2, <1>6 DEF Leave, Together
  <2> QED BY <1>1, <1>2, <2>1 DEF Idles, Tab
<1>7. ASSUME NEW ok \in BOOLEAN, Return(t, ok) PROVE Idles(tab[t], tab'[t])
  <2>1. PICK m : m = Loaded(t, r.asked, ~ok)
    OBVIOUS
  <2>2. n = [m EXCEPT !.trouble = ~ok]
    BY <1>1, <1>2, <1>7, <2>1 DEF Return, Together
  <2>3. n.pending = m.pending /\ n.runs = m.runs
    BY <2>2
  <2> QED BY <1>1, <1>2, <1>3, <2>1, <2>3 DEF Idles
<1>8. CASE Call(t)
  BY <1>1, <1>8 DEF Call, Idles, Tab, Together
<1>9. CASE Logout(t)
  BY <1>1, <1>9 DEF Logout, Idles, Tab, Together
<1>10. ASSUME NEW c \in tab[t].calls, Answer(t, c) PROVE Idles(tab[t], tab'[t])
  BY <1>1, <1>10 DEF Answer, Answered, Idles, Tab, Together
<1> QED BY <1>4, <1>5, <1>6, <1>7, <1>8, <1>9, <1>10

LEMMA ButtonIdles ==
    ASSUME Together, NEW t \in Tabs, MountEffect(t) \/ Login(t) \/ Retry(t)
    PROVE  Idles(tab[t], tab'[t])
<1>1. PICK r \in Tab : r = tab[t]
  BY DEF Together
<1>2. CASE MountEffect(t)
  <2>1. PICK m : m = [r EXCEPT !.mounted = TRUE]
    OBVIOUS
  <2>2. PICK q : q = [m EXCEPT !.booted = TRUE]
    OBVIOUS
  <2>3. (Bootstrap(q)).booted
    BY <2>1, <2>2 DEF Bootstrap, Tab
  <2>4. tab'[t] = m \/ tab'[t] = Bootstrap(q)
    BY <1>1, <1>2, <2>1, <2>2, <2>3 DEF MountEffect, BootEffect, Together
  <2>5. m.pending = r.pending /\ m.runs = r.runs
    BY <2>1 DEF Tab
  <2>6. q \in Tab /\ q.pending = r.pending /\ q.runs = r.runs
    BY <2>1, <2>2 DEF Tab
  <2> QED BY <1>1, <2>4, <2>5, <2>6, BootstrapIdles DEF Idles
<1>3. CASE Login(t)
  <2>1. tab'[t] = StartLogin(r)
    BY <1>1, <1>3 DEF Login, Together
  <2> QED BY <1>1, <2>1, StartLoginIdles DEF Idles
<1>4. CASE Retry(t)
  <2>1. PICK q : q = [r EXCEPT !.status = "loading", !.booted = FALSE, !.redirecting = FALSE]
    OBVIOUS
  <2>2. tab'[t] = Bootstrap(q)
    BY <1>1, <1>4, <2>1 DEF Retry, Together
  <2>3. q \in Tab /\ q.pending = r.pending /\ q.runs = r.runs
    BY <2>1 DEF Tab
  <2> QED BY <1>1, <2>2, <2>3, BootstrapIdles DEF Idles
<1> QED BY <1>2, <1>3, <1>4

LEMMA ResumeIdles ==
    ASSUME Together, TabsInv, NEW t \in Tabs, NEW k \in tab[t].runs, Resume(t, k),
           ~BeginLogin(t, k), ~CheckCallback(t, k)
    PROVE  Idles(tab[t], tab'[t])
<1>1. PICK r \in Tab : r = tab[t]
  BY DEF Together
<1>2. PICK q : q = Resumed(t, k)
  OBVIOUS
<1>3. q = [r EXCEPT !.runs = r.runs \ {k}]
  BY <1>1, <1>2 DEF Resumed
<1>4. q \in Tab /\ q.pending = r.pending /\ q.runs \subseteq r.runs
  BY <1>1, <1>3 DEF Tab
<1>5. CASE RefreshFails(t, k) \/ Refused(t, k)
  BY <1>1, <1>2, <1>4, <1>5, ClearIdles DEF RefreshFails, Refused
<1>6. PICK n : n = tab'[t]
  OBVIOUS
<1>7. CASE LoginFails(t, k) \/ CallbackFails(t, k) \/ WhoAmIFails(t, k) \/ CallbackRefused(t, k)
  <2>1. \/ n = [Failing(q) EXCEPT !.redirecting = FALSE]
        \/ n = Failing(q)
        \/ n = [q EXCEPT !.ready = TRUE, !.status = "error"]
    BY <1>2, <1>6, <1>7 DEF LoginFails, CallbackFails, WhoAmIFails, CallbackRefused, Together
  <2>2. n.pending = q.pending /\ n.runs = q.runs
    BY <1>4, <2>1 DEF Failing, Tab
  <2> QED BY <1>1, <1>4, <1>6, <2>2 DEF Idles
<1>8. CASE PreparedRefresh(t, k) \/ Refreshed(t, k) \/ Exchanged(t, k)
  <2>1. PICK p : /\ p.at # "exchange"
                 /\ \/ n = [q EXCEPT !.ready = TRUE, !.runs = q.runs \cup {p}]
                    \/ n = [q EXCEPT !.bearer = issued + 1, !.runs = q.runs \cup {p}]
    <3>1. \A at, tok : at # "exchange" => Run(at, tok).at # "exchange"
      BY DEF Run
    <3>2. CASE PreparedRefresh(t, k)
      <4>1. n = [q EXCEPT !.ready = TRUE, !.runs = q.runs \cup {Run("refresh", k.tok)}]
        BY <1>2, <1>6, <3>2 DEF PreparedRefresh, Together
      <4> QED BY <3>1, <4>1
    <3>3. CASE Refreshed(t, k)
      <4>1. n = [q EXCEPT !.bearer = issued + 1, !.runs = q.runs \cup {Run("whoami", issued + 1)}]
        BY <1>2, <1>6, <3>3 DEF Refreshed, Together
      <4> QED BY <3>1, <4>1
    <3>4. CASE Exchanged(t, k)
      <4>1. n = [q EXCEPT !.bearer = issued + 1,
                          !.runs = q.runs \cup {Run("whoami-after-callback", issued + 1)}]
        BY <1>2, <1>6, <3>4 DEF Exchanged, Together
      <4> QED BY <3>1, <4>1
    <3> QED BY <1>8, <3>2, <3>3, <3>4
  <2>2. n.pending = q.pending /\ n.runs = q.runs \cup {p}
    BY <1>4, <2>1 DEF Tab
  <2> QED BY <1>1, <1>4, <1>6, <2>1, <2>2 DEF Idles
<1>9. CASE Admitted(t, k)
  <2>1. n = Show(q, k)
    BY <1>2, <1>6, <1>9 DEF Admitted, Together
  <2>2. n.pending = q.pending /\ n.runs = q.runs
    BY <1>4, <2>1 DEF Show, ClearSeeds, Tab
  <2> QED BY <1>1, <1>4, <1>6, <2>2 DEF Idles
<1> QED BY <1>5, <1>7, <1>8, <1>9 DEF Resume

LEMMA UnauthorizedIdles ==
    ASSUME Together, NEW t \in Tabs, NEW c \in tab[t].calls, NEW last \in {TRUE, ~Bursts},
           Unauthorized(t, c, last)
    PROVE  Idles(tab[t], tab'[t])
<1>1. PICK r \in Tab : r = tab[t]
  BY DEF Together
<1>2. PICK q : q = Answered(t, c, last)
  OBVIOUS
<1>3. q = IF last THEN [r EXCEPT !.calls = r.calls \ {c}] ELSE r
  BY <1>1, <1>2 DEF Answered
<1>4. q \in Tab /\ q.runs = r.runs
  BY <1>1, <1>3 DEF Tab
<1> QED BY <1>1, <1>2, <1>4, ClearIdles DEF Unauthorized

-----------------------------------------------------------------------------
(* The steps together *)

TabStep(t) ==
    \/ Open(t) \/ Reload(t) \/ Leave(t) \/ MountEffect(t)
    \/ \E ok \in BOOLEAN : Return(t, ok)
    \/ \E k \in tab[t].runs : Resume(t, k)
    \/ Call(t)
    \/ \E c \in tab[t].calls : Answer(t, c) \/ \E last \in {TRUE, ~Bursts} : Unauthorized(t, c, last)
    \/ Login(t) \/ Retry(t) \/ Logout(t)

\* Closed tabs have nothing under way.
LEMMA TabStepMoves ==
    ASSUME Together, TabsInv, NEW t \in Tabs, TabStep(t)
    PROVE  Moves(t)
<1>1. PICK r \in Tab : r = tab[t]
  BY DEF Together
<1>2. r.page = "closed" => r.runs = {} /\ r.calls = {} /\ r.leaving = "no"
  BY <1>1 DEF TabsInv, TabInv, Doc
<1>3. CASE Open(t) \/ Reload(t) \/ Leave(t) \/ MountEffect(t) \/ \E ok \in BOOLEAN : Return(t, ok)
  BY <1>1, <1>2, <1>3 DEF Open, Reload, Leave, MountEffect, Return, Moves, Together
<1>4. CASE Call(t) \/ Login(t) \/ Retry(t) \/ Logout(t)
  BY <1>4 DEF Call, Login, Retry, Logout, Gate, SignInFailed, Moves, Together
<1>5. ASSUME NEW c \in tab[t].calls,
             Answer(t, c) \/ \E last \in {TRUE, ~Bursts} : Unauthorized(t, c, last)
      PROVE  Moves(t)
  BY <1>1, <1>2, <1>5 DEF Answer, Unauthorized, ClearAndLogin, Moves, Together
<1>6. ASSUME NEW k \in tab[t].runs, Resume(t, k) PROVE Moves(t)
  <2>1. r.page # "closed"
    BY <1>1, <1>2
  <2>2. world' = world /\ \E q : tab' = [tab EXCEPT ![t] = q]
    BY <1>6 DEF Resume, BeginLogin, LoginFails, PreparedRefresh, Refreshed, RefreshFails,
                CheckCallback, CallbackRefused, CallbackFails, Exchanged, Admitted, Refused,
                WhoAmIFails, ClearAndLogin
  <2> QED BY <1>1, <2>1, <2>2 DEF Moves, Together
<1> QED BY <1>3, <1>4, <1>5, <1>6 DEF TabStep

LEMMA TabStepKeeps ==
    ASSUME Together, TabsInv, NEW t \in Tabs, TabStep(t)
    PROVE  TabInv(tab'[t], stored', fresh')
<1>1. ASSUME NEW k \in tab[t].runs, Resume(t, k) PROVE TabInv(tab'[t], stored', fresh')
  BY <1>1, LoginTab, FailsTab, GoesOnTab, IssuedTab, AdmittedTab, DropTab DEF Resume
<1>2. ASSUME NEW c \in tab[t].calls,
             Answer(t, c) \/ \E last \in {TRUE, ~Bursts} : Unauthorized(t, c, last)
      PROVE  TabInv(tab'[t], stored', fresh')
  BY <1>2, PageTab, DropTab
<1> QED BY <1>1, <1>2, BrowserTab, MountTab, ButtonTab, PageTab DEF TabStep

\* What a step does to logins: begins one, sends the code of one, or neither.
LEMMA TabStepLogins ==
    ASSUME Together, TabsInv, NEW t \in Tabs, TabStep(t)
    PROVE  \/ Idles(tab[t], tab'[t]) /\ logins' = logins /\ exchanged' = exchanged
           \/ \E k \in tab[t].runs : BeginLogin(t, k) \/ CheckCallback(t, k)
<1>1. CASE Open(t) \/ Reload(t) \/ Leave(t) \/ (\E ok \in BOOLEAN : Return(t, ok))
           \/ Call(t) \/ Logout(t)
  BY <1>1, BrowserIdles DEF Open, Reload, Leave, Return, Call, Logout
<1>2. CASE MountEffect(t) \/ Login(t) \/ Retry(t)
  BY <1>2, ButtonIdles DEF MountEffect, Login, Retry
<1>3. ASSUME NEW c \in tab[t].calls, Answer(t, c)
      PROVE  Idles(tab[t], tab'[t]) /\ logins' = logins /\ exchanged' = exchanged
  BY <1>3, BrowserIdles DEF Answer
<1>4. ASSUME NEW c \in tab[t].calls, NEW last \in {TRUE, ~Bursts}, Unauthorized(t, c, last)
      PROVE  Idles(tab[t], tab'[t]) /\ logins' = logins /\ exchanged' = exchanged
  BY <1>4, UnauthorizedIdles DEF Unauthorized
<1>5. ASSUME NEW k \in tab[t].runs, Resume(t, k), ~BeginLogin(t, k), ~CheckCallback(t, k)
      PROVE  Idles(tab[t], tab'[t]) /\ logins' = logins /\ exchanged' = exchanged
  <2>1. Idles(tab[t], tab'[t])
    BY <1>5, ResumeIdles
  <2>2. logins' = logins /\ exchanged' = exchanged
    BY <1>5 DEF Resume, LoginFails, PreparedRefresh, Refreshed, RefreshFails,
                CallbackRefused, CallbackFails, Exchanged, Admitted, Refused, WhoAmIFails
  <2> QED BY <2>1, <2>2
<1> QED BY <1>1, <1>2, <1>3, <1>4, <1>5 DEF TabStep

LEMMA ExpireKeeps ==
    ASSUME TabsInv, OneOpen, LoginsApart, NEW k \in Tokens, Expire(k)
    PROVE  TabsInv' /\ OneOpen' /\ LoginsApart'
<1>1. /\ UNCHANGED <<stored, logins, exchanged, tab, world>> /\ fresh' \subseteq fresh
  BY DEF Expire
<1>2. OneOpen' /\ LoginsApart' /\ (OneTab <=> OneTab') /\ (Bursts <=> Bursts')
  BY <1>1 DEF OneOpen, LoginsApart, OneTab, Bursts
<1>3. ASSUME NEW t \in Tabs PROVE TabInv(tab[t], stored, fresh')
  BY <1>1 DEF TabsInv, TabInv, Alone
<1> QED BY <1>1, <1>2, <1>3 DEF TabsInv, TabInv

\* The step of an action that sends the code of its tab's pending login.
SendsOnce(t) ==
    \A k \in tab'[t].runs \ tab[t].runs : k.at = "exchange" => tab[t].url \notin exchanged

LEMMA LoginsKeep ==
    ASSUME Together, TabsInv, LoginsApart, NEW t \in Tabs, TabStep(t)
    PROVE  LoginsApart' /\ SendsOnce(t)
<1>1. PICK r \in Tab : r = tab[t]
  BY DEF Together
<1>2. PICK n : n = tab'[t]
  OBVIOUS
<1>3. \A u \in Tabs : u # t => tab'[u] = tab[u]
  BY TabStepMoves DEF Moves
<1>4. /\ logins \in Nat /\ exchanged \subseteq 1..logins
      /\ \A u \in Tabs : tab[u].pending \in Nat
  BY SignInAssumption DEF Together, Others, LoginsApart, Tab
<1>5. CASE Idles(tab[t], tab'[t]) /\ logins' = logins /\ exchanged' = exchanged
  <2>1. n.pending \in {r.pending, 0} /\ SendsOnce(t)
    BY <1>1, <1>2, <1>5 DEF Idles, SendsOnce
  <2>2. \A u \in Tabs : tab'[u].pending # 0 => tab'[u].pending = tab[u].pending
    BY <1>1, <1>2, <1>3, <2>1
  <2>3. LoginsApart'
    BY <1>5, <2>2 DEF LoginsApart
  <2> QED BY <2>1, <2>3
<1>6. ASSUME NEW k \in tab[t].runs, BeginLogin(t, k) PROVE LoginsApart' /\ SendsOnce(t)
  <2>1. /\ n = [r EXCEPT !.ready = TRUE, !.pending = logins + 1, !.asked = logins + 1,
                         !.leaving = "idp", !.runs = r.runs \ {k}]
        /\ logins' = logins + 1 /\ exchanged' = exchanged
    BY <1>1, <1>2, <1>6 DEF BeginLogin, Resumed, Together, Tab
  <2>2. n.pending = logins + 1 /\ n.runs \subseteq r.runs
    BY <2>1 DEF Tab
  <2>3. \A u \in Tabs : u # t => tab'[u].pending = tab[u].pending
    BY <1>3
  <2>4. exchanged' \subseteq 1..logins' /\ logins + 1 \notin exchanged
    BY <1>4, <2>1
  <2>5. ASSUME NEW u \in Tabs, tab'[u].pending # 0
        PROVE  /\ tab'[u].pending <= logins' /\ tab'[u].pending \notin exchanged'
               /\ \A v \in Tabs : tab'[v].pending = tab'[u].pending => v = u
    <3>1. \A v \in Tabs : v # t => tab'[v].pending # logins + 1
      BY <1>4, <2>3 DEF LoginsApart
    <3>2. tab'[t].pending = logins + 1
      BY <1>2, <2>2
    <3>3. CASE u = t
      BY <1>4, <2>1, <2>4, <3>1, <3>2, <3>3
    <3>4. CASE u # t
      <4>1. tab'[u].pending = tab[u].pending /\ tab[u].pending # 0
        BY <2>3, <2>5, <3>4
      <4>2. /\ tab[u].pending <= logins /\ tab[u].pending \notin exchanged
            /\ \A v \in Tabs : tab[v].pending = tab[u].pending => v = u
        BY <4>1 DEF LoginsApart
      <4>3. \A v \in Tabs : tab'[v].pending = tab'[u].pending => v = u
        BY <2>3, <3>1, <3>2, <3>4, <4>1, <4>2
      <4> QED BY <1>4, <2>1, <4>1, <4>2, <4>3
    <3> QED BY <3>3, <3>4
  <2>6. LoginsApart'
    BY <2>4, <2>5 DEF LoginsApart
  <2> QED BY <1>1, <1>2, <2>2, <2>6 DEF SendsOnce
<1>7. ASSUME NEW k \in tab[t].runs, CheckCallback(t, k) PROVE LoginsApart' /\ SendsOnce(t)
  <2>1. /\ n = [r EXCEPT !.ready = TRUE, !.pending = 0,
                         !.runs = (r.runs \ {k}) \cup {Run("exchange", 0)}]
        /\ logins' = logins /\ exchanged' = exchanged \cup {r.url} /\ r.pending = r.url
    BY <1>1, <1>2, <1>7 DEF CheckCallback, Resumed, Together, Tab
  <2>2. n.pending = 0
    BY <2>1 DEF Tab
  <2>3. r.url # 0
    <3>1. Doc(r) /\ k \in r.runs /\ k.at = "prepare-callback"
      BY <1>1, <1>7 DEF TabsInv, TabInv, CheckCallback, Suspends
    <3> QED BY <3>1 DEF Doc, CallbackRuns
  <2>4. r.url \in 1..logins /\ r.url \notin exchanged
    BY <1>1, <1>4, <2>1, <2>3 DEF LoginsApart
  <2>5. \A u \in Tabs : tab'[u].pending # 0 => u # t /\ tab'[u].pending = tab[u].pending
    BY <1>2, <1>3, <2>2
  <2>6. \A u \in Tabs : u # t /\ tab[u].pending # 0 => tab[u].pending # r.url
    BY <1>1, <2>1, <2>3 DEF LoginsApart
  <2>7. LoginsApart'
    BY <2>1, <2>4, <2>5, <2>6 DEF LoginsApart
  <2> QED BY <1>1, <2>4, <2>7 DEF SendsOnce
<1> QED BY <1>5, <1>6, <1>7, TabStepLogins

\* Who drops the one tab's token set has a reason.
LEMMA DropsForCause ==
    ASSUME Together, TabsInv, NEW t \in Tabs, TabStep(t), OneTab, stored # 0, stored' = 0
    PROVE  \/ ~Accepts(stored) \/ RenewalEnds(t)
           \/ tab'[t].leaving = "home" /\ tab[t].leaving = "no"
<1>1. PICK r \in Tab : r = tab[t]
  BY DEF Together
<1>2. TabInv(r, stored, fresh)
  BY <1>1 DEF TabsInv
<1>3. ASSUME NEW k \in tab[t].runs, RefreshFails(t, k) \/ Refused(t, k)
      PROVE  ~Accepts(stored) \/ RenewalEnds(t)
  <2>1. Alone(r, stored, fresh) /\ k \in r.runs
    BY <1>1, AtResume
  <2>2. r.seeds
    BY <2>1 DEF Alone
  <2>3. CASE RefreshFails(t, k)
    <3>1. k.at \in {"prepare-refresh", "refresh"}
      BY <2>3 DEF RefreshFails, Suspends
    <3>2. k.tok = stored /\ stored \notin fresh
      BY <2>1, <2>2, <3>1 DEF Alone
    <3>3. k \notin tab'[t].runs
      <4>1. PICK q : q = Resumed(t, k)
        OBVIOUS
      <4>2. q = [r EXCEPT !.runs = r.runs \ {k}]
        BY <1>1, <4>1 DEF Resumed
      <4>3. q \in Tab /\ q.runs = r.runs \ {k}
        BY <4>2 DEF Tab
      <4>4. PICK b : b = [q EXCEPT !.bearer = 0, !.pending = 0]
        OBVIOUS
      <4>5. b.runs = q.runs /\ DOMAIN b = DOMAIN q /\ "runs" \in DOMAIN q
        BY <4>3, <4>4 DEF Tab
      <4>6. tab' = [tab EXCEPT ![t] = StartLogin(b)]
        BY <2>3, <4>1, <4>4 DEF RefreshFails, ClearAndLogin
      <4>7. tab'[t] = StartLogin(b)
        BY <4>6 DEF Together
      <4>8. PICK l : l = Run("prepare-login", 0)
        OBVIOUS
      <4>9. PICK rs : rs = b.runs \cup {l}
        OBVIOUS
      <4>10. StartLogin(b) = b \/ StartLogin(b) = [b EXCEPT !.redirecting = TRUE, !.status = "redirecting", !.runs = rs]
        BY <4>8, <4>9 DEF StartLogin
      <4>11. StartLogin(b).runs \in {b.runs, rs}
        BY <4>5, <4>10
      <4>12. l.at = "prepare-login"
        BY <4>8 DEF Run
      <4>13. k \notin b.runs /\ k # l
        BY <3>1, <4>3, <4>5, <4>12
      <4> QED BY <4>7, <4>9, <4>11, <4>13
    <3> QED BY <1>3, <3>1, <3>2, <3>3 DEF RenewalEnds
  <2>4. CASE Refused(t, k)
    BY <2>1, <2>2, <2>4 DEF Refused, AsksWhoAmI, Alone
  <2> QED BY <1>3, <2>3, <2>4
<1>4. ASSUME NEW c \in tab[t].calls, NEW last \in {TRUE, ~Bursts}, Unauthorized(t, c, last)
      PROVE  ~Accepts(stored)
  <2>1. r.page = "app" /\ c \in r.calls
    BY <1>1, <1>2 DEF TabInv, Doc
  <2>2. ~r.seeds
    BY <1>2, <2>1 DEF TabInv, Orderly
  <2>3. c = stored
    BY <1>2, <2>1, <2>2 DEF TabInv, Alone
  <2> QED BY <1>4, <2>3 DEF Unauthorized
<1>5. CASE Logout(t)
  <2>1. r.page = "app" /\ r.status = "authenticated"
    BY <1>1, <1>5 DEF Logout, Gate
  <2>2. r.leaving = "no"
    BY <1>2, <2>1 DEF TabInv, Orderly, Alone
  <2>3. tab'[t].leaving = "home"
    <3>1. tab'[t] = [r EXCEPT !.bearer = 0, !.pending = 0, !.status = "redirecting",
                              !.leaving = "home"]
      BY <1>1, <1>5 DEF Logout, Together
    <3> QED BY <3>1 DEF Tab
  <2> QED BY <1>1, <2>2, <2>3
<1>6. ASSUME NEW k \in tab[t].runs, Resume(t, k), ~RefreshFails(t, k), ~Refused(t, k)
      PROVE  FALSE
  <2>1. issued \in Nat
    BY SignInAssumption DEF Together, Others
  <2> QED BY <1>6, <2>1 DEF Resume, BeginLogin, LoginFails, PreparedRefresh, Refreshed,
             CheckCallback, CallbackRefused, CallbackFails, Exchanged, Admitted, WhoAmIFails
<1> QED BY <1>3, <1>4, <1>5, <1>6
        DEF TabStep, Open, Reload, Leave, MountEffect, Return, Call, Answer, Login, Retry

SignInInv == Together /\ TabsInv /\ OneOpen /\ LoginsApart

LEMMA SignInInit == Init => SignInInv
<1> SUFFICES ASSUME Init PROVE SignInInv
  OBVIOUS
<1>1. Together
  BY InitIInv, SameIInv
<1>2. ASSUME NEW t \in Tabs PROVE TabInv(tab[t], stored, fresh)
  <2>1. PICK r : r = tab[t]
    OBVIOUS
  <2>2. /\ r.page = "closed" /\ r.leaving = "no" /\ r.runs = {} /\ r.calls = {}
        /\ r.status = "loading"
    BY <2>1 DEF Init
  <2>3. TabInv(r, stored, fresh)
    BY <2>2 DEF TabInv, Doc, Calm
  <2> QED BY <2>1, <2>3
<1>3. OneOpen /\ LoginsApart
  BY DEF Init, OneOpen, LoginsApart
<1> QED BY <1>1, <1>2, <1>3 DEF SignInInv, TabsInv

LEMMA SignInStep == SignInInv /\ [Next]_vars => SignInInv'
<1> SUFFICES ASSUME SignInInv, [Next]_vars PROVE SignInInv'
  OBVIOUS
<1>1. Together'
  <2>1. IInv'
    BY NextKeeps, SameIInv DEF SignInInv
  <2> QED BY <2>1 DEF IInv, TypeOK, Together, Others
<1>2. ASSUME NEW t \in Tabs, TabStep(t) PROVE TabsInv' /\ OneOpen' /\ LoginsApart'
  BY <1>2, TabStepMoves, TabStepKeeps, MovesKeep, LoginsKeep DEF SignInInv
<1>3. ASSUME NEW k \in Tokens, Expire(k) PROVE TabsInv' /\ OneOpen' /\ LoginsApart'
  BY <1>3, ExpireKeeps DEF SignInInv
<1>4. CASE UNCHANGED vars
  <2>1. (OneTab <=> OneTab') /\ (Bursts <=> Bursts')
    BY <1>4 DEF vars, OneTab, Bursts
  <2>2. TabsInv'
    BY <1>4, <2>1 DEF vars, SignInInv, TabsInv, TabInv
  <2>3. OneOpen' /\ LoginsApart'
    BY <1>4, <2>1 DEF vars, SignInInv, OneOpen, LoginsApart
  <2> QED BY <1>1, <2>2, <2>3 DEF SignInInv
<1> QED BY <1>1, <1>2, <1>3, <1>4 DEF SignInInv, Next, TabStep

\* A console of an OIDC user has its token for the calls of its pages, or a new
\* login is under way, with one tab or while a token has one call in flight.
THEOREM ConsolesHaveTokens == Spec => []ShownWithToken
<1>1. ASSUME SignInInv PROVE ShownWithToken
  <2> SUFFICES ASSUME OneTab \/ ~Bursts, NEW t \in Tabs, tab[t].status = "authenticated",
                      tab[t].mode = "oidc", tab[t].bearer = 0, tab[t].page = "app"
               PROVE  tab[t].leaving # "no"
    BY DEF ShownWithToken
  <2>1. TabInv(tab[t], stored, fresh)
    BY <1>1 DEF SignInInv, TabsInv
  <2>2. CASE ~Bursts
    BY <2>1, <2>2 DEF TabInv, Orderly
  <2>3. CASE OneTab
    BY <2>1, <2>3 DEF TabInv, Orderly, Alone
  <2> QED BY <2>2, <2>3
<1> QED BY <1>1, SignInInit, SignInStep, PTL DEF Spec

\* completeOIDCCallback refuses no callback of a login that this tab began and
\* the provider completed, while a token has one call in flight.
THEOREM ErrorsAreEarned == Spec => []ErrorIsEarned
<1>1. SignInInv => ErrorIsEarned
  BY DEF SignInInv, TabsInv, TabInv, Calm, ErrorIsEarned
<1> QED BY <1>1, SignInInit, SignInStep, PTL DEF Spec

\* A code goes to the token endpoint once, and the one tab's token set is
\* dropped at logout, because knaic-api does not accept it, or because its own
\* renewal was refused or failed, and not otherwise: through reloads, retries,
\* failures and late answers.
THEOREM CredentialsAreKept == Spec => CredentialsKept
<1>1. ASSUME SignInInv, [Next]_vars
      PROVE  /\ [\A t \in Tabs : \A k \in tab'[t].runs \ tab[t].runs :
                   k.at = "exchange" => tab[t].url \notin exchanged]_vars
             /\ [OneTab /\ stored # 0 /\ stored' = 0 =>
                   \/ ~Accepts(stored)
                   \/ \E t \in Tabs : RenewalEnds(t)
                   \/ \E t \in Tabs : tab'[t].leaving = "home" /\ tab[t].leaving = "no"]_vars
  <2>1. ASSUME NEW t \in Tabs, TabStep(t)
        PROVE  /\ \A u \in Tabs : \A k \in tab'[u].runs \ tab[u].runs :
                   k.at = "exchange" => tab[u].url \notin exchanged
               /\ OneTab /\ stored # 0 /\ stored' = 0 =>
                   \/ ~Accepts(stored)
                   \/ \E u \in Tabs : RenewalEnds(u)
                   \/ \E u \in Tabs : tab'[u].leaving = "home" /\ tab[u].leaving = "no"
    <3>1. SendsOnce(t) /\ \A u \in Tabs : u # t => tab'[u] = tab[u]
      BY <1>1, <2>1, LoginsKeep, TabStepMoves DEF SignInInv, Moves
    <3>2. \A u \in Tabs : \A k \in tab'[u].runs \ tab[u].runs :
             k.at = "exchange" => tab[u].url \notin exchanged
      BY <3>1 DEF SendsOnce
    <3> QED BY <1>1, <2>1, <3>2, DropsForCause DEF SignInInv
  <2>2. ASSUME NEW k \in Tokens, Expire(k) PROVE UNCHANGED <<stored, tab>>
    BY <2>2 DEF Expire
  <2> QED BY <1>1, <2>1, <2>2 DEF Next, TabStep
<1> QED BY <1>1, SignInInit, SignInStep, PTL
        DEF Spec, CredentialsKept, CodeUsedOnce, DroppedForCause

-----------------------------------------------------------------------------
(* Pages: what is asked of a panel, and the inductive invariant *)

\* What the theorems ask of the worlds a page is looked at in: a careful panel,
\* and a user who waits for the answers only once the namespaces are known.
CarefulPanels == \A w \in ScreenWorlds : Careful(w.panel) /\ ~({"in-turn", "settling"} \subseteq w.now)

\* The numbers of the requests in flight, and what may still add one without
\* an act of the user.
Used(cs)    == {c.n : c \in cs} \ {0}
Opening     == IF dialog # Closed /\ ~dialog.busy THEN 1 ELSE 0
YetToSettle == IF settled THEN 0 ELSE 1

\* Requests are numbered apart, and there are numbers left.
Numbered ==
    /\ \A c, d \in calls : c.n = d.n /\ c.n # 0 => c = d
    /\ Cardinality(Used(calls)) + Opening + YetToSettle <= acts + 2

\* What a request of each kind has, a dialog and a viewer.
Formed(c) ==
    /\ c.n = 0 <=> c.kind = "stray"
    /\ c.kind \in {"read", "stray"} => c.op = None
    /\ c.kind = "stray" => panel.stray /\ c.live
    /\ c.kind \in {"fetch", "op"} => c.op \in panel.ops /\ c.id <= acts
    /\ c.kind = "fetch" => Fetches(c.op) /\ c.base \in Vers
AllFormed == \A c \in calls : Formed(c)
DialogFormed ==
    dialog # Closed => dialog.op \in panel.ops /\ dialog.op.opens \notin {"at-once", "inline"} /\ dialog.id <= acts
ViewerFormed == viewer # Closed => viewer.id <= acts

\* Only a page that is used before the namespaces are known has one yet to come.
Late == ~settled => Settling /\ panel.by = "namespace"

\* Everything of a panel whose key is fixed is of that key.
Fixed ==
    panel.by = "nothing" =>
        /\ \A e \in view : e.of = key
        /\ \A c \in calls : (c.kind = "read" => c.key = key) /\ c.kind # "stray" /\ c.page = key
        /\ dialog # Closed => dialog.page = key

\* State of a page whose effect cancels its request, or whose user waits: what
\* is still current asks for what is selected, contents of another key stand
\* only until it is answered, and a mask is on as long as it is.
Tracked == panel.from = "own" /\ (InTurn \/ "cancel" \in panel.guard)
Awaited == \E c \in calls : c.kind = "read" /\ c.live /\ c.key = key
LiveReads ==
    Tracked => \A c \in calls : c.kind = "read" /\ c.live => c.key = key
OldContents ==
    Tracked /\ key # None /\ (\E e \in view : e.of # key) => ~panel.blank /\ (Keeps \/ Awaited)
OneLive == "cancel" \in panel.guard => \A c, d \in calls : c.kind = "read" /\ d.kind = "read" /\ c.live /\ d.live => c = d
Masked == panel.masks /\ (\E c \in calls : c.kind = "read" /\ c.live) => spin \/ view = {}

\* A request goes to the namespace of its row, and so would one sent now from
\* the open dialog or editor, but for the forms and panels that ActsOnItsRow
\* excepts.
LateForm(op) == op.aim = "page" /\ (Settling \/ (~InTurn /\ Fetches(op))) /\ op.opens \notin {"at-once", "confirm"}
Astray(op)   == ~Guarded /\ (~InTurn \/ Keeps) /\ op.aim # "row"
RowsAimed    == \A c \in calls : c.kind \in {"fetch", "op"} => c.key = c.row \/ LateForm(c.op) \/ Astray(c.op)
Aims(op, row, page) ==
    /\ op.aim = "opened" => page = row \/ Astray(op)
    /\ op.aim = "page" => key = row \/ LateForm(op) \/ Astray(op)
DialogAims ==
    /\ dialog # Closed => Aims(dialog.op, dialog.row, dialog.page)
    /\ \A c \in calls : c.kind = "fetch" => Aims(c.op, c.row, c.page)

\* Of the requests that only read, one act has sent those of one row, and where
\* the user waits there is one act; the viewer that is open is of the last.
Views(c) == c.kind = "op" /\ c.op.then \in {"shown", "opened"}
Opens(c) == c.kind = "op" /\ c.op.then = "opened"
Viewings ==
    /\ \A c, d \in calls : Views(c) /\ Views(d) => (c.id = d.id => c.row = d.row) /\ (InTurn => c.id = d.id)
    /\ viewer # Closed => \A c \in calls : Views(c) => (c.id = viewer.id => c.row = viewer.row)
    /\ viewer # Closed /\ InTurn => \A c \in calls : Opens(c) => c.id = viewer.id

\* A user who waits has one thing under way: an operation alone, reads of what
\* is selected, or a dialog, which is busy as long as its request is.
OneThing ==
    InTurn =>
        /\ \A c \in calls : c.kind \in {"fetch", "op"} => \A d \in calls : d = c
        /\ \A c \in calls : c.kind = "read" => c.live /\ c.key = key
        /\ \A c \in calls : c.kind \in {"fetch", "op"} => c.page = key
        /\ dialog # Closed /\ ~dialog.busy => calls = {}
        /\ dialog # Closed /\ dialog.busy => \E c \in calls : c.kind = "op" /\ c.op = dialog.op /\ c.id = dialog.id
        /\ dialog # Closed => dialog.page = key

\* If besides nothing fails, all is of what is selected, answers and rows are
\* of the latest version or a list is owed, and a form was filled with it.
Exact   == InTurn /\ ~Misses
Pending == \E c \in calls : c.kind = "read" \/ (IsEdit(c) /\ c.at = "served")
AllOfKey ==
    /\ \A c \in calls : c.kind \in {"fetch", "op"} => c.key = key /\ c.row = key
    /\ dialog # Closed => dialog.row = key
SawLatest    == \A c \in calls : c.at = "served" => c.saw = server[c.key]
ViewLatest   == \A e \in view : e.real /\ (e.ver = server[e.of] \/ (e.of = key /\ Pending))
Filled       == ~panel.stray /\ key # None => (\E c \in calls : c.kind = "read") \/ \E e \in view : e.of = key
SpinLatest   == ~panel.stray /\ panel.masks /\ spin => \E c \in calls : c.kind = "read"
DialogLatest == dialog # Closed /\ (\A c \in calls : c.at = "sent") => dialog.ver = server[key]
BasesLatest  ==
    \A c \in calls : IsEdit(c) /\ c.at = "sent" /\ c.op.carries = "as-opened" => c.base = server[c.key]
LatestHere == AllOfKey /\ SawLatest /\ ViewLatest /\ Filled /\ SpinLatest /\ DialogLatest /\ BasesLatest
Latest == Exact => LatestHere

Typed == ScreenTypeOK /\ Numbered /\ AllFormed /\ DialogFormed /\ ViewerFormed /\ Late

-----------------------------------------------------------------------------
(* Numbers *)

\* A set of numbers has a least one.
LEMMA LeastNumber ==
  ASSUME NEW S \in SUBSET Nat, S # {}
  PROVE  \E x \in S : \A y \in S : x <= y
<1>1. PICK R : R = {ss \in Nat \X Nat : ss[1] < ss[2]}
  OBVIOUS
<1>2. IsWellFoundedOn(R, Nat)
  BY <1>1, NatLessThanWellFounded DEF OpToRel
<1>3. PICK x \in S : \A y \in S : ~ (<<y, x>> \in R)
  BY <1>2, WFMin
<1>4. ASSUME NEW y \in S PROVE x <= y
  <2>1. x \in Nat /\ y \in Nat
    OBVIOUS
  <2>2. ~(y < x)
    BY <1>1, <1>3, <2>1
  <2> QED BY <2>1, <2>2
<1> QED BY <1>4

\* The numbers used are few, and those of some of the requests are fewer.
LEMMA UsedType ==
  ASSUME NEW js \in SUBSET Request
  PROVE  /\ IsFiniteSet(Used(js)) /\ Cardinality(Used(js)) \in Nat
         /\ \A ks \in SUBSET js : Cardinality(Used(ks)) <= Cardinality(Used(js))
<1>1. 2 * MaxActs + 3 \in Nat
  BY ScreensAssumption
<1>2. Used(js) \in SUBSET Nat /\ \A n \in Used(js) : n <= 2 * MaxActs + 3
  BY <1>1 DEF Used, Request, Numbers
<1>3. IsFiniteSet(Used(js))
  BY <1>1, <1>2, FS_BoundedSetOfNaturals
<1>4. ASSUME NEW ks \in SUBSET js PROVE Cardinality(Used(ks)) <= Cardinality(Used(js))
  BY <1>3, FS_Subset DEF Used
<1> QED BY <1>3, <1>4, FS_CardinalityType

\* One request more, and one less.
LEMMA UsedMore ==
  ASSUME NEW js \in SUBSET Request, NEW r \in Request
  PROVE  /\ Cardinality(Used(js \cup {r})) <= Cardinality(Used(js)) + 1
         /\ r.n = 0 => Used(js \cup {r}) = Used(js)
<1>1. Used(js \cup {r}) \in SUBSET (Used(js) \cup {r.n})
  BY DEF Used
<1>2. IsFiniteSet(Used(js)) /\ Cardinality(Used(js)) \in Nat
  BY UsedType
<1>3. /\ IsFiniteSet(Used(js) \cup {r.n})
      /\ Cardinality(Used(js) \cup {r.n}) = IF r.n \in Used(js) THEN Cardinality(Used(js)) ELSE Cardinality(Used(js)) + 1
  BY <1>2, FS_AddElement
<1>4. Cardinality(Used(js \cup {r})) <= Cardinality(Used(js) \cup {r.n})
  BY <1>1, <1>3, FS_Subset
<1>5. (js \cup {r}) \in SUBSET Request
  OBVIOUS
<1>6. Cardinality(Used(js \cup {r})) \in Nat
  BY <1>5, UsedType
<1>7. Cardinality(Used(js) \cup {r.n}) \in Nat
  BY <1>3, FS_CardinalityType
<1>8. r.n = 0 => Used(js \cup {r}) = Used(js)
  BY DEF Used
<1> QED BY <1>2, <1>3, <1>4, <1>6, <1>7, <1>8

\* No two requests have a number.
Unique(js) == \A c, d \in js : c.n = d.n /\ c.n # 0 => c = d

LEMMA UsedLess ==
  ASSUME NEW js \in SUBSET Request, Unique(js), NEW c \in js, c.n # 0
  PROVE  Cardinality(Used(js \ {c})) + 1 = Cardinality(Used(js))
<1>1. Used(js \ {c}) = Used(js) \ {c.n} /\ c.n \in Used(js)
  BY DEF Used, Unique
<1>2. PICK S : S = Used(js)
  OBVIOUS
<1>3. IsFiniteSet(S) /\ Cardinality(S) \in Nat
  BY <1>2, UsedType
<1>4. Cardinality(S \ {c.n}) = Cardinality(S) - 1
  BY <1>1, <1>2, <1>3, FS_RemoveElement
<1>5. PICK m : m = Cardinality(S \ {c.n})
  OBVIOUS
<1>6. m + 1 = Cardinality(S)
  BY <1>3, <1>4, <1>5
<1>7. Used(js \ {c}) = S \ {c.n}
  BY <1>1, <1>2
<1> QED BY <1>2, <1>5, <1>6, <1>7

LEMMA FreshNumber ==
  ASSUME Typed
  PROVE  Fresh \in Numbers \ {0} /\ \A c \in calls : c.n # Fresh
<1>1. PICK N : N = 2 * MaxActs + 3
  OBVIOUS
<1>2. MaxActs \in Nat /\ N \in Nat /\ N \in Int /\ 1 \in Int /\ acts \in 0..MaxActs /\ Numbers = 0..N /\ N > 0
  BY <1>1, ScreensAssumption DEF Typed, ScreenTypeOK, Numbers
<1>3. calls \in SUBSET Request
  BY DEF Typed, ScreenTypeOK
<1>4. /\ IsFiniteSet(Used(calls)) /\ Cardinality(Used(calls)) \in Nat
      /\ Cardinality(Used(calls)) + Opening + YetToSettle <= acts + 2
  BY <1>3, UsedType DEF Typed, Numbered
<1>5. Cardinality(Used(calls)) <= MaxActs + 2
  <2>1. Opening \in Nat /\ YetToSettle \in Nat
    BY DEF Opening, YetToSettle
  <2> QED BY <1>2, <1>4, <2>1
<1>6. ~((1..N) \subseteq Used(calls))
  <2> SUFFICES ASSUME (1..N) \subseteq Used(calls) PROVE FALSE  OBVIOUS
  <2>1. Cardinality(1..N) <= Cardinality(Used(calls))
    BY <1>4, FS_Subset
  <2>2. Cardinality(1..N) = N
    BY <1>2, FS_Interval
  <2> QED BY <1>1, <1>2, <1>4, <1>5, <2>1, <2>2
<1>7. PICK S : S = {i \in 1..N : Free(i)}
  OBVIOUS
<1>8. S # {} /\ S \in SUBSET Nat
  <2>1. PICK i \in 1..N : i \notin Used(calls)
    BY <1>6
  <2>2. i # 0
    OBVIOUS
  <2>3. Free(i)
    BY <2>1, <2>2 DEF Used, Free
  <2>4. S \subseteq 1..N
    BY <1>7
  <2> QED BY <1>2, <1>7, <2>1, <2>3, <2>4
<1>9. PICK i \in S : \A j \in S : i <= j
  BY <1>8, LeastNumber
<1>10. i \in Numbers \ {0} /\ Free(i)
  BY <1>2, <1>7, <1>9
<1>11. ASSUME NEW j \in 1..(i - 1) PROVE ~Free(j)
  <2>1. j \in 1..N /\ ~(i <= j)
    BY <1>2, <1>10
  <2> QED BY <1>7, <1>9, <2>1
<1>12. \E m \in Numbers \ {0} : Free(m) /\ \A j \in 1..(m - 1) : ~Free(j)
  BY <1>10, <1>11
<1>13. Fresh \in Numbers \ {0} /\ Free(Fresh)
  BY <1>12 DEF Fresh
<1> QED BY <1>13 DEF Free

-----------------------------------------------------------------------------
(* Requests *)

\* The read that a panel sends.
LEMMA ReadFields ==
  ASSUME Typed, NEW k \in Keys, NEW r, r = ReadOf(k)
  PROVE  /\ r \in Request /\ r.n = Fresh /\ r.n # 0 /\ \A c \in calls : c.n # r.n
         /\ r.kind = "read" /\ r.op = None /\ r.key = k /\ r.page = k /\ r.row = k /\ r.id = 0 /\ r.base = None
         /\ r.live /\ r.at = "sent" /\ r.saw = 0
<1>1. PICK m : m = Fresh
  OBVIOUS
<1>2. m \in Numbers \ {0} /\ \A c \in calls : c.n # m
  BY <1>1, FreshNumber
<1>3. 0 \in Vers /\ 0 \in Nat
  BY ScreensAssumption DEF Vers
<1>4. r = [n |-> m, kind |-> "read", op |-> None, key |-> k, page |-> k, row |-> k, id |-> 0,
           base |-> None, live |-> TRUE, at |-> "sent", saw |-> 0]
  BY <1>1 DEF ReadOf
<1> QED BY <1>1, <1>2, <1>3, <1>4 DEF Request

\* The first of two reads, for what was chosen before.
LEMMA StrayFields ==
  ASSUME Typed, NEW k \in Keys, NEW r, r = [ReadOf(k) EXCEPT !.kind = "stray", !.n = 0]
  PROVE  /\ r \in Request /\ r.n = 0 /\ r.kind = "stray" /\ r.op = None /\ r.key = k /\ r.page = k /\ r.live /\ r.at = "sent"
<1>1. PICK q : q = ReadOf(k)
  OBVIOUS
<1>2. /\ q \in Request /\ q.op = None /\ q.key = k /\ q.page = k /\ q.live /\ q.at = "sent"
  BY <1>1, ReadFields
<1>3. r = [q EXCEPT !.kind = "stray", !.n = 0] /\ 0 \in Numbers
  BY <1>1, ScreensAssumption DEF Numbers
<1> QED BY <1>2, <1>3 DEF Request

\* The request that an operation sends.
LEMMA SentFields ==
  ASSUME Typed, NEW kind \in {"fetch", "op"}, NEW op \in Operation, NEW row \in Keys, NEW opened \in Keys, key \in Keys,
         NEW id \in Nat, NEW base \in Vers \cup {None}, Sends(kind, op, row, opened, id, base)
  PROVE  \E r \in Request :
            /\ calls' = calls \cup {r}
            /\ r.n = Fresh /\ r.n # 0 /\ \A c \in calls : c.n # r.n
            /\ r.kind = kind /\ r.op = op /\ r.row = row /\ r.id = id /\ r.base = base
            /\ r.page = (IF op.opens = "confirm" \/ op.aim = "opened" THEN opened ELSE key)
            /\ r.key = Target(op, row, opened) /\ r.live /\ r.at = "sent"
<1>1. PICK k : k = Target(op, row, opened)
  OBVIOUS
<1>2. k \in Keys
  BY <1>1 DEF Target, Operation
<1>3. PICK q : q = ReadOf(k)
  OBVIOUS
<1>4. /\ q \in Request /\ q.n = Fresh /\ q.n # 0 /\ (\A c \in calls : c.n # q.n)
      /\ q.key = k /\ q.live /\ q.at = "sent"
  BY <1>2, <1>3, ReadFields
<1>5. PICK p : p = IF op.opens = "confirm" \/ op.aim = "opened" THEN opened ELSE key
  OBVIOUS
<1>6. PICK r : r = [q EXCEPT !.kind = kind, !.op = op, !.row = row, !.id = id, !.base = base, !.page = p]
  OBVIOUS
<1>7. p \in Keys
  BY <1>5
<1>8. /\ r \in Request /\ r.n = q.n /\ r.kind = kind /\ r.op = op /\ r.row = row /\ r.id = id /\ r.base = base
      /\ r.page = p /\ r.key = q.key /\ r.live /\ r.at = q.at
  BY <1>4, <1>6, <1>7 DEF Request
<1>9. calls' = calls \cup {r}
  BY <1>1, <1>3, <1>5, <1>6 DEF Sends
<1> QED BY <1>1, <1>4, <1>5, <1>8, <1>9

\* A request d that goes on for c.
Like(d, c) ==
    /\ d \in Request
    /\ d.n = c.n /\ d.kind = c.kind /\ d.op = c.op /\ d.key = c.key /\ d.page = c.page
    /\ d.row = c.row /\ d.id = c.id /\ d.base = c.base
    /\ d.live => c.live
    /\ d.kind # "read" => (d.live <=> c.live)

\* Requests that were there.
Kept(js) ==
    /\ js \in SUBSET Request /\ Unique(js)
    /\ \A d \in js : \E c \in calls : Like(d, c)

\* Requests as they may be in the next state.
Sound(js) == js \in SUBSET Request /\ Unique(js) /\ \A d \in js : Formed(d)

LEMMA CallsType ==
  ASSUME Typed
  PROVE  /\ Sound(calls) /\ Kept(calls) /\ calls \in SUBSET Request
         /\ Cardinality(Used(calls)) \in Nat /\ acts \in Nat /\ acts \in 0..MaxActs /\ MaxActs \in Nat
         /\ Cardinality(Used(calls)) + Opening + YetToSettle <= acts + 2
         /\ Opening \in {0, 1} /\ YetToSettle \in {0, 1}
<1>1. calls \in SUBSET Request /\ Unique(calls) /\ \A d \in calls : Formed(d)
  BY DEF Typed, ScreenTypeOK, Numbered, AllFormed, Unique
<1>2. Kept(calls)
  BY <1>1 DEF Kept, Like
<1>3. Cardinality(Used(calls)) \in Nat
  BY <1>1, UsedType
<1>4. MaxActs \in Nat /\ acts \in 0..MaxActs
  BY ScreensAssumption DEF Typed, ScreenTypeOK
<1>5. Opening \in {0, 1} /\ YetToSettle \in {0, 1}
  BY DEF Opening, YetToSettle
<1> QED BY <1>1, <1>2, <1>3, <1>4, <1>5 DEF Typed, Numbered, Sound

\* Requests that go on stay sound, and use no new numbers.
LEMMA KeptSound ==
  ASSUME Typed, NEW js, Kept(js), acts' \in Nat, acts <= acts', UNCHANGED screenWorld
  PROVE  /\ Sound(js)' /\ js \in SUBSET Request
         /\ Cardinality(Used(js)) <= Cardinality(Used(calls)) /\ Cardinality(Used(js)) \in Nat
         /\ \A r : (\A c \in calls : c.n # r) => \A d \in js : d.n # r
<1>1. ASSUME NEW d \in js PROVE Formed(d)'
  <2>1. PICK c \in calls : Like(d, c)
    BY DEF Kept
  <2>2. Formed(c) /\ c \in Request /\ acts \in Nat
    BY CallsType DEF Sound
  <2>3. c.id \in Nat /\ panel' = panel
    BY <2>2 DEF Request, panel
  <2> QED BY <2>1, <2>2, <2>3 DEF Formed, Like, Request
<1>2. js \in SUBSET Request /\ Unique(js)
  BY DEF Kept
<1>3. Used(js) \in SUBSET Used(calls)
  BY DEF Used, Kept, Like
<1>4. IsFiniteSet(Used(calls))
  BY CallsType, UsedType
<1>5. Cardinality(Used(js)) <= Cardinality(Used(calls))
  BY <1>3, <1>4, FS_Subset
<1>6. Cardinality(Used(js)) \in Nat
  BY <1>2, UsedType
<1>7. \A r : (\A c \in calls : c.n # r) => \A d \in js : d.n # r
  BY DEF Kept, Like
<1> QED BY <1>1, <1>2, <1>5, <1>6, <1>7 DEF Sound

\* With a new request.
LEMMA AddedSound ==
  ASSUME Typed, NEW js, Kept(js), acts' \in Nat, acts <= acts', UNCHANGED screenWorld,
         NEW r \in Request, r.n # 0, \A c \in calls : c.n # r.n, Formed(r)',
         NEW ks, ks = js \cup {r}
  PROVE  Sound(ks)' /\ Cardinality(Used(ks)) <= Cardinality(Used(js)) + 1
<1>1. Sound(js)' /\ js \in SUBSET Request /\ \A d \in js : d.n # r.n
  BY KeptSound
<1>2. Unique(ks)
  BY <1>1 DEF Unique, Sound
<1> QED BY <1>1, <1>2, UsedMore DEF Sound

\* What the cleanup of an effect leaves.
LEMMA CancelledKept ==
  ASSUME Typed
  PROVE  /\ Kept(Cancelled(calls))
         /\ "cancel" \notin panel.guard => Cancelled(calls) = calls
         /\ "cancel" \in panel.guard => \A d \in Cancelled(calls) : d.kind = "read" => ~d.live
         /\ calls = {} => Cancelled(calls) = {}
<1>1. CASE "cancel" \notin panel.guard
  BY <1>1, CallsType DEF Cancelled
<1>2. CASE "cancel" \in panel.guard
  <2>1. ASSUME NEW d \in Cancelled(calls)
        PROVE  \E c \in calls : Like(d, c) /\ (d.kind = "read" => ~d.live)
    <3>1. PICK c \in calls : d = IF c.kind = "read" THEN [c EXCEPT !.live = FALSE] ELSE c
      BY <1>2 DEF Cancelled
    <3>2. c \in Request
      BY CallsType
    <3>3. /\ d \in Request /\ d.n = c.n /\ d.kind = c.kind /\ d.op = c.op /\ d.key = c.key /\ d.page = c.page
          /\ d.row = c.row /\ d.id = c.id /\ d.base = c.base /\ (d.kind # "read" => d = c) /\ (d.kind = "read" => ~d.live)
      BY <3>1, <3>2 DEF Request
    <3> QED BY <3>3 DEF Like
  <2>2. Unique(Cancelled(calls))
    <3> SUFFICES ASSUME NEW d \in Cancelled(calls), NEW e \in Cancelled(calls), d.n = e.n, d.n # 0 PROVE d = e
      BY DEF Unique
    <3>1. PICK c \in calls : d = IF c.kind = "read" THEN [c EXCEPT !.live = FALSE] ELSE c
      BY <1>2 DEF Cancelled
    <3>2. PICK b \in calls : e = IF b.kind = "read" THEN [b EXCEPT !.live = FALSE] ELSE b
      BY <1>2 DEF Cancelled
    <3>3. c \in Request /\ b \in Request
      BY CallsType
    <3>4. d.n = c.n /\ e.n = b.n
      BY <3>1, <3>2, <3>3 DEF Request
    <3>5. c = b
      BY <3>4, CallsType DEF Sound, Unique
    <3> QED BY <3>1, <3>2, <3>5
  <2>3. Cancelled(calls) \in SUBSET Request
    BY <2>1 DEF Like
  <2> QED BY <1>2, <2>1, <2>2, <2>3 DEF Kept, Cancelled
<1> QED BY <1>1, <1>2

\* The reads that a panel sends for key k, next to what the cleanup leaves.
Entering(k, asks, added) ==
    /\ calls' = Cancelled(calls) \cup added
    /\ added \in SUBSET Request
    /\ \A d \in added : /\ d.kind \in {"read", "stray"} /\ d.op = None /\ d.key = k /\ d.page = k /\ k \in Keys
                        /\ d.live /\ d.at = "sent"
                        /\ d.kind = "stray" => d.n = 0 /\ panel.stray /\ key # None
                        /\ d.kind = "read" => d.n # 0 /\ \A c \in calls : c.n # d.n
    /\ \A d, e \in added : d.kind = e.kind => d = e
    /\ ~asks => added = {} /\ spin' = spin
    /\ asks => (\E d \in added : d.kind = "read") /\ spin' = HasFlag

LEMMA AskEnters ==
  ASSUME Typed, NEW k \in Keys, Ask(k, Cancelled(calls))
  PROVE  \E added : Entering(k, TRUE, added)
<1>1. PICK r : r = ReadOf(k)
  OBVIOUS
<1>2. /\ r \in Request /\ r.n # 0 /\ \A c \in calls : c.n # r.n
      /\ r.kind = "read" /\ r.op = None /\ r.key = k /\ r.page = k /\ r.live /\ r.at = "sent"
  BY <1>1, ReadFields
<1>3. calls' = Cancelled(calls) \cup {r} /\ spin' = HasFlag
  BY <1>1 DEF Ask
<1>4. Entering(k, TRUE, {r})
  BY <1>2, <1>3 DEF Entering
<1> QED BY <1>4

LEMMA EffectEnters ==
  ASSUME Typed, NEW k \in Selections, Effect(k)
  PROVE  \E added : Entering(k, k # None /\ Needs(k), added)
<1>0. k # None => k \in Keys
  BY DEF Selections
<1>1. CASE k = None \/ ~Needs(k)
  <2>1. calls' = Cancelled(calls) /\ spin' = spin
    BY <1>1 DEF Effect
  <2>2. Entering(k, FALSE, {})
    BY <2>1 DEF Entering
  <2>3. Entering(k, k # None /\ Needs(k), {})
    BY <1>1, <2>2 DEF Entering
  <2> QED BY <2>3
<1>2. CASE k # None /\ Needs(k) /\ panel.stray /\ key # None
  <2>1. PICK r : r = ReadOf(k)
    OBVIOUS
  <2>2. PICK s : s = [ReadOf(k) EXCEPT !.kind = "stray", !.n = 0]
    OBVIOUS
  <2>3. /\ r \in Request /\ r.n # 0 /\ \A c \in calls : c.n # r.n
        /\ r.kind = "read" /\ r.op = None /\ r.key = k /\ r.page = k /\ r.live /\ r.at = "sent"
    BY <1>0, <1>2, <2>1, ReadFields
  <2>4. s \in Request /\ s.n = 0 /\ s.kind = "stray" /\ s.op = None /\ s.key = k /\ s.page = k /\ s.live /\ s.at = "sent"
    BY <1>0, <1>2, <2>2, StrayFields
  <2>5. calls' = Cancelled(calls) \cup {s, r} /\ spin' = HasFlag
    BY <1>2, <2>1, <2>2 DEF Effect, AskTwice
  <2>6. Entering(k, TRUE, {s, r})
    BY <1>0, <1>2, <2>3, <2>4, <2>5 DEF Entering
  <2> QED BY <1>2, <2>6 DEF Entering
<1>3. CASE k # None /\ Needs(k) /\ ~(panel.stray /\ key # None)
  <2>1. Ask(k, Cancelled(calls))
    BY <1>3 DEF Effect
  <2>2. PICK added : Entering(k, TRUE, added)
    BY <1>0, <1>3, <2>1, AskEnters
  <2> QED BY <1>3, <2>2 DEF Entering
<1> QED BY <1>1, <1>2, <1>3

LEMMA EnteringSound ==
  ASSUME Typed, NEW k, NEW asks \in BOOLEAN, NEW added, Entering(k, asks, added), acts' \in Nat, acts <= acts', UNCHANGED screenWorld
  PROVE  Sound(calls)' /\ Cardinality(Used(calls)') <= Cardinality(Used(calls)) + 1 /\ Cardinality(Used(calls)') \in Nat
<1>1. PICK js : js = Cancelled(calls)
  OBVIOUS
<1>2. Kept(js)
  BY <1>1, CancelledKept
<1>3. PICK ks : ks = calls'
  OBVIOUS
<1>4. /\ Sound(js)' /\ Cardinality(Used(js)) <= Cardinality(Used(calls)) /\ Cardinality(Used(js)) \in Nat
      /\ js \in SUBSET Request /\ \A r : (\A c \in calls : c.n # r) => \A d \in js : d.n # r
  BY <1>2, KeptSound
<1>5. ks = js \cup added /\ added \in SUBSET Request
  BY <1>1, <1>3 DEF Entering
<1>6. ASSUME NEW d \in added PROVE Formed(d)'
  BY <1>6 DEF Entering, Formed, panel
<1>7. Unique(ks)
  <2> SUFFICES ASSUME NEW c \in ks, NEW d \in ks, c.n = d.n, c.n # 0 PROVE c = d
    BY DEF Unique
  <2>1. Unique(js)
    BY <1>2 DEF Kept
  <2>2. ASSUME NEW e \in added, e.n # 0 PROVE e.kind = "read" /\ \A b \in js : b.n # e.n
    BY <1>4, <2>2 DEF Entering
  <2>3. ASSUME c \in js, d \in js PROVE c = d
    BY <2>1, <2>3 DEF Unique
  <2>4. ASSUME c \in added, d \in added PROVE c = d
    <3>1. c.kind = "read" /\ d.kind = "read"
      BY <2>2, <2>4
    <3> QED BY <2>4, <3>1 DEF Entering
  <2> QED BY <1>5, <2>2, <2>3, <2>4
<1>8. Sound(ks)'
  BY <1>4, <1>5, <1>6, <1>7 DEF Sound
<1>9. Cardinality(Used(ks)) <= Cardinality(Used(js)) + 1
  <2>1. CASE \A d \in added : d.n = 0
    <3>1. Used(ks) = Used(js)
      BY <1>5, <2>1 DEF Used
    <3> QED BY <1>4, <3>1
  <2>2. CASE \E d \in added : d.n # 0
    <3>1. PICK d \in added : d.n # 0
      BY <2>2
    <3>2. \A e \in added : e.n # 0 => e = d
      BY <3>1 DEF Entering
    <3>3. PICK hs : hs = js \cup {d}
      OBVIOUS
    <3>4. Used(ks) = Used(hs)
      BY <1>5, <3>2, <3>3 DEF Used
    <3>5. d \in Request
      BY <1>5
    <3>6. Cardinality(Used(js \cup {d})) <= Cardinality(Used(js)) + 1
      BY <1>4, <3>5, UsedMore
    <3> QED BY <3>3, <3>4, <3>6
  <2> QED BY <2>1, <2>2
<1>10. Cardinality(Used(ks)) \in Nat
  BY <1>8, UsedType DEF Sound
<1>11. Sound(calls)' /\ Used(calls)' = Used(ks)
  BY <1>3, <1>8 DEF Sound, Used
<1>12. Cardinality(Used(calls)) \in Nat
  BY CallsType
<1>13. Cardinality(Used(ks)) <= Cardinality(Used(calls)) + 1
  <2>1. PICK a \in Nat : a = Cardinality(Used(ks))
    BY <1>10
  <2>2. PICK b \in Nat : b = Cardinality(Used(js))
    BY <1>4
  <2>3. PICK c \in Nat : c = Cardinality(Used(calls))
    BY <1>12
  <2>4. a <= b + 1 /\ b <= c
    BY <2>1, <2>2, <2>3, <1>4, <1>9
  <2>5. a <= c + 1
    BY <2>4
  <2> QED BY <2>1, <2>3, <2>5
<1> QED BY <1>10, <1>11, <1>13

-----------------------------------------------------------------------------
(* Every step keeps the types *)

LEMMA PanelType ==
  ASSUME Typed
  PROVE  /\ panel \in Panel /\ HasFlag \in BOOLEAN /\ (key # None => key \in Keys) /\ Selections \in SUBSET (Keys \cup {None})
         /\ Keys \in SUBSET Selections /\ screenWorld \in ScreenWorlds
<1>1. screenWorld \in [panel : Panel, now : SUBSET ScreenCircumstances] /\ screenWorld \in ScreenWorlds
  BY ScreensAssumption DEF Typed, ScreenTypeOK
<1>2. panel \in Panel
  BY <1>1 DEF panel
<1>3. key # None => key \in Keys
  BY DEF Typed, ScreenTypeOK, Selections
<1> QED BY <1>1, <1>2, <1>3 DEF HasFlag, Selections

\* What a step leaves to show.
LEMMA TypedStep ==
  ASSUME Typed, UNCHANGED screenWorld, Sound(calls)',
         key' \in Selections, server' \in [Keys -> Vers], view' \in SUBSET Entry, spin' \in BOOLEAN,
         dialog' \in Dialog \cup {Closed}, viewer' \in Viewer \cup {Closed}, acts' \in 0..MaxActs, settled' \in BOOLEAN,
         Cardinality(Used(calls)') + Opening' + YetToSettle' <= acts' + 2,
         DialogFormed', ViewerFormed', Late'
  PROVE  Typed'
<1>1. Selections' = Selections /\ panel' = panel
  BY DEF Selections, panel
<1>2. ScreenTypeOK'
  BY <1>1 DEF Typed, ScreenTypeOK, Sound
<1>3. Numbered' /\ AllFormed'
  BY DEF Numbered, AllFormed, Sound, Unique
<1> QED BY <1>2, <1>3 DEF Typed

LEMMA EffectTyped ==
  ASSUME Typed, NEW k \in Selections, Effect(k), UNCHANGED <<server, dialog, screenWorld>>,
         acts' \in 0..MaxActs, acts <= acts', settled' \in BOOLEAN, settled => settled',
         acts + YetToSettle' < acts' + YetToSettle
  PROVE  Typed'
<1>1. PICK asks \in BOOLEAN : asks = (k # None /\ Needs(k))
  OBVIOUS
<1>2. PICK added : Entering(k, asks, added)
  BY <1>1, EffectEnters
<1>3. /\ Cardinality(Used(calls)) \in Nat /\ acts \in Nat /\ acts \in 0..MaxActs /\ MaxActs \in Nat /\ acts' \in Nat
      /\ Cardinality(Used(calls)) + Opening + YetToSettle <= acts + 2
      /\ Opening \in {0, 1} /\ YetToSettle \in {0, 1}
  BY CallsType
<1>4. Sound(calls)' /\ Cardinality(Used(calls)') <= Cardinality(Used(calls)) + 1 /\ Cardinality(Used(calls)') \in Nat
  BY <1>2, <1>3, EnteringSound
<1>5. Opening' = Opening /\ YetToSettle' \in {0, 1}
  BY DEF Opening, YetToSettle
<1>6. Cardinality(Used(calls)') + Opening' + YetToSettle' <= acts' + 2
  <2>1. PICK x \in Nat : x = Cardinality(Used(calls))
    BY <1>3
  <2>2. PICK y \in Nat : y = Cardinality(Used(calls)')
    BY <1>4
  <2>3. y <= x + 1 /\ x + Opening + YetToSettle <= acts + 2
    BY <1>3, <1>4, <2>1, <2>2
  <2>4. PICK m \in Nat, n \in Nat, o \in Nat, u \in Nat, v \in Nat :
            m = acts /\ n = acts' /\ o = Opening /\ u = YetToSettle /\ v = YetToSettle'
    BY <1>3, <1>5
  <2>5. y <= x + 1 /\ x + o + u <= m + 2 /\ m + v < n + u
    BY <2>3, <2>4
  <2>6. y + o + v <= n + 2
    BY <2>5
  <2>7. y + Opening' + YetToSettle' <= acts' + 2
    BY <1>5, <2>4, <2>6
  <2> QED BY <2>2, <2>7
<1>7. key' \in Selections /\ view' \in SUBSET Entry /\ viewer' \in Viewer \cup {Closed} /\ ViewerFormed'
  BY <1>3 DEF Effect, Typed, ScreenTypeOK, ViewerFormed, Viewer
<1>8. spin' \in BOOLEAN
  BY <1>1, <1>2, PanelType DEF Entering, Typed, ScreenTypeOK
<1>9. server' \in [Keys -> Vers] /\ dialog' \in Dialog \cup {Closed}
  BY DEF Typed, ScreenTypeOK
<1>10. DialogFormed'
  <2>1. dialog # Closed => dialog.id \in Nat
    BY DEF Typed, ScreenTypeOK, Dialog, Closed
  <2> QED BY <1>3, <2>1 DEF DialogFormed, Typed, panel
<1>11. Late'
  BY DEF Late, Typed, panel, Settling
<1> QED BY <1>4, <1>6, <1>7, <1>8, <1>9, <1>10, <1>11, TypedStep

LEMMA SelectTyped ==
  ASSUME Typed, NEW k \in Keys \cup {None}, Select(k)
  PROVE  Typed'
<1>1. MaxActs \in Nat /\ acts \in Nat /\ settled \in BOOLEAN
  BY CallsType DEF Typed, ScreenTypeOK
<1>2. acts' = acts + 1 /\ acts' \in 0..MaxActs
  BY <1>1 DEF Select, Acts
<1>3. YetToSettle' = YetToSettle /\ YetToSettle \in {0, 1}
  BY DEF Select, YetToSettle
<1>4. acts + YetToSettle' < acts' + YetToSettle
  BY <1>1, <1>2, <1>3
<1> QED BY <1>1, <1>2, <1>4, EffectTyped DEF Select

LEMMA SettleTyped ==
  ASSUME Typed, NEW k \in Keys, Settle(k)
  PROVE  Typed'
<1>1. MaxActs \in Nat /\ acts \in Nat /\ acts \in 0..MaxActs /\ acts' = acts
  BY CallsType DEF Settle
<1>2. YetToSettle' = 0 /\ YetToSettle = 1
  BY DEF Settle, YetToSettle
<1>3. acts + YetToSettle' < acts' + YetToSettle
  BY <1>1, <1>2
<1>4. CASE Effect(k)
  BY <1>1, <1>3, <1>4, PanelType, EffectTyped DEF Settle
<1>5. CASE k = key /\ UNCHANGED <<key, view, viewer, calls, spin>>
  <2>1. UNCHANGED <<key, server, view, spin, dialog, viewer, calls, acts, screenWorld>> /\ settled'
    BY <1>5 DEF Settle
  <2>2. Sound(calls)' /\ Used(calls)' = Used(calls) /\ Opening' = Opening
    BY <2>1, CallsType DEF Sound, Formed, Used, Opening, panel
  <2>3. Cardinality(Used(calls)') + Opening' + YetToSettle' <= acts' + 2
    BY <1>1, <1>2, <2>2, CallsType
  <2>4. DialogFormed' /\ ViewerFormed' /\ Late'
    BY <2>1 DEF Typed, DialogFormed, ViewerFormed, Late, panel
  <2> QED BY <2>1, <2>2, <2>3, <2>4, TypedStep DEF Typed, ScreenTypeOK
<1> QED BY <1>4, <1>5 DEF Settle

\* The count of the numbers, after d of them more.
LEMMA Counted ==
  ASSUME Typed, NEW d \in Int, Cardinality(Used(calls)') \in Nat,
         Cardinality(Used(calls)') <= Cardinality(Used(calls)) + d,
         acts' \in Nat, UNCHANGED settled, acts + Opening' + d <= acts' + Opening
  PROVE  Cardinality(Used(calls)') + Opening' + YetToSettle' <= acts' + 2
<1>1. /\ Cardinality(Used(calls)) \in Nat /\ acts \in Nat /\ Opening \in {0, 1} /\ YetToSettle \in {0, 1}
      /\ Cardinality(Used(calls)) + Opening + YetToSettle <= acts + 2
  BY CallsType
<1>2. Opening' \in {0, 1} /\ YetToSettle' = YetToSettle
  BY DEF Opening, YetToSettle
<1>3. PICK x \in Nat, y \in Nat, m \in Nat, n \in Nat, o \in Nat, p \in Nat, u \in Nat :
         /\ x = Cardinality(Used(calls)) /\ y = Cardinality(Used(calls)') /\ m = acts /\ n = acts'
         /\ o = Opening /\ p = Opening' /\ u = YetToSettle
  BY <1>1, <1>2
<1>4. y <= x + d /\ x + o + u <= m + 2 /\ m + p + d <= n + o
  BY <1>1, <1>3
<1>5. y + p + u <= n + 2
  BY <1>4
<1> QED BY <1>2, <1>3, <1>5

LEMMA AgainTyped ==
  ASSUME Typed, Again
  PROVE  Typed'
<1>1. MaxActs \in Nat /\ acts \in Nat /\ acts \in 0..MaxActs
  BY CallsType
<1>2. acts' = acts + 1 /\ acts' \in 0..MaxActs /\ acts' \in Nat /\ acts <= acts'
  BY <1>1 DEF Again, Acts
<1>3. key \in Keys /\ Ask(key, Cancelled(calls)) /\ UNCHANGED <<key, server, view, dialog, viewer, settled, screenWorld>>
  BY PanelType DEF Again
<1>4. PICK added : Entering(key, TRUE, added)
  BY <1>3, AskEnters
<1>5. Sound(calls)' /\ Cardinality(Used(calls)') <= Cardinality(Used(calls)) + 1 /\ Cardinality(Used(calls)') \in Nat
  BY <1>2, <1>3, <1>4, EnteringSound
<1>6. Opening' = Opening /\ Opening \in {0, 1}
  BY <1>3 DEF Opening
<1>7. Cardinality(Used(calls)') + Opening' + YetToSettle' <= acts' + 2
  <2>1. 1 \in Int /\ acts + Opening' + 1 <= acts' + Opening
    BY <1>1, <1>2, <1>6
  <2> QED BY <1>2, <1>3, <1>5, <2>1, Counted
<1>8. spin' \in BOOLEAN
  BY <1>4, PanelType DEF Entering
<1>9. DialogFormed' /\ ViewerFormed' /\ Late'
  <2>1. (dialog # Closed => dialog.id \in Nat) /\ (viewer # Closed => viewer.id \in Nat)
    BY DEF Typed, ScreenTypeOK, Dialog, Viewer, Closed
  <2> QED BY <1>1, <1>2, <1>3, <2>1 DEF Typed, DialogFormed, ViewerFormed, Late, panel, Settling
<1> QED BY <1>2, <1>3, <1>5, <1>7, <1>8, <1>9, TypedStep DEF Typed, ScreenTypeOK

\* One request more.
LEMMA SentSound ==
  ASSUME Typed, NEW r \in Request, calls' = calls \cup {r}, r.n # 0, \A c \in calls : c.n # r.n, Formed(r)',
         acts' \in Nat, acts <= acts', UNCHANGED screenWorld
  PROVE  Sound(calls)' /\ Cardinality(Used(calls)') <= Cardinality(Used(calls)) + 1 /\ Cardinality(Used(calls)') \in Nat
<1>1. PICK ks : ks = calls'
  OBVIOUS
<1>2. PICK js : js = calls
  OBVIOUS
<1>3. Kept(js)
  BY <1>2, CallsType
<1>4. Sound(ks)' /\ Cardinality(Used(ks)) <= Cardinality(Used(js)) + 1
  BY <1>1, <1>2, <1>3, AddedSound
<1>5. Sound(calls)' /\ Used(calls)' = Used(ks)
  BY <1>1, <1>4 DEF Sound, Used
<1>6. Cardinality(Used(ks)) \in Nat
  BY <1>4, UsedType DEF Sound
<1> QED BY <1>2, <1>4, <1>5, <1>6

\* The user clicks on what is shown.
LEMMA ShownType ==
  ASSUME Typed, NEW e \in Shown
  PROVE  e \in view /\ e \in Entry /\ e.of \in Keys /\ e.ver \in Vers /\ key # None /\ key \in Keys
<1>1. e \in view /\ key # None
  BY DEF Shown
<1>2. e \in Entry
  BY <1>1 DEF Typed, ScreenTypeOK
<1> QED BY <1>1, <1>2, PanelType DEF Entry

LEMMA OperationType ==
  ASSUME Typed, NEW op \in panel.ops
  PROVE  /\ op \in Operation
         /\ op.aim \in {"row", "opened", "page"}
         /\ op.opens \in {"at-once", "confirm", "form", "inline", "fetched", "fetched-or-built"}
         /\ op.then \in {"store", "captured", "patch", "nothing", "elsewhere", "shown", "opened", "saved"}
         /\ op.carries \in {"change", "as-opened", "as-mounted"}
         /\ \A ver \in Vers : Carried(op, ver) \in Vers \cup {None}
<1>1. op \in Operation
  BY PanelType DEF Panel
<1>2. 0 \in Vers
  BY ScreensAssumption DEF Vers
<1>3. \A ver \in Vers : Carried(op, ver) \in Vers \cup {None}
  BY <1>1, <1>2 DEF Operation, Carried
<1> QED BY <1>1, <1>3 DEF Operation

\* What a click does: it opens a dialog, or sends a request.
LEMMA ClickForm ==
  ASSUME Typed, NEW op \in panel.ops, NEW e \in Shown, Click(op, e)
  PROVE  /\ acts' = acts + 1 /\ acts' \in 0..MaxActs /\ acts' \in Nat /\ acts \in Nat
         /\ UNCHANGED <<key, server, view, spin, settled, screenWorld>>
         /\ IF op.opens \in {"confirm", "form"}
            THEN calls' = calls /\ dialog' = [op |-> op, row |-> e.of, page |-> key, id |-> acts', ver |-> e.ver, busy |-> FALSE]
            ELSE /\ dialog' = dialog
                 /\ \E r \in Request :
                      /\ calls' = calls \cup {r} /\ r.n # 0 /\ (\A c \in calls : c.n # r.n)
                      /\ r.kind = (IF Fetches(op) THEN "fetch" ELSE "op") /\ r.op = op /\ r.row = e.of /\ r.id = acts'
                      /\ r.page = key /\ r.key = (IF op.aim = "row" THEN e.of ELSE key) /\ r.at = "sent"
                      /\ r.base = IF Fetches(op) THEN e.ver ELSE Carried(op, e.ver)
<1>1. MaxActs \in Nat /\ acts \in Nat /\ acts \in 0..MaxActs
  BY CallsType
<1>2. acts' = acts + 1 /\ acts' \in 0..MaxActs /\ acts' \in Nat
  BY <1>1 DEF Click, Acts
<1>3. op \in Operation /\ (\A ver \in Vers : Carried(op, ver) \in Vers \cup {None}) /\ op.aim \in {"row", "opened", "page"}
  BY OperationType
<1>4. e \in Entry /\ e.of \in Keys /\ e.ver \in Vers /\ key \in Keys
  BY ShownType
<1>5. CASE op.opens \in {"confirm", "form"}
  BY <1>1, <1>2, <1>5 DEF Click
<1>6. CASE op.opens \notin {"confirm", "form"}
  <2>1. PICK id \in Nat : id = acts'
    BY <1>2
  <2>2. dialog' = dialog /\ IF Fetches(op) THEN Sends("fetch", op, e.of, key, id, e.ver)
                            ELSE Sends("op", op, e.of, key, id, Carried(op, e.ver))
    BY <1>6, <2>1 DEF Click
  <2>3. PICK kind \in {"fetch", "op"}, base \in Vers \cup {None} :
            /\ kind = (IF Fetches(op) THEN "fetch" ELSE "op")
            /\ base = (IF Fetches(op) THEN e.ver ELSE Carried(op, e.ver))
    BY <1>3, <1>4
  <2>4. Sends(kind, op, e.of, key, id, base)
    BY <2>2, <2>3
  <2>5. PICK r \in Request :
            /\ calls' = calls \cup {r}
            /\ r.n = Fresh /\ r.n # 0 /\ (\A c \in calls : c.n # r.n)
            /\ r.kind = kind /\ r.op = op /\ r.row = e.of /\ r.id = id /\ r.base = base
            /\ r.page = (IF op.opens = "confirm" \/ op.aim = "opened" THEN key ELSE key)
            /\ r.key = Target(op, e.of, key) /\ r.live /\ r.at = "sent"
    BY <1>3, <1>4, <2>4, SentFields
  <2>6. r.key = IF op.aim = "row" THEN e.of ELSE key
    BY <1>3, <2>5 DEF Target
  <2> QED BY <1>1, <1>2, <1>6, <2>1, <2>2, <2>3, <2>5, <2>6 DEF Click
<1> QED BY <1>5, <1>6

LEMMA ClickTyped ==
  ASSUME Typed, NEW op \in panel.ops, NEW e \in Shown, Click(op, e)
  PROVE  Typed'
<1>1. /\ acts' = acts + 1 /\ acts' \in 0..MaxActs /\ acts' \in Nat /\ acts \in Nat
      /\ UNCHANGED <<key, server, view, spin, settled, screenWorld>>
  BY ClickForm
<1>2. e.of \in Keys /\ e.ver \in Vers /\ key \in Keys /\ op \in Operation
  BY ShownType, OperationType
<1>3. (dialog # Closed => dialog.id \in Nat) /\ (viewer # Closed => viewer.id \in Nat)
  BY DEF Typed, ScreenTypeOK, Dialog, Viewer, Closed
<1>4. viewer' \in Viewer \cup {Closed} /\ ViewerFormed'
  <2>1. CASE op.then = "opened"
    <3>1. viewer' = [row |-> e.of, id |-> acts', key |-> None, got |-> None]
      BY <2>1 DEF Click
    <3> QED BY <1>1, <1>2, <3>1 DEF Viewer, ViewerFormed
  <2>2. CASE op.then # "opened"
    <3>1. viewer' = viewer
      BY <2>2 DEF Click
    <3> QED BY <1>1, <1>3, <3>1 DEF Typed, ScreenTypeOK, ViewerFormed
  <2> QED BY <2>1, <2>2
<1>5. CASE op.opens \in {"confirm", "form"}
  <2>1. calls' = calls /\ dialog' = [op |-> op, row |-> e.of, page |-> key, id |-> acts', ver |-> e.ver, busy |-> FALSE]
    BY <1>5, ClickForm
  <2>2. dialog = Closed
    BY DEF Click, Acts, Unmasked
  <2>3. dialog' \in Dialog /\ DialogFormed'
    BY <1>1, <1>2, <1>5, <2>1 DEF Dialog, DialogFormed, panel
  <2>4. PICK js : js = calls
    OBVIOUS
  <2>5. Sound(js)' /\ Cardinality(Used(js)) \in Nat
    <3>1. Kept(js)
      BY <2>4, CallsType
    <3>2. acts <= acts' /\ UNCHANGED screenWorld
      BY <1>1
    <3> QED BY <1>1, <3>1, <3>2, KeptSound
  <2>6. Sound(calls)' /\ Used(calls)' = Used(calls)
    BY <2>1, <2>4, <2>5 DEF Sound, Used
  <2>7. Cardinality(Used(calls)') + Opening' + YetToSettle' <= acts' + 2
    <3>1. Opening = 0 /\ Opening' \in {0, 1}
      BY <2>2 DEF Opening
    <3>2. PICK d \in Int : d = 0
      OBVIOUS
    <3>3. acts + Opening' + d <= acts' + Opening
      <4>1. PICK m \in Int, o \in Int : m = acts /\ o = Opening'
        BY <1>1, <3>1
      <4>2. o <= 1 /\ d = 0
        BY <3>1, <3>2, <4>1
      <4>3. m + o + d <= m + 1
        BY <4>2
      <4>4. m + 1 = acts' + Opening
        BY <1>1, <3>1, <4>1
      <4> QED BY <4>1, <4>3, <4>4
    <3>4. Cardinality(Used(calls)') \in Nat /\ Cardinality(Used(calls)') <= Cardinality(Used(calls)) + d
      BY <2>4, <2>5, <2>6, <3>2
    <3> QED BY <1>1, <3>3, <3>4, Counted
  <2> QED BY <1>1, <1>4, <2>3, <2>6, <2>7, TypedStep DEF Typed, ScreenTypeOK, Late, panel, Settling
<1>6. CASE op.opens \notin {"confirm", "form"}
  <2>1. PICK r \in Request :
          /\ calls' = calls \cup {r} /\ r.n # 0 /\ (\A c \in calls : c.n # r.n)
          /\ r.kind = (IF Fetches(op) THEN "fetch" ELSE "op") /\ r.op = op /\ r.row = e.of /\ r.id = acts'
          /\ r.page = key /\ r.key = (IF op.aim = "row" THEN e.of ELSE key) /\ r.at = "sent"
          /\ r.base = IF Fetches(op) THEN e.ver ELSE Carried(op, e.ver)
    BY <1>6, ClickForm
  <2>2. dialog' = dialog
    BY <1>6, ClickForm
  <2>3. Formed(r)'
    BY <1>1, <1>2, <2>1 DEF Formed, panel, Fetches
  <2>4. Sound(calls)' /\ Cardinality(Used(calls)') <= Cardinality(Used(calls)) + 1 /\ Cardinality(Used(calls)') \in Nat
    <3>1. acts <= acts' /\ UNCHANGED screenWorld
      BY <1>1
    <3> QED BY <1>1, <2>1, <2>3, <3>1, SentSound
  <2>5. Opening' = Opening /\ Opening \in {0, 1}
    BY <2>2 DEF Opening
  <2>6. Cardinality(Used(calls)') + Opening' + YetToSettle' <= acts' + 2
    <3>1. 1 \in Int /\ acts + Opening' + 1 <= acts' + Opening
      BY <1>1, <2>5
    <3> QED BY <1>1, <2>4, <3>1, Counted
  <2>7. DialogFormed'
    BY <1>1, <1>3, <2>2 DEF Typed, DialogFormed, panel
  <2> QED BY <1>1, <1>4, <2>2, <2>4, <2>6, <2>7, TypedStep DEF Typed, ScreenTypeOK, Late, panel, Settling
<1> QED BY <1>5, <1>6

LEMMA DialogType ==
  ASSUME Typed, dialog # Closed
  PROVE  /\ dialog \in Dialog /\ dialog.op \in panel.ops /\ dialog.op \in Operation /\ dialog.row \in Keys /\ dialog.page \in Keys
         /\ dialog.id \in Nat /\ dialog.id <= acts /\ dialog.ver \in Vers /\ dialog.busy \in BOOLEAN
         /\ dialog.op.opens \notin {"at-once", "inline"}
BY DEF Typed, ScreenTypeOK, DialogFormed, Dialog, Closed

LEMMA SubmitForm ==
  ASSUME Typed, Submit
  PROVE  /\ dialog # Closed /\ key # None
         /\ acts' \in 0..MaxActs /\ acts' \in Nat /\ acts \in Nat
         /\ IF dialog.busy THEN acts' = acts + 1 /\ ~InTurn ELSE acts' = acts
         /\ UNCHANGED <<key, server, view, spin, viewer, settled, screenWorld>>
         /\ dialog' = [dialog EXCEPT !.busy = TRUE]
         /\ \E r \in Request :
              /\ calls' = calls \cup {r} /\ r.n # 0 /\ (\A c \in calls : c.n # r.n)
              /\ r.kind = "op" /\ r.op = dialog.op /\ r.row = dialog.row /\ r.id = dialog.id
              /\ r.page = (IF dialog.op.opens = "confirm" \/ dialog.op.aim = "opened" THEN dialog.page ELSE key)
              /\ r.key = Target(dialog.op, dialog.row, dialog.page) /\ r.at = "sent"
              /\ r.base = Carried(dialog.op, dialog.ver)
<1>1. MaxActs \in Nat /\ acts \in Nat /\ acts \in 0..MaxActs
  BY CallsType
<1>2. acts' \in 0..MaxActs /\ acts' \in Nat /\ IF dialog.busy THEN acts' = acts + 1 /\ ~InTurn ELSE acts' = acts
  BY <1>1 DEF Submit
<1>3. dialog # Closed /\ key # None /\ key \in Keys
  BY PanelType DEF Submit
<1>4. PICK d \in Dialog : d = dialog
  BY <1>3, DialogType
<1>5. d.op \in panel.ops /\ d.op \in Operation /\ d.row \in Keys /\ d.page \in Keys /\ d.id \in Nat /\ d.ver \in Vers
  BY <1>3, <1>4, DialogType
<1>6. Carried(d.op, d.ver) \in Vers \cup {None}
  BY <1>5, OperationType
<1>7. Sends("op", d.op, d.row, d.page, d.id, Carried(d.op, d.ver))
  BY <1>4 DEF Submit
<1>8. PICK r \in Request :
            /\ calls' = calls \cup {r}
            /\ r.n = Fresh /\ r.n # 0 /\ (\A c \in calls : c.n # r.n)
            /\ r.kind = "op" /\ r.op = d.op /\ r.row = d.row /\ r.id = d.id /\ r.base = Carried(d.op, d.ver)
            /\ r.page = (IF d.op.opens = "confirm" \/ d.op.aim = "opened" THEN d.page ELSE key)
            /\ r.key = Target(d.op, d.row, d.page) /\ r.live /\ r.at = "sent"
  BY <1>3, <1>5, <1>6, <1>7, SentFields
<1> QED BY <1>1, <1>2, <1>3, <1>4, <1>8 DEF Submit

LEMMA SubmitTyped ==
  ASSUME Typed, Submit
  PROVE  Typed'
<1>1. /\ dialog # Closed /\ key # None
      /\ acts' \in 0..MaxActs /\ acts' \in Nat /\ acts \in Nat
      /\ IF dialog.busy THEN acts' = acts + 1 /\ ~InTurn ELSE acts' = acts
      /\ UNCHANGED <<key, server, view, spin, viewer, settled, screenWorld>>
      /\ dialog' = [dialog EXCEPT !.busy = TRUE]
  BY SubmitForm
<1>2. acts <= acts'
  BY <1>1
<1>3. PICK r \in Request :
              /\ calls' = calls \cup {r} /\ r.n # 0 /\ (\A c \in calls : c.n # r.n)
              /\ r.kind = "op" /\ r.op = dialog.op /\ r.row = dialog.row /\ r.id = dialog.id
  BY SubmitForm
<1>4. /\ dialog \in Dialog /\ dialog.op \in panel.ops /\ dialog.id \in Nat /\ dialog.id <= acts /\ dialog.busy \in BOOLEAN
      /\ dialog.op.opens \notin {"at-once", "inline"}
  BY <1>1, DialogType
<1>5. dialog.id <= acts'
  BY <1>1, <1>2, <1>4
<1>6. Formed(r)'
  BY <1>1, <1>3, <1>4, <1>5 DEF Formed, panel
<1>7. Sound(calls)' /\ Cardinality(Used(calls)') <= Cardinality(Used(calls)) + 1 /\ Cardinality(Used(calls)') \in Nat
  BY <1>1, <1>2, <1>3, <1>6, SentSound
<1>8. dialog' \in Dialog /\ dialog'.op = dialog.op /\ dialog'.id = dialog.id /\ dialog'.busy
  BY <1>1, <1>4 DEF Dialog
<1>9. Cardinality(Used(calls)') + Opening' + YetToSettle' <= acts' + 2
  <2>1. Opening' = 0
    BY <1>8 DEF Opening
  <2>2. Opening = (IF dialog.busy THEN 0 ELSE 1)
    BY <1>1, <1>4 DEF Opening
  <2>3. acts + Opening' + 1 <= acts' + Opening
    <3>1. CASE dialog.busy
      BY <1>1, <2>1, <2>2, <3>1
    <3>2. CASE ~dialog.busy
      BY <1>1, <2>1, <2>2, <3>2
    <3> QED BY <3>1, <3>2
  <2>4. 1 \in Int
    OBVIOUS
  <2> QED BY <1>1, <1>7, <2>3, <2>4, Counted
<1>10. DialogFormed' /\ ViewerFormed' /\ Late'
  <2>1. viewer # Closed => viewer.id \in Nat
    BY DEF Typed, ScreenTypeOK, Viewer, Closed
  <2> QED BY <1>1, <1>2, <1>4, <1>5, <1>8, <2>1 DEF Typed, DialogFormed, ViewerFormed, Late, panel, Settling
<1> QED BY <1>1, <1>7, <1>8, <1>9, <1>10, TypedStep DEF Typed, ScreenTypeOK

LEMMA CloseTyped ==
  ASSUME Typed, Dismiss \/ CloseViewer
  PROVE  Typed'
<1>1. /\ UNCHANGED <<key, server, view, spin, calls, acts, settled, screenWorld>>
      /\ dialog' \in {dialog, Closed} /\ viewer' \in {viewer, Closed}
  BY DEF Dismiss, CloseViewer
<1>2. Sound(calls)' /\ Used(calls)' = Used(calls)
  BY <1>1, CallsType DEF Sound, Formed, Used, panel
<1>3. Opening' <= Opening /\ Opening' \in Nat /\ Opening \in Nat
  BY <1>1 DEF Opening
<1>4. Cardinality(Used(calls)') + Opening' + YetToSettle' <= acts' + 2
  <2>1. YetToSettle' = YetToSettle
    BY <1>1 DEF YetToSettle
  <2>2. PICK x \in Nat, m \in Nat, o \in Nat, p \in Nat, u \in Nat :
           x = Cardinality(Used(calls)) /\ m = acts /\ o = Opening /\ p = Opening' /\ u = YetToSettle
    BY <1>3, CallsType
  <2>3. x + o + u <= m + 2 /\ p <= o
    BY <1>3, <2>2, CallsType
  <2>4. x + p + u <= m + 2
    BY <2>3
  <2> QED BY <1>1, <1>2, <2>1, <2>2, <2>4
<1>5. DialogFormed' /\ ViewerFormed' /\ Late'
  BY <1>1 DEF Typed, DialogFormed, ViewerFormed, Late, panel, Settling
<1> QED BY <1>1, <1>2, <1>4, <1>5, TypedStep DEF Typed, ScreenTypeOK

LEMMA CallType ==
  ASSUME Typed, NEW c \in calls
  PROVE  /\ c \in Request /\ c.key \in Keys /\ c.page \in Keys /\ c.row \in Keys /\ c.id \in Nat /\ c.saw \in Vers
         /\ c.base \in Vers \cup {None} /\ c.live \in BOOLEAN /\ c.at \in {"sent", "served"}
         /\ c.kind \in {"read", "stray", "fetch", "op"}
         /\ c.n = 0 <=> c.kind = "stray"
         /\ c.kind \in {"read", "stray"} => c.op = None
         /\ c.kind = "stray" => panel.stray /\ c.live
         /\ c.kind \in {"fetch", "op"} => c.op \in panel.ops /\ c.op \in Operation /\ c.id <= acts
         /\ c.kind = "fetch" => Fetches(c.op) /\ c.base \in Vers
<1>1. c \in Request /\ Formed(c)
  BY CallsType DEF Sound
<1>2. c.kind \in {"fetch", "op"} => c.op \in Operation
  BY <1>1, OperationType DEF Formed
<1> QED BY <1>1, <1>2 DEF Request, Formed

\* One request less.
LEMMA OverSound ==
  ASSUME Typed, NEW c \in calls, calls' = calls \ {c}, UNCHANGED <<acts, screenWorld>>
  PROVE  /\ Sound(calls)' /\ Cardinality(Used(calls)') \in Nat
         /\ Cardinality(Used(calls)') <= Cardinality(Used(calls))
         /\ c.kind # "stray" => Cardinality(Used(calls)') <= Cardinality(Used(calls)) - 1
<1>1. PICK js : js = calls \ {c}
  OBVIOUS
<1>2. Sound(calls) /\ calls \in SUBSET Request /\ Cardinality(Used(calls)) \in Nat
  BY CallsType
<1>3. Sound(js)'
  BY <1>1, <1>2 DEF Sound, Unique, Formed, panel
<1>4. Sound(calls)' /\ Used(calls)' = Used(js) /\ js \in SUBSET calls
  BY <1>1, <1>3 DEF Sound, Used
<1>5. Cardinality(Used(js)) \in Nat /\ Cardinality(Used(js)) <= Cardinality(Used(calls))
  BY <1>2, <1>4, UsedType
<1>6. ASSUME c.kind # "stray" PROVE Cardinality(Used(js)) <= Cardinality(Used(calls)) - 1
  <2>1. c.n # 0
    BY <1>6, CallType
  <2>2. Cardinality(Used(calls \ {c})) + 1 = Cardinality(Used(calls))
    BY <1>2, <2>1, UsedLess DEF Sound
  <2>3. PICK x \in Nat : x = Cardinality(Used(js))
    BY <1>5
  <2>4. x + 1 = Cardinality(Used(calls))
    BY <1>1, <2>2, <2>3
  <2> QED BY <1>2, <2>3, <2>4
<1> QED BY <1>4, <1>5, <1>6

\* The server handles a request, which stays with what was seen.
LEMMA ServeForm ==
  ASSUME Typed, NEW c \in calls, Serve(c)
  PROVE  /\ UNCHANGED <<key, view, spin, dialog, viewer, acts, settled, screenWorld>>
         /\ c.at = "sent" /\ c.kind # "stray"
         /\ server' \in [Keys -> Vers] /\ server' = IF IsEdit(c) THEN [server EXCEPT ![c.key] = @ + 1] ELSE server
         /\ \E r \in Request :
              /\ calls' = (calls \ {c}) \cup {r}
              /\ r.n = c.n /\ r.kind = c.kind /\ r.op = c.op /\ r.key = c.key /\ r.page = c.page
              /\ r.row = c.row /\ r.id = c.id /\ r.base = c.base /\ (r.live <=> c.live)
              /\ r.at = "served" /\ r.saw = server'[c.key]
<1>1. c \in Request /\ c.key \in Keys
  BY CallType
<1>2. server' \in [Keys -> Vers]
  <2>1. server \in [Keys -> Vers] /\ MaxVer \in Nat
    BY ScreensAssumption DEF Typed, ScreenTypeOK
  <2>2. CASE IsEdit(c)
    <3>1. server[c.key] < MaxVer /\ server[c.key] \in 0..MaxVer
      BY <1>1, <2>1, <2>2 DEF Serve, Vers
    <3>2. server[c.key] + 1 \in 0..MaxVer
      BY <2>1, <3>1
    <3> QED BY <1>1, <2>1, <2>2, <3>2 DEF Serve, Vers
  <2>3. CASE ~IsEdit(c)
    BY <2>1, <2>3 DEF Serve
  <2> QED BY <2>2, <2>3
<1>3. PICK v \in Vers : v = server'[c.key]
  BY <1>1, <1>2
<1>4. PICK r : r = [c EXCEPT !.at = "served", !.saw = v]
  OBVIOUS
<1>5. /\ r \in Request /\ r.n = c.n /\ r.kind = c.kind /\ r.op = c.op /\ r.key = c.key /\ r.page = c.page
      /\ r.row = c.row /\ r.id = c.id /\ r.base = c.base /\ (r.live <=> c.live)
      /\ r.at = "served" /\ r.saw = v
  BY <1>1, <1>4 DEF Request
<1>6. calls' = (calls \ {c}) \cup {r}
  BY <1>3, <1>4 DEF Serve
<1> QED BY <1>2, <1>3, <1>5, <1>6 DEF Serve

LEMMA ServeTyped ==
  ASSUME Typed, NEW c \in calls, Serve(c)
  PROVE  Typed'
<1>1. /\ UNCHANGED <<key, view, spin, dialog, viewer, acts, settled, screenWorld>> /\ server' \in [Keys -> Vers]
  BY ServeForm
<1>2. PICK r \in Request :
              /\ calls' = (calls \ {c}) \cup {r}
              /\ r.n = c.n /\ r.kind = c.kind /\ r.op = c.op /\ r.key = c.key /\ r.page = c.page
              /\ r.row = c.row /\ r.id = c.id /\ r.base = c.base /\ (r.live <=> c.live)
  BY ServeForm
<1>3. PICK ks : ks = calls'
  OBVIOUS
<1>4. Kept(ks)
  <2>1. calls \in SUBSET Request /\ Unique(calls)
    BY CallsType DEF Sound
  <2>2. Like(r, c) /\ \A d \in calls : Like(d, d)
    BY <1>2, <2>1 DEF Like
  <2>3. Unique(ks)
    BY <1>2, <1>3, <2>1 DEF Unique
  <2> QED BY <1>2, <1>3, <2>1, <2>2, <2>3 DEF Kept
<1>5. acts' \in Nat /\ acts <= acts'
  BY <1>1, CallsType
<1>6. Sound(ks)' /\ Cardinality(Used(ks)) <= Cardinality(Used(calls)) /\ Cardinality(Used(ks)) \in Nat
  BY <1>1, <1>4, <1>5, KeptSound
<1>7. Sound(calls)' /\ Used(calls)' = Used(ks) /\ Opening' = Opening /\ YetToSettle' = YetToSettle
  BY <1>1, <1>3, <1>6 DEF Sound, Used, Opening, YetToSettle
<1>8. Cardinality(Used(calls)') + Opening' + YetToSettle' <= acts' + 2
  <2>1. PICK x \in Nat, y \in Nat, m \in Nat, o \in Nat, u \in Nat :
           x = Cardinality(Used(calls)) /\ y = Cardinality(Used(ks)) /\ m = acts /\ o = Opening /\ u = YetToSettle
    BY <1>6, CallsType
  <2>2. y <= x /\ x + o + u <= m + 2
    BY <1>6, <2>1, CallsType
  <2>3. y + o + u <= m + 2
    BY <2>2
  <2> QED BY <1>1, <1>7, <2>1, <2>3
<1>9. DialogFormed' /\ ViewerFormed' /\ Late'
  BY <1>1 DEF Typed, DialogFormed, ViewerFormed, Late, panel, Settling
<1> QED BY <1>1, <1>7, <1>8, <1>9, TypedStep DEF Typed, ScreenTypeOK

LEMMA WithType ==
  ASSUME Typed, NEW k \in Keys, NEW v \in Vers, NEW real \in BOOLEAN
  PROVE  /\ With(k, v, real) \in SUBSET Entry
         /\ \A e \in With(k, v, real) : (e.of = k /\ e.ver = v /\ e.real = real) \/ (e \in view /\ panel.from = "store" /\ e.of # k)
         /\ \E e \in With(k, v, real) : e.of = k
<1>1. PICK w : w = [of |-> k, ver |-> v, real |-> real]
  OBVIOUS
<1>2. w \in Entry /\ w.of = k /\ w.ver = v /\ w.real = real
  BY <1>1 DEF Entry
<1>3. With(k, v, real) = (IF panel.from = "store" THEN {e \in view : e.of # k} ELSE {}) \cup {w}
  BY <1>1 DEF With
<1>4. view \in SUBSET Entry
  BY DEF Typed, ScreenTypeOK
<1> QED BY <1>2, <1>3, <1>4

\* What the answer to a read does, and the failure.
LEMMA ReadOver ==
  ASSUME Typed, NEW c \in calls, Arrives(c) \/ ReadFails(c)
  PROVE  /\ calls' = calls \ {c} /\ c.kind \in {"read", "stray"}
         /\ UNCHANGED <<key, server, dialog, viewer, acts, settled, screenWorld>>
         /\ view' \in SUBSET Entry /\ spin' \in BOOLEAN /\ spin' = Cleared(c)
<1>1. c.key \in Keys /\ c.saw \in Vers /\ 0 \in Vers /\ view \in SUBSET Entry /\ spin \in BOOLEAN
  BY CallType, ScreensAssumption DEF Typed, ScreenTypeOK, Vers
<1>2. With(c.key, c.saw, TRUE) \in SUBSET Entry /\ With(c.key, 0, FALSE) \in SUBSET Entry
  BY <1>1, WithType
<1>3. spin' \in BOOLEAN /\ spin' = Cleared(c)
  BY <1>1 DEF Arrives, ReadFails, Cleared
<1>4. view' \in SUBSET Entry
  <2>1. CASE Arrives(c)
    BY <1>1, <1>2, <2>1 DEF Arrives
  <2>2. CASE ReadFails(c)
    BY <1>1, <1>2, <2>2 DEF ReadFails
  <2> QED BY <2>1, <2>2
<1> QED BY <1>3, <1>4 DEF Arrives, ReadFails, Over

LEMMA ReadTyped ==
  ASSUME Typed, NEW c \in calls, Arrives(c) \/ ReadFails(c)
  PROVE  Typed'
<1>1. /\ calls' = calls \ {c} /\ c.kind \in {"read", "stray"}
      /\ UNCHANGED <<key, server, dialog, viewer, acts, settled, screenWorld>>
      /\ view' \in SUBSET Entry /\ spin' \in BOOLEAN
  BY ReadOver
<1>2. Sound(calls)' /\ Cardinality(Used(calls)') \in Nat /\ Cardinality(Used(calls)') <= Cardinality(Used(calls))
  BY <1>1, OverSound
<1>3. Opening' = Opening /\ YetToSettle' = YetToSettle
  BY <1>1 DEF Opening, YetToSettle
<1>4. Cardinality(Used(calls)') + Opening' + YetToSettle' <= acts' + 2
  <2>1. PICK x \in Nat, y \in Nat, m \in Nat, o \in Nat, u \in Nat :
           x = Cardinality(Used(calls)) /\ y = Cardinality(Used(calls)') /\ m = acts /\ o = Opening /\ u = YetToSettle
    BY <1>2, CallsType
  <2>2. y <= x /\ x + o + u <= m + 2
    BY <1>2, <2>1, CallsType
  <2>3. y + o + u <= m + 2
    BY <2>2
  <2> QED BY <1>1, <1>3, <2>1, <2>3
<1>5. DialogFormed' /\ ViewerFormed' /\ Late'
  BY <1>1 DEF Typed, DialogFormed, ViewerFormed, Late, panel, Settling
<1> QED BY <1>1, <1>2, <1>4, <1>5, TypedStep DEF Typed, ScreenTypeOK

\* A request that is not a read is over, and its number free for a dialog.
LEMMA OverTyped ==
  ASSUME Typed, NEW c \in calls, c.kind # "stray", calls' = calls \ {c}, UNCHANGED <<key, server, spin, acts, settled, screenWorld>>,
         view' \in SUBSET Entry, dialog' \in Dialog \cup {Closed}, viewer' \in Viewer \cup {Closed},
         DialogFormed', ViewerFormed'
  PROVE  Typed'
<1>1. /\ Sound(calls)' /\ Cardinality(Used(calls)') \in Nat
      /\ Cardinality(Used(calls)') <= Cardinality(Used(calls)) - 1
  BY OverSound
<1>2. Opening' \in {0, 1} /\ YetToSettle' = YetToSettle /\ Opening \in {0, 1}
  BY DEF Opening, YetToSettle
<1>3. Cardinality(Used(calls)') + Opening' + YetToSettle' <= acts' + 2
  <2>1. PICK x \in Int, y \in Int, m \in Int, o \in Int, p \in Int, u \in Int :
           x = Cardinality(Used(calls)) /\ y = Cardinality(Used(calls)') /\ m = acts /\ o = Opening /\ p = Opening' /\ u = YetToSettle
    BY <1>1, <1>2, CallsType
  <2>2. y <= x - 1 /\ x + o + u <= m + 2
    BY <1>1, <2>1, CallsType
  <2>3. o >= 0 /\ p <= 1
    BY <1>2, <2>1
  <2>4. y + p + u <= m + 2
    BY <2>2, <2>3
  <2> QED BY <1>2, <2>1, <2>4
<1>4. Late'
  BY DEF Typed, Late, panel, Settling
<1> QED BY <1>1, <1>3, <1>4, TypedStep DEF Typed, ScreenTypeOK

\* What an editor does with the answer to its read, or without.
LEMMA EditorForm ==
  ASSUME Typed, NEW c \in calls, EditorOpens(c) \/ EditorFails(c)
  PROVE  /\ calls' = calls \ {c} /\ c.kind = "fetch" /\ Fetches(c.op)
         /\ UNCHANGED <<key, server, view, spin, viewer, acts, settled, screenWorld>>
         /\ \/ Misses /\ dialog' = dialog
            \/ \E ver \in Vers :
                  /\ dialog' = [op |-> c.op, row |-> c.row, page |-> c.page, id |-> c.id, ver |-> ver, busy |-> FALSE]
                  /\ Misses \/ (c.at = "served" /\ ver = c.saw)
<1>1. c.kind = "fetch" /\ c.base \in Vers /\ c.saw \in Vers /\ Fetches(c.op)
  BY CallType DEF EditorOpens, EditorFails
<1>2. CASE EditorOpens(c)
  BY <1>1, <1>2 DEF EditorOpens, OpensEditor, Over
<1>3. CASE EditorFails(c)
  BY <1>1, <1>3 DEF EditorFails, OpensEditor, Over
<1> QED BY <1>2, <1>3

LEMMA EditorTyped ==
  ASSUME Typed, NEW c \in calls, EditorOpens(c) \/ EditorFails(c)
  PROVE  Typed'
<1>1. /\ calls' = calls \ {c} /\ c.kind = "fetch" /\ Fetches(c.op)
      /\ UNCHANGED <<key, server, view, spin, viewer, acts, settled, screenWorld>>
  BY EditorForm
<1>2. /\ c.page \in Keys /\ c.row \in Keys /\ c.id \in Nat /\ c.op \in panel.ops /\ c.op \in Operation /\ c.id <= acts
      /\ c.op.opens \notin {"at-once", "inline"}
  BY <1>1, CallType DEF Fetches
<1>3. dialog' \in Dialog \cup {Closed} /\ DialogFormed'
  <2>1. CASE dialog' = dialog
    BY <1>1, <2>1 DEF Typed, ScreenTypeOK, DialogFormed, panel
  <2>2. ASSUME NEW ver \in Vers,
               dialog' = [op |-> c.op, row |-> c.row, page |-> c.page, id |-> c.id, ver |-> ver, busy |-> FALSE]
        PROVE  dialog' \in Dialog \cup {Closed} /\ DialogFormed'
    BY <1>1, <1>2, <2>2 DEF Dialog, DialogFormed, panel
  <2> QED BY <2>1, <2>2, EditorForm
<1>4. viewer' \in Viewer \cup {Closed} /\ ViewerFormed' /\ view' \in SUBSET Entry
  BY <1>1 DEF Typed, ScreenTypeOK, ViewerFormed
<1> QED BY <1>1, <1>3, <1>4, OverTyped

Lists(op) == op.then \in {"store", "captured"}

\* What the answer to an operation does.
LEMMA DoneForm ==
  ASSUME Typed, NEW c \in calls, Done(c)
  PROVE  /\ c.kind = "op" /\ c.at = "served" /\ c.op \in panel.ops
         /\ UNCHANGED <<key, server, acts, settled, screenWorld>>
         /\ dialog' \in {dialog, Closed} /\ viewer' \in Viewer \cup {Closed}
         /\ view' \in SUBSET Entry
         /\ Lists(c.op) => /\ view' = view /\ spin' = HasFlag
                           /\ \E r \in Request :
                                /\ calls' = (calls \ {c}) \cup {r} /\ r.n # 0 /\ (\A d \in calls : d.n # r.n)
                                /\ r.kind = "read" /\ r.op = None /\ r.key = c.page /\ r.page = c.page /\ r.live /\ r.at = "sent"
         /\ ~Lists(c.op) => calls' = calls \ {c} /\ spin' = spin
         /\ ~Lists(c.op) /\ c.op.then # "patch" => view' = view
         /\ ~Lists(c.op) /\ c.op.then = "patch" =>
               /\ \A e \in view' : \E d \in view : /\ e.of = d.of /\ e.real = d.real
                                                   /\ e.ver = IF d.of = c.key THEN c.saw ELSE d.ver
               /\ \A d \in view : \E e \in view' : e.of = d.of
<1>1. /\ c.kind = "op" /\ c.at = "served" /\ c.op \in panel.ops /\ c.page \in Keys /\ c.saw \in Vers
      /\ c.key \in Keys /\ c.row \in Keys /\ c.id \in Nat
  BY CallType DEF Done
<1>2. dialog' \in {dialog, Closed}
  BY DEF Done, CloseOf
<1>3. viewer' \in Viewer \cup {Closed}
  <2>1. viewer \in Viewer \cup {Closed}
    BY DEF Typed, ScreenTypeOK
  <2>2. CASE c.op.then = "shown"
    BY <1>1, <2>2 DEF Done, Shows, Viewer
  <2>3. CASE c.op.then = "opened" /\ viewer # Closed
    BY <1>1, <2>1, <2>3 DEF Done, Shows, Viewer
  <2>4. CASE c.op.then # "shown" /\ ~(c.op.then = "opened" /\ viewer # Closed)
    BY <2>1, <2>4 DEF Done, Shows
  <2> QED BY <2>2, <2>3, <2>4
<1>4. ASSUME Lists(c.op)
      PROVE  /\ view' = view /\ spin' = HasFlag
             /\ \E r \in Request :
                  /\ calls' = (calls \ {c}) \cup {r} /\ r.n # 0 /\ (\A d \in calls : d.n # r.n)
                  /\ r.kind = "read" /\ r.op = None /\ r.key = c.page /\ r.page = c.page /\ r.live /\ r.at = "sent"
  <2>1. Ask(c.page, calls \ {c}) /\ view' = view
    BY <1>4 DEF Done, Follows, Lists
  <2>2. PICK r : r = ReadOf(c.page)
    OBVIOUS
  <2>3. /\ r \in Request /\ r.n # 0 /\ (\A d \in calls : d.n # r.n)
        /\ r.kind = "read" /\ r.op = None /\ r.key = c.page /\ r.page = c.page /\ r.live /\ r.at = "sent"
    BY <1>1, <2>2, ReadFields
  <2>4. calls' = (calls \ {c}) \cup {r} /\ spin' = HasFlag
    BY <2>1, <2>2 DEF Ask
  <2> QED BY <2>1, <2>3, <2>4
<1>5. ~Lists(c.op) => calls' = calls \ {c} /\ spin' = spin
  BY DEF Done, Follows, Over, Lists
<1>6. ~Lists(c.op) /\ c.op.then # "patch" => view' = view
  BY DEF Done, Follows, Lists
<1>7. ASSUME ~Lists(c.op), c.op.then = "patch"
      PROVE  /\ view' \in SUBSET Entry
             /\ \A e \in view' : \E d \in view : /\ e.of = d.of /\ e.real = d.real
                                                   /\ e.ver = IF d.of = c.key THEN c.saw ELSE d.ver
             /\ \A d \in view : \E e \in view' : e.of = d.of
  <2>1. view' = {IF e.of = c.key THEN [e EXCEPT !.ver = c.saw] ELSE e : e \in view}
    BY <1>7 DEF Done, Follows, Lists
  <2>2. ASSUME NEW e \in Entry, NEW f, f = IF e.of = c.key THEN [e EXCEPT !.ver = c.saw] ELSE e
        PROVE  f \in Entry /\ f.of = e.of /\ f.real = e.real /\ f.ver = IF e.of = c.key THEN c.saw ELSE e.ver
    BY <1>1, <2>2 DEF Entry
  <2>3. view \in SUBSET Entry
    BY DEF Typed, ScreenTypeOK
  <2>4. ASSUME NEW f \in view'
        PROVE  f \in Entry /\ \E d \in view : f.of = d.of /\ f.real = d.real /\ f.ver = IF d.of = c.key THEN c.saw ELSE d.ver
    <3>1. PICK d \in view : f = IF d.of = c.key THEN [d EXCEPT !.ver = c.saw] ELSE d
      BY <2>1
    <3>2. d \in Entry
      BY <2>3
    <3>3. f \in Entry /\ f.of = d.of /\ f.real = d.real /\ f.ver = IF d.of = c.key THEN c.saw ELSE d.ver
      BY <2>2, <3>1, <3>2
    <3> QED BY <3>3
  <2>5. ASSUME NEW d \in view PROVE \E e \in view' : e.of = d.of
    <3>1. PICK f : f = IF d.of = c.key THEN [d EXCEPT !.ver = c.saw] ELSE d
      OBVIOUS
    <3>2. f \in view'
      BY <2>1, <3>1
    <3>3. d \in Entry
      BY <2>3
    <3>4. f.of = d.of
      BY <2>2, <3>1, <3>3
    <3> QED BY <3>2, <3>4
  <2> QED BY <2>4, <2>5
<1>8. view' \in SUBSET Entry
  <2>1. view \in SUBSET Entry
    BY DEF Typed, ScreenTypeOK
  <2> QED BY <1>4, <1>6, <1>7, <2>1
<1>9. UNCHANGED <<key, server, acts, settled, screenWorld>>
  BY DEF Done
<1> QED BY <1>1, <1>2, <1>3, <1>4, <1>5, <1>6, <1>7, <1>8, <1>9

LEMMA ShowsFormed ==
  ASSUME Typed, NEW c \in calls, Done(c)
  PROVE  ViewerFormed'
<1>1. c.id \in Nat /\ c.id <= acts /\ acts' = acts /\ c.row \in Keys /\ c.key \in Keys
  BY CallType DEF Done
<1>2. viewer # Closed => viewer \in Viewer /\ viewer.id <= acts
  BY DEF Typed, ScreenTypeOK, ViewerFormed
<1>3. CASE c.op.then = "shown"
  BY <1>1, <1>3 DEF Done, Shows, ViewerFormed
<1>4. CASE c.op.then = "opened" /\ viewer # Closed
  <2>1. viewer' = [viewer EXCEPT !.key = c.key, !.got = c.id]
    BY <1>4 DEF Done, Shows
  <2>2. viewer'.id = viewer.id
    BY <1>2, <1>4, <2>1 DEF Viewer
  <2> QED BY <1>1, <1>2, <1>4, <2>2 DEF ViewerFormed
<1>5. CASE c.op.then # "shown" /\ ~(c.op.then = "opened" /\ viewer # Closed)
  BY <1>1, <1>2, <1>5 DEF Done, Shows, ViewerFormed
<1> QED BY <1>3, <1>4, <1>5

LEMMA DoneTyped ==
  ASSUME Typed, NEW c \in calls, Done(c)
  PROVE  Typed'
<1>1. /\ c.kind = "op" /\ c.op \in panel.ops /\ UNCHANGED <<key, server, acts, settled, screenWorld>>
      /\ dialog' \in {dialog, Closed} /\ viewer' \in Viewer \cup {Closed}
      /\ view' \in SUBSET Entry
  BY DoneForm
<1>2. dialog' \in Dialog \cup {Closed} /\ DialogFormed'
  BY <1>1 DEF Typed, ScreenTypeOK, DialogFormed, panel
<1>3. ViewerFormed'
  BY ShowsFormed
<1>4. CASE ~Lists(c.op)
  <2>1. calls' = calls \ {c} /\ spin' = spin
    BY <1>4, DoneForm
  <2> QED BY <1>1, <1>2, <1>3, <2>1, OverTyped
<1>5. CASE Lists(c.op)
  <2>1. PICK r \in Request :
            /\ calls' = (calls \ {c}) \cup {r} /\ r.n # 0 /\ (\A d \in calls : d.n # r.n)
            /\ r.kind = "read" /\ r.op = None /\ r.key = c.page /\ r.page = c.page /\ r.live /\ r.at = "sent"
    BY <1>5, DoneForm
  <2>2. spin' \in BOOLEAN
    BY <1>5, DoneForm, PanelType
  <2>3. PICK js : js = calls \ {c}
    OBVIOUS
  <2>4. calls \in SUBSET Request /\ Unique(calls) /\ Cardinality(Used(calls)) \in Nat /\ acts' \in Nat /\ acts <= acts'
    BY <1>1, CallsType DEF Sound
  <2>5. Kept(js)
    BY <2>3, <2>4 DEF Kept, Unique, Like
  <2>6. Formed(r)'
    BY <2>1 DEF Formed
  <2>7. PICK ks : ks = js \cup {r}
    OBVIOUS
  <2>8. Sound(ks)' /\ Cardinality(Used(ks)) <= Cardinality(Used(js)) + 1
    BY <1>1, <2>1, <2>4, <2>5, <2>6, <2>7, AddedSound
  <2>9. Cardinality(Used(js)) + 1 = Cardinality(Used(calls)) /\ Cardinality(Used(js)) \in Nat
    <3>1. c.n # 0
      BY <1>1, CallType
    <3>2. js \in SUBSET Request
      BY <2>3, <2>4
    <3> QED BY <2>3, <2>4, <3>1, <3>2, UsedLess, UsedType
  <2>10. Sound(calls)' /\ Used(calls)' = Used(ks) /\ Cardinality(Used(ks)) \in Nat
    <3>1. calls' = ks
      BY <2>1, <2>3, <2>7
    <3>2. Cardinality(Used(ks)) \in Nat
      BY <2>8, UsedType DEF Sound
    <3> QED BY <2>8, <3>1, <3>2 DEF Sound, Used
  <2>11. Opening' <= Opening /\ Opening' \in Nat /\ Opening \in Nat /\ YetToSettle' = YetToSettle
    <3>1. CASE dialog' = dialog
      BY <1>1, <3>1 DEF Opening, YetToSettle
    <3>2. CASE dialog' = Closed
      BY <1>1, <3>2 DEF Opening, YetToSettle
    <3> QED BY <1>1, <3>1, <3>2
  <2>12. Cardinality(Used(calls)') + Opening' + YetToSettle' <= acts' + 2
    <3>1. PICK x \in Nat, y \in Nat, z \in Nat, m \in Nat, o \in Nat, p \in Nat, u \in Nat :
             /\ x = Cardinality(Used(calls)) /\ y = Cardinality(Used(js)) /\ z = Cardinality(Used(ks))
             /\ m = acts /\ o = Opening /\ p = Opening' /\ u = YetToSettle
      BY <2>9, <2>10, <2>11, CallsType
    <3>2. z <= y + 1 /\ y + 1 = x /\ x + o + u <= m + 2 /\ p <= o
      BY <2>8, <2>9, <2>11, <3>1, CallsType
    <3>3. z + p + u <= m + 2
      BY <3>2
    <3> QED BY <1>1, <2>10, <2>11, <3>1, <3>3
  <2>13. Late'
    BY <1>1 DEF Typed, Late, panel, Settling
  <2> QED BY <1>1, <1>2, <1>3, <2>2, <2>10, <2>12, <2>13, TypedStep DEF Typed, ScreenTypeOK
<1> QED BY <1>4, <1>5

\* What a failed operation does.
LEMMA OpFailsForm ==
  ASSUME Typed, NEW c \in calls, OpFails(c)
  PROVE  /\ c.kind = "op" /\ c.op \in panel.ops /\ calls' = calls \ {c}
         /\ UNCHANGED <<key, server, view, spin, acts, settled, screenWorld>>
         /\ viewer' \in {viewer, Closed}
         /\ \/ dialog' = dialog /\ (dialog = Closed \/ dialog.id # c.id)
            \/ dialog' = Closed
            \/ /\ dialog # Closed /\ dialog.id = c.id
               /\ dialog' = [dialog EXCEPT !.busy = FALSE]
               /\ dialog' \in Dialog /\ dialog'.op = dialog.op /\ dialog'.row = dialog.row /\ dialog'.page = dialog.page
               /\ dialog'.id = dialog.id /\ dialog'.ver = dialog.ver
<1>1. c.kind = "op" /\ c.op \in panel.ops
  BY CallType DEF OpFails
<1>2. CASE dialog' = [dialog EXCEPT !.busy = FALSE] /\ dialog # Closed
  BY <1>1, <1>2, DialogType DEF OpFails, Over, Dialog
<1>3. CASE dialog' \in {dialog, Closed}
  BY <1>1, <1>3, DialogType DEF OpFails, Over, Dialog
<1> QED BY <1>2, <1>3 DEF OpFails

LEMMA OpFailsTyped ==
  ASSUME Typed, NEW c \in calls, OpFails(c)
  PROVE  Typed'
<1>1. /\ c.kind = "op" /\ calls' = calls \ {c} /\ UNCHANGED <<key, server, view, spin, acts, settled, screenWorld>>
      /\ viewer' \in {viewer, Closed}
  BY OpFailsForm
<1>2. dialog' \in Dialog \cup {Closed} /\ DialogFormed'
  <2>1. CASE dialog' \in {dialog, Closed}
    BY <1>1, <2>1 DEF Typed, ScreenTypeOK, DialogFormed, panel
  <2>2. CASE dialog # Closed /\ dialog' \in Dialog /\ dialog'.op = dialog.op /\ dialog'.id = dialog.id
    BY <1>1, <2>2, DialogType DEF DialogFormed, panel
  <2> QED BY <2>1, <2>2, OpFailsForm
<1>3. viewer' \in Viewer \cup {Closed} /\ ViewerFormed' /\ view' \in SUBSET Entry
  BY <1>1 DEF Typed, ScreenTypeOK, ViewerFormed
<1> QED BY <1>1, <1>2, <1>3, OverTyped

\* The read of a page that is mounted.
LEMMA InitCalls ==
  ASSUME ScreenInit, NEW c \in calls
  PROVE  /\ c.n = 1 /\ c.kind = "read" /\ c.op = None /\ c.key = key /\ c.page = key /\ key # None
         /\ c.live /\ c.at = "sent" /\ c \in Request /\ \A d \in calls : d = c
<1>1. key \in Keys \cup {None} /\ key \in Selections
  BY DEF ScreenInit, Selections
<1>2. PICK k \in {key} \ {None} :
         c = [n |-> 1, kind |-> "read", op |-> None, key |-> k, page |-> k, row |-> k, id |-> 0,
              base |-> None, live |-> TRUE, at |-> "sent", saw |-> 0]
  BY DEF ScreenInit
<1>3. 1 \in Numbers /\ 0 \in Vers /\ 0 \in Nat
  <2>1. MaxActs \in Nat /\ MaxVer \in Nat
    BY ScreensAssumption
  <2>2. 2 * MaxActs + 3 \in Nat /\ 1 <= 2 * MaxActs + 3
    BY <2>1
  <2> QED BY <2>1, <2>2 DEF Numbers, Vers
<1>4. k = key /\ key \in Keys /\ key # None
  BY <1>1, <1>2
<1>5. \A d \in calls : d = c
  BY <1>2 DEF ScreenInit
<1> QED BY <1>2, <1>3, <1>4, <1>5 DEF Request

LEMMA InitTyped ==
  ASSUME ScreenInit
  PROVE  Typed
<1>1. MaxActs \in Nat /\ 0 \in 0..MaxActs /\ 1 \in Vers /\ MaxVer \in Nat
  <2>1. MaxActs \in Nat /\ MaxVer \in Nat \ {0}
    BY ScreensAssumption
  <2>2. 0 \in 0..MaxActs /\ 1 \in 0..MaxVer
    BY <2>1
  <2> QED BY <2>1, <2>2 DEF Vers
<1>2. acts = 0 /\ view = {} /\ dialog = Closed /\ viewer = Closed /\ screenWorld \in ScreenWorlds /\ key \in Selections
  BY DEF ScreenInit
<1>3. calls \in SUBSET Request
  BY InitCalls
<1>4. settled \in BOOLEAN /\ spin \in BOOLEAN /\ server \in [Keys -> Vers]
  BY <1>1 DEF ScreenInit, HasFlag
<1>5. ScreenTypeOK
  BY <1>1, <1>2, <1>3, <1>4 DEF ScreenTypeOK
<1>6. Numbered
  <2>1. \A c, d \in calls : c = d
    BY InitCalls
  <2>2. Used(calls) \in SUBSET {1}
    BY InitCalls DEF Used
  <2>3. IsFiniteSet({1}) /\ Cardinality({1}) = 1
    BY FS_Singleton
  <2>4. Cardinality(Used(calls)) <= 1 /\ Cardinality(Used(calls)) \in Nat
    <3>1. Cardinality(Used(calls)) <= Cardinality({1})
      BY <2>2, <2>3, FS_Subset
    <3>2. Cardinality(Used(calls)) \in Nat
      BY <1>3, UsedType
    <3> QED BY <2>3, <3>1, <3>2
  <2>5. Opening = 0 /\ YetToSettle \in {0, 1}
    BY <1>2 DEF Opening, YetToSettle
  <2>6. Cardinality(Used(calls)) + Opening + YetToSettle <= acts + 2
    <3>1. PICK x \in Nat, u \in Nat : x = Cardinality(Used(calls)) /\ u = YetToSettle
      BY <2>4, <2>5
    <3>2. x <= 1 /\ u <= 1
      BY <2>4, <2>5, <3>1
    <3>3. x + 0 + u <= 0 + 2
      BY <3>2
    <3> QED BY <1>2, <2>5, <3>1, <3>3
  <2> QED BY <2>1, <2>6 DEF Numbered
<1>7. AllFormed
  BY InitCalls DEF AllFormed, Formed
<1>8. DialogFormed /\ ViewerFormed
  BY <1>2 DEF DialogFormed, ViewerFormed
<1>9. Late
  BY DEF ScreenInit, Late, Settling, panel
<1> QED BY <1>5, <1>6, <1>7, <1>8, <1>9 DEF Typed

\* The steps, one by one.
LEMMA StepCases ==
  ASSUME ScreenNext
  PROVE  \/ \E k \in Keys \cup {None} : Select(k)
         \/ \E k \in Keys : Settle(k)
         \/ Again
         \/ \E op \in panel.ops : \E e \in Shown : Click(op, e)
         \/ Submit
         \/ Dismiss \/ CloseViewer
         \/ \E c \in calls : Serve(c)
         \/ \E c \in calls : Arrives(c) \/ ReadFails(c)
         \/ \E c \in calls : EditorOpens(c) \/ EditorFails(c)
         \/ \E c \in calls : Done(c)
         \/ \E c \in calls : OpFails(c)
BY DEF ScreenNext, AnswerRead, AnswerOther, Reads

LEMMA StepTyped ==
  ASSUME Typed, [ScreenNext]_screenVars
  PROVE  Typed'
<1>1. CASE UNCHANGED screenVars
  <2>1. UNCHANGED <<key, server, view, spin, dialog, viewer, calls, acts, settled, screenWorld>>
    BY <1>1 DEF screenVars
  <2>2. Sound(calls)' /\ Used(calls)' = Used(calls) /\ Opening' = Opening /\ YetToSettle' = YetToSettle
    BY <2>1, CallsType DEF Sound, Formed, Used, panel, Opening, YetToSettle
  <2>3. Cardinality(Used(calls)') + Opening' + YetToSettle' <= acts' + 2
    BY <2>1, <2>2, CallsType
  <2>4. DialogFormed' /\ ViewerFormed' /\ Late'
    BY <2>1 DEF Typed, DialogFormed, ViewerFormed, Late, panel, Settling
  <2> QED BY <2>1, <2>2, <2>3, <2>4, TypedStep DEF Typed, ScreenTypeOK
<1>2. CASE ScreenNext
  BY <1>2, StepCases, SelectTyped, SettleTyped, AgainTyped, ClickTyped, SubmitTyped, CloseTyped, ServeTyped,
     ReadTyped, EditorTyped, DoneTyped, OpFailsTyped
<1> QED BY <1>1, <1>2

-----------------------------------------------------------------------------
(* The user waits for one thing at a time *)

\* What the pages have in common, of the panel of this behaviour.
LEMMA CarefulHere ==
  ASSUME CarefulPanels, Typed
  PROVE  /\ Careful(panel) /\ (InTurn => ~Settling) /\ (InTurn => settled)
         /\ panel.by = "nothing" => settled
<1>1. screenWorld \in ScreenWorlds
  BY PanelType
<1>2. Careful(panel) /\ ~({"in-turn", "settling"} \subseteq screenWorld.now)
  BY <1>1 DEF CarefulPanels, panel
<1>3. InTurn => ~Settling
  BY <1>2 DEF InTurn, Settling
<1> QED BY <1>2, <1>3 DEF Typed, Late

\* The circumstances stay.
LEMMA WorldStays ==
  ASSUME UNCHANGED screenWorld
  PROVE  /\ panel' = panel /\ (InTurn' <=> InTurn) /\ (Misses' <=> Misses) /\ (Settling' <=> Settling)
         /\ (Guarded' <=> Guarded) /\ (Keeps' <=> Keeps) /\ (Tracked' <=> Tracked) /\ (Exact' <=> Exact)
         /\ HasFlag' = HasFlag
BY DEF panel, InTurn, Misses, Settling, Guarded, Keeps, Tracked, Exact, HasFlag

LEMMA OneThingStep ==
  ASSUME CarefulPanels, Typed, OneThing, ScreenNext
  PROVE  OneThing'
<1>0. SUFFICES ASSUME InTurn, UNCHANGED screenWorld PROVE OneThing'
  <2>1. UNCHANGED screenWorld
    BY DEF ScreenNext, Select, Settle, Again, Click, Submit, Dismiss, CloseViewer, AnswerRead, AnswerOther, Serve,
           Arrives, ReadFails, EditorOpens, EditorFails, Done, OpFails
  <2> QED BY <2>1, WorldStays DEF OneThing
<1>1. (InTurn' <=> InTurn) /\ panel' = panel /\ settled /\ calls \in SUBSET Request
  BY <1>0, WorldStays, CarefulHere, CallsType
<1>a. /\ \A c \in calls : c.kind \in {"fetch", "op"} => \A d \in calls : d = c
      /\ \A c \in calls : c.kind = "read" => c.live /\ c.key = key
      /\ \A c \in calls : c.kind \in {"fetch", "op"} => c.page = key
      /\ dialog # Closed /\ ~dialog.busy => calls = {}
      /\ dialog # Closed /\ dialog.busy => \E c \in calls : c.kind = "op" /\ c.op = dialog.op /\ c.id = dialog.id
      /\ dialog # Closed => dialog.page = key
  BY <1>0 DEF OneThing
<1>2. ASSUME NEW k \in Keys \cup {None}, Select(k) PROVE OneThing'
  <2>1. calls = {} /\ dialog' = Closed /\ k \in Selections /\ Effect(k) /\ key' = k
    BY <1>0, <1>2 DEF Select, Acts, Quiet, Unmasked, Effect
  <2>2. PICK added : Entering(k, k # None /\ Needs(k), added)
    BY <2>1, EffectEnters
  <2>3. calls' = added
    BY <2>1, <2>2, CancelledKept DEF Entering
  <2> QED BY <2>1, <2>2, <2>3 DEF Entering, OneThing, Closed
<1>3. ASSUME NEW k \in Keys, Settle(k) PROVE OneThing'
  BY <1>1, <1>3 DEF Settle
<1>4. ASSUME Again PROVE OneThing'
  <2>1. calls = {} /\ dialog' = Closed /\ key \in Keys /\ Ask(key, Cancelled(calls)) /\ key' = key
    BY <1>0, <1>4, PanelType DEF Again, Acts, Quiet, Unmasked
  <2>2. PICK added : Entering(key, TRUE, added)
    BY <2>1, AskEnters
  <2>3. calls' = added
    BY <2>1, <2>2, CancelledKept DEF Entering
  <2> QED BY <2>1, <2>2, <2>3 DEF Entering, OneThing, Closed
<1>5. ASSUME NEW op \in panel.ops, NEW e \in Shown, Click(op, e) PROVE OneThing'
  <2>1. calls = {} /\ dialog = Closed /\ key' = key
    BY <1>0, <1>5 DEF Click, Acts, Quiet, Unmasked
  <2>2. CASE op.opens \in {"confirm", "form"}
    <3>1. calls' = {} /\ dialog' = [op |-> op, row |-> e.of, page |-> key, id |-> acts', ver |-> e.ver, busy |-> FALSE]
      BY <1>5, <2>1, <2>2, ClickForm
    <3> QED BY <2>1, <3>1 DEF OneThing
  <2>3. CASE op.opens \notin {"confirm", "form"}
    <3>1. PICK r : calls' = calls \cup {r} /\ r.kind = (IF Fetches(op) THEN "fetch" ELSE "op") /\ r.page = key
      BY <1>5, <2>3, ClickForm
    <3>2. dialog' = dialog
      BY <1>5, <2>3, ClickForm
    <3>3. calls' = {r} /\ r.kind # "read"
      BY <2>1, <3>1
    <3> QED BY <2>1, <3>1, <3>2, <3>3 DEF OneThing, Closed
  <2> QED BY <2>2, <2>3
<1>6. ASSUME Submit PROVE OneThing'
  <2>1. dialog # Closed /\ ~dialog.busy /\ key' = key /\ dialog' = [dialog EXCEPT !.busy = TRUE]
    BY <1>0, <1>6, SubmitForm
  <2>2. calls = {} /\ dialog.page = key
    BY <1>a, <2>1
  <2>3. PICK r :
              /\ calls' = calls \cup {r}
              /\ r.kind = "op" /\ r.op = dialog.op /\ r.id = dialog.id
              /\ r.page = (IF dialog.op.opens = "confirm" \/ dialog.op.aim = "opened" THEN dialog.page ELSE key)
    BY <1>6, SubmitForm
  <2>4. calls' = {r} /\ r.page = key
    BY <2>2, <2>3
  <2>5. dialog'.op = dialog.op /\ dialog'.id = dialog.id /\ dialog'.page = dialog.page /\ dialog'.busy
    BY <2>1, DialogType DEF Dialog
  <2> QED BY <2>1, <2>2, <2>3, <2>4, <2>5 DEF OneThing
<1>7. ASSUME Dismiss \/ CloseViewer PROVE OneThing'
  BY <1>0, <1>1, <1>a, <1>7 DEF OneThing, Dismiss, CloseViewer, Closed
<1>8. ASSUME NEW c \in calls, Serve(c) PROVE OneThing'
  <2>1. PICK r :
              /\ calls' = (calls \ {c}) \cup {r}
              /\ r.kind = c.kind /\ r.op = c.op /\ r.key = c.key /\ r.page = c.page /\ r.id = c.id /\ (r.live <=> c.live)
    BY <1>8, ServeForm
  <2>2. key' = key /\ dialog' = dialog /\ calls # {}
    BY <1>8, ServeForm
  <2>3. \A d \in calls' : d = r \/ (d \in calls /\ d # c)
    BY <2>1
  <2>4. \A d \in calls' : d.kind \in {"fetch", "op"} => (\A f \in calls' : f = d) /\ d.page = key
    BY <1>a, <2>1, <2>3
  <2>5. \A d \in calls' : d.kind = "read" => d.live /\ d.key = key
    BY <1>a, <2>1, <2>3
  <2>6. dialog # Closed => \E d \in calls' : d.kind = "op" /\ d.op = dialog.op /\ d.id = dialog.id
    BY <1>a, <2>1, <2>2
  <2> QED BY <1>a, <2>2, <2>4, <2>5, <2>6 DEF OneThing, Closed
<1>9. ASSUME NEW c \in calls, Arrives(c) \/ ReadFails(c) PROVE OneThing'
  <2>1. calls' = calls \ {c} /\ c.kind \in {"read", "stray"} /\ key' = key /\ dialog' = dialog
    BY <1>9, ReadOver
  <2> QED BY <1>a, <2>1 DEF OneThing, Closed
<1>10. ASSUME NEW c \in calls, EditorOpens(c) \/ EditorFails(c) PROVE OneThing'
  <2>1. /\ calls' = calls \ {c} /\ c.kind = "fetch" /\ key' = key
        /\ \/ dialog' = dialog
           \/ \E ver : dialog' = [op |-> c.op, row |-> c.row, page |-> c.page, id |-> c.id, ver |-> ver, busy |-> FALSE]
    BY <1>10, EditorForm
  <2>2. calls' = {} /\ c.page = key
    BY <1>a, <2>1
  <2>3. CASE dialog' = dialog
    BY <1>a, <2>1, <2>2, <2>3 DEF OneThing, Closed
  <2>4. CASE \E ver : dialog' = [op |-> c.op, row |-> c.row, page |-> c.page, id |-> c.id, ver |-> ver, busy |-> FALSE]
    BY <2>1, <2>2, <2>4 DEF OneThing, Closed
  <2> QED BY <2>1, <2>3, <2>4
<1>11. ASSUME NEW c \in calls, Done(c) PROVE OneThing'
  <2>1. c.kind = "op" /\ c.page = key /\ key' = key /\ calls \ {c} = {}
    BY <1>a, <1>11, DoneForm
  <2>2. dialog' = Closed
    <3>1. ASSUME dialog # Closed PROVE dialog' = Closed
      <4>1. dialog.busy \in BOOLEAN /\ dialog.op.opens \notin {"at-once", "inline"}
        BY <3>1, DialogType
      <4>2. c.op = dialog.op /\ c.id = dialog.id
        BY <1>a, <2>1, <3>1, <4>1
      <4> QED BY <1>11, <4>1, <4>2 DEF Done, CloseOf
    <3>2. CASE dialog = Closed
      BY <1>11, <3>2 DEF Done, CloseOf
    <3> QED BY <3>1, <3>2
  <2>3. calls' = {} \/ \E r : calls' = {r} /\ r.kind = "read" /\ r.key = c.page /\ r.live
    BY <1>11, <2>1, DoneForm
  <2> QED BY <2>1, <2>2, <2>3 DEF OneThing, Closed
<1>12. ASSUME NEW c \in calls, OpFails(c) PROVE OneThing'
  <2>1. c.kind = "op" /\ calls' = {} /\ key' = key
    BY <1>a, <1>12, OpFailsForm
  <2>2. \/ dialog' = dialog /\ (dialog = Closed \/ dialog.id # c.id)
        \/ dialog' = Closed
        \/ dialog # Closed /\ dialog' = [dialog EXCEPT !.busy = FALSE] /\ dialog'.page = dialog.page
    BY <1>12, OpFailsForm
  <2>3. CASE dialog # Closed /\ dialog' = [dialog EXCEPT !.busy = FALSE] /\ dialog'.page = dialog.page
    <3>1. ~dialog'.busy
      BY <2>3, DialogType DEF Dialog
    <3> QED BY <1>a, <2>1, <2>3, <3>1 DEF OneThing
  <2>4. CASE dialog' = dialog /\ (dialog = Closed \/ dialog.id # c.id)
    <3>1. dialog # Closed => ~dialog.busy
      BY <1>a, <2>1, <2>4
    <3> QED BY <1>a, <2>1, <2>4, <3>1 DEF OneThing, Closed
  <2>5. CASE dialog' = Closed
    BY <2>1, <2>5 DEF OneThing, Closed
  <2> QED BY <2>2, <2>3, <2>4, <2>5
<1> QED BY <1>2, <1>3, <1>4, <1>5, <1>6, <1>7, <1>8, <1>9, <1>10, <1>11, <1>12, StepCases

\* What the answer to a read leaves to see.
LEMMA ReadViews ==
  ASSUME Typed, NEW c \in calls
  PROVE  /\ Arrives(c) => /\ c.kind = "read" /\ c.at = "served"
                          /\ IF Accepted(c)
                             THEN /\ \A e \in view' : \/ e.of = c.key /\ e.ver = c.saw /\ e.real
                                                      \/ e \in view /\ panel.from = "store" /\ e.of # c.key
                                  /\ \E e \in view' : e.of = c.key
                             ELSE view' = view
         /\ ReadFails(c) => /\ c.kind = "stray" \/ (c.kind = "read" /\ Misses)
                            /\ ~Accepted(c) \/ panel.failed = "keeps" => view' = view
                            /\ Accepted(c) /\ panel.failed = "empties" =>
                                  view' \in SUBSET view /\ (panel.from # "store" => view' = {})
                            /\ Accepted(c) /\ panel.failed = "stands-in" =>
                                  \A e \in view' : e.of = c.key \/ (e \in view /\ panel.from = "store" /\ e.of # c.key)
<1>1. c.key \in Keys /\ c.saw \in Vers /\ 0 \in Vers /\ panel.failed \in {"keeps", "empties", "stands-in"}
  BY CallType, PanelType, ScreensAssumption DEF Vers, Panel
<1>2. ASSUME Arrives(c)
      PROVE  /\ c.kind = "read" /\ c.at = "served"
             /\ IF Accepted(c)
                THEN /\ \A e \in view' : \/ e.of = c.key /\ e.ver = c.saw /\ e.real
                                         \/ e \in view /\ panel.from = "store" /\ e.of # c.key
                     /\ \E e \in view' : e.of = c.key
                ELSE view' = view
  <2>1. PICK w : w = With(c.key, c.saw, TRUE)
    OBVIOUS
  <2>2. /\ \A e \in w : (e.of = c.key /\ e.ver = c.saw /\ e.real = TRUE) \/ (e \in view /\ panel.from = "store" /\ e.of # c.key)
        /\ \E e \in w : e.of = c.key
    BY <1>1, <2>1, WithType
  <2>3. c.kind = "read" /\ c.at = "served" /\ view' = IF Accepted(c) THEN w ELSE view
    BY <1>2, <2>1 DEF Arrives
  <2> QED BY <2>2, <2>3
<1>3. ASSUME ReadFails(c)
      PROVE /\ c.kind = "stray" \/ (c.kind = "read" /\ Misses)
            /\ ~Accepted(c) \/ panel.failed = "keeps" => view' = view
            /\ Accepted(c) /\ panel.failed = "empties" =>
                  view' \in SUBSET view /\ (panel.from # "store" => view' = {})
            /\ Accepted(c) /\ panel.failed = "stands-in" =>
                  \A e \in view' : e.of = c.key \/ (e \in view /\ panel.from = "store" /\ e.of # c.key)
  <2>1. PICK w : w = With(c.key, 0, FALSE)
    OBVIOUS
  <2>2. \A e \in w : e.of = c.key \/ (e \in view /\ panel.from = "store" /\ e.of # c.key)
    BY <1>1, <2>1, WithType
  <2>3. /\ c.kind = "stray" \/ (c.kind = "read" /\ Misses)
        /\ view' = IF ~Accepted(c) \/ panel.failed = "keeps" THEN view
                   ELSE IF panel.failed = "empties" THEN {e \in view : panel.from = "store" /\ e.of # c.key}
                   ELSE w
    BY <1>3, <2>1 DEF ReadFails
  <2> QED BY <1>1, <2>2, <2>3
<1> QED BY <1>2, <1>3

\* A key that is fixed.
LEMMA FixedStep ==
  ASSUME CarefulPanels, Typed, Fixed, ScreenNext
  PROVE  Fixed'
<1>0. SUFFICES ASSUME panel.by = "nothing", UNCHANGED screenWorld PROVE Fixed'
  <2>1. UNCHANGED screenWorld
    BY DEF ScreenNext, Select, Settle, Again, Click, Submit, Dismiss, CloseViewer, AnswerRead, AnswerOther, Serve,
           Arrives, ReadFails, EditorOpens, EditorFails, Done, OpFails
  <2> QED BY <2>1, WorldStays DEF Fixed
<1>1. panel' = panel /\ settled /\ calls \in SUBSET Request
  BY <1>0, WorldStays, CarefulHere, CallsType
<1>a. /\ \A e \in view : e.of = key
      /\ \A c \in calls : (c.kind = "read" => c.key = key) /\ c.kind # "stray" /\ c.page = key
      /\ dialog # Closed => dialog.page = key
  BY <1>0 DEF Fixed
<1>2. ASSUME NEW k \in Keys \cup {None}, Select(k) PROVE Fixed'
  BY <1>0, <1>2 DEF Select
<1>3. ASSUME NEW k \in Keys, Settle(k) PROVE Fixed'
  BY <1>1, <1>3 DEF Settle
<1>4. ASSUME Again PROVE Fixed'
  <2>1. key \in Keys /\ Ask(key, Cancelled(calls)) /\ key' = key /\ view' = view /\ dialog' = dialog
        /\ Cancelled(calls) \in SUBSET Request /\ \A d \in Cancelled(calls) : \E c \in calls : Like(d, c)
    BY <1>4, PanelType, CancelledKept DEF Again, Kept
  <2>2. PICK r : r = ReadOf(key)
    OBVIOUS
  <2>3. r.kind = "read" /\ r.key = key /\ r.page = key
    BY <2>1, <2>2, ReadFields
  <2>4. calls' = Cancelled(calls) \cup {r}
    BY <2>1, <2>2 DEF Ask
  <2> QED BY <1>a, <2>1, <2>3, <2>4 DEF Fixed, Like, Closed
<1>5. ASSUME NEW op \in panel.ops, NEW e \in Shown, Click(op, e) PROVE Fixed'
  <2>1. key' = key /\ view' = view
    BY <1>5, ClickForm
  <2>2. CASE op.opens \in {"confirm", "form"}
    <3>1. calls' = calls /\ dialog' = [op |-> op, row |-> e.of, page |-> key, id |-> acts', ver |-> e.ver, busy |-> FALSE]
      BY <1>5, <2>2, ClickForm
    <3> QED BY <1>a, <2>1, <3>1 DEF Fixed
  <2>3. CASE op.opens \notin {"confirm", "form"}
    <3>1. PICK r : calls' = calls \cup {r} /\ r.kind = (IF Fetches(op) THEN "fetch" ELSE "op") /\ r.page = key
      BY <1>5, <2>3, ClickForm
    <3>2. dialog' = dialog
      BY <1>5, <2>3, ClickForm
    <3> QED BY <1>a, <2>1, <3>1, <3>2 DEF Fixed, Closed
  <2> QED BY <2>2, <2>3
<1>6. ASSUME Submit PROVE Fixed'
  <2>1. dialog # Closed /\ key' = key /\ view' = view /\ dialog' = [dialog EXCEPT !.busy = TRUE]
    BY <1>6, SubmitForm
  <2>2. PICK r :
              /\ calls' = calls \cup {r} /\ r.kind = "op"
              /\ r.page = (IF dialog.op.opens = "confirm" \/ dialog.op.aim = "opened" THEN dialog.page ELSE key)
    BY <1>6, SubmitForm
  <2>3. dialog'.page = dialog.page
    BY <2>1, DialogType DEF Dialog
  <2> QED BY <1>a, <2>1, <2>2, <2>3 DEF Fixed
<1>7. ASSUME Dismiss \/ CloseViewer PROVE Fixed'
  BY <1>1, <1>a, <1>7 DEF Fixed, Dismiss, CloseViewer, Closed
<1>8. ASSUME NEW c \in calls, Serve(c) PROVE Fixed'
  <2>1. PICK r : calls' = (calls \ {c}) \cup {r} /\ r.kind = c.kind /\ r.key = c.key /\ r.page = c.page
    BY <1>8, ServeForm
  <2>2. key' = key /\ dialog' = dialog /\ view' = view
    BY <1>8, ServeForm
  <2> QED BY <1>a, <2>1, <2>2 DEF Fixed, Closed
<1>9. ASSUME NEW c \in calls, Arrives(c) \/ ReadFails(c) PROVE Fixed'
  <2>1. calls' = calls \ {c} /\ key' = key /\ dialog' = dialog
    BY <1>9, ReadOver
  <2>2. c.key = key
    BY <1>9, <1>a, ReadOver
  <2>3. \A e \in view' : e.of = key
    BY <1>9, <1>a, <2>2, ReadViews, PanelType DEF Panel
  <2> QED BY <1>a, <2>1, <2>3 DEF Fixed, Closed
<1>10. ASSUME NEW c \in calls, EditorOpens(c) \/ EditorFails(c) PROVE Fixed'
  <2>1. /\ calls' = calls \ {c} /\ key' = key /\ view' = view
        /\ \/ dialog' = dialog
           \/ \E ver : dialog' = [op |-> c.op, row |-> c.row, page |-> c.page, id |-> c.id, ver |-> ver, busy |-> FALSE]
    BY <1>10, EditorForm
  <2>2. dialog' # Closed => dialog'.page = key
    BY <1>a, <2>1 DEF Closed
  <2> QED BY <1>a, <2>1, <2>2 DEF Fixed, Closed
<1>11. ASSUME NEW c \in calls, Done(c) PROVE Fixed'
  <2>1. c.page = key /\ key' = key /\ dialog' \in {dialog, Closed}
    BY <1>a, <1>11, DoneForm
  <2>2. \A e \in view' : e.of = key
    BY <1>a, <1>11, DoneForm
  <2>3. calls' = calls \ {c} \/ \E r : calls' = (calls \ {c}) \cup {r} /\ r.kind = "read" /\ r.key = c.page /\ r.page = c.page
    BY <1>11, DoneForm
  <2> QED BY <1>a, <2>1, <2>2, <2>3 DEF Fixed, Closed
<1>12. ASSUME NEW c \in calls, OpFails(c) PROVE Fixed'
  <2>1. calls' = calls \ {c} /\ key' = key /\ view' = view
    BY <1>12, OpFailsForm
  <2>2. dialog' = dialog \/ dialog' = Closed \/ (dialog # Closed /\ dialog'.page = dialog.page)
    BY <1>12, OpFailsForm
  <2> QED BY <1>a, <2>1, <2>2 DEF Fixed, Closed
<1> QED BY <1>2, <1>3, <1>4, <1>5, <1>6, <1>7, <1>8, <1>9, <1>10, <1>11, <1>12, StepCases

-----------------------------------------------------------------------------
(* Contents *)

Held == LiveReads /\ OldContents /\ OneLive /\ Masked

\* What the pages have in common, for their contents.
LEMMA CarefulReads ==
  ASSUME CarefulPanels, Typed
  PROVE  /\ panel.from # "own" => "filter" \in panel.guard
         /\ "cancel" \in panel.guard => panel.from = "own" /\ \A op \in panel.ops : ~Lists(op)
         /\ panel.masks => panel.spinner = "if-current" /\ "cancel" \in panel.guard /\ HasFlag
         /\ panel.stray => panel.failed = "empties"
         /\ Tracked => panel.from = "own"
BY CarefulHere DEF Careful, Lists, HasFlag, Tracked

\* The reads and the contents stay, and the key.
LEMMA HeldStays ==
  ASSUME Held, UNCHANGED <<key, view, spin, screenWorld>>,
         \A d : d.kind = "read" => (d \in calls' <=> d \in calls)
  PROVE  Held'
<1>1. /\ panel' = panel /\ (InTurn' <=> InTurn) /\ (Keeps' <=> Keeps) /\ (Tracked' <=> Tracked)
  BY WorldStays
<1>2. (\E c \in calls : c.kind = "read" /\ c.live) <=> (\E c \in calls' : c.kind = "read" /\ c.live)
  OBVIOUS
<1>3. Awaited' <=> Awaited
  BY DEF Awaited
<1>4. LiveReads' /\ OldContents'
  BY <1>1, <1>3 DEF Held, LiveReads, OldContents
<1>5. OneLive'
  BY <1>1 DEF Held, OneLive
<1>6. Masked'
  BY <1>1, <1>2 DEF Held, Masked
<1> QED BY <1>4, <1>5, <1>6 DEF Held

\* A new key, or the same read again.
LEMMA HeldEnters ==
  ASSUME CarefulPanels, Typed, Held, NEW k, NEW asks \in BOOLEAN, NEW added, Entering(k, asks, added),
         key' = k, UNCHANGED screenWorld, InTurn => calls = {},
         panel.from = "own" /\ k # None => asks,
         k # None /\ k # key /\ panel.from = "own" /\ panel.blank => view' = {},
         view' = view \/ view' = {},
         k # None /\ ~asks => k # key
  PROVE  Held'
<1>1. /\ panel' = panel /\ (InTurn' <=> InTurn) /\ (Keeps' <=> Keeps) /\ (Tracked' <=> Tracked)
  BY WorldStays
<1>2. /\ panel.from # "own" => "filter" \in panel.guard
      /\ "cancel" \in panel.guard => panel.from = "own"
      /\ panel.masks => "cancel" \in panel.guard /\ HasFlag
      /\ Tracked => panel.from = "own"
  BY CarefulReads
<1>3. /\ calls' = Cancelled(calls) \cup added
      /\ \A d \in added : d.key = k /\ d.live
      /\ \A d, e \in added : d.kind = e.kind => d = e
      /\ ~asks => added = {}
      /\ asks => (\E d \in added : d.kind = "read") /\ spin' = HasFlag
  BY DEF Entering
<1>4. /\ "cancel" \in panel.guard => \A d \in Cancelled(calls) : d.kind = "read" => ~d.live
      /\ calls = {} => Cancelled(calls) = {}
  BY CancelledKept
<1>5. Tracked => \A d \in calls' : d.kind = "read" /\ d.live => d.key = k
  BY <1>3, <1>4 DEF Tracked
<1>6. LiveReads'
  BY <1>1, <1>5 DEF LiveReads
<1>7. OldContents'
  <2> SUFFICES ASSUME Tracked, k # None, \E e \in view' : e.of # k
               PROVE  ~panel.blank /\ (Keeps \/ Awaited')
    BY <1>1 DEF OldContents
  <2>1. asks
    BY <1>2
  <2>2. PICK d \in added : d.kind = "read"
    BY <1>3, <2>1
  <2>3. Awaited'
    BY <1>3, <2>2 DEF Awaited
  <2>4. ~panel.blank
    <3>1. view' = view /\ \E e \in view : e.of # k
      OBVIOUS
    <3>2. CASE k = key
      BY <3>1, <3>2 DEF Held, OldContents
    <3>3. CASE k # key
      BY <1>2, <3>1, <3>3
    <3> QED BY <3>2, <3>3
  <2> QED BY <2>3, <2>4
<1>8. OneLive'
  BY <1>1, <1>3, <1>4 DEF OneLive
<1>9. Masked'
  <2> SUFFICES ASSUME panel.masks, NEW c \in calls', c.kind = "read", c.live PROVE spin'
    BY <1>1 DEF Masked
  <2>1. c \in added
    BY <1>2, <1>3, <1>4
  <2>2. asks
    BY <1>3, <2>1
  <2>3. HasFlag = TRUE /\ spin' = HasFlag
    BY <1>2, <1>3, <2>2, PanelType
  <2> QED BY <2>3
<1> QED BY <1>6, <1>7, <1>8, <1>9 DEF Held

LEMMA HeldStep ==
  ASSUME CarefulPanels, Typed, OneThing, Held, ScreenNext
  PROVE  Held'
<1>0. UNCHANGED screenWorld
  BY DEF ScreenNext, Select, Settle, Again, Click, Submit, Dismiss, CloseViewer, AnswerRead, AnswerOther, Serve,
         Arrives, ReadFails, EditorOpens, EditorFails, Done, OpFails
<1>1. /\ panel' = panel /\ (InTurn' <=> InTurn) /\ (Keeps' <=> Keeps) /\ (Tracked' <=> Tracked)
      /\ panel.from # "own" => "filter" \in panel.guard
      /\ "cancel" \in panel.guard => panel.from = "own" /\ \A op \in panel.ops : ~Lists(op)
      /\ panel.masks => panel.spinner = "if-current" /\ "cancel" \in panel.guard /\ HasFlag
      /\ panel.stray => panel.failed = "empties"
      /\ Tracked => panel.from = "own"
  BY <1>0, WorldStays, CarefulReads
<1>2. ASSUME NEW k \in Selections, Effect(k), InTurn => calls = {}, k # key PROVE Held'
  <2>1. PICK asks \in BOOLEAN : asks = (k # None /\ Needs(k))
    OBVIOUS
  <2>2. PICK added : Entering(k, asks, added)
    BY <1>2, <2>1, EffectEnters
  <2>3. key' = k /\ (view' = view \/ view' = {}) /\ (panel.from = "own" /\ panel.blank => view' = {})
    BY <1>2 DEF Effect
  <2>4. panel.from = "own" /\ k # None => asks
    BY <2>1 DEF Needs
  <2> QED BY <1>0, <1>2, <2>2, <2>3, <2>4, HeldEnters
<1>3. ASSUME NEW k \in Keys \cup {None}, Select(k) PROVE Held'
  <2>1. k \in Selections /\ Effect(k) /\ k # key /\ (InTurn => calls = {})
    BY <1>3 DEF Select, Acts, Quiet
  <2> QED BY <1>2, <2>1
<1>4. ASSUME NEW k \in Keys, Settle(k) PROVE Held'
  <2>1. ~InTurn /\ k \in Selections
    BY <1>4, CarefulHere, PanelType DEF Settle
  <2>2. CASE k = key
    BY <1>0, <1>4, <2>2, HeldStays DEF Settle
  <2>3. CASE k # key
    BY <1>2, <1>4, <2>1, <2>3 DEF Settle
  <2> QED BY <2>2, <2>3
<1>5. ASSUME Again PROVE Held'
  <2>1. key \in Keys /\ key # None /\ Ask(key, Cancelled(calls)) /\ key' = key /\ view' = view /\ (InTurn => calls = {})
    BY <1>5, PanelType DEF Again, Acts, Quiet
  <2>2. PICK added : Entering(key, TRUE, added)
    BY <2>1, AskEnters
  <2> QED BY <1>0, <2>1, <2>2, HeldEnters
<1>6. ASSUME NEW op \in panel.ops, NEW e \in Shown, Click(op, e) PROVE Held'
  <2>1. UNCHANGED <<key, view, spin, screenWorld>>
    BY <1>6, ClickForm
  <2>2. calls' = calls \/ \E r : calls' = calls \cup {r} /\ r.kind = (IF Fetches(op) THEN "fetch" ELSE "op")
    BY <1>6, ClickForm
  <2>3. \A d : d.kind = "read" => (d \in calls' <=> d \in calls)
    BY <2>2
  <2> QED BY <2>1, <2>3, HeldStays
<1>7. ASSUME Submit PROVE Held'
  <2>1. UNCHANGED <<key, view, spin, screenWorld>> /\ \E r : calls' = calls \cup {r} /\ r.kind = "op"
    BY <1>7, SubmitForm
  <2> QED BY <2>1, HeldStays
<1>8. ASSUME Dismiss \/ CloseViewer PROVE Held'
  BY <1>8, HeldStays DEF Dismiss, CloseViewer
<1>9. ASSUME NEW c \in calls, EditorOpens(c) \/ EditorFails(c) PROVE Held'
  <2>1. UNCHANGED <<key, view, spin, screenWorld>> /\ calls' = calls \ {c} /\ c.kind = "fetch"
    BY <1>9, EditorForm
  <2> QED BY <2>1, HeldStays
<1>10. ASSUME NEW c \in calls, OpFails(c) PROVE Held'
  <2>1. UNCHANGED <<key, view, spin, screenWorld>> /\ calls' = calls \ {c} /\ c.kind = "op"
    BY <1>10, OpFailsForm
  <2> QED BY <2>1, HeldStays
<1>11. ASSUME NEW c \in calls, Serve(c) PROVE Held'
  <2>1. UNCHANGED <<key, view, spin, screenWorld>>
    BY <1>11, ServeForm
  <2>2. PICK r : calls' = (calls \ {c}) \cup {r} /\ r.kind = c.kind /\ r.key = c.key /\ (r.live <=> c.live)
    BY <1>11, ServeForm
  <2>3. LiveReads'
    BY <1>1, <2>1, <2>2 DEF Held, LiveReads
  <2>4. Awaited => Awaited'
    BY <2>1, <2>2 DEF Awaited
  <2>5. OldContents'
    BY <1>1, <2>1, <2>4 DEF Held, OldContents
  <2>6. OneLive'
    <3> SUFFICES ASSUME "cancel" \in panel.guard, NEW d \in calls', NEW f \in calls',
                        d.kind = "read", f.kind = "read", d.live, f.live
                 PROVE  d = f
      BY <1>1 DEF OneLive
    <3>1. \A x, y \in calls : x.kind = "read" /\ y.kind = "read" /\ x.live /\ y.live => x = y
      BY DEF Held, OneLive
    <3> QED BY <2>2, <3>1
  <2>7. Masked'
    BY <1>1, <2>1, <2>2 DEF Held, Masked
  <2> QED BY <2>3, <2>5, <2>6, <2>7 DEF Held
<1>12. ASSUME NEW c \in calls, Done(c) PROVE Held'
  <2>1. c.kind = "op" /\ c.op \in panel.ops /\ key' = key /\ view \in SUBSET Entry
    BY <1>12, DoneForm DEF Typed, ScreenTypeOK
  <2>2. CASE Lists(c.op)
    <3>1. PICK r : /\ calls' = (calls \ {c}) \cup {r}
                   /\ r.kind = "read" /\ r.key = c.page /\ r.live
      BY <1>12, <2>2, DoneForm
    <3>2. view' = view /\ "cancel" \notin panel.guard /\ ~panel.masks
      BY <1>1, <1>12, <2>1, <2>2, DoneForm
    <3>3. Tracked => c.page = key
      BY <2>1, <3>2 DEF Tracked, OneThing
    <3>4. LiveReads'
      BY <1>1, <2>1, <3>1, <3>3 DEF Held, LiveReads
    <3>5. Awaited => Awaited'
      BY <2>1, <3>1 DEF Awaited
    <3>6. OldContents'
      BY <1>1, <2>1, <3>2, <3>5 DEF Held, OldContents
    <3> QED BY <1>1, <3>2, <3>4, <3>6 DEF Held, OneLive, Masked
  <2>3. CASE ~Lists(c.op)
    <3>1. calls' = calls \ {c} /\ spin' = spin
      BY <1>12, <2>3, DoneForm
    <3>2. (\A e \in view' : \E d \in view : e.of = d.of)
      BY <1>12, <2>3, DoneForm
    <3>3. LiveReads' /\ OneLive'
      BY <1>1, <2>1, <3>1 DEF Held, LiveReads, OneLive
    <3>4. Awaited => Awaited'
      BY <2>1, <3>1 DEF Awaited
    <3>5. OldContents'
      BY <1>1, <2>1, <3>2, <3>4 DEF Held, OldContents
    <3>6. Masked'
      <4>1. view = {} => view' = {}
        BY <3>2
      <4> QED BY <1>1, <3>1, <4>1 DEF Held, Masked
    <3> QED BY <3>3, <3>5, <3>6 DEF Held
  <2> QED BY <2>2, <2>3
<1>13. ASSUME NEW c \in calls, Arrives(c) \/ ReadFails(c) PROVE Held'
  <2>1. calls' = calls \ {c} /\ c.kind \in {"read", "stray"} /\ key' = key /\ spin' = Cleared(c)
    BY <1>13, ReadOver
  <2>2. LiveReads' /\ OneLive'
    BY <1>1, <2>1 DEF Held, LiveReads, OneLive
  <2>3. c.live \in BOOLEAN /\ (c.kind = "stray" => panel.stray /\ c.live)
    BY CallType
  <2>4. Tracked /\ Accepted(c) /\ c.kind = "read" => c.key = key
    BY <2>1, <2>3 DEF Held, LiveReads, Tracked, Accepted, OneThing
  <2>5. OldContents'
    <3> SUFFICES ASSUME Tracked, key # None, NEW e \in view', e.of # key
                 PROVE  ~panel.blank /\ (Keeps \/ Awaited')
      BY <1>1, <2>1 DEF OldContents
    <3>1. ASSUME ~Accepted(c) PROVE ~panel.blank /\ (Keeps \/ Awaited')
      <4>1. view' = view /\ ~c.live
        BY <1>13, <2>3, <3>1, ReadViews DEF Accepted
      <4>2. Awaited => Awaited'
        BY <2>1, <4>1 DEF Awaited
      <4> QED BY <4>1, <4>2 DEF Held, OldContents
    <3>2. ASSUME Accepted(c), c.kind = "stray" PROVE FALSE
      <4>1. panel.failed = "empties" /\ panel.from = "own"
        BY <1>1, <2>3, <3>2
      <4>2. ReadFails(c)
        BY <1>13, <3>2 DEF Arrives
      <4> QED BY <3>2, <4>1, <4>2, ReadViews
    <3>3. ASSUME Accepted(c), Arrives(c) PROVE FALSE
      <4>1. c.kind = "read" /\ e.of = c.key
        BY <1>1, <3>3, ReadViews
      <4> QED BY <2>4, <3>3, <4>1
    <3>4. ASSUME Accepted(c), ReadFails(c), c.kind = "read" PROVE ~panel.blank /\ (Keeps \/ Awaited')
      <4>1. Misses /\ panel.failed \in {"keeps", "empties", "stands-in"}
        BY <3>4, ReadViews, PanelType DEF Panel
      <4>2. CASE panel.failed = "keeps"
        <5>1. view' = view
          BY <3>4, <4>2, ReadViews
        <5> QED BY <4>1, <4>2, <5>1 DEF Held, OldContents, Keeps
      <4>3. CASE panel.failed = "empties"
        BY <1>1, <3>4, <4>3, ReadViews
      <4>4. CASE panel.failed = "stands-in"
        BY <1>1, <2>4, <3>4, <4>4, ReadViews
      <4> QED BY <4>1, <4>2, <4>3, <4>4
    <3> QED BY <1>13, <2>1, <3>1, <3>2, <3>3, <3>4
  <2>6. Masked'
    <3> SUFFICES ASSUME panel.masks, NEW d \in calls', d.kind = "read", d.live PROVE spin' \/ view' = {}
      BY <1>1 DEF Masked
    <3>1. d \in calls /\ d # c /\ "cancel" \in panel.guard /\ panel.spinner = "if-current" /\ panel.from = "own"
      BY <1>1, <2>1
    <3>2. CASE c.kind = "read"
      <4>1. ~c.live
        BY <3>1, <3>2 DEF Held, OneLive
      <4>2. spin' = spin /\ view' = view
        BY <1>13, <2>1, <3>1, <4>1, ReadViews DEF Cleared, Accepted
      <4> QED BY <3>1, <4>2 DEF Held, Masked
    <3>3. CASE c.kind = "stray"
      <4>1. ReadFails(c) /\ Accepted(c) /\ panel.failed = "empties"
        BY <1>1, <1>13, <2>3, <3>3 DEF Arrives, Accepted
      <4> QED BY <3>1, <4>1, ReadViews
    <3> QED BY <2>1, <3>2, <3>3
  <2> QED BY <2>2, <2>5, <2>6 DEF Held
<1> QED BY <1>3, <1>4, <1>5, <1>6, <1>7, <1>8, <1>9, <1>10, <1>11, <1>12, <1>13, StepCases

Contents == Typed /\ Fixed /\ OneThing /\ Held

LEMMA InitContents ==
  ASSUME ScreenInit
  PROVE  Contents
<1>1. Typed
  BY InitTyped
<1>2. view = {} /\ dialog = Closed
  BY DEF ScreenInit
<1>3. Fixed /\ OneThing /\ LiveReads /\ OldContents /\ OneLive
  BY <1>2, InitCalls DEF Fixed, OneThing, LiveReads, OldContents, OneLive
<1>4. Masked
  BY <1>2 DEF Masked
<1> QED BY <1>1, <1>3, <1>4 DEF Contents, Held

LEMMA StutterStays ==
  ASSUME UNCHANGED screenVars
  PROVE  UNCHANGED <<key, server, view, spin, dialog, viewer, calls, acts, settled, screenWorld>>
BY DEF screenVars

LEMMA StepContents ==
  ASSUME CarefulPanels, Contents, [ScreenNext]_screenVars
  PROVE  Contents'
<1>1. Typed'
  BY StepTyped DEF Contents
<1>2. CASE ScreenNext
  BY <1>1, <1>2, FixedStep, OneThingStep, HeldStep DEF Contents
<1>3. CASE UNCHANGED screenVars
  <2>1. UNCHANGED <<key, server, view, spin, dialog, viewer, calls, acts, settled, screenWorld>>
    BY <1>3, StutterStays
  <2>2. Held'
    BY <2>1, HeldStays DEF Contents
  <2>3. Fixed' /\ OneThing'
    BY <2>1, WorldStays DEF Contents, Fixed, OneThing, Closed
  <2> QED BY <1>1, <2>2, <2>3 DEF Contents
<1> QED BY <1>2, <1>3

LEMMA ContentsShow ==
  ASSUME CarefulPanels, Contents
  PROVE  ShowsItsKey
<1> SUFFICES ASSUME Guarded \/ InTurn, NEW e \in Shown, e.of # key
             PROVE  "filter" \notin panel.guard /\ ~panel.blank
                       /\ (Keeps \/ (~panel.masks /\ \E c \in Reads : c.key = key /\ c.live))
  BY DEF ShowsItsKey
<1>1. e \in view /\ key # None /\ ~(panel.masks /\ spin) /\ "filter" \notin panel.guard
  BY DEF Shown
<1>2. panel.by # "nothing"
  BY <1>1 DEF Contents, Fixed
<1>3. panel.guard \in SUBSET {"filter", "cancel"}
  BY PanelType DEF Contents, Panel
<1>4. Tracked
  BY <1>1, <1>2, <1>3, CarefulReads DEF Contents, Guarded, Tracked
<1>5. ~panel.blank /\ (Keeps \/ Awaited)
  BY <1>1, <1>4 DEF Contents, Held, OldContents
<1>6. ASSUME Awaited PROVE ~panel.masks /\ \E c \in Reads : c.key = key /\ c.live
  BY <1>1, <1>6 DEF Awaited, Contents, Held, Masked, Reads
<1> QED BY <1>1, <1>5, <1>6

-----------------------------------------------------------------------------
(* Rows *)

RowsOK == RowsAimed /\ DialogAims

LEMMA AimsStay ==
  ASSUME UNCHANGED screenWorld
  PROVE  \A op : (LateForm(op)' <=> LateForm(op)) /\ (Astray(op)' <=> Astray(op))
BY WorldStays DEF LateForm, Astray

\* The namespace of a row that is clicked.
LEMMA ClickAims ==
  ASSUME CarefulPanels, Contents, NEW op \in panel.ops, NEW e \in Shown, InTurn => calls = {}
  PROVE  op.aim = "row" \/ e.of = key \/ Astray(op)
<1> SUFFICES ASSUME op.aim # "row", e.of # key PROVE ~Guarded /\ (~InTurn \/ Keeps)
  BY DEF Astray
<1>1. e \in view /\ key # None /\ "filter" \notin panel.guard
  BY DEF Shown
<1>2. panel.by # "nothing"
  BY <1>1 DEF Contents, Fixed
<1>3. panel.guard \in SUBSET {"filter", "cancel"}
  BY PanelType DEF Contents, Panel
<1>4. panel.guard # {"cancel"}
  BY <1>2, CarefulHere DEF Contents, Careful
<1>5. ~Guarded
  BY <1>1, <1>2, <1>3, <1>4 DEF Guarded
<1>6. ASSUME InTurn PROVE Keeps
  <2>1. Keeps \/ \E c \in Reads : c.key = key
    BY <1>6, ContentsShow DEF ShowsItsKey
  <2> QED BY <1>6, <2>1 DEF Reads
<1> QED BY <1>5, <1>6

\* Requests that go on are aimed as they were.
LEMMA RowsStay ==
  ASSUME CarefulPanels, Contents, RowsOK, UNCHANGED screenWorld,
         \A d \in calls' : d.kind \in {"fetch", "op"} => \E c \in calls : Like(d, c),
         key' = key \/ \A c \in calls : c.kind = "fetch" /\ c.op.aim = "page" => LateForm(c.op)
  PROVE  RowsAimed' /\ \A d \in calls' : d.kind = "fetch" => Aims(d.op, d.row, d.page)'
<1>1. \A op : (LateForm(op)' <=> LateForm(op)) /\ (Astray(op)' <=> Astray(op))
  BY AimsStay
<1>2. RowsAimed'
  BY <1>1 DEF RowsOK, RowsAimed, Like
<1>3. ASSUME NEW d \in calls', d.kind = "fetch" PROVE Aims(d.op, d.row, d.page)'
  <2>1. PICK c \in calls : c.kind = "fetch" /\ c.op = d.op /\ c.row = d.row /\ c.page = d.page
    BY <1>3 DEF Like
  <2>2. Aims(c.op, c.row, c.page)
    BY <2>1 DEF RowsOK, DialogAims
  <2> QED BY <1>1, <2>1, <2>2 DEF Aims
<1> QED BY <1>2, <1>3

LEMMA SelfLike ==
  ASSUME Typed
  PROVE  \A c \in calls : Like(c, c)
BY CallType DEF Like

\* The effects of a new key leave the requests of operations.
LEMMA EnteringLike ==
  ASSUME Typed, NEW k, NEW asks, NEW added, Entering(k, asks, added)
  PROVE  \A d \in calls' : d.kind \in {"fetch", "op"} => \E c \in calls : Like(d, c)
BY CancelledKept DEF Entering, Kept

LEMMA RowsStep ==
  ASSUME CarefulPanels, Contents, RowsOK, ScreenNext
  PROVE  RowsOK'
<1>0. UNCHANGED screenWorld /\ Typed
  BY DEF ScreenNext, Select, Settle, Again, Click, Submit, Dismiss, CloseViewer, AnswerRead, AnswerOther, Serve,
         Arrives, ReadFails, EditorOpens, EditorFails, Done, OpFails, Contents
<1>1. \A op : (LateForm(op)' <=> LateForm(op)) /\ (Astray(op)' <=> Astray(op))
  BY <1>0, AimsStay
<1>2. \A c \in calls : Like(c, c)
  BY <1>0, SelfLike
<1>a. /\ \A c \in calls : c.kind \in {"fetch", "op"} => c.key = c.row \/ LateForm(c.op) \/ Astray(c.op)
      /\ dialog # Closed => Aims(dialog.op, dialog.row, dialog.page)
      /\ \A c \in calls : c.kind = "fetch" => Aims(c.op, c.row, c.page)
  BY DEF RowsOK, RowsAimed, DialogAims
<1>3. ASSUME NEW k \in Selections, k # key, Effect(k), dialog' = dialog, settled => (dialog = Closed /\ (InTurn => calls = {}))
      PROVE  RowsOK'
  <2>1. PICK added : Entering(k, k # None /\ Needs(k), added)
    BY <1>0, <1>3, EffectEnters
  <2>2. \A d \in calls' : d.kind \in {"fetch", "op"} => \E c \in calls : Like(d, c)
    BY <1>0, <2>1, EnteringLike
  <2>3. ASSUME NEW c \in calls, c.kind = "fetch", c.op.aim = "page" PROVE LateForm(c.op)
    <3>1. Fetches(c.op) /\ (Settling \/ ~InTurn)
      BY <1>0, <1>3, <2>3, CallType, CarefulHere
    <3> QED BY <2>3, <3>1 DEF LateForm, Fetches
  <2>4. RowsAimed' /\ \A d \in calls' : d.kind = "fetch" => Aims(d.op, d.row, d.page)'
    BY <1>0, <2>2, <2>3, RowsStay
  <2>5. ASSUME dialog # Closed PROVE Aims(dialog.op, dialog.row, dialog.page)'
    <3>1. Settling /\ dialog.op \in panel.ops /\ dialog.op.opens \notin {"at-once", "inline"}
      BY <1>0, <1>3, <2>5, DialogType DEF Typed, Late
    <3>2. dialog.op.aim = "page" => LateForm(dialog.op)
      BY <1>0, <3>1, CarefulHere DEF Careful, LateForm
    <3>3. Aims(dialog.op, dialog.row, dialog.page)
      BY <1>a, <2>5
    <3> QED BY <1>1, <1>3, <3>2, <3>3 DEF Aims
  <2> QED BY <1>3, <2>4, <2>5 DEF RowsOK, DialogAims, Closed
<1>4. ASSUME UNCHANGED <<key, dialog>>, \A d \in calls' : d.kind \in {"fetch", "op"} => \E c \in calls : Like(d, c)
      PROVE  RowsOK'
  <2>1. RowsAimed' /\ \A d \in calls' : d.kind = "fetch" => Aims(d.op, d.row, d.page)'
    BY <1>0, <1>4, RowsStay
  <2>2. dialog' # Closed => Aims(dialog.op, dialog.row, dialog.page)'
    BY <1>1, <1>a, <1>4 DEF Aims, Closed
  <2> QED BY <1>4, <2>1, <2>2 DEF RowsOK, DialogAims, Closed
<1>5. ASSUME NEW k \in Keys \cup {None}, Select(k) PROVE RowsOK'
  <2>1. k \in Selections /\ Effect(k) /\ k # key /\ dialog' = dialog /\ dialog = Closed /\ (InTurn => calls = {})
    BY <1>5 DEF Select, Acts, Quiet, Unmasked
  <2> QED BY <1>3, <2>1
<1>6. ASSUME NEW k \in Keys, Settle(k) PROVE RowsOK'
  <2>1. k \in Selections /\ dialog' = dialog /\ ~settled
    BY <1>0, <1>6, PanelType DEF Settle
  <2>2. CASE k = key
    BY <1>2, <1>4, <1>6, <2>1, <2>2 DEF Settle
  <2>3. CASE k # key
    BY <1>3, <1>6, <2>1, <2>3 DEF Settle
  <2> QED BY <2>2, <2>3
<1>7. ASSUME Again PROVE RowsOK'
  <2>1. key \in Keys /\ Ask(key, Cancelled(calls)) /\ UNCHANGED <<key, dialog>>
    BY <1>0, <1>7, PanelType DEF Again
  <2>2. PICK added : Entering(key, TRUE, added)
    BY <1>0, <2>1, AskEnters
  <2> QED BY <1>0, <1>4, <2>1, <2>2, EnteringLike
<1>8. ASSUME NEW op \in panel.ops, NEW e \in Shown, Click(op, e) PROVE RowsOK'
  <2>1. key' = key /\ (InTurn => calls = {})
    BY <1>8 DEF Click, Acts, Quiet
  <2>2. op.aim = "row" \/ e.of = key \/ Astray(op)
    BY <2>1, ClickAims
  <2>3. CASE op.opens \in {"confirm", "form"}
    <3>1. PICK d : d = [op |-> op, row |-> e.of, page |-> key, id |-> acts', ver |-> e.ver, busy |-> FALSE]
      OBVIOUS
    <3>2. calls' = calls /\ dialog' = d /\ d.op = op /\ d.row = e.of /\ d.page = key
      BY <1>0, <1>8, <2>3, <3>1, ClickForm
    <3>3. RowsAimed' /\ \A c \in calls' : c.kind = "fetch" => Aims(c.op, c.row, c.page)'
      BY <1>0, <1>2, <2>1, <3>2, RowsStay
    <3>4. Aims(d.op, d.row, d.page)'
      BY <1>1, <2>1, <2>2, <3>2 DEF Aims
    <3> QED BY <3>2, <3>3, <3>4 DEF RowsOK, DialogAims
  <2>4. CASE op.opens \notin {"confirm", "form"}
    <3>1. PICK r : /\ calls' = calls \cup {r}
                   /\ r.kind = (IF Fetches(op) THEN "fetch" ELSE "op") /\ r.op = op /\ r.row = e.of
                   /\ r.page = key /\ r.key = (IF op.aim = "row" THEN e.of ELSE key)
      BY <1>0, <1>8, <2>4, ClickForm
    <3>2. dialog' = dialog
      BY <1>0, <1>8, <2>4, ClickForm
    <3>3. r.key = r.row \/ LateForm(r.op) \/ Astray(r.op)
      BY <2>2, <3>1
    <3>4. Aims(r.op, r.row, r.page)'
      BY <1>1, <2>1, <2>2, <3>1 DEF Aims
    <3>5. \A c \in calls : c.kind = "fetch" => Aims(c.op, c.row, c.page)'
      BY <1>1, <1>a, <2>1 DEF Aims
    <3>6. dialog # Closed => Aims(dialog.op, dialog.row, dialog.page)'
      BY <1>1, <1>a, <2>1, <3>2 DEF Aims
    <3>7. RowsAimed'
      BY <1>1, <1>a, <3>1, <3>3 DEF RowsAimed
    <3> QED BY <3>1, <3>2, <3>4, <3>5, <3>6, <3>7 DEF RowsOK, DialogAims, Closed
  <2> QED BY <2>3, <2>4
<1>9. ASSUME Submit PROVE RowsOK'
  <2>1. dialog # Closed /\ key' = key /\ dialog' = [dialog EXCEPT !.busy = TRUE]
    BY <1>0, <1>9, SubmitForm
  <2>2. PICK r : /\ calls' = calls \cup {r}
                 /\ r.kind = "op" /\ r.op = dialog.op /\ r.row = dialog.row
                 /\ r.key = Target(dialog.op, dialog.row, dialog.page)
    BY <1>0, <1>9, SubmitForm
  <2>3. dialog'.op = dialog.op /\ dialog'.row = dialog.row /\ dialog'.page = dialog.page
    BY <1>0, <2>1, DialogType DEF Dialog
  <2>4. dialog.op.aim \in {"row", "opened", "page"}
    BY <1>0, <2>1, DialogType, OperationType
  <2>5. r.key = r.row \/ LateForm(r.op) \/ Astray(r.op)
    BY <1>a, <2>1, <2>2, <2>4 DEF Aims, Target
  <2>6. RowsAimed'
    BY <1>1, <1>a, <2>2, <2>5 DEF RowsAimed
  <2>7. \A c \in calls : c.kind = "fetch" => Aims(c.op, c.row, c.page)'
    BY <1>1, <1>a, <2>1 DEF Aims
  <2>8. Aims(dialog.op, dialog.row, dialog.page)'
    BY <1>1, <1>a, <2>1, <2>3 DEF Aims
  <2> QED BY <2>2, <2>6, <2>7, <2>8 DEF RowsOK, DialogAims
<1>10. ASSUME Dismiss \/ CloseViewer PROVE RowsOK'
  <2>1. UNCHANGED <<key, calls>> /\ dialog' \in {dialog, Closed}
    BY <1>10 DEF Dismiss, CloseViewer
  <2>2. CASE dialog' = dialog
    BY <1>2, <1>4, <2>1, <2>2
  <2>3. CASE dialog' = Closed
    <3>1. RowsAimed' /\ \A d \in calls' : d.kind = "fetch" => Aims(d.op, d.row, d.page)'
      BY <1>0, <1>2, <2>1, RowsStay
    <3> QED BY <2>3, <3>1 DEF RowsOK, DialogAims, Closed
  <2> QED BY <2>1, <2>2, <2>3
<1>11. ASSUME NEW c \in calls, Serve(c) PROVE RowsOK'
  <2>1. PICK r \in Request :
              /\ calls' = (calls \ {c}) \cup {r}
              /\ r.n = c.n /\ r.kind = c.kind /\ r.op = c.op /\ r.key = c.key /\ r.page = c.page
              /\ r.row = c.row /\ r.id = c.id /\ r.base = c.base /\ (r.live <=> c.live)
    BY <1>0, <1>11, ServeForm
  <2>2. UNCHANGED <<key, dialog>> /\ Like(r, c)
    BY <1>0, <1>11, <2>1, ServeForm DEF Like
  <2> QED BY <1>2, <1>4, <2>1, <2>2
<1>12. ASSUME NEW c \in calls, Arrives(c) \/ ReadFails(c) PROVE RowsOK'
  <2>1. calls' = calls \ {c} /\ UNCHANGED <<key, dialog>>
    BY <1>0, <1>12, ReadOver
  <2> QED BY <1>2, <1>4, <2>1
<1>13. ASSUME NEW c \in calls, EditorOpens(c) \/ EditorFails(c) PROVE RowsOK'
  <2>1. /\ calls' = calls \ {c} /\ key' = key /\ c.kind = "fetch"
        /\ \/ dialog' = dialog
           \/ \E ver : dialog' = [op |-> c.op, row |-> c.row, page |-> c.page, id |-> c.id, ver |-> ver, busy |-> FALSE]
    BY <1>0, <1>13, EditorForm
  <2>2. CASE dialog' = dialog
    BY <1>2, <1>4, <2>1, <2>2
  <2>3. CASE \E ver : dialog' = [op |-> c.op, row |-> c.row, page |-> c.page, id |-> c.id, ver |-> ver, busy |-> FALSE]
    <3>1. dialog'.op = c.op /\ dialog'.row = c.row /\ dialog'.page = c.page
      BY <2>3
    <3>2. RowsAimed' /\ \A d \in calls' : d.kind = "fetch" => Aims(d.op, d.row, d.page)'
      BY <1>0, <1>2, <2>1, RowsStay
    <3>3. Aims(c.op, c.row, c.page)'
      BY <1>1, <1>a, <2>1 DEF Aims
    <3> QED BY <3>1, <3>2, <3>3 DEF RowsOK, DialogAims
  <2> QED BY <2>1, <2>2, <2>3
<1>14. ASSUME NEW c \in calls, Done(c) PROVE RowsOK'
  <2>1. dialog' \in {dialog, Closed} /\ key' = key
    BY <1>0, <1>14, DoneForm
  <2>2. calls' = calls \ {c} \/ \E r : calls' = (calls \ {c}) \cup {r} /\ r.kind = "read"
    BY <1>0, <1>14, DoneForm
  <2>3. \A d \in calls' : d.kind \in {"fetch", "op"} => \E b \in calls : Like(d, b)
    BY <1>2, <2>2
  <2>4. RowsAimed' /\ \A d \in calls' : d.kind = "fetch" => Aims(d.op, d.row, d.page)'
    BY <1>0, <2>1, <2>3, RowsStay
  <2>5. dialog' # Closed => Aims(dialog.op, dialog.row, dialog.page)'
    BY <1>1, <1>a, <2>1 DEF Aims, Closed
  <2> QED BY <2>4, <2>5 DEF RowsOK, DialogAims, Closed
<1>15. ASSUME NEW c \in calls, OpFails(c) PROVE RowsOK'
  <2>1. calls' = calls \ {c} /\ key' = key
    BY <1>0, <1>15, OpFailsForm
  <2>2. RowsAimed' /\ \A d \in calls' : d.kind = "fetch" => Aims(d.op, d.row, d.page)'
    BY <1>0, <1>2, <2>1, RowsStay
  <2>3. \/ dialog' = dialog \/ dialog' = Closed
        \/ dialog # Closed /\ dialog'.op = dialog.op /\ dialog'.row = dialog.row /\ dialog'.page = dialog.page
    BY <1>0, <1>15, OpFailsForm
  <2>4. dialog' # Closed => Aims(dialog.op, dialog.row, dialog.page)'
    BY <1>1, <1>a, <2>1, <2>3 DEF Aims, Closed
  <2> QED BY <2>2, <2>4 DEF RowsOK, DialogAims, Closed
<1> QED BY <1>5, <1>6, <1>7, <1>8, <1>9, <1>10, <1>11, <1>12, <1>13, <1>14, <1>15, StepCases

LEMMA RowsShow ==
  ASSUME Contents, RowsOK
  PROVE  ActsOnItsRow
<1>1. ASSUME NEW c \in calls \ Reads PROVE c.key = c.row \/ LateForm(c.op) \/ Astray(c.op)
  <2>1. c.kind \in {"fetch", "op"}
    BY CallType DEF Reads, Contents
  <2> QED BY <2>1 DEF RowsOK, RowsAimed
<1> QED BY <1>1 DEF ActsOnItsRow, LateForm, Astray

-----------------------------------------------------------------------------
(* Viewers *)

ViewersOK == Viewings /\ ViewerHasItsOwn

LEMMA ViewersStay ==
  ASSUME ViewersOK, UNCHANGED screenWorld, viewer' \in {viewer, Closed},
         \A d \in calls' : d.kind \in {"fetch", "op"} => \E c \in calls : Like(d, c)
  PROVE  ViewersOK'
<1>1. (InTurn' <=> InTurn) /\ (Guarded' <=> Guarded)
  BY WorldStays
<1>2. \A d \in calls' : Views(d) => \E c \in calls : Views(c) /\ c.id = d.id /\ c.row = d.row /\ (Opens(d) => Opens(c))
  BY DEF Views, Opens, Like
<1>3. Viewings'
  BY <1>1, <1>2 DEF ViewersOK, Viewings, Closed, Opens, Views
<1>4. ViewerHasItsOwn'
  BY <1>1 DEF ViewersOK, ViewerHasItsOwn, Closed
<1> QED BY <1>3, <1>4 DEF ViewersOK

\* What only reads is sent at once, to the namespace of its row.
LEMMA ViewsAim ==
  ASSUME CarefulPanels, Contents, RowsOK, NEW c \in calls, Views(c)
  PROVE  c.key = c.row \/ (~Guarded /\ ~InTurn)
<1>1. c.kind = "op" /\ c.op \in panel.ops /\ c.op.then \in {"shown", "opened"}
  BY CallType DEF Views, Contents
<1>2. c.op.opens = "at-once"
  BY <1>1, CarefulHere DEF Careful, Contents
<1>3. c.key = c.row \/ Astray(c.op)
  BY <1>1, <1>2 DEF RowsOK, RowsAimed, LateForm
<1>4. ASSUME Astray(c.op), InTurn PROVE FALSE
  <2>1. panel.by # "nothing" /\ panel.guard = {} /\ panel.failed = "keeps" /\ c.op.aim # "row"
    BY <1>4 DEF Astray, Guarded, Keeps
  <2> QED BY <1>1, <2>1, CarefulHere DEF Careful, Contents
<1> QED BY <1>3, <1>4 DEF Astray

LEMMA ViewersStep ==
  ASSUME CarefulPanels, Contents, RowsOK, ViewersOK, ScreenNext
  PROVE  ViewersOK'
<1>0. UNCHANGED screenWorld /\ Typed
  BY DEF ScreenNext, Select, Settle, Again, Click, Submit, Dismiss, CloseViewer, AnswerRead, AnswerOther, Serve,
         Arrives, ReadFails, EditorOpens, EditorFails, Done, OpFails, Contents
<1>1. (InTurn' <=> InTurn) /\ (Guarded' <=> Guarded)
  BY <1>0, WorldStays
<1>2. \A c \in calls : Like(c, c)
  BY <1>0, SelfLike
<1>a. /\ \A c, d \in calls : Views(c) /\ Views(d) => (c.id = d.id => c.row = d.row) /\ (InTurn => c.id = d.id)
      /\ viewer # Closed => \A c \in calls : Views(c) => (c.id = viewer.id => c.row = viewer.row)
      /\ viewer # Closed /\ InTurn => \A c \in calls : Opens(c) => c.id = viewer.id
      /\ viewer # Closed /\ viewer.got # None =>
            /\ viewer.key = viewer.row \/ (~Guarded /\ ~InTurn) \/ viewer.got # viewer.id
            /\ InTurn => viewer.got = viewer.id
  BY DEF ViewersOK, Viewings, ViewerHasItsOwn
<1>3. ASSUME NEW k \in Selections, Effect(k) PROVE ViewersOK'
  <2>1. PICK added : Entering(k, k # None /\ Needs(k), added)
    BY <1>0, <1>3, EffectEnters
  <2>2. \A d \in calls' : d.kind \in {"fetch", "op"} => \E c \in calls : Like(d, c)
    BY <1>0, <2>1, EnteringLike
  <2>3. viewer' \in {viewer, Closed}
    BY <1>3 DEF Effect
  <2> QED BY <1>0, <2>2, <2>3, ViewersStay
<1>4. ASSUME NEW k \in Keys \cup {None}, Select(k) PROVE ViewersOK'
  BY <1>3, <1>4 DEF Select
<1>5. ASSUME NEW k \in Keys, Settle(k) PROVE ViewersOK'
  <2>1. k \in Selections
    BY <1>0, PanelType
  <2>2. CASE k = key
    BY <1>0, <1>2, <1>5, <2>2, ViewersStay DEF Settle
  <2>3. CASE k # key
    BY <1>3, <1>5, <2>1, <2>3 DEF Settle
  <2> QED BY <2>2, <2>3
<1>6. ASSUME Again PROVE ViewersOK'
  <2>1. key \in Keys /\ Ask(key, Cancelled(calls)) /\ viewer' = viewer
    BY <1>0, <1>6, PanelType DEF Again
  <2>2. PICK added : Entering(key, TRUE, added)
    BY <1>0, <2>1, AskEnters
  <2> QED BY <1>0, <2>1, <2>2, EnteringLike, ViewersStay
<1>7. ASSUME NEW op \in panel.ops, NEW e \in Shown, Click(op, e) PROVE ViewersOK'
  <2>1. /\ InTurn => calls = {}
        /\ viewer' = IF op.then = "opened" THEN [row |-> e.of, id |-> acts', key |-> None, got |-> None] ELSE viewer
    BY <1>7 DEF Click, Acts, Quiet
  <2>2. CASE op.opens \in {"confirm", "form"}
    <3>1. op.then # "opened" /\ calls' = calls
      BY <1>0, <1>7, <2>2, ClickForm, CarefulHere DEF Careful
    <3> QED BY <1>0, <1>2, <2>1, <3>1, ViewersStay
  <2>3. CASE op.opens \notin {"confirm", "form"}
    <3>1. PICK r : /\ calls' = calls \cup {r} /\ r.op = op /\ r.row = e.of /\ r.id = acts'
      BY <1>0, <1>7, <2>3, ClickForm
    <3>2. acts' = acts + 1 /\ acts \in Nat
      BY <1>0, <1>7, ClickForm
    <3>3. \A c \in calls : Views(c) => c.id # r.id
      <4> SUFFICES ASSUME NEW c \in calls, Views(c) PROVE c.id # r.id
        OBVIOUS
      <4>1. c.id \in Nat /\ c.id <= acts
        BY <1>0, CallType DEF Views
      <4> QED BY <3>1, <3>2, <4>1
    <3>4. viewer # Closed => viewer.id # r.id
      <4> SUFFICES ASSUME viewer # Closed PROVE viewer.id # r.id
        OBVIOUS
      <4>1. viewer.id \in Nat /\ viewer.id <= acts
        BY <1>0 DEF Typed, ScreenTypeOK, Viewer, ViewerFormed, Closed
      <4> QED BY <3>1, <3>2, <4>1
    <3>5. \A c, d \in calls' : Views(c) /\ Views(d) => (c.id = d.id => c.row = d.row) /\ (InTurn => c.id = d.id)
      BY <1>a, <2>1, <3>1, <3>3
    <3>6. CASE op.then = "opened"
      <4>1. viewer'.row = r.row /\ viewer'.id = r.id /\ viewer'.got = None
        BY <2>1, <3>1, <3>6
      <4>2. \A c \in calls' : Views(c) => (c.id = viewer'.id => c.row = viewer'.row)
        BY <3>1, <3>3, <4>1
      <4>3. InTurn => \A c \in calls' : c.id = viewer'.id
        BY <2>1, <3>1, <4>1
      <4> QED BY <1>1, <3>5, <4>1, <4>2, <4>3 DEF ViewersOK, Viewings, ViewerHasItsOwn
    <3>7. CASE op.then # "opened"
      <4>1. viewer' = viewer /\ ~Opens(r)
        BY <2>1, <3>1, <3>7 DEF Opens
      <4>2. viewer # Closed => \A c \in calls' : Views(c) => (c.id = viewer.id => c.row = viewer.row)
        BY <1>a, <3>1, <3>4
      <4>3. viewer # Closed /\ InTurn => \A c \in calls' : Opens(c) => c.id = viewer.id
        BY <1>a, <3>1, <4>1
      <4> QED BY <1>1, <1>a, <3>5, <4>1, <4>2, <4>3 DEF ViewersOK, Viewings, ViewerHasItsOwn, Closed
    <3> QED BY <3>6, <3>7
  <2> QED BY <2>2, <2>3
<1>8. ASSUME Submit PROVE ViewersOK'
  <2>1. viewer' = viewer /\ dialog # Closed
    BY <1>0, <1>8, SubmitForm
  <2>2. PICK r : calls' = calls \cup {r} /\ r.kind = "op" /\ r.op = dialog.op
    BY <1>0, <1>8, SubmitForm
  <2>3. dialog.op.then \notin {"shown", "opened"}
    BY <1>0, <2>1, DialogType, CarefulHere DEF Careful
  <2>4. \A c \in calls' : (Views(c) \/ Opens(c)) => c \in calls
    BY <2>2, <2>3 DEF Views, Opens
  <2>5. \A c, d \in calls' : Views(c) /\ Views(d) => (c.id = d.id => c.row = d.row) /\ (InTurn => c.id = d.id)
    BY <1>a, <2>4
  <2>6. viewer # Closed => \A c \in calls' : Views(c) => (c.id = viewer.id => c.row = viewer.row)
    BY <1>a, <2>4
  <2>7. viewer # Closed /\ InTurn => \A c \in calls' : Opens(c) => c.id = viewer.id
    BY <1>a, <2>4
  <2> QED BY <1>1, <1>a, <2>1, <2>5, <2>6, <2>7 DEF ViewersOK, Viewings, ViewerHasItsOwn, Closed
<1>9. ASSUME Dismiss \/ CloseViewer PROVE ViewersOK'
  BY <1>0, <1>2, <1>9, ViewersStay DEF Dismiss, CloseViewer
<1>10. ASSUME NEW c \in calls, Serve(c) PROVE ViewersOK'
  <2>1. PICK r \in Request :
              /\ calls' = (calls \ {c}) \cup {r}
              /\ r.n = c.n /\ r.kind = c.kind /\ r.op = c.op /\ r.key = c.key /\ r.page = c.page
              /\ r.row = c.row /\ r.id = c.id /\ r.base = c.base /\ (r.live <=> c.live)
    BY <1>0, <1>10, ServeForm
  <2>2. viewer' = viewer /\ Like(r, c)
    BY <1>0, <1>10, <2>1, ServeForm DEF Like
  <2> QED BY <1>0, <1>2, <2>1, <2>2, ViewersStay
<1>11. ASSUME NEW c \in calls, Arrives(c) \/ ReadFails(c) PROVE ViewersOK'
  <2>1. calls' = calls \ {c} /\ viewer' = viewer
    BY <1>0, <1>11, ReadOver
  <2> QED BY <1>0, <1>2, <2>1, ViewersStay
<1>12. ASSUME NEW c \in calls, EditorOpens(c) \/ EditorFails(c) PROVE ViewersOK'
  <2>1. calls' = calls \ {c} /\ viewer' = viewer
    BY <1>0, <1>12, EditorForm
  <2> QED BY <1>0, <1>2, <2>1, ViewersStay
<1>13. ASSUME NEW c \in calls, OpFails(c) PROVE ViewersOK'
  <2>1. calls' = calls \ {c} /\ viewer' \in {viewer, Closed}
    BY <1>0, <1>13, OpFailsForm
  <2> QED BY <1>0, <1>2, <2>1, ViewersStay
<1>14. ASSUME NEW c \in calls, Done(c) PROVE ViewersOK'
  <2>1. c.kind = "op" /\ c.id \in Nat
    BY <1>0, <1>14, DoneForm, CallType
  <2>2. calls' = calls \ {c} \/ \E r : calls' = (calls \ {c}) \cup {r} /\ r.kind = "read"
    BY <1>0, <1>14, DoneForm
  <2>3. \A d \in calls' : (Views(d) \/ Opens(d)) => d \in calls
    BY <2>2 DEF Views, Opens
  <2>4. \A d \in calls' : d.kind \in {"fetch", "op"} => \E b \in calls : Like(d, b)
    BY <1>2, <2>2
  <2>5. \A d \in calls : Opens(d) => Views(d)
    BY DEF Opens, Views
  <2>6. Views(c) => c.key = c.row \/ (~Guarded /\ ~InTurn)
    BY ViewsAim
  <2>7. \A b, d \in calls' : Views(b) /\ Views(d) => (b.id = d.id => b.row = d.row) /\ (InTurn => b.id = d.id)
    BY <1>a, <2>3
  <2>8. CASE c.op.then = "shown"
    <3>1. viewer' = [row |-> c.row, id |-> c.id, key |-> c.key, got |-> c.id] /\ Views(c)
      BY <1>14, <2>1, <2>8 DEF Done, Shows, Views
    <3>2. viewer'.row = c.row /\ viewer'.id = c.id /\ viewer'.key = c.key /\ viewer'.got = c.id
      BY <3>1
    <3>3. \A d \in calls' : Views(d) => (d.id = c.id => d.row = c.row)
      BY <1>a, <2>3, <3>1
    <3>4. InTurn => \A d \in calls' : Opens(d) => d.id = c.id
      BY <1>a, <2>3, <2>5, <3>1
    <3> QED BY <1>1, <2>6, <2>7, <3>1, <3>2, <3>3, <3>4 DEF ViewersOK, Viewings, ViewerHasItsOwn
  <2>9. CASE c.op.then = "opened" /\ viewer # Closed
    <3>1. viewer' = [viewer EXCEPT !.key = c.key, !.got = c.id] /\ Views(c) /\ Opens(c)
      BY <1>14, <2>1, <2>9 DEF Done, Shows, Views, Opens
    <3>2. viewer \in Viewer
      BY <1>0, <2>9 DEF Typed, ScreenTypeOK
    <3>3. viewer'.row = viewer.row /\ viewer'.id = viewer.id /\ viewer'.key = c.key /\ viewer'.got = c.id
      BY <3>1, <3>2 DEF Viewer
    <3>4. c.id = viewer.id => c.row = viewer.row
      BY <1>a, <2>9, <3>1
    <3>5. InTurn => c.id = viewer.id
      BY <1>a, <2>9, <3>1
    <3>6. \A d \in calls' : Views(d) => (d.id = viewer.id => d.row = viewer.row)
      BY <1>a, <2>3, <2>9
    <3>7. InTurn => \A d \in calls' : Opens(d) => d.id = viewer.id
      BY <1>a, <2>3, <2>9
    <3> QED BY <1>1, <2>6, <2>7, <3>1, <3>3, <3>4, <3>5, <3>6, <3>7 DEF ViewersOK, Viewings, ViewerHasItsOwn
  <2>10. CASE c.op.then # "shown" /\ ~(c.op.then = "opened" /\ viewer # Closed)
    <3>1. viewer' = viewer
      BY <1>14, <2>10 DEF Done, Shows
    <3> QED BY <1>0, <2>4, <3>1, ViewersStay
  <2> QED BY <2>8, <2>9, <2>10
<1> QED BY <1>4, <1>5, <1>6, <1>7, <1>8, <1>9, <1>10, <1>11, <1>12, <1>13, <1>14, StepCases

-----------------------------------------------------------------------------
(* Versions *)

\* What a user who waits for the answers sees when they are all there.
LEMMA LatestQuiet ==
  ASSUME CarefulPanels, Contents, LatestHere, Exact, calls = {}
  PROVE  /\ \A e \in view : e.real /\ e.ver = server[e.of]
         /\ \A e \in Shown : e \in view /\ e.of = key
         /\ ~Pending
<1>1. ~Pending
  BY DEF Pending
<1>2. \A e \in view : e.real /\ e.ver = server[e.of]
  BY <1>1 DEF LatestHere, ViewLatest
<1>3. \A e \in Shown : e \in view /\ e.of = key
  BY ContentsShow DEF ShowsItsKey, Exact, Keeps, Reads, Shown
<1> QED BY <1>1, <1>2, <1>3

\* The answer to the one operation under way closes its dialog.
LEMMA DoneCloses ==
  ASSUME Contents, InTurn, NEW c \in calls, Done(c)
  PROVE  dialog' = Closed /\ calls = {c} /\ c.page = key /\ c.kind = "op"
<1>1. c.kind = "op" /\ Typed
  BY DEF Done, Contents
<1>2. /\ calls = {c} /\ c.page = key
      /\ dialog # Closed /\ ~dialog.busy => calls = {}
      /\ dialog # Closed /\ dialog.busy => \E d \in calls : d.kind = "op" /\ d.op = dialog.op /\ d.id = dialog.id
  BY <1>1 DEF Contents, OneThing
<1>3. ASSUME dialog # Closed PROVE dialog' = Closed
  <2>1. dialog.busy \in BOOLEAN /\ dialog.op.opens \notin {"at-once", "inline"}
    BY <1>1, <1>3, DialogType
  <2>2. c.op = dialog.op /\ c.id = dialog.id
    BY <1>2, <1>3, <2>1
  <2> QED BY <2>1, <2>2 DEF Done, CloseOf
<1>4. ASSUME dialog = Closed PROVE dialog' = Closed
  <2>1. CloseOf(c)
    BY DEF Done
  <2> QED BY <1>4, <2>1 DEF CloseOf
<1> QED BY <1>1, <1>2, <1>3, <1>4

LEMMA LatestStep ==
  ASSUME CarefulPanels, Contents, Latest, ScreenNext
  PROVE  Latest'
<1>0. UNCHANGED screenWorld /\ Typed
  BY DEF ScreenNext, Select, Settle, Again, Click, Submit, Dismiss, CloseViewer, AnswerRead, AnswerOther, Serve,
         Arrives, ReadFails, EditorOpens, EditorFails, Done, OpFails, Contents
<1> SUFFICES ASSUME Exact PROVE LatestHere'
  BY <1>0, WorldStays DEF Latest
<1>1. panel' = panel /\ InTurn /\ ~Misses /\ settled
  BY <1>0, WorldStays, CarefulHere DEF Exact
<1>a. LatestHere
  BY DEF Latest
<1>b. /\ \A c \in calls : c.kind \in {"fetch", "op"} => c.key = key /\ c.row = key
      /\ dialog # Closed => dialog.row = key
      /\ \A c \in calls : c.at = "served" => c.saw = server[c.key]
      /\ \A e \in view : e.real /\ (e.ver = server[e.of] \/ (e.of = key /\ Pending))
      /\ ~panel.stray /\ key # None => (\E c \in calls : c.kind = "read") \/ \E e \in view : e.of = key
      /\ ~panel.stray /\ panel.masks /\ spin => \E c \in calls : c.kind = "read"
      /\ dialog # Closed /\ (\A c \in calls : c.at = "sent") => dialog.ver = server[key]
      /\ \A c \in calls : IsEdit(c) /\ c.at = "sent" /\ c.op.carries = "as-opened" => c.base = server[c.key]
  BY <1>a DEF LatestHere, AllOfKey, SawLatest, ViewLatest, Filled, SpinLatest, DialogLatest, BasesLatest
<1>c. /\ \A c \in calls : c.kind \in {"fetch", "op"} => \A d \in calls : d = c
      /\ \A c \in calls : c.kind = "read" => c.live /\ c.key = key
      /\ \A c \in calls : c.kind \in {"fetch", "op"} => c.page = key
      /\ dialog # Closed /\ ~dialog.busy => calls = {}
      /\ dialog # Closed /\ dialog.busy => \E c \in calls : c.kind = "op" /\ c.op = dialog.op /\ c.id = dialog.id
      /\ dialog # Closed => dialog.page = key
  BY <1>1 DEF Contents, OneThing
<1>d. calls = {} => /\ \A e \in view : e.real /\ e.ver = server[e.of]
                    /\ \A e \in Shown : e \in view /\ e.of = key
                    /\ ~Pending
  BY <1>a, LatestQuiet
<1>2. ASSUME NEW k \in Selections \ {key}, Effect(k), calls = {}, UNCHANGED <<server, dialog>>, dialog = Closed PROVE LatestHere'
  <2>1. PICK asks \in BOOLEAN : asks = (k # None /\ Needs(k))
    OBVIOUS
  <2>2. PICK added : Entering(k, asks, added)
    BY <1>0, <1>2, <2>1, EffectEnters
  <2>3. /\ calls' = added /\ (\A d \in added : d.kind \in {"read", "stray"} /\ d.at = "sent")
        /\ ~asks => added = {} /\ spin' = spin
        /\ asks => \E d \in added : d.kind = "read"
    BY <1>0, <1>2, <2>2, CancelledKept DEF Entering
  <2>4. key' = k /\ view' \in SUBSET view /\ (panel.from # "own" => view' = view)
    BY <1>2 DEF Effect
  <2>5. AllOfKey' /\ SawLatest' /\ DialogLatest' /\ BasesLatest'
    BY <1>2, <2>3 DEF AllOfKey, SawLatest, DialogLatest, BasesLatest, IsEdit, Closed
  <2>6. ViewLatest'
    BY <1>2, <1>d, <2>4 DEF ViewLatest
  <2>7. Filled'
    <3> SUFFICES ASSUME k # None, ~asks PROVE \E e \in view' : e.of = k
      BY <2>3, <2>4 DEF Filled
    <3>1. panel.from = "store" /\ \E e \in view : e.of = k
      BY <1>2, <2>1 DEF Needs, Reads
    <3> QED BY <2>4, <3>1
  <2>8. SpinLatest'
    BY <1>1, <1>2, <1>b, <2>1, <2>3 DEF SpinLatest
  <2> QED BY <2>5, <2>6, <2>7, <2>8 DEF LatestHere
<1>3. ASSUME NEW k \in Keys \cup {None}, Select(k) PROVE LatestHere'
  <2>1. k \in Selections \ {key} /\ Effect(k) /\ calls = {} /\ UNCHANGED <<server, dialog>> /\ dialog = Closed
    BY <1>1, <1>3 DEF Select, Acts, Quiet, Unmasked
  <2> QED BY <1>2, <2>1
<1>4. ASSUME NEW k \in Keys, Settle(k) PROVE LatestHere'
  BY <1>1, <1>4 DEF Settle
<1>5. ASSUME Again PROVE LatestHere'
  <2>1. /\ key \in Keys /\ Ask(key, Cancelled(calls)) /\ UNCHANGED <<key, server, view, dialog>> /\ calls = {}
        /\ dialog = Closed
    BY <1>0, <1>1, <1>5, PanelType DEF Again, Acts, Quiet, Unmasked
  <2>2. PICK added : Entering(key, TRUE, added)
    BY <1>0, <2>1, AskEnters
  <2>3. /\ calls' = added /\ (\A d \in added : d.kind \in {"read", "stray"} /\ d.at = "sent")
        /\ \E d \in added : d.kind = "read"
    BY <1>0, <2>1, <2>2, CancelledKept DEF Entering
  <2>4. AllOfKey' /\ SawLatest' /\ DialogLatest' /\ BasesLatest'
    BY <2>1, <2>3 DEF AllOfKey, SawLatest, DialogLatest, BasesLatest, IsEdit, Closed
  <2>5. ViewLatest'
    BY <1>d, <2>1 DEF ViewLatest
  <2>6. Filled' /\ SpinLatest'
    BY <2>3 DEF Filled, SpinLatest
  <2> QED BY <2>4, <2>5, <2>6 DEF LatestHere
<1>6. ASSUME NEW op \in panel.ops, NEW e \in Shown, Click(op, e) PROVE LatestHere'
  <2>1. UNCHANGED <<key, server, view, spin>> /\ calls = {} /\ dialog = Closed
    BY <1>1, <1>6 DEF Click, Acts, Quiet, Unmasked
  <2>2. e \in view /\ e.of = key /\ e.ver = server[key]
    BY <1>d, <2>1
  <2>3. ViewLatest'
    BY <1>d, <2>1 DEF ViewLatest
  <2>4. Filled' /\ SpinLatest'
    BY <1>1, <1>b, <2>1 DEF Filled, SpinLatest
  <2>5. CASE op.opens \in {"confirm", "form"}
    <3>1. PICK d : d = [op |-> op, row |-> e.of, page |-> key, id |-> acts', ver |-> e.ver, busy |-> FALSE]
      OBVIOUS
    <3>2. calls' = {} /\ dialog' = d /\ d.row = key /\ d.ver = server[key]
      BY <1>0, <1>6, <2>1, <2>2, <2>5, <3>1, ClickForm
    <3>3. AllOfKey' /\ SawLatest' /\ DialogLatest' /\ BasesLatest'
      BY <2>1, <3>2 DEF AllOfKey, SawLatest, DialogLatest, BasesLatest
    <3> QED BY <2>3, <2>4, <3>3 DEF LatestHere
  <2>6. CASE op.opens \notin {"confirm", "form"}
    <3>1. PICK r : /\ calls' = calls \cup {r}
                   /\ r.kind = (IF Fetches(op) THEN "fetch" ELSE "op") /\ r.op = op /\ r.row = e.of
                   /\ r.key = (IF op.aim = "row" THEN e.of ELSE key) /\ r.at = "sent"
                   /\ r.base = IF Fetches(op) THEN e.ver ELSE Carried(op, e.ver)
      BY <1>0, <1>6, <2>6, ClickForm
    <3>2. dialog' = Closed
      BY <1>0, <1>6, <2>1, <2>6, ClickForm
    <3>3. calls' = {r} /\ r.key = key /\ r.row = key
      BY <2>1, <2>2, <3>1
    <3>4. AllOfKey' /\ SawLatest' /\ DialogLatest'
      BY <2>1, <3>1, <3>2, <3>3 DEF AllOfKey, SawLatest, DialogLatest, Closed
    <3>5. op.carries = "as-opened" => Carried(op, e.ver) = e.ver
      BY DEF Carried
    <3>6. BasesLatest'
      BY <2>1, <2>2, <3>1, <3>3, <3>5 DEF BasesLatest, IsEdit
    <3> QED BY <2>3, <2>4, <3>4, <3>6 DEF LatestHere
  <2> QED BY <2>5, <2>6
<1>7. ASSUME Submit PROVE LatestHere'
  <2>1. dialog # Closed /\ ~dialog.busy /\ dialog' = [dialog EXCEPT !.busy = TRUE] /\ UNCHANGED <<key, server, view, spin>>
    BY <1>0, <1>1, <1>7, SubmitForm
  <2>2. calls = {} /\ dialog.page = key /\ dialog.row = key /\ dialog.ver = server[key]
    BY <1>b, <1>c, <2>1
  <2>3. PICK r :
              /\ calls' = calls \cup {r}
              /\ r.kind = "op" /\ r.op = dialog.op /\ r.row = dialog.row
              /\ r.key = Target(dialog.op, dialog.row, dialog.page) /\ r.at = "sent"
              /\ r.base = Carried(dialog.op, dialog.ver)
    BY <1>0, <1>7, SubmitForm
  <2>4. dialog.op.aim \in {"row", "opened", "page"}
    BY <1>0, <2>1, DialogType, OperationType
  <2>5. calls' = {r} /\ r.key = key /\ r.row = key
    BY <2>2, <2>3, <2>4 DEF Target
  <2>6. dialog'.row = dialog.row /\ dialog'.ver = dialog.ver
    BY <1>0, <2>1, DialogType DEF Dialog
  <2>7. AllOfKey' /\ SawLatest' /\ DialogLatest'
    BY <2>1, <2>2, <2>3, <2>5, <2>6 DEF AllOfKey, SawLatest, DialogLatest
  <2>8. BasesLatest'
    BY <2>1, <2>2, <2>3, <2>5 DEF BasesLatest, Carried
  <2>9. ViewLatest'
    BY <1>d, <2>1, <2>2 DEF ViewLatest
  <2>10. Filled' /\ SpinLatest'
    BY <1>1, <1>b, <2>1, <2>2 DEF Filled, SpinLatest
  <2> QED BY <2>7, <2>8, <2>9, <2>10 DEF LatestHere
<1>8. ASSUME Dismiss \/ CloseViewer PROVE LatestHere'
  <2>1. UNCHANGED <<key, server, view, spin, calls>> /\ dialog' \in {dialog, Closed}
    BY <1>8 DEF Dismiss, CloseViewer
  <2>2. Pending' <=> Pending
    BY <2>1 DEF Pending
  <2>3. AllOfKey' /\ DialogLatest'
    BY <1>b, <2>1 DEF AllOfKey, DialogLatest, Closed
  <2>4. ViewLatest'
    BY <1>b, <2>1, <2>2 DEF ViewLatest
  <2>5. SawLatest' /\ BasesLatest' /\ Filled' /\ SpinLatest'
    BY <1>1, <1>b, <2>1 DEF SawLatest, BasesLatest, Filled, SpinLatest
  <2> QED BY <2>3, <2>4, <2>5 DEF LatestHere
<1>9. ASSUME NEW c \in calls, Serve(c) PROVE LatestHere'
  <2>1. PICK r \in Request :
              /\ calls' = (calls \ {c}) \cup {r}
              /\ r.kind = c.kind /\ r.op = c.op /\ r.key = c.key /\ r.row = c.row /\ r.at = "served" /\ r.saw = server'[c.key]
    BY <1>0, <1>9, ServeForm
  <2>2. /\ UNCHANGED <<key, view, spin, dialog>> /\ c.at = "sent" /\ c.key \in Keys /\ server \in [Keys -> Vers]
        /\ server' = IF IsEdit(c) THEN [server EXCEPT ![c.key] = @ + 1] ELSE server
    BY <1>0, <1>9, ServeForm, CallType DEF Typed, ScreenTypeOK
  <2>3. IsEdit(c) => calls = {c} /\ c.key = key /\ IsEdit(r)
    BY <1>b, <1>c, <2>1 DEF IsEdit
  <2>4. AllOfKey'
    BY <1>b, <2>1, <2>2 DEF AllOfKey, Closed
  <2>5. SawLatest'
    BY <1>b, <2>1, <2>2, <2>3 DEF SawLatest
  <2>6. ViewLatest'
    <3>1. CASE IsEdit(c)
      <4>1. Pending'
        BY <2>1, <2>3, <3>1 DEF Pending
      <4>2. ~Pending
        BY <2>2, <2>3, <3>1 DEF Pending, IsEdit
      <4>3. \A e \in view : e.of # key => server'[e.of] = server[e.of]
        <5> SUFFICES ASSUME NEW e \in view, e.of # key PROVE server'[e.of] = server[e.of]
          OBVIOUS
        <5>1. e.of \in Keys
          BY <1>0 DEF Typed, ScreenTypeOK, Entry
        <5> QED BY <2>2, <2>3, <3>1, <5>1
      <4> QED BY <1>b, <2>2, <4>1, <4>2, <4>3 DEF ViewLatest
    <3>2. CASE ~IsEdit(c)
      <4>1. Pending => Pending'
        BY <2>1, <2>2 DEF Pending
      <4> QED BY <1>b, <2>2, <3>2, <4>1 DEF ViewLatest
    <3> QED BY <3>1, <3>2
  <2>7. Filled' /\ SpinLatest'
    BY <1>1, <1>b, <2>1, <2>2 DEF Filled, SpinLatest
  <2>8. DialogLatest'
    BY <2>1 DEF DialogLatest
  <2>9. BasesLatest'
    BY <1>b, <2>1, <2>2, <2>3 DEF BasesLatest
  <2> QED BY <2>4, <2>5, <2>6, <2>7, <2>8, <2>9 DEF LatestHere
<1>10. ASSUME NEW c \in calls, Arrives(c) \/ ReadFails(c) PROVE LatestHere'
  <2>1. calls' = calls \ {c} /\ c.kind \in {"read", "stray"} /\ UNCHANGED <<key, server, dialog>> /\ spin' = Cleared(c)
    BY <1>0, <1>10, ReadOver
  <2>2. dialog = Closed
    <3>1. dialog # Closed => dialog.busy \in BOOLEAN
      BY <1>0, DialogType
    <3> QED BY <1>c, <2>1, <3>1
  <2>3. AllOfKey' /\ SawLatest' /\ DialogLatest' /\ BasesLatest'
    BY <1>b, <2>1, <2>2 DEF AllOfKey, SawLatest, DialogLatest, BasesLatest, Closed
  <2>4. CASE Arrives(c)
    <3>1. c.kind = "read" /\ c.at = "served"
      BY <1>0, <2>4, ReadViews
    <3>2. c.live /\ c.key = key /\ c.saw = server[key]
      BY <1>b, <1>c, <3>1
    <3>3. /\ \A e \in view' : (e.of = key /\ e.ver = server[key] /\ e.real) \/ (e \in view /\ e.of # key)
          /\ \E e \in view' : e.of = key
      BY <1>0, <2>4, <3>2, ReadViews DEF Accepted
    <3>4. ViewLatest' /\ Filled'
      BY <1>b, <2>1, <3>3 DEF ViewLatest, Filled
    <3>5. ~spin'
      BY <2>1, <3>2 DEF Cleared
    <3> QED BY <2>3, <3>4, <3>5 DEF LatestHere, SpinLatest
  <2>5. CASE ReadFails(c)
    <3>1. c.kind = "stray" /\ panel.stray /\ c.live
      BY <1>0, <1>1, <2>5, ReadViews, CallType
    <3>2. view' \in SUBSET view
      BY <1>0, <2>5, <3>1, ReadViews, CarefulReads DEF Accepted
    <3>3. Pending => Pending'
      BY <2>1, <3>1 DEF Pending, IsEdit
    <3>4. ViewLatest'
      BY <1>b, <2>1, <3>2, <3>3 DEF ViewLatest
    <3> QED BY <1>1, <2>3, <3>1, <3>4 DEF LatestHere, SpinLatest, Filled
  <2> QED BY <1>10, <2>4, <2>5
<1>11. ASSUME NEW c \in calls, EditorOpens(c) \/ EditorFails(c) PROVE LatestHere'
  <2>1. PICK ver : /\ calls' = calls \ {c} /\ c.kind = "fetch" /\ UNCHANGED <<key, server, view, spin>>
                   /\ dialog' = [op |-> c.op, row |-> c.row, page |-> c.page, id |-> c.id, ver |-> ver, busy |-> FALSE]
                   /\ c.at = "served" /\ ver = c.saw
    BY <1>0, <1>1, <1>11, EditorForm
  <2>2. calls = {c} /\ calls' = {} /\ c.key = key /\ c.row = key /\ c.saw = server[key]
    BY <1>b, <1>c, <2>1
  <2>3. dialog'.row = key /\ dialog'.ver = server[key]
    BY <2>1, <2>2
  <2>4. ~Pending
    BY <2>1, <2>2 DEF Pending, IsEdit
  <2>5. AllOfKey' /\ SawLatest' /\ DialogLatest' /\ BasesLatest'
    BY <2>1, <2>2, <2>3 DEF AllOfKey, SawLatest, DialogLatest, BasesLatest
  <2>6. ViewLatest'
    BY <1>b, <2>1, <2>4 DEF ViewLatest
  <2>7. Filled' /\ SpinLatest'
    BY <1>1, <1>b, <2>1, <2>2 DEF Filled, SpinLatest
  <2> QED BY <2>5, <2>6, <2>7 DEF LatestHere
<1>12. ASSUME NEW c \in calls, OpFails(c) PROVE LatestHere'
  <2>1. calls' = calls \ {c} /\ c.kind = "op" /\ UNCHANGED <<key, server, view, spin>> /\ c.at = "sent"
    BY <1>0, <1>1, <1>12, OpFailsForm DEF OpFails
  <2>2. calls = {c} /\ calls' = {}
    BY <1>c, <2>1
  <2>3. ~Pending
    BY <2>1, <2>2 DEF Pending
  <2>4. dialog' = dialog \/ dialog' = Closed \/ (dialog # Closed /\ dialog'.row = dialog.row /\ dialog'.ver = dialog.ver)
    BY <1>0, <1>12, OpFailsForm
  <2>5. dialog # Closed => dialog.ver = server[key]
    BY <1>b, <2>1, <2>2
  <2>6. AllOfKey' /\ SawLatest' /\ DialogLatest' /\ BasesLatest'
    BY <1>b, <2>1, <2>2, <2>4, <2>5 DEF AllOfKey, SawLatest, DialogLatest, BasesLatest, Closed
  <2>7. ViewLatest'
    BY <1>b, <2>1, <2>3 DEF ViewLatest
  <2>8. Filled' /\ SpinLatest'
    BY <1>1, <1>b, <2>1, <2>2 DEF Filled, SpinLatest
  <2> QED BY <2>6, <2>7, <2>8 DEF LatestHere
<1>13. ASSUME NEW c \in calls, Done(c) PROVE LatestHere'
  <2>1. dialog' = Closed /\ calls = {c} /\ c.page = key /\ c.kind = "op" /\ c.key = key
    BY <1>1, <1>13, <1>b, DoneCloses
  <2>2. c.at = "served" /\ c.op \in panel.ops /\ UNCHANGED <<key, server>> /\ c.saw = server[key]
    BY <1>0, <1>13, <1>b, <2>1, DoneForm
  <2>3. CASE Lists(c.op)
    <3>1. PICK r : /\ calls' = (calls \ {c}) \cup {r} /\ r.kind = "read" /\ r.at = "sent"
      BY <1>0, <1>13, <2>3, DoneForm
    <3>2. view' = view /\ calls' = {r}
      BY <1>0, <1>13, <2>1, <2>3, <3>1, DoneForm
    <3>3. AllOfKey' /\ SawLatest' /\ DialogLatest' /\ BasesLatest'
      BY <2>1, <2>2, <3>1, <3>2 DEF AllOfKey, SawLatest, DialogLatest, BasesLatest, IsEdit, Closed
    <3>4. Pending' /\ Filled' /\ SpinLatest'
      BY <3>1, <3>2 DEF Pending, Filled, SpinLatest
    <3>5. ViewLatest'
      BY <1>b, <2>2, <3>2, <3>4 DEF ViewLatest
    <3> QED BY <3>3, <3>4, <3>5 DEF LatestHere
  <2>4. CASE ~Lists(c.op)
    <3>1. calls' = {} /\ spin' = spin
      BY <1>0, <1>13, <2>1, <2>4, DoneForm
    <3>2. AllOfKey' /\ SawLatest' /\ DialogLatest' /\ BasesLatest'
      BY <2>1, <2>2, <3>1 DEF AllOfKey, SawLatest, DialogLatest, BasesLatest, Closed
    <3>3. SpinLatest'
      BY <1>1, <1>b, <2>1, <3>1 DEF SpinLatest
    <3>4. CASE c.op.then = "patch"
      <4>1. /\ \A e \in view' : \E d \in view : /\ e.of = d.of /\ e.real = d.real
                                                /\ e.ver = IF d.of = c.key THEN c.saw ELSE d.ver
            /\ \A d \in view : \E e \in view' : e.of = d.of
        BY <1>0, <1>13, <2>4, <3>4, DoneForm
      <4>2. ViewLatest'
        <5> SUFFICES ASSUME NEW e \in view' PROVE e.real /\ e.ver = server[e.of]
          BY <2>2 DEF ViewLatest
        <5>1. PICK d \in view : e.of = d.of /\ e.real = d.real /\ e.ver = IF d.of = c.key THEN c.saw ELSE d.ver
          BY <4>1
        <5> QED BY <1>b, <2>1, <2>2, <5>1
      <4>3. Filled'
        BY <1>1, <1>b, <2>1, <2>2, <4>1 DEF Filled
      <4> QED BY <3>2, <3>3, <4>2, <4>3 DEF LatestHere
    <3>5. CASE c.op.then # "patch"
      <4>1. view' = view
        BY <1>0, <1>13, <2>4, <3>5, DoneForm
      <4>2. ~IsEdit(c)
        BY <1>0, <2>2, <2>4, <3>5, CarefulHere DEF Careful, IsEdit, Changes, Lists
      <4>3. ~Pending
        BY <2>1, <4>2 DEF Pending
      <4>4. ViewLatest'
        BY <1>b, <2>2, <4>1, <4>3 DEF ViewLatest
      <4>5. Filled'
        BY <1>1, <1>b, <2>1, <2>2, <4>1 DEF Filled
      <4> QED BY <3>2, <3>3, <4>4, <4>5 DEF LatestHere
    <3> QED BY <3>4, <3>5
  <2> QED BY <2>3, <2>4
<1> QED BY <1>3, <1>4, <1>5, <1>6, <1>7, <1>8, <1>9, <1>10, <1>11, <1>12, <1>13, StepCases

LEMMA LatestShows ==
  ASSUME CarefulPanels, Contents, Latest
  PROVE  LatestInTurn
<1>1. ASSUME InTurn, ~Misses, ~panel.stray, calls = {}, key # None
      PROVE  {e \in Shown : e.of = key} = {[of |-> key, ver |-> server[key], real |-> TRUE]}
  <2>1. Exact /\ LatestHere
    BY <1>1 DEF Exact, Latest
  <2>2. \A e \in view : e.real /\ e.ver = server[e.of]
    BY <1>1, <2>1, LatestQuiet
  <2>3. PICK f \in view : f.of = key
    BY <1>1, <2>1 DEF LatestHere, Filled
  <2>4. ASSUME NEW e \in view, e.of = key PROVE e = [of |-> key, ver |-> server[key], real |-> TRUE]
    <3>1. e \in Entry
      BY DEF Contents, Typed, ScreenTypeOK
    <3>2. e.real = TRUE /\ e.ver = server[key]
      BY <2>2, <2>4, <3>1 DEF Entry
    <3> QED BY <2>4, <3>1, <3>2 DEF Entry
  <2>5. ~(panel.masks /\ spin)
    BY <1>1, <2>1 DEF LatestHere, SpinLatest
  <2>6. \A e : e \in Shown /\ e.of = key <=> e \in view /\ e.of = key
    BY <1>1, <2>5 DEF Shown
  <2> QED BY <2>3, <2>4, <2>6
<1>2. ShowsLatest
  BY <1>1 DEF ShowsLatest, Quiet
<1>3. EditsBuildOnLatest
  BY DEF EditsBuildOnLatest, Latest, Exact, LatestHere, BasesLatest
<1> QED BY <1>2, <1>3 DEF LatestInTurn

-----------------------------------------------------------------------------
(* The page and its requests *)

PagesOK == Contents /\ RowsOK /\ ViewersOK /\ Latest

LEMMA InitPages ==
  ASSUME CarefulPanels, ScreenInit
  PROVE  PagesOK
<1>1. Contents /\ Typed
  BY InitContents, InitTyped
<1>2. view = {} /\ dialog = Closed /\ viewer = Closed /\ spin = (key # None /\ HasFlag)
  BY DEF ScreenInit
<1>3. \A c \in calls : c.kind = "read" /\ c.at = "sent"
  BY InitCalls
<1>4. RowsOK
  BY <1>2, <1>3 DEF RowsOK, RowsAimed, DialogAims
<1>5. ViewersOK
  BY <1>2, <1>3 DEF ViewersOK, Viewings, ViewerHasItsOwn, Views, Opens
<1>6. key # None => \E c \in calls : c.kind = "read"
  <2>1. key # None => calls # {}
    BY DEF ScreenInit
  <2> QED BY <1>3, <2>1
<1>7. LatestHere
  BY <1>2, <1>3, <1>6 DEF LatestHere, AllOfKey, SawLatest, ViewLatest, Filled, SpinLatest, DialogLatest, BasesLatest, IsEdit
<1> QED BY <1>1, <1>4, <1>5, <1>7 DEF PagesOK, Latest

LEMMA StepPages ==
  ASSUME CarefulPanels, PagesOK, [ScreenNext]_screenVars
  PROVE  PagesOK'
<1>1. Contents'
  BY StepContents DEF PagesOK
<1>2. CASE ScreenNext
  BY <1>1, <1>2, RowsStep, ViewersStep, LatestStep DEF PagesOK
<1>3. CASE UNCHANGED screenVars
  <2>1. UNCHANGED <<key, server, view, spin, dialog, viewer, calls, acts, settled, screenWorld>>
    BY <1>3, StutterStays
  <2>2. \A c \in calls : Like(c, c)
    BY SelfLike DEF PagesOK, Contents
  <2>3. ViewersOK'
    BY <2>1, <2>2, ViewersStay DEF PagesOK
  <2>4. RowsOK'
    <3>1. \A op : (LateForm(op)' <=> LateForm(op)) /\ (Astray(op)' <=> Astray(op))
      BY <2>1, AimsStay
    <3> QED BY <2>1, <3>1 DEF PagesOK, RowsOK, RowsAimed, DialogAims, Aims, Closed
  <2>5. Latest'
    BY <2>1, WorldStays DEF PagesOK, Latest, LatestHere, AllOfKey, SawLatest, ViewLatest, Filled, SpinLatest, DialogLatest,
       BasesLatest, Pending, Closed
  <2> QED BY <1>1, <2>3, <2>4, <2>5 DEF PagesOK
<1> QED BY <1>2, <1>3

\* A page shows the rows of the namespace, bucket or branch that is selected,
\* and a viewer what was clicked, whatever is answered late or fails
\* (the effects of frontend/src/pages and their cleanups).
THEOREM PagesShowTheirOwn ==
  ASSUME CarefulPanels
  PROVE  ScreenSpec => []ShowsItsOwn
<1>1. ScreenInit => PagesOK
  BY InitPages
<1>2. PagesOK /\ [ScreenNext]_screenVars => PagesOK'
  BY StepPages
<1>3. PagesOK => ShowsItsOwn
  BY ContentsShow DEF PagesOK, Contents, Typed, ViewersOK, ShowsItsOwn
<1> QED BY <1>1, <1>2, <1>3, PTL DEF ScreenSpec

\* A request goes to the namespace of the row that was clicked, but from the
\* forms and pages that ActsOnItsRow excepts, however late a confirmation,
\* form or editor sends it (modal.confirm and onOk of frontend/src/pages).
THEOREM PagesActOnTheirRows ==
  ASSUME CarefulPanels
  PROVE  ScreenSpec => []ActsOnItsRow
<1>1. ScreenInit => PagesOK
  BY InitPages
<1>2. PagesOK /\ [ScreenNext]_screenVars => PagesOK'
  BY StepPages
<1>3. PagesOK => ActsOnItsRow
  BY RowsShow DEF PagesOK
<1> QED BY <1>1, <1>2, <1>3, PTL DEF ScreenSpec

\* For a user who waits, and if nothing fails, an operation is followed by the
\* row as the server has it, and a form that sends back the whole was filled
\* with the latest version (refresh and onOk of frontend/src/pages).
THEOREM PagesAreLatestInTurn ==
  ASSUME CarefulPanels
  PROVE  ScreenSpec => []LatestInTurn
<1>1. ScreenInit => PagesOK
  BY InitPages
<1>2. PagesOK /\ [ScreenNext]_screenVars => PagesOK'
  BY StepPages
<1>3. PagesOK => LatestInTurn
  BY LatestShows DEF PagesOK
<1> QED BY <1>1, <1>2, <1>3, PTL DEF ScreenSpec

-----------------------------------------------------------------------------
(* The pages of the console are careful *)

WellMade(p) == p \in Panel /\ Careful(p)

\* What Careful asks of an operation wherever it is.
SteadyOps ==
    {op \in Operation :
        /\ op.then # "nothing"
        /\ op.opens = "confirm" => op.aim # "page"
        /\ op.then \in {"shown", "opened"} => op.opens = "at-once"}

\* What an operation may do to its panel and still be steady, and what it may
\* be aimed at.
SteadyThens == {"store", "captured", "patch", "elsewhere", "saved"}
RequestAims == {"row", "opened", "page"}

\* Operations that are sent by the click are steady (Pages: Clicked, Viewed,
\* Opened).
LEMMA ClickedAreSteady ==
    /\ \A then \in SteadyThens :
          Clicked(then) \in SteadyOps /\ [Clicked(then) EXCEPT !.carries = "as-opened"] \in SteadyOps
    /\ \A then \in SteadyThens, aim \in RequestAims : [Clicked(then) EXCEPT !.aim = aim] \in SteadyOps
    /\ \A aim \in RequestAims : Viewed(aim) \in SteadyOps /\ Opened(aim) \in SteadyOps
BY DEF SteadyThens, RequestAims, Clicked, Viewed, Opened, SteadyOps, Operation

\* So are those asked back by modal.confirm, which name the row's namespace or
\* the one they were opened in.
LEMMA ConfirmedAreSteady ==
    \A aim \in {"row", "opened"}, then \in SteadyThens, fails \in {"closes", "stays"} :
        Confirmed(aim, then, fails) \in SteadyOps
BY DEF SteadyThens, Confirmed, SteadyOps, Operation

\* And forms and editors, none of which only reads.
LEMMA CreatedAreSteady ==
    \A then \in SteadyThens, once \in BOOLEAN :
        /\ Created(then, once) \in SteadyOps
        /\ \A aim \in RequestAims : [Created(then, once) EXCEPT !.aim = aim] \in SteadyOps
BY DEF SteadyThens, RequestAims, Created, SteadyOps, Operation

LEMMA EditedAreSteady ==
    \A aim \in RequestAims, then \in SteadyThens, once \in BOOLEAN : Edited(aim, then, once) \in SteadyOps
BY DEF SteadyThens, RequestAims, Created, Edited, SteadyOps, Operation

LEMMA FetchedAreSteady ==
    \A opens \in {"fetched", "fetched-or-built"}, aim \in RequestAims, then \in SteadyThens :
        Fetched(opens, aim, then) \in SteadyOps
BY DEF SteadyThens, RequestAims, Created, Edited, Fetched, SteadyOps, Operation

\* A table over a store is careful whichever steady operations it has.
LEMMA StoresAreCareful ==
    ASSUME NEW S \in SUBSET SteadyOps
    PROVE  /\ WellMade([Listing EXCEPT !.ops = S]) /\ WellMade([Listing EXCEPT !.again = TRUE, !.ops = S])
           /\ WellMade([Catalog EXCEPT !.ops = S]) /\ WellMade([Catalog EXCEPT !.again = TRUE, !.ops = S])
           /\ WellMade([OneNamespace EXCEPT !.again = TRUE, !.ops = S])
<1> USE DEF SteadyOps, WellMade, Careful, Panel
<1>1. WellMade([Listing EXCEPT !.ops = S]) /\ WellMade([Listing EXCEPT !.again = TRUE, !.ops = S])
  BY DEF Listing
<1>2. WellMade([Catalog EXCEPT !.ops = S]) /\ WellMade([Catalog EXCEPT !.again = TRUE, !.ops = S])
  BY DEF Listing, Catalog
<1>3. WellMade([OneNamespace EXCEPT !.again = TRUE, !.ops = S])
  BY DEF Listing, OneNamespace
<1> QED BY <1>1, <1>2, <1>3

\* And so is state of a page that a failed read replaces.
LEMMA ReplacedAreCareful ==
    ASSUME NEW S \in SUBSET SteadyOps, NEW by \in {"namespace", "selection", "nothing"}
    PROVE  /\ WellMade([Own(by) EXCEPT !.failed = "empties", !.spinner = "always-cleared", !.again = TRUE, !.ops = S])
           /\ WellMade([Own(by) EXCEPT !.failed = "stands-in", !.spinner = "always-cleared", !.again = TRUE, !.ops = S])
           /\ WellMade([Own(by) EXCEPT !.failed = "empties", !.spinner = "always-cleared", !.empty = "keeps",
                                       !.again = TRUE, !.ops = S])
           /\ WellMade([[Own(by) EXCEPT !.failed = "empties", !.spinner = "always-cleared", !.empty = "keeps",
                                        !.again = TRUE, !.ops = S] EXCEPT !.by = "namespace", !.blank = TRUE])
<1> USE DEF SteadyOps, WellMade, Careful, Panel, Listing, Own
<1>1. WellMade([Own(by) EXCEPT !.failed = "empties", !.spinner = "always-cleared", !.again = TRUE, !.ops = S])
  OBVIOUS
<1>2. WellMade([Own(by) EXCEPT !.failed = "stands-in", !.spinner = "always-cleared", !.again = TRUE, !.ops = S])
  OBVIOUS
<1>3. WellMade([Own(by) EXCEPT !.failed = "empties", !.spinner = "always-cleared", !.empty = "keeps",
                              !.again = TRUE, !.ops = S])
  OBVIOUS
<1>4. WellMade([[Own(by) EXCEPT !.failed = "empties", !.spinner = "always-cleared", !.empty = "keeps",
                               !.again = TRUE, !.ops = S] EXCEPT !.by = "namespace", !.blank = TRUE])
  OBVIOUS
<1> QED BY <1>1, <1>2, <1>3, <1>4

\* Where a failed read leaves what was there, what only reads has to name the
\* row's namespace.
LEMMA KeptAreCareful ==
    ASSUME NEW S \in SUBSET SteadyOps, NEW by \in {"namespace", "selection", "nothing"},
           \A op \in S : op.then \in {"shown", "opened"} => op.aim = "row"
    PROVE  /\ WellMade([Own(by) EXCEPT !.spinner = "always-cleared", !.again = TRUE, !.ops = S])
           /\ WellMade([Own(by) EXCEPT !.again = TRUE, !.spinner = "always-cleared", !.ops = S])
           /\ WellMade([Own(by) EXCEPT !.ops = S])
BY DEF SteadyOps, WellMade, Careful, Panel, Listing, Own

\* Every panel of the pages' profiles is careful (Pages: Panels).
LEMMA ProfilesAreCareful == \A p \in Panels \cup {Registering} : WellMade(p)
<1>1. WellMade(Deployments)
  <2>1. {DeploymentYaml, DeploymentDelete, DeploymentForm, DeploymentEdit} \in SUBSET SteadyOps
    BY ClickedAreSteady, ConfirmedAreSteady, CreatedAreSteady, EditedAreSteady DEF SteadyThens, RequestAims,
         DeploymentYaml, DeploymentDelete, DeploymentForm, DeploymentEdit
  <2> QED BY <2>1, StoresAreCareful DEF Deployments
<1>2. WellMade(StatefulSets)
  <2>1. {Viewed("page"), StatefulSetDelete, StatefulSetForm} \in SUBSET SteadyOps
    BY ClickedAreSteady, ConfirmedAreSteady, CreatedAreSteady DEF SteadyThens, RequestAims, StatefulSetDelete,
         StatefulSetForm
  <2> QED BY <2>1, StoresAreCareful DEF StatefulSets
<1>3. WellMade(Pods)
  <2>1. {Viewed("page"), PodDelete} \in SUBSET SteadyOps
    BY ClickedAreSteady, ConfirmedAreSteady DEF SteadyThens, RequestAims, PodDelete
  <2> QED BY <2>1, StoresAreCareful DEF Pods
<1>4. WellMade(PVCs)
  <2>1. {Viewed("page"), PVCDelete, PVCForm} \in SUBSET SteadyOps
    BY ClickedAreSteady, ConfirmedAreSteady, CreatedAreSteady DEF SteadyThens, RequestAims, PVCDelete, PVCForm
  <2> QED BY <2>1, StoresAreCareful DEF PVCs
<1>5. WellMade(Services)
  <2>1. {Viewed("row"), ServiceDelete, ServiceForm} \in SUBSET SteadyOps
    BY ClickedAreSteady, ConfirmedAreSteady, CreatedAreSteady DEF SteadyThens, RequestAims, ServiceDelete,
         ServiceForm
  <2> QED BY <2>1, StoresAreCareful DEF Services
<1>6. WellMade(ConfigMaps)
  <2>1. {Viewed("row"), ConfigMapDelete, ConfigMapForm} \in SUBSET SteadyOps
    BY ClickedAreSteady, ConfirmedAreSteady, CreatedAreSteady DEF SteadyThens, RequestAims, ConfigMapDelete,
         ConfigMapForm
  <2> QED BY <2>1, StoresAreCareful DEF ConfigMaps
<1>7. WellMade(Secrets)
  <2>1. {Viewed("row"), SecretDelete, SecretForm} \in SUBSET SteadyOps
    BY ClickedAreSteady, ConfirmedAreSteady, CreatedAreSteady DEF SteadyThens, RequestAims, SecretDelete,
         SecretForm
  <2> QED BY <2>1, StoresAreCareful DEF Secrets
<1>8. WellMade(Gateways)
  <2>1. {Viewed("page"), GatewayDelete, HTTPRouteDelete, GatewayForm} \in SUBSET SteadyOps
    BY ClickedAreSteady, ConfirmedAreSteady, CreatedAreSteady DEF SteadyThens, RequestAims, GatewayDelete,
         HTTPRouteDelete, GatewayForm
  <2> QED BY <2>1, StoresAreCareful DEF Gateways
<1>9. WellMade(GPUProfiles)
  <2>1. {GPUProfileDelete, GPUProfileForm} \in SUBSET SteadyOps
    BY ConfirmedAreSteady, CreatedAreSteady DEF SteadyThens, RequestAims, GPUProfileDelete, GPUProfileForm
  <2> QED BY <2>1, StoresAreCareful DEF GPUProfiles
<1>10. WellMade(Nodes)
  <2>1. {NodeLabels, NodeTaints} \in SUBSET SteadyOps
    BY EditedAreSteady DEF SteadyThens, RequestAims, NodeLabels, NodeTaints
  <2> QED BY <2>1, StoresAreCareful DEF Nodes
<1>11. WellMade(GitLabConfigs)
  <2>1. {GitLabConfigDelete, GitLabConfigForm, GitLabConfigEdit} \in SUBSET SteadyOps
    BY ConfirmedAreSteady, CreatedAreSteady, EditedAreSteady DEF SteadyThens, RequestAims, GitLabConfigDelete,
         GitLabConfigForm, GitLabConfigEdit
  <2> QED BY <2>1, StoresAreCareful DEF GitLabConfigs
<1>12. WellMade(S3Secrets)
  <2>1. {S3SecretDelete, S3SecretForm, S3SecretEdit} \in SUBSET SteadyOps
    BY ConfirmedAreSteady, CreatedAreSteady, EditedAreSteady DEF SteadyThens, RequestAims, S3SecretDelete,
         S3SecretForm, S3SecretEdit
  <2> QED BY <2>1, StoresAreCareful DEF S3Secrets
<1>13. WellMade(ModelPublishRequests)
  <2>1. {Review} \in SUBSET SteadyOps
    BY ConfirmedAreSteady DEF SteadyThens, RequestAims, Review
  <2>2. \A op \in {Review} : op.then \in {"shown", "opened"} => op.aim = "row"
    BY DEF Review, Confirmed
  <2> QED BY <2>1, <2>2, KeptAreCareful DEF ModelPublishRequests
<1>14. WellMade(Namespaces)
  <2>1. {NamespaceDelete, NamespaceForm} \in SUBSET SteadyOps
    BY ConfirmedAreSteady, CreatedAreSteady DEF SteadyThens, RequestAims, NamespaceDelete, NamespaceForm
  <2> QED BY <2>1, StoresAreCareful DEF Namespaces
<1>15. WellMade(Members)
  <2>1. {MemberRole, MemberRemove, MemberAssign} \in SUBSET SteadyOps
    BY ClickedAreSteady, EditedAreSteady DEF SteadyThens, RequestAims, MemberRole, MemberRemove, MemberAssign
  <2> QED BY <2>1, StoresAreCareful DEF Members
<1>16. WellMade(Users)
  <2>1. {UserEdit} \in SUBSET SteadyOps
    BY EditedAreSteady DEF SteadyThens, RequestAims, UserEdit
  <2> QED BY <2>1, StoresAreCareful DEF Users
<1>17. WellMade(Roles)
  <2>1. {RoleDelete, RoleForm, BindingDelete, BindingForm} \in SUBSET SteadyOps
    BY ConfirmedAreSteady, EditedAreSteady DEF SteadyThens, RequestAims, RoleDelete, RoleForm, BindingDelete,
         BindingForm
  <2> QED BY <2>1, StoresAreCareful DEF Roles
<1>18. WellMade(Registry)
  <2>1. {RegistryForm, RegistrySync} \in SUBSET SteadyOps
    <3>1. RegistryForm \in SteadyOps
      BY DEF RegistryForm, Created, Edited, SteadyOps, Operation
    <3> QED BY <3>1, ClickedAreSteady DEF SteadyThens, RequestAims, RegistrySync
  <2> QED BY <2>1, StoresAreCareful DEF Registry
<1>19. WellMade(ComponentsPage)
  <2>1. {ComponentActions, ComponentUninstall, ComponentImport, RegistrySync} \in SUBSET SteadyOps
    BY ClickedAreSteady, ConfirmedAreSteady, CreatedAreSteady DEF SteadyThens, RequestAims, ComponentActions,
         ComponentUninstall, ComponentImport, RegistrySync
  <2> QED BY <2>1, StoresAreCareful DEF ComponentsPage
<1>20. WellMade(GitLabTree)
  <2>1. {FileViewer, GitLabUpload, GitLabDownload} \in SUBSET SteadyOps
    BY ClickedAreSteady, CreatedAreSteady DEF SteadyThens, RequestAims, FileViewer, GitLabUpload, GitLabDownload
  <2> QED BY <2>1, ReplacedAreCareful DEF GitLabTree
<1>21. WellMade(S3Objects)
  <2>1. {S3Upload, S3Download, S3Delete} \in SUBSET SteadyOps
    BY ClickedAreSteady, ConfirmedAreSteady DEF SteadyThens, RequestAims, S3Upload, S3Download, S3Delete
  <2> QED BY <2>1, ReplacedAreCareful DEF S3Objects
<1>22. WellMade(S3ObjectsOf)
  <2>1. {S3Upload, S3Download, S3Delete} \in SUBSET SteadyOps
    BY ClickedAreSteady, ConfirmedAreSteady DEF SteadyThens, RequestAims, S3Upload, S3Download, S3Delete
  <2> QED BY <2>1, ReplacedAreCareful DEF S3ObjectsOf, S3Objects
<1>23. WellMade(PVCManager)
  <2>1. {ViewerOpen, ViewerStart, ViewerStop, StoragePVCDelete, StoragePVCForm} \in SUBSET SteadyOps
    BY ClickedAreSteady, ConfirmedAreSteady, CreatedAreSteady DEF SteadyThens, RequestAims, ViewerOpen,
         ViewerStart, ViewerStop, StoragePVCDelete, StoragePVCForm
  <2> QED BY <2>1, StoresAreCareful DEF PVCManager
<1>24. WellMade(ModelHub)
  <2>1. {ModelDelete, ModelForm, ModelImport, ModelUpload, PublishRequest} \in SUBSET SteadyOps
    BY ConfirmedAreSteady, CreatedAreSteady DEF SteadyThens, RequestAims, ModelDelete, ModelForm, ModelImport,
         ModelUpload, PublishRequest
  <2> QED BY <2>1, StoresAreCareful DEF ModelHub
<1>25. WellMade(CollectionTab)
  <2>1. {CollectionDelete, CollectionEdit} \in SUBSET SteadyOps
    BY ConfirmedAreSteady, EditedAreSteady DEF SteadyThens, RequestAims, CollectionDelete, CollectionEdit
  <2> QED BY <2>1, StoresAreCareful DEF CollectionTab
<1>26. WellMade(ModelDetail)
  <2>1. {DetailDelete, PublishRequest} \in SUBSET SteadyOps
    BY ConfirmedAreSteady, CreatedAreSteady DEF SteadyThens, RequestAims, DetailDelete, PublishRequest
  <2> QED BY <2>1, StoresAreCareful DEF ModelDetail
<1>27. WellMade(InferenceServices)
  <2>1. {ServiceYaml, ServiceYamlEdit, ServiceStop, InferenceDelete, ServiceCreate, ServiceEdit} \in SUBSET SteadyOps
    BY ClickedAreSteady, ConfirmedAreSteady, CreatedAreSteady, EditedAreSteady, FetchedAreSteady DEF
         SteadyThens, RequestAims, ServiceYaml, ServiceYamlEdit, ServiceStop, InferenceDelete, ServiceCreate,
         ServiceEdit
  <2> QED BY <2>1, StoresAreCareful DEF InferenceServices
<1>28. WellMade(ServingRuntimes)
  <2>1. {RuntimeYaml, RuntimeYamlEdit, RuntimeDelete, RuntimeCreate, RuntimeEdit, RuntimeImport} \in SUBSET SteadyOps
    BY ClickedAreSteady, ConfirmedAreSteady, CreatedAreSteady, EditedAreSteady, FetchedAreSteady DEF
         SteadyThens, RequestAims, RuntimeYaml, RuntimeYamlEdit, RuntimeDelete, RuntimeCreate, RuntimeEdit,
         RuntimeImport
  <2> QED BY <2>1, StoresAreCareful DEF ServingRuntimes
<1>29. WellMade(LLMConfigs)
  <2>1. {LLMConfigYaml, LLMConfigEdit, LLMConfigCreate, LLMConfigDelete} \in SUBSET SteadyOps
    BY ClickedAreSteady, ConfirmedAreSteady, CreatedAreSteady, FetchedAreSteady DEF SteadyThens, RequestAims,
         LLMConfigYaml, LLMConfigEdit, LLMConfigCreate, LLMConfigDelete
  <2>2. \A op \in {LLMConfigYaml, LLMConfigEdit, LLMConfigCreate, LLMConfigDelete} : op.then \in {"shown", "opened"}
       => op.aim = "row"
    <3>1. LLMConfigEdit.then = "captured"
      BY DEF LLMConfigEdit, Fetched, Edited, Created
    <3> QED BY <3>1 DEF LLMConfigYaml, Viewed, Clicked, Created, LLMConfigCreate, LLMConfigDelete, Confirmed
  <2> QED BY <2>1, <2>2, KeptAreCareful DEF LLMConfigs
<1>30. WellMade(StorageContainers)
  <2>1. {StorageContainerYaml, StorageContainerEdit, StorageContainerDelete, LLMConfigCreate} \in SUBSET SteadyOps
    BY ClickedAreSteady, ConfirmedAreSteady, CreatedAreSteady, FetchedAreSteady DEF SteadyThens, RequestAims,
         StorageContainerYaml, StorageContainerEdit, StorageContainerDelete, LLMConfigCreate
  <2>2. \A op \in {StorageContainerYaml, StorageContainerEdit, StorageContainerDelete, LLMConfigCreate} : op.then \in
       {"shown", "opened"} => op.aim = "row"
    <3>1. StorageContainerEdit.then = "captured"
      BY DEF StorageContainerEdit, Fetched, Edited, Created
    <3> QED BY <3>1 DEF StorageContainerYaml, Viewed, Clicked, Created, StorageContainerDelete, Confirmed,
                 LLMConfigCreate
  <2> QED BY <2>1, <2>2, KeptAreCareful DEF StorageContainers
<1>31. WellMade(LocalModelCache)
  <2>1. {CacheYaml, CacheEdit, CacheDelete, NodeGroupDelete, NodeGroupForm, CacheForm} \in SUBSET SteadyOps
    BY ClickedAreSteady, ConfirmedAreSteady, CreatedAreSteady, FetchedAreSteady DEF SteadyThens, RequestAims,
         CacheYaml, CacheEdit, CacheDelete, NodeGroupDelete, NodeGroupForm, CacheForm
  <2> QED BY <2>1, StoresAreCareful DEF LocalModelCache
<1>32. WellMade(GatewayRows)
  <2>1. {CreateRoute} \in SUBSET SteadyOps
    BY DEF SteadyThens, RequestAims, CreateRoute, Created, Edited, SteadyOps, Operation
  <2> QED BY <2>1, ReplacedAreCareful DEF GatewayRows
<1>33. WellMade(TrainJobs)
  <2>1. {TrainJobDelete, TrainJobForm} \in SUBSET SteadyOps
    BY ConfirmedAreSteady, CreatedAreSteady DEF SteadyThens, RequestAims, TrainJobDelete, TrainJobForm
  <2> QED BY <2>1, StoresAreCareful DEF TrainJobs
<1>34. WellMade(TrainingRuntimes)
  <2>1. {TrainingRuntimeDelete, TrainingRuntimeForm} \in SUBSET SteadyOps
    BY ConfirmedAreSteady, CreatedAreSteady DEF SteadyThens, RequestAims, TrainingRuntimeDelete,
         TrainingRuntimeForm
  <2> QED BY <2>1, StoresAreCareful DEF TrainingRuntimes
<1>35. WellMade(Notebooks)
  <2>1. {NotebookStartStop, NotebookDelete, NotebookForm} \in SUBSET SteadyOps
    BY ClickedAreSteady, ConfirmedAreSteady, CreatedAreSteady DEF SteadyThens, RequestAims, NotebookStartStop,
         NotebookDelete, NotebookForm
  <2> QED BY <2>1, StoresAreCareful DEF Notebooks
<1>36. WellMade(LLMRegistry)
  <2>1. {ProviderDelete, ProviderForm, ProviderSync} \in SUBSET SteadyOps
    BY ClickedAreSteady, ConfirmedAreSteady, CreatedAreSteady DEF SteadyThens, RequestAims, ProviderDelete,
         ProviderForm, ProviderSync
  <2>2. \A op \in {ProviderDelete, ProviderForm, ProviderSync} : op.then \in {"shown", "opened"} => op.aim = "row"
    BY DEF ProviderDelete, Confirmed, ProviderForm, Created, ProviderSync, Clicked
  <2> QED BY <2>1, <2>2, KeptAreCareful DEF LLMRegistry
<1>37. WellMade(Registering)
  <2>1. {RegisterAsModel, RegisterFromAIStorage} \in SUBSET SteadyOps
    BY CreatedAreSteady DEF SteadyThens, RequestAims, RegisterAsModel, RegisterFromAIStorage
  <2>2. Registering = [Listing EXCEPT !.again = TRUE, !.ops = {RegisterAsModel, RegisterFromAIStorage}]
    BY DEF Registering, ModelHub, Listing
  <2> QED BY <2>1, <2>2, StoresAreCareful
<1>38. WellMade(GitLabProjects)
  BY DEF WellMade, Careful, Panel, GitLabProjects, Own, Listing
<1>39. WellMade(GitLabProjectsOf)
  BY DEF WellMade, Careful, Panel, GitLabProjectsOf, GitLabProjects, Own, Listing
<1>40. WellMade(GitLabProject)
  BY DEF WellMade, Careful, Panel, GitLabProject, Cancelling, Own, Listing
<1>41. WellMade(GitLabRefs)
  BY DEF WellMade, Careful, Panel, GitLabRefs, Cancelling, Own, Listing
<1>42. WellMade(S3Buckets)
  BY DEF WellMade, Careful, Panel, S3Buckets, Cancelling, Own, Listing
<1>43. WellMade(ModelTree)
  BY DEF WellMade, Careful, Panel, ModelTree, Cancelling, Own, Listing
<1>44. WellMade(ModelServices)
  BY DEF WellMade, Careful, Panel, ModelServices, ModelTree, Cancelling, Own, Listing
<1>45. WellMade(RouteStatuses)
  BY DEF WellMade, Careful, Panel, RouteStatuses, Cancelling, Own, Listing
<1>46. WellMade(GatewayBanner)
  BY DEF WellMade, Careful, Panel, GatewayBanner, Own, Listing
<1>47. WellMade(ClusterRuntimes)
  BY DEF WellMade, Careful, Panel, ClusterRuntimes, Own, Listing
<1>48. WellMade(RuntimePreview)
  BY DEF WellMade, Careful, Panel, RuntimePreview, Own, Listing
<1>49. WellMade(GatewayConfig)
  BY DEF WellMade, Careful, Panel, GatewayConfig, Own, Listing
<1>50. WellMade(ServiceDetail)
  BY DEF WellMade, Careful, Panel, ServiceDetail, Listing
<1>51. WellMade(DetailRoutes)
  BY DEF WellMade, Careful, Panel, DetailRoutes, Own, Listing
<1>52. WellMade(DetailGateway)
  BY DEF WellMade, Careful, Panel, DetailGateway, DetailRoutes, Own, Listing
<1>53. WellMade(DetailSeries)
  BY DEF WellMade, Careful, Panel, DetailSeries, Cancelling, Own, Listing
<1>54. WellMade(LogPods)
  BY DEF WellMade, Careful, Panel, LogPods, Cancelling, Own, Listing
<1>55. WellMade(ClusterGPUs)
  BY DEF WellMade, Careful, Panel, ClusterGPUs, Cancelling, Own, Listing
<1>56. WellMade(NamespaceGPUs)
  BY DEF WellMade, Careful, Panel, NamespaceGPUs, Cancelling, Own, Listing
<1>57. WellMade(GPUDevices)
  BY DEF WellMade, Careful, Panel, GPUDevices, ClusterGPUs, Cancelling, Own, Listing
<1>58. WellMade(ResourceCharts)
  BY DEF WellMade, Careful, Panel, ResourceCharts, Cancelling, Own, Listing
<1>59. WellMade(LLMSeries)
  BY DEF WellMade, Careful, Panel, LLMSeries, ResourceCharts, Cancelling, Own, Listing
<1>60. WellMade(TrainSeries)
  BY DEF WellMade, Careful, Panel, TrainSeries, LLMSeries, ResourceCharts, Cancelling, Own, Listing
<1>61. WellMade(Dashboard)
  BY DEF WellMade, Careful, Panel, Dashboard, Listing
<1>62. WellMade(DashboardGPUs)
  BY DEF WellMade, Careful, Panel, DashboardGPUs, Cancelling, Own, Listing
<1>63. WellMade(ClusterName)
  BY DEF WellMade, Careful, Panel, ClusterName, Cancelling, Own, Listing
<1> QED
  BY <1>1, <1>2, <1>3, <1>4, <1>5, <1>6, <1>7, <1>8, <1>9, <1>10, <1>11, <1>12, <1>13, <1>14, <1>15, <1>16,
       <1>17, <1>18, <1>19, <1>20, <1>21, <1>22, <1>23, <1>24, <1>25, <1>26, <1>27, <1>28, <1>29, <1>30, <1>31,
       <1>32, <1>33, <1>34, <1>35, <1>36, <1>37, <1>38, <1>39, <1>40, <1>41, <1>42, <1>43, <1>44, <1>45, <1>46,
       <1>47, <1>48, <1>49, <1>50, <1>51, <1>52, <1>53, <1>54, <1>55, <1>56, <1>57, <1>58, <1>59, <1>60, <1>61,
       <1>62, <1>63 DEF Panels

\* A panel looked at with fewer of its operations is still careful.
LEMMA FewerOperations ==
    ASSUME NEW p, WellMade(p), NEW S \in SUBSET p.ops
    PROVE  WellMade([p EXCEPT !.ops = S])
BY DEF WellMade, Careful, Panel

\* The panels of the console are such as the theorems about pages ask for:
\* whichever of them, with whichever of their operations, a page is looked at
\* (pages of frontend/src/pages, as Panels profiles them).
THEOREM ConsolePagesAreCareful ==
    ASSUME \A w \in ScreenWorlds :
              /\ \E p \in Panels \cup {Registering} : \E S \in SUBSET p.ops : w.panel = [p EXCEPT !.ops = S]
              /\ ~({"in-turn", "settling"} \subseteq w.now)
    PROVE  CarefulPanels
<1>1. ASSUME NEW w \in ScreenWorlds PROVE Careful(w.panel)
  <2>1. PICK p \in Panels \cup {Registering} : \E S \in SUBSET p.ops : w.panel = [p EXCEPT !.ops = S]
    OBVIOUS
  <2>2. PICK S \in SUBSET p.ops : w.panel = [p EXCEPT !.ops = S]
    BY <2>1
  <2>3. WellMade(p)
    BY ProfilesAreCareful
  <2>4. WellMade([p EXCEPT !.ops = S])
    BY <2>3, FewerOperations
  <2> QED BY <2>2, <2>4 DEF WellMade
<1> QED BY <1>1 DEF CarefulPanels

=============================================================================
