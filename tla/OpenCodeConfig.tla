--------------------------- MODULE OpenCodeConfig ---------------------------
(***************************************************************************)
(* The LLM provider catalog of the playground and the opencode sidecar     *)
(* that must know it.  A change of the catalog starts a goroutine that     *)
(* rewrites opencode.json and sends the sidecar a SIGTERM; an agent turn   *)
(* does the same before it talks to the sidecar.  The sidecar reads the    *)
(* file only when it boots.                                                *)
(* Source: backend/internal/playground/service.go, opencode_server.go and  *)
(* the wiring in backend/cmd/knaic-api/main.go.                            *)
(***************************************************************************)
EXTENDS Naturals

CONSTANTS
    Models,       \* models a provider can serve
    None,         \* no model, no file, nobody
    Calls,        \* bound: hook goroutines and agent turns at once
    main,         \* the goroutine that starts the server
    MaxId,        \* bound: providers created in the life of a process
    MaxRestarts   \* bound: restarts of knaic-api

Ids        == 1..MaxId
Goroutines == Calls \cup {main}

\* What buildConfig renders: the token for the way back, and a model for each
\* provider.  Endpoints and API keys are not in it: the proxy looks them up.
Catalog == [Ids -> Models \cup {None}]
Config  == [token : 0..MaxRestarts, models : Catalog]
NoProviders == [i \in Ids |-> None]

ASSUME ConfigAssumption ==
    /\ None \notin Models /\ None \notin Config
    /\ main \notin Calls /\ None \notin Calls \cup {main}
    /\ MaxId \in Nat /\ MaxRestarts \in Nat

VARIABLES
    providers,  \* Service.providers: id -> model
    counter,    \* Service.counter
    token,      \* the internal token of this process
    file,       \* opencode.json
    snapHash,   \* the content written last by this process
    lock,       \* who holds OpenCodeServerRunner.mu
    calls,      \* the goroutines
    sidecar,    \* the sidecar: its phase and the configuration it has loaded
    fails       \* what may fail in this behaviour

state == <<providers, counter, token, file, snapHash, lock, calls, sidecar>>
vars  == <<providers, counter, token, file, snapHash, lock, calls, sidecar, fails>>

WriteFails  == "write" \in fails   \* writing opencode.json
BounceFails == "bounce" \in fails  \* signalling a running sidecar

\* id, model: the provider of an agent turn, as it read it (id 0: not a turn);
\* kept: nobody has changed that provider since; want: the rendered snapshot.
Call == [at    : {"idle", "lock", "snapshot", "write", "bounce", "post"},
         id    : Ids \cup {0},
         model : Models \cup {None},
         kept  : BOOLEAN,
         want  : Config \cup {None}]

Sidecar == [phase : {"down", "booting", "up", "exiting"}, cfg : Config \cup {None}]

Idle     == [at |-> "idle", id |-> 0, model |-> None, kept |-> FALSE, want |-> None]
Ensuring == [Idle EXCEPT !.at = "lock"]

TypeOK ==
    /\ providers \in Catalog
    /\ counter \in 0..MaxId
    /\ token \in 0..MaxRestarts
    /\ file \in Config \cup {None}
    /\ snapHash \in Config \cup {None}
    /\ lock \in Goroutines \cup {None}
    /\ calls \in [Goroutines -> Call]
    /\ sidecar \in Sidecar
    /\ fails \in SUBSET {"write", "bounce"}

\* main has called EnsureConfig and serves no requests before it returns.
Starting == [g \in Goroutines |-> IF g = main THEN Ensuring ELSE Idle]

Init ==
    /\ providers = NoProviders
    /\ counter = 0
    /\ token = 0
    /\ file = None
    /\ snapHash = None
    /\ lock = None
    /\ calls = Starting
    /\ sidecar = [phase |-> "down", cfg |-> None]
    /\ fails \in SUBSET {"write", "bounce"}

-----------------------------------------------------------------------------
(* Requests *)

serving == calls[main].at = "idle"

buildConfig == [token |-> token, models |-> providers]

\* A change of the catalog and the hook it starts, c.
Mutate(c, i, m) ==
    /\ serving
    /\ calls[c].at = "idle"
    /\ providers' = [providers EXCEPT ![i] = m]
    /\ calls' = [g \in Goroutines |->
                    IF g = c THEN Ensuring
                    ELSE IF calls[g].id = i
                         THEN [calls[g] EXCEPT !.kept = @ /\ m = providers[i]]
                         ELSE calls[g]]
    /\ UNCHANGED <<token, file, snapHash, lock, sidecar>>

CreateProvider(c, m) ==
    /\ counter < MaxId
    /\ counter' = counter + 1
    /\ Mutate(c, counter + 1, m)

\* Mutant: the change is not announced.
PatchSilently(c, i, m) ==
    /\ serving
    /\ providers[i] # None
    /\ providers' = [providers EXCEPT ![i] = m]
    /\ calls' = [g \in Goroutines |-> IF calls[g].id = i
                                      THEN [calls[g] EXCEPT !.kept = FALSE] ELSE calls[g]]
    /\ UNCHANGED <<counter, token, file, snapHash, lock, sidecar>>

\* m is the old model when only the endpoint or the API key changes.
PatchProvider(c, i, m) ==
    /\ providers[i] # None
    /\ Mutate(c, i, m)
    /\ UNCHANGED counter

DeleteProvider(c, i) ==
    /\ providers[i] # None
    /\ Mutate(c, i, None)
    /\ UNCHANGED counter

\* Mutant: the turn does not call EnsureConfig.
RunAgentUnchecked(c, i) ==
    /\ serving
    /\ calls[c].at = "idle"
    /\ providers[i] # None
    /\ calls' = [calls EXCEPT ![c] = [Idle EXCEPT !.at = "post", !.id = i,
                                           !.model = providers[i], !.kept = TRUE]]
    /\ UNCHANGED <<providers, counter, token, file, snapHash, lock, sidecar>>

\* An agent turn: it reads its provider, then calls EnsureConfig itself.
RunAgent(c, i) ==
    /\ serving
    /\ calls[c].at = "idle"
    /\ providers[i] # None
    /\ calls' = [calls EXCEPT ![c] = [Ensuring EXCEPT !.id = i, !.model = providers[i],
                                                      !.kept = TRUE]]
    /\ UNCHANGED <<providers, counter, token, file, snapHash, lock, sidecar>>

-----------------------------------------------------------------------------
(* EnsureConfig, ensureSnapshotCovers: writeConfigLocked under r.mu *)

Lock(g) ==
    /\ calls[g].at = "lock"
    /\ lock = None
    /\ lock' = g
    /\ calls' = [calls EXCEPT ![g] = [@ EXCEPT !.at = "snapshot"]]
    /\ UNCHANGED <<providers, counter, token, file, snapHash, sidecar>>

Snapshot(g) ==
    /\ calls[g].at = "snapshot"
    /\ calls' = [calls EXCEPT ![g] = [@ EXCEPT !.at = "write", !.want = buildConfig]]
    /\ UNCHANGED <<providers, counter, token, file, snapHash, lock, sidecar>>

\* What a goroutine does after EnsureConfig returned nil, or an error.
Proceed(k) == IF k.id = 0 THEN Idle ELSE [k EXCEPT !.at = "post"]

Unlock(g, k) == lock' = None /\ calls' = [calls EXCEPT ![g] = k]

\* The hash tells that this process has written the same content before.
SkipWrite(g) ==
    /\ calls[g].at = "write"
    /\ calls[g].want = snapHash
    /\ Unlock(g, Proceed(calls[g]))
    /\ UNCHANGED <<providers, counter, token, file, snapHash, sidecar>>

\* Write a temporary file and rename it, then remember the hash.
WriteConfig(g) ==
    /\ calls[g].at = "write"
    /\ calls[g].want # snapHash
    /\ file' = calls[g].want
    /\ snapHash' = calls[g].want
    /\ calls' = [calls EXCEPT ![g] = [@ EXCEPT !.at = "bounce"]]
    /\ UNCHANGED <<providers, counter, token, lock, sidecar>>

WriteError(g) ==
    /\ WriteFails
    /\ calls[g].at = "write"
    /\ calls[g].want # snapHash
    /\ Unlock(g, Idle)
    /\ UNCHANGED <<providers, counter, token, file, snapHash, sidecar>>

\* Mutant: the signal is never sent.
BounceNothing(g) ==
    /\ calls[g].at = "bounce"
    /\ Unlock(g, Proceed(calls[g]))
    /\ UNCHANGED <<providers, counter, token, file, snapHash, sidecar>>

\* SIGTERM to the process that /proc shows; without one the file is there for
\* the next boot.
Bounce(g) ==
    /\ calls[g].at = "bounce"
    /\ sidecar' = IF sidecar.phase = "down" THEN sidecar
                  ELSE [sidecar EXCEPT !.phase = "exiting"]
    /\ Unlock(g, Proceed(calls[g]))
    /\ UNCHANGED <<providers, counter, token, file, snapHash>>

BounceError(g) ==
    /\ BounceFails
    /\ calls[g].at = "bounce"
    /\ sidecar.phase # "down"
    /\ Unlock(g, Idle)
    /\ UNCHANGED <<providers, counter, token, file, snapHash, sidecar>>

\* The turn's request to the sidecar.
Post(g) ==
    /\ calls[g].at = "post"
    /\ calls' = [calls EXCEPT ![g] = Idle]
    /\ UNCHANGED <<providers, counter, token, file, snapHash, lock, sidecar>>

-----------------------------------------------------------------------------
(* The sidecar, which the kubelet keeps running, and restarts of knaic-api *)

Start ==
    /\ sidecar.phase = "down"
    /\ sidecar' = [sidecar EXCEPT !.phase = "booting"]
    /\ UNCHANGED <<providers, counter, token, file, snapHash, lock, calls>>

Load ==
    /\ sidecar.phase = "booting"
    /\ sidecar' = [phase |-> "up", cfg |-> file]
    /\ UNCHANGED <<providers, counter, token, file, snapHash, lock, calls>>

Exit ==
    /\ sidecar.phase = "exiting"
    /\ sidecar' = [phase |-> "down", cfg |-> None]
    /\ UNCHANGED <<providers, counter, token, file, snapHash, lock, calls>>

Crash ==
    /\ sidecar.phase \in {"booting", "up"}
    /\ sidecar' = [phase |-> "down", cfg |-> None]
    /\ UNCHANGED <<providers, counter, token, file, snapHash, lock, calls>>

\* The container of knaic-api restarts: the catalog is in memory only, the
\* file and the sidecar outlive it.
Restart ==
    /\ token < MaxRestarts
    /\ token' = token + 1
    /\ providers' = NoProviders
    /\ counter' = 0
    /\ snapHash' = None
    /\ lock' = None
    /\ calls' = Starting
    /\ UNCHANGED <<file, sidecar>>

-----------------------------------------------------------------------------

Continue(g) ==
    \/ Snapshot(g) \/ SkipWrite(g) \/ WriteConfig(g) \/ WriteError(g)
    \/ Bounce(g) \/ BounceError(g) \/ Post(g)

Kubelet == Start \/ Load \/ Exit

Step ==
    \/ \E c \in Calls :
        \/ \E m \in Models : CreateProvider(c, m)
        \/ \E i \in Ids :
            \/ \E m \in Models : PatchProvider(c, i, m)
            \/ DeleteProvider(c, i)
            \/ RunAgent(c, i)
    \/ \E g \in Goroutines : Lock(g) \/ Continue(g)
    \/ Kubelet \/ Crash \/ Restart

Next == Step /\ UNCHANGED fails

Spec == Init /\ [][Next]_vars

\* The scheduler runs every goroutine, a sync.Mutex starves nobody, and the
\* kubelet boots what is down; a process that got SIGTERM exits.
Fairness ==
    /\ \A g \in Goroutines : SF_state(Lock(g)) /\ WF_state(Continue(g))
    /\ WF_state(Kubelet)

FairSpec == Spec /\ Fairness

-----------------------------------------------------------------------------

\* "re-rendered on every provider snapshot change and bounced": a sidecar that
\* is up runs the file on disk, or the signal is about to be sent, or this
\* process has yet to write its first file.
SidecarFollows ==
    ~BounceFails /\ sidecar.phase = "up" /\ sidecar.cfg # file =>
        \/ \E g \in Goroutines : calls[g].at = "bounce"
        \/ snapHash = None

\* The hooks run in any order, but the file ends with the catalog of now: it
\* has it, or somebody will still look at the catalog, or has just done so.
FileConverges ==
    ~WriteFails /\ file # buildConfig =>
        \E g \in Goroutines :
            \/ calls[g].at \in {"lock", "snapshot"}
            \/ calls[g].at = "write" /\ calls[g].want = buildConfig

Covers(cfg, k) == cfg # None /\ cfg.models[k.id] = k.model

CoversTurn ==
    \A g \in Goroutines :
        Post(g) /\ calls[g].kept /\ sidecar.phase = "up" => Covers(sidecar.cfg, calls[g])

\* When signals do not fail, a turn whose provider nobody has changed finds it
\* in the sidecar that it talks to.
TurnCovered == [][~BounceFails => CoversTurn]_vars

\* "the hash dedup avoids unnecessary bounces", and only those: the same when
\* a signal failed and the turn got past ensureSnapshotCovers afterwards.
TurnAlwaysCovered == [][CoversTurn]_vars

\* When nothing fails and the catalog is left alone, the sidecar comes to know
\* it for good.
Converges ==
    fails = {} /\ <>[][FALSE]_<<providers, token>> =>
        <>[](sidecar.phase = "up" => sidecar.cfg = buildConfig)

=============================================================================
