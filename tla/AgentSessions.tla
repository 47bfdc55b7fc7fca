--------------------------- MODULE AgentSessions ---------------------------
(***************************************************************************)
(* Agent sessions of the playground: turns that run against the opencode   *)
(* sidecar, each a sequence of store and sidecar calls of its own, while   *)
(* other turns run, sessions are deleted and knaic-api restarts.           *)
(* Source: backend/internal/playground (service.go, agent_store.go,        *)
(* agent_postgres.go, opencode_server.go).                                 *)
(***************************************************************************)
EXTENDS Naturals

CONSTANTS
    Turns,        \* bound: messages users send
    Sessions,     \* bound: sessions users create
    None,         \* no opencode session
    MaxId,        \* bound: providers created in the life of a process
    MaxMade,      \* bound: providers created in all
    MaxRestarts,  \* bound: restarts of knaic-api
    Worlds        \* the circumstances to look at

Circumstances == {"postgres", "overlap", "new-pods", "persist-fails"}

ASSUME SessionsAssumption ==
    /\ None \notin Turns /\ \A S \in SUBSET Turns : None # S
    /\ MaxId \in Nat /\ MaxMade \in Nat /\ MaxRestarts \in Nat
    /\ Worlds \subseteq SUBSET Circumstances

VARIABLES
    providers,  \* Service.providers: id -> which provider it is (0: none)
    counter,    \* Service.counter
    made,       \* how many providers there have been
    sessions,   \* knaic_agent_sessions
    log,        \* knaic_agent_messages: who said what in a session
    turns,      \* the running RunAgent calls
    history,    \* the sidecar's sessions: the turns each has seen
    restarts,
    world       \* the circumstances of this behaviour

vars == <<providers, counter, made, sessions, log, turns, history, restarts, world>>

Persistent   == "postgres" \in world       \* sessions are in Postgres, or in memory
Overlap      == "overlap" \in world        \* a session may have two turns in flight
NewPods      == "new-pods" \in world       \* a restart may bring a new pod
PersistFails == "persist-fails" \in world  \* storing an opencode session's id may fail

Ids   == 1..MaxId
Known == (SUBSET Turns) \cup {None}

\* provider: the id in the row; made: the provider that had it when the
\* session was created; oc: the opencode session, named after the turn that
\* had it created.
Session == [phase : {"new", "live", "gone"}, provider : Ids \cup {0},
            made : 0..MaxMade, oc : Turns \cup {None}]

\* sid: its session; made: the provider it talks to; oc: as it read it.
Turn == [at   : {"new", "append", "ensure", "alloc", "persist", "post", "answer", "done"},
         sid  : Sessions \cup {None},
         made : 0..MaxMade,
         oc   : Turns \cup {None}]

TypeOK ==
    /\ providers \in [Ids -> 0..MaxMade]
    /\ counter \in 0..MaxId
    /\ made \in 0..MaxMade
    /\ sessions \in [Sessions -> Session]
    /\ log \in [Sessions -> SUBSET ({"user", "assistant"} \X Turns)]
    /\ turns \in [Turns -> Turn]
    /\ history \in [Turns -> Known]
    /\ restarts \in 0..MaxRestarts
    /\ world \in Worlds

Init ==
    /\ providers = [i \in Ids |-> 0]
    /\ counter = 0
    /\ made = 0
    /\ sessions = [s \in Sessions |-> [phase |-> "new", provider |-> 0, made |-> 0, oc |-> None]]
    /\ log = [s \in Sessions |-> {}]
    /\ turns = [t \in Turns |-> [at |-> "new", sid |-> None, made |-> 0, oc |-> None]]
    /\ history = [t \in Turns |-> None]
    /\ restarts = 0
    /\ world \in Worlds

-----------------------------------------------------------------------------
(* Providers *)

\* Mutant: takes the first id that is free.
CreateReusingIds ==
    /\ made < MaxMade
    /\ \E i \in Ids :
        /\ providers[i] = 0
        /\ \A j \in 1..(i - 1) : providers[j] # 0
        /\ providers' = [providers EXCEPT ![i] = made + 1]
    /\ made' = made + 1
    /\ UNCHANGED <<counter, sessions, log, turns, history, restarts>>

\* Ids count from 1 in every process.
CreateProvider ==
    /\ counter < MaxId /\ made < MaxMade
    /\ counter' = counter + 1
    /\ made' = made + 1
    /\ providers' = [providers EXCEPT ![counter + 1] = made + 1]
    /\ UNCHANGED <<sessions, log, turns, history, restarts>>

DeleteProvider(i) ==
    /\ providers[i] # 0
    /\ providers' = [providers EXCEPT ![i] = 0]
    /\ UNCHANGED <<counter, made, sessions, log, turns, history, restarts>>

-----------------------------------------------------------------------------
(* Sessions *)

CreateAgentSession(s, i) ==
    /\ sessions[s].phase = "new"
    /\ providers[i] # 0
    /\ sessions' = [sessions EXCEPT ![s] = [phase |-> "live", provider |-> i,
                                            made |-> providers[i], oc |-> None]]
    /\ UNCHANGED <<providers, counter, made, log, turns, history, restarts>>

\* The row and, by cascade or under the same lock, its messages.
DeleteAgentSession(s) ==
    /\ sessions[s].phase = "live"
    /\ sessions' = [sessions EXCEPT ![s] = [@ EXCEPT !.phase = "gone"]]
    /\ log' = [log EXCEPT ![s] = {}]
    /\ UNCHANGED <<providers, counter, made, turns, history, restarts>>

\* A message is added, unless the session has been deleted.
Append(s, msg) ==
    /\ sessions[s].phase = "live"
    /\ log' = [log EXCEPT ![s] = @ \cup {msg}]

-----------------------------------------------------------------------------
(* RunAgent *)

Goto(t, at) == turns' = [turns EXCEPT ![t] = [@ EXCEPT !.at = at]]

\* GetSession, then providerForChat.
RunAgent(t, s) ==
    /\ turns[t].at = "new"
    /\ sessions[s].phase = "live"
    /\ providers[sessions[s].provider] # 0
    /\ ~Overlap => \A u \in Turns : turns[u].sid = s => turns[u].at = "done"
    /\ turns' = [turns EXCEPT ![t] = [at |-> "append", sid |-> s,
                                      made |-> providers[sessions[s].provider],
                                      oc |-> sessions[s].oc]]
    /\ UNCHANGED <<providers, counter, made, sessions, log, history, restarts>>

\* The question is stored before anybody is asked.
AppendUser(t) ==
    /\ turns[t].at = "append"
    /\ Append(turns[t].sid, <<"user", t>>)
    /\ Goto(t, "ensure")
    /\ UNCHANGED <<providers, counter, made, sessions, history, restarts>>

\* Mutant: every turn has a session of its own created.
EnsureAlways(t) ==
    /\ turns[t].at = "ensure"
    /\ Goto(t, "alloc")
    /\ UNCHANGED <<providers, counter, made, sessions, log, history, restarts>>

\* ensureOpenCodeSession, after the configuration has been ensured.
Ensure(t) ==
    /\ turns[t].at = "ensure"
    /\ Goto(t, IF turns[t].oc = None THEN "alloc" ELSE "post")
    /\ UNCHANGED <<providers, counter, made, sessions, log, history, restarts>>

\* POST /session.
Allocate(t) ==
    /\ turns[t].at = "alloc"
    /\ history' = [history EXCEPT ![t] = {}]
    /\ turns' = [turns EXCEPT ![t] = [@ EXCEPT !.at = "persist", !.oc = t]]
    /\ UNCHANGED <<providers, counter, made, sessions, log, restarts>>

\* SetOpenCodeSession; best effort.
Persist(t) ==
    /\ turns[t].at = "persist"
    /\ sessions' = IF sessions[turns[t].sid].phase = "live"
                   THEN [sessions EXCEPT ![turns[t].sid] = [@ EXCEPT !.oc = turns[t].oc]]
                   ELSE sessions
    /\ Goto(t, "post")
    /\ UNCHANGED <<providers, counter, made, log, history, restarts>>

PersistError(t) ==
    /\ PersistFails
    /\ turns[t].at = "persist"
    /\ Goto(t, "post")
    /\ UNCHANGED <<providers, counter, made, sessions, log, history, restarts>>

\* POST /session/:id/message.  A session the sidecar has never seen records
\* nothing, and may still answer with an empty body.
Post(t) ==
    /\ turns[t].at = "post"
    /\ history' = IF history[turns[t].oc] = None THEN history
                  ELSE [history EXCEPT ![turns[t].oc] = @ \cup {t}]
    /\ Goto(t, "answer")
    /\ UNCHANGED <<providers, counter, made, sessions, log, restarts>>

\* Mutant: writes the answer without looking for the session.
AnswerBlindly(t) ==
    /\ turns[t].at = "answer"
    /\ log' = [log EXCEPT ![turns[t].sid] = @ \cup {<<"assistant", t>>}]
    /\ Goto(t, "done")
    /\ UNCHANGED <<providers, counter, made, sessions, history, restarts>>

\* The answer, unless the session has been deleted.
AppendAnswer(t) ==
    /\ turns[t].at = "answer"
    /\ Append(turns[t].sid, <<"assistant", t>>)
    /\ Goto(t, "done")
    /\ UNCHANGED <<providers, counter, made, sessions, history, restarts>>

\* An error of any of these calls, an answer without text, or the user going
\* away ends the turn.
Fail(t) ==
    /\ turns[t].at \notin {"new", "done"}
    /\ Goto(t, "done")
    /\ UNCHANGED <<providers, counter, made, sessions, log, history, restarts>>

-----------------------------------------------------------------------------

\* knaic-api restarts, alone or in a new pod whose sidecar starts empty.
Restart ==
    /\ restarts < MaxRestarts
    /\ restarts' = restarts + 1
    /\ providers' = [i \in Ids |-> 0]
    /\ counter' = 0
    /\ turns' = [t \in Turns |-> IF turns[t].at = "new" THEN turns[t]
                                 ELSE [turns[t] EXCEPT !.at = "done"]]
    /\ \/ Persistent /\ UNCHANGED <<sessions, log>>
       \/ /\ ~Persistent
          /\ sessions' = [s \in Sessions |-> IF sessions[s].phase = "live"
                            THEN [sessions[s] EXCEPT !.phase = "gone"] ELSE sessions[s]]
          /\ log' = [s \in Sessions |-> {}]
    /\ \/ UNCHANGED history
       \/ NewPods /\ history' = [t \in Turns |-> None]
    /\ UNCHANGED made

Step ==
    \/ CreateProvider
    \/ \E i \in Ids : DeleteProvider(i)
    \/ \E s \in Sessions : \/ \E i \in Ids : CreateAgentSession(s, i)
                           \/ DeleteAgentSession(s)
    \/ \E t \in Turns :
        \/ \E s \in Sessions : RunAgent(t, s)
        \/ AppendUser(t) \/ Ensure(t) \/ Allocate(t) \/ Persist(t) \/ PersistError(t)
        \/ Post(t) \/ AppendAnswer(t) \/ Fail(t)
    \/ Restart

Next == Step /\ UNCHANGED world

Spec == Init /\ [][Next]_vars

-----------------------------------------------------------------------------

Asking(t) == turns[t].at \notin {"new", "done"}

\* A turn that outlives its session leaves nothing behind: a session that is
\* not there has no messages.
NoOrphans ==
    \A s \in Sessions : sessions[s].phase # "live" => log[s] = {}

Faithful(t) == turns[t].made = sessions[turns[t].sid].made

\* When sessions live as long as providers do, a session talks to the provider
\* that it was created with, never to another one that has come to the same id.
ProviderKept == ~Persistent => \A t \in Turns : Asking(t) => Faithful(t)

\* "a knaic Provider id, which is globally unique": the same with any store.
ProviderAlwaysKept == \A t \in Turns : Asking(t) => Faithful(t)

\* "subsequent turns reuse the same opencode session and inherit its message
\* history": a turn is posted where all that was answered in the session is
\* known, if turns do not overlap, ids are stored and the pod stays.
HistoryKept ==
    [][world \subseteq {"postgres"} =>
        \A t, u \in Turns : Post(t) /\ <<"assistant", u>> \in log[turns[t].sid] =>
            history[turns[t].oc] # None /\ u \in history[turns[t].oc]]_vars

=============================================================================
