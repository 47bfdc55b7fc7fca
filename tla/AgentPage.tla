------------------------------ MODULE AgentPage ------------------------------
(***************************************************************************)
(* The agent page of the playground: the sessions of the namespace, the    *)
(* trace of the selected one, and runs that create a session, stream       *)
(* events into the trace and then read session and list again, while the   *)
(* user selects, deletes, stops and changes the namespace.                 *)
(* Source: frontend/src/pages/playground/Agent.tsx,                        *)
(* frontend/src/api/playground.ts.                                         *)
(***************************************************************************)
EXTENDS Naturals, FiniteSets

CONSTANTS
    Namespaces,
    MaxSessions,    \* bound: sessions there ever are
    StoredSessions, \* the sessions that are there, and their namespaces
    MaxAgentActs,   \* bound: what the user does
    MaxHastyActs,   \* bound: the same, of a user who does not wait while requests fail
    MaxJobs,        \* bound: what is under way when the user acts
    AgentWorlds     \* the circumstances to look at

AgentCircumstances == {"waits", "lossy"}

ASSUME AgentPageAssumption ==
    /\ MaxSessions \in Nat /\ MaxAgentActs \in Nat /\ MaxJobs \in Nat /\ MaxHastyActs \in 0..MaxAgentActs
    /\ \E n \in 0..MaxSessions : StoredSessions \in [1..n -> Namespaces]
    /\ AgentWorlds \subseteq SUBSET AgentCircumstances

VARIABLES
    namespace,  \* of the header
    store,      \* the server's sessions: namespace and number of messages
    listed,     \* the sessions in the list
    selected,   \* sessionId (0: none)
    trace,      \* steps: whose they are, how many stored messages, and whether others
    busy,       \* Stop is offered in the place of Run
    aborts,     \* cancelRef: the run that Stop aborts (0: none)
    jobs,       \* the effects and operations under way
    agentActs,  \* what the user has done
    agentWorld  \* the circumstances of this behaviour

agentVars == <<namespace, store, listed, selected, trace, busy, aborts, jobs, agentActs, agentWorld>>

Waits  == "waits" \in agentWorld  \* the user waits for the answers
Misses == "lossy" \in agentWorld  \* requests may fail

SessionIds == 1..MaxSessions
Counts     == 0..(2 * MaxAgentActs + 1)

\* What is under way: the act it is of (0 for an effect), the request that is
\* in flight, the namespace when it began, its session, and what the server
\* has answered.
Job ==
    [n : 0..MaxAgentActs, of : {"visit", "show", "new", "remove", "refresh", "run"},
     at : {"list", "get", "create", "delete", "stream", "stopped", "relist"}, served : BOOLEAN,
     ns : Namespaces, sid : 0..MaxSessions, ids : SUBSET SessionIds, count : Counts, erred : BOOLEAN]

AgentTypeOK ==
    /\ namespace \in Namespaces
    /\ store \in [SessionIds -> [phase : {"new", "live", "gone"}, ns : Namespaces, count : Counts]]
    /\ listed \subseteq SessionIds
    /\ selected \in 0..MaxSessions
    /\ trace \in [of : SUBSET SessionIds, count : Counts, more : BOOLEAN]
    /\ busy \in BOOLEAN
    /\ aborts \in 0..MaxAgentActs
    /\ jobs \subseteq Job
    /\ agentActs \in 0..MaxAgentActs
    /\ agentWorld \in AgentWorlds

SessionsOf(ns) == {s \in SessionIds : store[s].phase = "live" /\ store[s].ns = ns}

NoSteps == [of |-> {}, count |-> 0, more |-> FALSE]

\* stepsFromSession.
StepsOf(s, n) == IF n = 0 THEN NoSteps ELSE [of |-> {s}, count |-> n, more |-> FALSE]

\* The prompt or an event is appended.
Appended(s) == [trace EXCEPT !.of = @ \cup {s}, !.more = TRUE]

NewJob(n, of, at, s) ==
    [n |-> n, of |-> of, at |-> at, served |-> FALSE, ns |-> namespace, sid |-> s,
     ids |-> {}, count |-> 0, erred |-> FALSE]

\* MUTANT of Effects: the answer to the effect's earlier run is not dropped.
EffectsUncancelled(s, b, t, js) ==
    /\ selected' = s
    /\ busy' = b
    /\ IF s = selected /\ b = busy THEN jobs' = js /\ trace' = t
       ELSE /\ jobs' = js \cup {NewJob(0, "show", "get", x) : x \in IF b \/ s = 0 THEN {} ELSE {s}}
            /\ trace' = IF ~b /\ s = 0 THEN NoSteps ELSE t

\* The selection becomes s, the flag b and the steps t, with the jobs js: the
\* effect of selection and flag reads the selected session unless the page is
\* busy, and an answer to its earlier run is dropped.
Effects(s, b, t, js) ==
    /\ selected' = s
    /\ busy' = b
    /\ IF s = selected /\ b = busy THEN jobs' = js /\ trace' = t
       ELSE /\ jobs' = {j \in js : j.of # "show"} \cup {NewJob(0, "show", "get", x) : x \in IF b \/ s = 0 THEN {} ELSE {s}}
            /\ trace' = IF ~b /\ s = 0 THEN NoSteps ELSE t

AgentInit ==
    /\ agentWorld \in AgentWorlds
    /\ namespace \in Namespaces
    /\ store = [s \in SessionIds |->
                  IF s \in DOMAIN StoredSessions THEN [phase |-> "live", ns |-> StoredSessions[s], count |-> 1]
                  ELSE [phase |-> "new", ns |-> namespace, count |-> 0]]
    /\ listed = {} /\ selected = 0 /\ trace = NoSteps
    /\ busy = FALSE /\ aborts = 0
    /\ jobs = {NewJob(0, "visit", "list", 0)}
    /\ agentActs = 0

-----------------------------------------------------------------------------
(* The user *)

Act ==
    /\ agentActs < IF Waits \/ ~Misses THEN MaxAgentActs ELSE MaxHastyActs
    /\ Cardinality(jobs) < MaxJobs
    /\ Waits => jobs = {}
    /\ agentActs' = agentActs + 1
    /\ UNCHANGED agentWorld

\* The header's namespace: its sessions are listed, in the place of a list
\* that is under way for the old one.
SwitchNamespace(ns) ==
    /\ Act
    /\ ns # namespace
    /\ namespace' = ns
    /\ jobs' = {j \in jobs : j.of # "visit"} \cup {[NewJob(0, "visit", "list", 0) EXCEPT !.ns = ns]}
    /\ UNCHANGED <<store, listed, selected, trace, busy, aborts>>

PickSession(s) ==
    /\ Act
    /\ Effects(s, busy, trace, jobs)
    /\ UNCHANGED <<namespace, store, listed, aborts>>

NewSession ==
    /\ Act /\ ~busy
    /\ jobs' = jobs \cup {NewJob(agentActs', "new", "create", 0)}
    /\ UNCHANGED <<namespace, store, listed, selected, trace, busy, aborts>>

RefreshSessions ==
    /\ Act /\ ~busy
    /\ jobs' = jobs \cup {NewJob(agentActs', "refresh", "list", 0)}
    /\ UNCHANGED <<namespace, store, listed, selected, trace, busy, aborts>>

\* The user wipes the trace; it is marked, so as not to count as one that was
\* lost.
ClearTrace ==
    /\ Act /\ ~busy
    /\ trace' = [NoSteps EXCEPT !.more = TRUE]
    /\ UNCHANGED <<namespace, store, listed, selected, busy, aborts, jobs>>

\* The click on the delete button is one on its row, too, which is selected;
\* a busy page deletes nothing.
RemoveSession(s) ==
    /\ Act
    /\ Effects(s, busy, trace, jobs \cup (IF busy THEN {} ELSE {NewJob(agentActs', "remove", "delete", s)}))
    /\ UNCHANGED <<namespace, store, listed, aborts>>

\* A prompt is sent by the button, or by Enter, which does not look whether the
\* page is busy.
Run ==
    /\ Act
    /\ LET job == NewJob(agentActs', "run", IF selected = 0 THEN "create" ELSE "stream", selected)
       IN /\ Effects(selected, TRUE, IF selected = 0 THEN trace ELSE Appended(selected), jobs \cup {job})
          /\ aborts' = IF selected = 0 THEN aborts ELSE job.n
    /\ UNCHANGED <<namespace, store, listed>>

\* Stop aborts the stream that was opened last, if it is still open, and the
\* page is no longer busy, whatever else of a run is under way.
StopRun ==
    /\ Act /\ busy
    /\ Effects(selected, FALSE, trace,
               {IF j.at = "stream" /\ j.n = aborts THEN [j EXCEPT !.at = "stopped"] ELSE j : j \in jobs})
    /\ UNCHANGED <<namespace, store, listed, aborts>>

-----------------------------------------------------------------------------
(* The server *)

Replace(j, k) == (jobs \ {j}) \cup {k}

Fresh == {s \in SessionIds : store[s].phase = "new" /\ \A x \in 1..(s - 1) : store[x].phase # "new"}

\* The server handles a request: of a run, it stores the prompt.
Handle(j) ==
    /\ ~j.served
    /\ \/ /\ j.at \in {"list", "relist"}
          /\ jobs' = Replace(j, [j EXCEPT !.served = TRUE, !.ids = SessionsOf(j.ns)])
          /\ UNCHANGED store
       \/ /\ j.at = "get" /\ store[j.sid].phase = "live"
          /\ jobs' = Replace(j, [j EXCEPT !.served = TRUE, !.count = store[j.sid].count])
          /\ UNCHANGED store
       \/ \E s \in Fresh :
          /\ j.at = "create"
          /\ store' = [store EXCEPT ![s] = [phase |-> "live", ns |-> j.ns, count |-> 0]]
          /\ jobs' = Replace(j, [j EXCEPT !.served = TRUE, !.sid = s])
       \/ /\ j.at = "delete" /\ store[j.sid].phase = "live"
          /\ store' = [store EXCEPT ![j.sid].phase = "gone", ![j.sid].count = 0]
          /\ jobs' = Replace(j, [j EXCEPT !.served = TRUE])
       \/ /\ j.at = "stream" /\ store[j.sid].phase = "live"
          /\ store' = [store EXCEPT ![j.sid].count = @ + 1]
          /\ jobs' = Replace(j, [j EXCEPT !.served = TRUE])
    /\ UNCHANGED <<namespace, listed, selected, trace, busy, aborts, agentActs, agentWorld>>

-----------------------------------------------------------------------------
(* The answers *)

Answered(j, of, at) == j.of \in of /\ j.at = at /\ j.served

\* What is selected once the sessions are listed: what was, or the first.
Kept(ids) == IF selected \in ids THEN {selected} ELSE IF ids = {} THEN {0} ELSE ids

\* A list is answered.
ListAnswered(j) ==
    /\ Answered(j, {"visit", "remove", "refresh", "new"}, "list")
    /\ listed' = j.ids
    /\ \E s \in IF j.of = "new" THEN {j.sid} ELSE Kept(j.ids) : Effects(s, busy, trace, jobs \ {j})
    /\ UNCHANGED <<namespace, store, aborts, agentActs, agentWorld>>

\* The selected session is read.
ShowAnswered(j) ==
    /\ Answered(j, {"show"}, "get")
    /\ trace' = StepsOf(j.sid, j.count)
    /\ jobs' = jobs \ {j}
    /\ UNCHANGED <<namespace, store, listed, selected, busy, aborts, agentActs, agentWorld>>

\* A session is created or deleted: the trace is wiped, the list read.
ChangeAnswered(j) ==
    /\ Answered(j, {"new", "run"}, "create") \/ Answered(j, {"remove"}, "delete")
    /\ trace' = NoSteps
    /\ jobs' = Replace(j, [j EXCEPT !.at = "list", !.served = FALSE])
    /\ UNCHANGED <<namespace, store, listed, selected, busy, aborts, agentActs, agentWorld>>

\* A run with a new session goes on to stream.
RunStarts(j) ==
    /\ Answered(j, {"run"}, "list")
    /\ listed' = j.ids
    /\ aborts' = j.n
    /\ Effects(j.sid, busy, Appended(j.sid), Replace(j, [j EXCEPT !.at = "stream", !.served = FALSE]))
    /\ UNCHANGED <<namespace, store, agentActs, agentWorld>>

\* An event of the stream.
EventArrives(j) ==
    /\ Answered(j, {"run"}, "stream")
    /\ trace' = Appended(j.sid)
    /\ UNCHANGED <<namespace, store, listed, selected, busy, aborts, jobs, agentActs, agentWorld>>

\* The stream ends, the reply being stored or an error having been among the
\* events: the session is read.
StreamDone(j) ==
    /\ Answered(j, {"run"}, "stream")
    /\ \E e \in IF store[j.sid].phase # "live" THEN {TRUE} ELSE {FALSE, Misses} :
        /\ store' = IF e THEN store ELSE [store EXCEPT ![j.sid].count = @ + 1]
        /\ jobs' = Replace(j, [j EXCEPT !.at = "get", !.served = FALSE, !.erred = e])
    /\ UNCHANGED <<namespace, listed, selected, trace, busy, aborts, agentActs, agentWorld>>

\* The session is read, and shown unless there was an error.
RunRead(j) ==
    /\ Answered(j, {"run"}, "get")
    /\ trace' = IF j.erred THEN trace ELSE StepsOf(j.sid, j.count)
    /\ jobs' = Replace(j, [j EXCEPT !.at = "relist", !.served = FALSE])
    /\ UNCHANGED <<namespace, store, listed, selected, busy, aborts, agentActs, agentWorld>>

\* The end of every run.
Finally(s, j) ==
    /\ aborts' = 0
    /\ Effects(s, FALSE, trace, jobs \ {j})

\* Its session is selected.
RunListed(j) ==
    /\ Answered(j, {"run"}, "relist")
    /\ listed' = j.ids
    /\ Finally(j.sid, j)
    /\ UNCHANGED <<namespace, store, agentActs, agentWorld>>

\* The abort is noticed; the server may have stored more.
RunStopped(j) ==
    /\ j.at = "stopped"
    /\ \E more \in IF store[j.sid].phase = "live" THEN {0, 1} ELSE {0} :
          store' = [store EXCEPT ![j.sid].count = @ + more]
    /\ Finally(selected, j)
    /\ UNCHANGED <<namespace, listed, agentActs, agentWorld>>

\* The session is gone, or the bound on sessions is reached.
Refused(j) ==
    /\ ~j.served
    /\ IF j.at = "create" THEN Fresh = {} ELSE j.at \in {"get", "delete", "stream"} /\ store[j.sid].phase # "live"

\* A request fails: a run is over, an operation does not go on, and what was
\* shown stays.
JobFails(j) ==
    /\ (Misses /\ j.at # "stopped") \/ Refused(j)
    /\ IF j.of = "run" THEN Finally(selected, j)
       ELSE jobs' = jobs \ {j} /\ UNCHANGED <<selected, trace, busy, aborts>>
    /\ UNCHANGED <<namespace, store, listed, agentActs, agentWorld>>

-----------------------------------------------------------------------------
AnswerJob ==
    \E j \in jobs :
        Handle(j) \/ ListAnswered(j) \/ ShowAnswered(j) \/ ChangeAnswered(j) \/ RunStarts(j) \/ EventArrives(j)
            \/ StreamDone(j) \/ RunRead(j) \/ RunListed(j) \/ RunStopped(j) \/ JobFails(j)

AgentNext ==
    \/ \E ns \in Namespaces : SwitchNamespace(ns)
    \/ \E s \in listed : PickSession(s) \/ RemoveSession(s)
    \/ NewSession \/ RefreshSessions \/ ClearTrace \/ Run \/ StopRun
    \/ AnswerJob

\* The page on its own.
AgentSpec == AgentInit /\ [][AgentNext]_agentVars

-----------------------------------------------------------------------------
(* Properties *)

\* When all is quiet the trace is that of the selected session and of no other
\* that there is, however selections, overlapping runs that select their own
\* session again, deletions, stops and changes of the namespace were mixed;
\* remains are possible where a session was deleted under a run or is selected
\* from an old list, or where the selected one could not be read.
TraceBelongs ==
    jobs = {} /\ ~Misses =>
        \A s \in trace.of : s = selected \/ "gone" \in {store[x].phase : x \in {s, selected} \ {0}}

\* For a user who waits, the list is that of the namespace, something in it is
\* selected unless it is empty, and the trace has all the messages of the
\* session: a deletion wipes the trace only of what it has first selected, and
\* runs bring back what they have streamed.
AgentShowsSelected ==
    jobs = {} /\ Waits /\ ~Misses =>
        /\ listed = SessionsOf(namespace)
        /\ IF listed = {} THEN selected = 0 ELSE selected \in listed
        /\ trace \in {[NoSteps EXCEPT !.more = TRUE], IF selected = 0 THEN NoSteps ELSE StepsOf(selected, store[selected].count)}

\* List, selection and trace agree with each other and with the store.
AgentPageInv == AgentTypeOK /\ TraceBelongs /\ AgentShowsSelected

\* The page does not stay busy: every run, whatever of it fails or is stopped,
\* ends by offering Run again.
BusyEnds == busy ~> ~busy

=============================================================================
