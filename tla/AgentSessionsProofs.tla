------------------------ MODULE AgentSessionsProofs ------------------------
(* Proofs about AgentSessions, for any number of turns, sessions, providers *)
(* and restarts, however the turns overlap.                                 *)
EXTENDS AgentSessions, TLAPS

\* Ids above the counter have not been given out by this process.
Numbered == \A i \in Ids : i > counter => providers[i] = 0

\* A session has had a provider since it was created.
Created == \A s \in Sessions : sessions[s].phase # "new" => sessions[s].provider \in Ids

\* With the memory store sessions and providers share their life: the id of a
\* live session stands for the provider it was created with, or for nobody.
Named == ~Persistent => \A s \in Sessions : sessions[s].phase = "live" =>
            /\ sessions[s].provider <= counter
            /\ providers[sessions[s].provider] \in {0, sessions[s].made}

\* A turn that is under way has a session, and its provider.
Placed(k) == k.at \notin {"new", "done"} =>
                /\ k.sid \in Sessions
                /\ sessions[k.sid].phase # "new"
                /\ ~Persistent => k.made = sessions[k.sid].made

\* The inductive invariant: what holds of the stores, and of every turn.
Stores == Numbered /\ Created /\ Named /\ NoOrphans
IInv   == TypeOK /\ Stores /\ \A t \in Turns : Placed(turns[t])

-----------------------------------------------------------------------------

LEMMA InitIInv == Init => IInv
<1> SUFFICES ASSUME Init PROVE IInv
  OBVIOUS
<1>1. 0 \in 0..MaxMade /\ 0 \in 0..MaxId /\ 0 \in 0..MaxRestarts
  BY SessionsAssumption
<1>2. TypeOK
  BY <1>1 DEF Init, TypeOK, Session, Turn, Known
<1>3. Stores
  BY DEF Init, Stores, Numbered, Created, Named, NoOrphans
<1>4. \A t \in Turns : Placed(turns[t])
  BY DEF Init, Placed
<1> QED BY <1>2, <1>3, <1>4 DEF IInv

\* Moving a turn on keeps it a turn and in its place.
LEMMA GotoKeeps ==
    ASSUME turns \in [Turns -> Turn], NEW t \in Turns,
           turns[t].at \notin {"new", "done"},
           \A u \in Turns : Placed(turns[u]),
           NEW at \in {"append", "ensure", "alloc", "persist", "post", "answer", "done"},
           Goto(t, at)
    PROVE  turns' \in [Turns -> Turn] /\ \A u \in Turns : Placed(turns'[u])
<1>1. turns'[t] = [turns[t] EXCEPT !.at = at] /\ turns'[t] \in Turn
  BY DEF Goto, Turn
<1>2. turns' \in [Turns -> Turn]
  BY <1>1 DEF Goto
<1>3. \A u \in Turns \ {t} : turns'[u] = turns[u]
  BY DEF Goto
<1>4. turns'[t].sid = turns[t].sid /\ turns'[t].made = turns[t].made
  BY <1>1 DEF Turn
<1>5. Placed(turns'[t])
  BY <1>4 DEF Placed
<1> QED BY <1>2, <1>3, <1>5

\* A message goes to a session that is there.
LEMMA AppendKeeps ==
    ASSUME TypeOK, NoOrphans, NEW s \in Sessions,
           NEW msg \in {"user", "assistant"} \X Turns, Append(s, msg),
           sessions' = sessions
    PROVE  /\ log' \in [Sessions -> SUBSET ({"user", "assistant"} \X Turns)]
           /\ NoOrphans'
BY DEF Append, TypeOK, NoOrphans

\* What the stores must keep when one of them changes.
LEMMA PlacedKept ==
    ASSUME IInv, turns' = turns, Persistent' <=> Persistent, NEW s \in Sessions,
           \A r \in Sessions \ {s} : sessions'[r] = sessions[r],
           \/ sessions[s].phase = "new" /\ sessions'[s].phase # "new"
           \/ sessions'[s].phase # "new" /\ sessions'[s].made = sessions[s].made
    PROVE  \A t \in Turns : Placed(turns[t])'
<1> SUFFICES ASSUME NEW t \in Turns PROVE Placed(turns[t])'
  OBVIOUS
<1>1. Placed(turns[t])
  BY DEF IInv
<1> QED BY <1>1 DEF Placed

LEMMA NextIInv == IInv /\ [Next]_vars => IInv'
<1> SUFFICES ASSUME IInv, [Next]_vars PROVE IInv'
  OBVIOUS
<1>a. world' = world /\ (Persistent' <=> Persistent)
  BY DEF Next, vars, Persistent
<1> USE SessionsAssumption, <1>a
<1>0. TypeOK /\ Numbered /\ Created /\ Named /\ NoOrphans /\ \A t \in Turns : Placed(turns[t])
  BY DEF IInv, Stores
<1>1. CASE CreateProvider
  <2>1. counter + 1 \in 0..MaxId /\ made + 1 \in 0..MaxMade /\ counter + 1 \in Ids
    BY <1>0, <1>1 DEF CreateProvider, TypeOK, Ids
  <2>2. providers' \in [Ids -> 0..MaxMade]
    BY <1>0, <1>1, <2>1 DEF CreateProvider, TypeOK
  <2>3. TypeOK'
    BY <1>0, <1>1, <2>1, <2>2 DEF CreateProvider, TypeOK
  <2>4. \A i \in Ids : i # counter + 1 => providers'[i] = providers[i]
    BY <1>0, <1>1 DEF CreateProvider, TypeOK
  <2>5. Numbered'
    BY <1>0, <1>1, <2>4 DEF CreateProvider, Numbered, TypeOK, Ids
  <2>6. Created' /\ NoOrphans'
    BY <1>0, <1>1 DEF CreateProvider, Created, NoOrphans
  <2>7. Named'
    BY <1>0, <1>1, <2>4 DEF CreateProvider, Named, Created, TypeOK, Ids
  <2>8. \A t \in Turns : Placed(turns[t])'
    BY <1>0, <1>1 DEF CreateProvider, Placed
  <2> QED BY <1>1, <2>3, <2>5, <2>6, <2>7, <2>8 DEF IInv, Stores, CreateProvider
<1>2. ASSUME NEW i \in Ids, DeleteProvider(i) PROVE IInv'
  <2>1. TypeOK'
    BY <1>0, <1>2 DEF DeleteProvider, TypeOK
  <2>2. \A j \in Ids : providers'[j] \in {0, providers[j]}
    BY <1>0, <1>2 DEF DeleteProvider, TypeOK
  <2>3. Numbered' /\ Created' /\ NoOrphans'
    BY <1>0, <1>2, <2>2 DEF DeleteProvider, Numbered, Created, NoOrphans
  <2>4. Named'
    BY <1>0, <1>2, <2>2 DEF DeleteProvider, Named, Created
  <2>5. \A t \in Turns : Placed(turns[t])'
    BY <1>0, <1>2 DEF DeleteProvider, Placed
  <2> QED BY <2>1, <2>3, <2>4, <2>5 DEF IInv, Stores
<1>3. ASSUME NEW s \in Sessions, NEW i \in Ids, CreateAgentSession(s, i) PROVE IInv'
  <2> DEFINE r == [phase |-> "live", provider |-> i, made |-> providers[i], oc |-> None]
  <2>1. r \in Session /\ r.phase = "live" /\ r.provider = i /\ r.made = providers[i]
    BY <1>0 DEF TypeOK, Session
  <2>2. sessions' = [sessions EXCEPT ![s] = r]
    BY <1>3 DEF CreateAgentSession
  <2> HIDE DEF r
  <2>3. sessions'[s] = r /\ \A q \in Sessions \ {s} : sessions'[q] = sessions[q]
    BY <1>0, <2>2 DEF TypeOK
  <2>4. TypeOK'
    BY <1>0, <1>3, <2>1, <2>2 DEF CreateAgentSession, TypeOK
  <2>5. Numbered' /\ Created' /\ NoOrphans'
    BY <1>0, <1>3, <2>1, <2>3 DEF CreateAgentSession, Numbered, Created, NoOrphans
  <2>6. i <= counter
    BY <1>0, <1>3 DEF CreateAgentSession, Numbered, TypeOK, Ids
  <2>7. Named'
    BY <1>0, <1>3, <2>1, <2>3, <2>6 DEF CreateAgentSession, Named
  <2>8. \A t \in Turns : Placed(turns[t])'
    BY <1>3, <2>1, <2>3, PlacedKept DEF CreateAgentSession
  <2> QED BY <2>4, <2>5, <2>7, <2>8 DEF IInv, Stores
<1>4. ASSUME NEW s \in Sessions, DeleteAgentSession(s) PROVE IInv'
  <2> DEFINE r == [sessions[s] EXCEPT !.phase = "gone"]
  <2>1. r \in Session /\ r.phase = "gone" /\ r.provider = sessions[s].provider
                      /\ r.made = sessions[s].made
    BY <1>0 DEF TypeOK, Session
  <2>2. sessions' = [sessions EXCEPT ![s] = r]
    BY <1>4 DEF DeleteAgentSession
  <2> HIDE DEF r
  <2>3. sessions'[s] = r /\ \A q \in Sessions \ {s} : sessions'[q] = sessions[q]
    BY <1>0, <2>2 DEF TypeOK
  <2>4. TypeOK'
    BY <1>0, <1>4, <2>1, <2>2 DEF DeleteAgentSession, TypeOK
  <2>5. Numbered' /\ Created' /\ NoOrphans'
    BY <1>0, <1>4, <2>1, <2>3 DEF DeleteAgentSession, Numbered, Created, NoOrphans, TypeOK
  <2>6. Named'
    BY <1>0, <1>4, <2>1, <2>3 DEF DeleteAgentSession, Named
  <2>7. \A t \in Turns : Placed(turns[t])'
    BY <1>4, <2>1, <2>3, PlacedKept DEF DeleteAgentSession
  <2> QED BY <2>4, <2>5, <2>6, <2>7 DEF IInv, Stores
<1>5. ASSUME NEW t \in Turns, NEW s \in Sessions, RunAgent(t, s) PROVE IInv'
  <2> DEFINE k == [at |-> "append", sid |-> s, made |-> providers[sessions[s].provider],
                   oc |-> sessions[s].oc]
  <2>1. sessions[s].provider \in Ids /\ sessions[s].oc \in Turns \cup {None}
    BY <1>0, <1>5 DEF RunAgent, Created, TypeOK, Session
  <2>2. k \in Turn /\ k.sid = s /\ k.made = providers[sessions[s].provider]
    BY <1>0, <2>1 DEF TypeOK, Turn
  <2>3. turns' = [turns EXCEPT ![t] = k]
    BY <1>5 DEF RunAgent
  <2> HIDE DEF k
  <2>4. turns'[t] = k /\ \A u \in Turns \ {t} : turns'[u] = turns[u]
    BY <1>0, <2>3 DEF TypeOK
  <2>5. TypeOK'
    BY <1>0, <1>5, <2>2, <2>3 DEF RunAgent, TypeOK
  <2>6. Stores'
    BY <1>0, <1>5 DEF RunAgent, Stores, Numbered, Created, Named, NoOrphans
  <2>7. Placed(turns[t])'
    BY <1>0, <1>5, <2>2, <2>4 DEF RunAgent, Placed, Named
  <2>8. \A u \in Turns \ {t} : Placed(turns[u])'
    BY <1>0, <1>5, <2>4 DEF RunAgent, Placed
  <2> QED BY <2>5, <2>6, <2>7, <2>8 DEF IInv
<1>6. ASSUME NEW t \in Turns, AppendUser(t) \/ AppendAnswer(t) PROVE IInv'
  <2>1. turns[t].at \notin {"new", "done"} /\ sessions' = sessions
    BY <1>6 DEF AppendUser, AppendAnswer
  <2>2. turns[t].sid \in Sessions
    BY <1>0, <2>1 DEF Placed
  <2>3. \E role \in {"user", "assistant"} : Append(turns[t].sid, <<role, t>>)
    BY <1>6 DEF AppendUser, AppendAnswer
  <2>4. /\ log' \in [Sessions -> SUBSET ({"user", "assistant"} \X Turns)]
        /\ NoOrphans'
    BY <1>0, <2>1, <2>2, <2>3, AppendKeeps
  <2>5. Goto(t, "ensure") \/ Goto(t, "done")
    BY <1>6 DEF AppendUser, AppendAnswer
  <2>6. turns' \in [Turns -> Turn] /\ \A u \in Turns : Placed(turns'[u])
    BY <1>0, <2>1, <2>5, GotoKeeps DEF TypeOK
  <2>7. UNCHANGED <<providers, counter, made, sessions, history, restarts>>
    BY <1>6 DEF AppendUser, AppendAnswer
  <2>8. TypeOK'
    BY <1>0, <2>4, <2>6, <2>7 DEF TypeOK
  <2>9. Numbered' /\ Created' /\ Named'
    BY <1>0, <2>7 DEF Numbered, Created, Named
  <2>10. \A u \in Turns : Placed(turns[u])'
    BY <2>6, <2>7 DEF Placed
  <2> QED BY <2>4, <2>8, <2>9, <2>10 DEF IInv, Stores
<1>7. ASSUME NEW t \in Turns, Ensure(t) \/ PersistError(t) \/ Post(t) \/ Fail(t) PROVE IInv'
  <2>1. turns[t].at \notin {"new", "done"}
    BY <1>7 DEF Ensure, PersistError, Post, Fail
  <2>2. \E at \in {"alloc", "post", "answer", "done"} : Goto(t, at)
    BY <1>7 DEF Ensure, PersistError, Post, Fail
  <2>3. turns' \in [Turns -> Turn] /\ \A u \in Turns : Placed(turns'[u])
    BY <1>0, <2>1, <2>2, GotoKeeps DEF TypeOK
  <2>4. UNCHANGED <<providers, counter, made, sessions, log, restarts>>
    BY <1>7 DEF Ensure, PersistError, Post, Fail
  <2>5. history' \in [Turns -> Known]
    <3>1. CASE history' = history
      BY <1>0, <3>1 DEF TypeOK
    <3>2. CASE Post(t) /\ history' # history
      BY <1>0, <3>2 DEF Post, TypeOK, Known
    <3> QED BY <1>7, <3>1, <3>2 DEF Ensure, PersistError, Fail
  <2>6. TypeOK'
    BY <1>0, <2>3, <2>4, <2>5 DEF TypeOK
  <2>7. Stores'
    BY <1>0, <2>4 DEF Stores, Numbered, Created, Named, NoOrphans
  <2>8. \A u \in Turns : Placed(turns[u])'
    BY <2>3, <2>4 DEF Placed
  <2> QED BY <2>6, <2>7, <2>8 DEF IInv
<1>8. ASSUME NEW t \in Turns, Allocate(t) PROVE IInv'
  <2> DEFINE k == [turns[t] EXCEPT !.at = "persist", !.oc = t]
  <2>1. k \in Turn /\ k.sid = turns[t].sid /\ k.made = turns[t].made
    <3>1. turns[t] \in Turn
      BY <1>0 DEF TypeOK
    <3> QED BY <3>1 DEF Turn
  <2>2. turns' = [turns EXCEPT ![t] = k]
    BY <1>8 DEF Allocate
  <2> HIDE DEF k
  <2>3. turns'[t] = k /\ \A u \in Turns \ {t} : turns'[u] = turns[u]
    BY <1>0, <2>2 DEF TypeOK
  <2>4. history' \in [Turns -> Known]
    BY <1>0, <1>8 DEF Allocate, TypeOK, Known
  <2>5. TypeOK'
    BY <1>0, <1>8, <2>1, <2>2, <2>4 DEF Allocate, TypeOK
  <2>6. Stores'
    BY <1>0, <1>8 DEF Allocate, Stores, Numbered, Created, Named, NoOrphans
  <2>7. Placed(turns[t])'
    BY <1>0, <1>8, <2>1, <2>3 DEF Allocate, Placed
  <2>8. \A u \in Turns \ {t} : Placed(turns[u])'
    BY <1>0, <1>8, <2>3 DEF Allocate, Placed
  <2> QED BY <2>5, <2>6, <2>7, <2>8 DEF IInv
<1>9. ASSUME NEW t \in Turns, Persist(t) PROVE IInv'
  <2> DEFINE s == turns[t].sid
             r == [sessions[s] EXCEPT !.oc = turns[t].oc]
  <2>1. turns[t].at \notin {"new", "done"} /\ Goto(t, "post")
    BY <1>9 DEF Persist
  <2>2. s \in Sessions
    BY <1>0, <2>1 DEF Placed
  <2>3. turns' \in [Turns -> Turn] /\ \A u \in Turns : Placed(turns'[u])
    BY <1>0, <2>1, GotoKeeps DEF TypeOK
  <2>4. r \in Session /\ r.phase = sessions[s].phase /\ r.provider = sessions[s].provider
                      /\ r.made = sessions[s].made
    <3>1. turns[t].oc \in Turns \cup {None} /\ sessions[s] \in Session
      BY <1>0, <2>2 DEF TypeOK, Turn
    <3> QED BY <3>1 DEF Session
  <2>5. sessions' \in {sessions, [sessions EXCEPT ![s] = r]}
    BY <1>9 DEF Persist
  <2> HIDE DEF r, s
  <2>6. sessions' \in [Sessions -> Session]
    BY <1>0, <2>4, <2>5 DEF TypeOK
  <2>7. \A q \in Sessions : /\ sessions'[q].phase = sessions[q].phase
                            /\ sessions'[q].provider = sessions[q].provider
                            /\ sessions'[q].made = sessions[q].made
    BY <1>0, <2>2, <2>4, <2>5 DEF TypeOK
  <2>8. UNCHANGED <<providers, counter, made, log, history, restarts>>
    BY <1>9 DEF Persist
  <2>9. TypeOK'
    BY <1>0, <2>3, <2>6, <2>8 DEF TypeOK
  <2>10. Stores'
    BY <1>0, <2>7, <2>8 DEF Stores, Numbered, Created, Named, NoOrphans
  <2>11. \A u \in Turns : Placed(turns[u])'
    BY <2>3, <2>7 DEF Placed
  <2> QED BY <2>9, <2>10, <2>11 DEF IInv
<1>10. CASE Restart
  <2>1. \A t \in Turns : turns'[t] \in Turn /\ turns'[t].at \in {"new", "done"}
    BY <1>0, <1>10 DEF Restart, TypeOK, Turn
  <2>2. turns' \in [Turns -> Turn]
    BY <1>0, <1>10, <2>1 DEF Restart, TypeOK
  <2>3. \A q \in Sessions : /\ sessions'[q] \in Session
                            /\ (sessions'[q].phase = "new") = (sessions[q].phase = "new")
                            /\ sessions'[q].provider = sessions[q].provider
                            /\ ~Persistent => sessions'[q].phase # "live"
    <3>1. CASE Persistent
      BY <1>0, <1>10, <3>1 DEF Restart, TypeOK
    <3>2. ASSUME ~Persistent, NEW q \in Sessions
          PROVE  /\ sessions'[q] \in Session
                 /\ (sessions'[q].phase = "new") = (sessions[q].phase = "new")
                 /\ sessions'[q].provider = sessions[q].provider
                 /\ sessions'[q].phase # "live"
      <4>1. sessions[q] \in Session
        BY <1>0 DEF TypeOK
      <4>2. sessions'[q] = IF sessions[q].phase = "live"
                           THEN [sessions[q] EXCEPT !.phase = "gone"] ELSE sessions[q]
        BY <1>10, <3>2 DEF Restart
      <4> QED BY <4>1, <4>2 DEF Session
    <3> QED BY <3>1, <3>2
  <2>4. sessions' \in [Sessions -> Session]
    BY <1>0, <1>10, <2>3 DEF Restart, TypeOK
  <2>5. /\ log' \in [Sessions -> SUBSET ({"user", "assistant"} \X Turns)]
        /\ NoOrphans'
    BY <1>0, <1>10 DEF Restart, TypeOK, NoOrphans
  <2>6. providers' \in [Ids -> 0..MaxMade] /\ counter' \in 0..MaxId
                                           /\ restarts' \in 0..MaxRestarts
    BY <1>0, <1>10 DEF Restart, TypeOK
  <2>7. history' \in [Turns -> Known]
    BY <1>0, <1>10 DEF Restart, TypeOK, Known
  <2>8. TypeOK'
    BY <1>0, <1>10, <2>2, <2>4, <2>5, <2>6, <2>7 DEF Restart, TypeOK
  <2>9. Numbered' /\ Created' /\ Named'
    BY <1>0, <1>10, <2>3 DEF Restart, Numbered, Created, Named
  <2>10. \A t \in Turns : Placed(turns[t])'
    BY <2>1 DEF Placed
  <2> QED BY <2>5, <2>8, <2>9, <2>10 DEF IInv, Stores
<1>11. CASE UNCHANGED vars
  BY <1>0, <1>11 DEF vars, IInv, Stores, TypeOK, Numbered, Created, Named, NoOrphans, Placed
<1> QED BY <1>1, <1>2, <1>3, <1>4, <1>5, <1>6, <1>7, <1>8, <1>9, <1>10, <1>11 DEF Next, Step

LEMMA Invariance == Spec => []IInv
  BY InitIInv, NextIInv, PTL DEF Spec

-----------------------------------------------------------------------------

\* The stores, the turns and what the sidecar knows keep their types.
THEOREM TypeCorrect == Spec => []TypeOK
<1>1. IInv => TypeOK
  BY DEF IInv
<1> QED BY <1>1, Invariance, PTL

\* AppendMessage never leaves a message for a session that has been deleted,
\* whichever store is used, however late the answer of a turn comes.
THEOREM NothingOutlivesItsSession == Spec => []NoOrphans
<1>1. IInv => NoOrphans
  BY DEF IInv, Stores
<1> QED BY <1>1, Invariance, PTL

\* When sessions are lost with the providers, no turn talks to a provider
\* other than the one its session was created with.
THEOREM SameProvider == Spec => []ProviderKept
<1>1. IInv => ProviderKept
  BY DEF IInv, Placed, ProviderKept, Asking, Faithful
<1> QED BY <1>1, Invariance, PTL


-----------------------------------------------------------------------------
(* One turn of a session at a time, ids that are stored, a pod that stays *)

Calm == world \subseteq {"postgres"}

\* A session has one turn in flight.
OneAsks == \A t, u \in Turns :
    Asking(t) /\ Asking(u) /\ turns[t].sid = turns[u].sid => t = u

\* An opencode session that a row names is one that the sidecar has, and all
\* that was answered is in it.
Told ==
    \A s \in Sessions :
        /\ sessions[s].oc # None => history[sessions[s].oc] # None
        /\ \A u \in Turns : <<"assistant", u>> \in log[s] =>
            sessions[s].oc # None /\ u \in history[sessions[s].oc]

\* An opencode session is created once, for a turn that has yet to ask.
Unasked == \A t \in Turns :
    turns[t].at \in {"new", "append", "ensure", "alloc"} => history[t] = None

\* A turn goes on in the session that its row names: the one it read, none
\* before there is one, then the one it stored.
Follows(t) ==
    LET k == turns[t]
        s == sessions[k.sid]
    IN  /\ k.at \in {"append", "ensure"} => k.oc = s.oc
        /\ k.at \in {"alloc", "persist"} => s.oc = None
        /\ k.at \in {"persist", "post", "answer"} => k.oc # None /\ history[k.oc] # None
        /\ k.at \in {"post", "answer"} /\ s.phase = "live" => s.oc = k.oc
        /\ k.at = "answer" => t \in history[k.oc]

CalmInv == Calm => OneAsks /\ Told /\ Unasked /\ \A t \in Turns : Follows(t)

\* The sidecar forgets nothing.
Remembered ==
    \A o \in Turns : history[o] # None =>
        history'[o] # None /\ \A u \in history[o] : u \in history'[o]

\* Nothing that the invariant speaks of has changed.
LEMMA CalmUntouched ==
    ASSUME CalmInv, UNCHANGED <<sessions, log, turns, history, world>>
    PROVE  CalmInv'
<1>1. Calm' <=> Calm
  BY DEF Calm
<1>2. (OneAsks => OneAsks') /\ (Unasked => Unasked')
  BY DEF OneAsks, Asking, Unasked
<1>3. Told => Told'
  BY DEF Told
<1>4. \A t \in Turns : Follows(t) => Follows(t)'
  BY DEF Follows
<1> QED BY <1>1, <1>2, <1>3, <1>4 DEF CalmInv

\* Sessions come and go; nobody asks in one that is new, and one that is gone
\* has no messages.
LEMMA CalmSession ==
    ASSUME IInv, CalmInv, Calm, NEW s \in Sessions, NEW r \in Session,
           UNCHANGED <<turns, history, world>>,
           sessions' = [sessions EXCEPT ![s] = r],
           \/ sessions[s].phase = "new" /\ r.oc = None /\ log' = log
           \/ r.oc = sessions[s].oc /\ r.phase = "gone" /\ log' = [log EXCEPT ![s] = {}]
    PROVE  OneAsks' /\ Told' /\ Unasked' /\ \A t \in Turns : Follows(t)'
<1>1. OneAsks' /\ Unasked'
  BY DEF CalmInv, OneAsks, Asking, Unasked
<1>2. sessions'[s] = r /\ \A q \in Sessions \ {s} : sessions'[q] = sessions[q]
  BY DEF IInv, TypeOK
<1>3. \A q \in Sessions : log'[q] = log[q] \/ (q = s /\ log'[q] = {})
  <2>1. log \in [Sessions -> SUBSET ({"user", "assistant"} \X Turns)]
    BY DEF IInv, TypeOK
  <2> QED BY <2>1
<1>4. sessions[s].phase = "new" => log[s] = {}
  BY DEF IInv, Stores, NoOrphans
<1>5. Told'
  <2>1. ASSUME NEW q \in Sessions \ {s}
        PROVE  /\ sessions'[q].oc # None => history[sessions'[q].oc] # None
               /\ \A u \in Turns : <<"assistant", u>> \in log'[q] =>
                    sessions'[q].oc # None /\ u \in history[sessions'[q].oc]
    BY <1>2, <1>3 DEF CalmInv, Told
  <2>2. r.oc # None => history[r.oc] # None
    BY DEF CalmInv, Told
  <2>3. log'[s] = {}
    BY <1>3, <1>4 DEF IInv, TypeOK
  <2> QED BY <1>2, <2>1, <2>2, <2>3 DEF Told
<1>6. ASSUME NEW t \in Turns PROVE Follows(t)'
  <2>1. Follows(t)
    BY DEF CalmInv
  <2>2. CASE ~Asking(t)
    BY <2>2 DEF Follows, Asking
  <2>3. CASE Asking(t) /\ turns[t].sid # s
    <3>1. turns[t].sid \in Sessions \ {s}
      BY <2>3 DEF IInv, Placed, Asking
    <3> QED BY <1>2, <2>1, <3>1 DEF Follows
  <2>4. CASE Asking(t) /\ turns[t].sid = s
    <3>1. sessions[s].phase # "new"
      BY <2>4 DEF IInv, Placed, Asking
    <3> QED BY <1>2, <2>1, <2>4, <3>1 DEF Follows
  <2> QED BY <2>2, <2>3, <2>4
<1> QED BY <1>1, <1>5, <1>6

\* A turn under way goes on with locals k in its session, whose row stays: the
\* turn keeps to what Follows says, and so do the others.
LEMMA CalmTurn ==
    ASSUME IInv, CalmInv, Calm, NEW t \in Turns, Asking(t), NEW k \in Turn,
           UNCHANGED <<sessions, world>>, turns' = [turns EXCEPT ![t] = k],
           k.sid = turns[t].sid,
           Remembered,
           \A o \in Turns \ {t} : history[o] = None => history'[o] = None,
           k.at \in {"new", "append", "ensure", "alloc"} =>
                /\ turns[t].at \in {"append", "ensure"} /\ history' = history
                /\ k.oc = turns[t].oc,
           k.at = "alloc" => k.oc = None,
           k.at = "persist" => turns[t].at = "alloc" /\ k.oc = t /\ history'[t] # None,
           k.at = "post" => turns[t].at = "ensure" /\ k.oc = turns[t].oc /\ k.oc # None,
           k.at = "answer" => turns[t].at = "post" /\ k.oc = turns[t].oc /\ t \in history'[k.oc],
           \A s \in Sessions, u \in Turns : <<"assistant", u>> \in log'[s] =>
                \/ <<"assistant", u>> \in log[s]
                \/ /\ u = t /\ s = turns[t].sid
                   /\ turns[t].at = "answer" /\ sessions[s].phase = "live"
    PROVE  OneAsks' /\ Told' /\ Unasked' /\ \A u \in Turns : Follows(u)'
<1>0. /\ turns'[t] = k /\ \A u \in Turns \ {t} : turns'[u] = turns[u]
      /\ turns[t].sid \in Sessions /\ turns[t].oc \in Turns \cup {None} /\ Follows(t)
      /\ \A s \in Sessions : sessions[s].oc \in Turns \cup {None}
  BY DEF IInv, TypeOK, Turn, Session, Placed, Asking, CalmInv
<1>1. OneAsks'
  <2>1. \A u \in Turns : Asking(u)' => Asking(u) /\ turns'[u].sid = turns[u].sid
    BY <1>0 DEF Asking
  <2> QED BY <2>1 DEF CalmInv, OneAsks
<1>2. Unasked'
  <2>1. ASSUME NEW u \in Turns \ {t}, turns'[u].at \in {"new", "append", "ensure", "alloc"}
        PROVE  history'[u] = None
    BY <1>0, <2>1 DEF CalmInv, Unasked
  <2>2. k.at \in {"new", "append", "ensure", "alloc"} => history'[t] = None
    BY <1>0 DEF CalmInv, Unasked
  <2> QED BY <1>0, <2>1, <2>2 DEF Unasked
<1>3. ASSUME NEW s \in Sessions
      PROVE  /\ sessions[s].oc # None => history'[sessions[s].oc] # None
             /\ \A u \in Turns : <<"assistant", u>> \in log'[s] =>
                    sessions[s].oc # None /\ u \in history'[sessions[s].oc]
  <2>1. sessions[s].oc # None => history'[sessions[s].oc] # None
    BY <1>0 DEF CalmInv, Told, Remembered
  <2>2. ASSUME NEW u \in Turns, <<"assistant", u>> \in log[s]
        PROVE  sessions[s].oc # None /\ u \in history'[sessions[s].oc]
    <3>1. sessions[s].oc # None /\ u \in history[sessions[s].oc]
          /\ history[sessions[s].oc] # None
      BY <2>2 DEF CalmInv, Told
    <3> QED BY <1>0, <3>1 DEF Remembered
  <2>3. ASSUME s = turns[t].sid, turns[t].at = "answer", sessions[s].phase = "live"
        PROVE  sessions[s].oc # None /\ t \in history'[sessions[s].oc]
    <3>1. sessions[s].oc = turns[t].oc /\ turns[t].oc # None
          /\ history[turns[t].oc] # None /\ t \in history[turns[t].oc]
      BY <1>0, <2>3 DEF Follows
    <3> QED BY <1>0, <3>1 DEF Remembered
  <2> QED BY <2>1, <2>2, <2>3
<1>4. Told'
  BY <1>3 DEF Told
<1>5. ASSUME NEW u \in Turns \ {t} PROVE Follows(u)'
  <2>1. Follows(u) /\ turns'[u] = turns[u] /\ turns[u].oc \in Turns \cup {None}
    BY <1>0 DEF CalmInv, IInv, TypeOK, Turn
  <2> QED BY <2>1 DEF Follows, Remembered
<1>6. Follows(t)'
  <2>1. k.at \in {"append", "ensure"} => k.oc = sessions[k.sid].oc
    BY <1>0 DEF Follows
  <2>2. k.at = "alloc" => sessions[k.sid].oc = None
    BY <1>0 DEF Follows
  <2>3. k.at = "persist" => /\ sessions[k.sid].oc = None
                            /\ k.oc # None /\ history'[k.oc] # None
    BY <1>0, SessionsAssumption DEF Follows
  <2>4. k.at = "post" => /\ sessions[k.sid].oc = k.oc
                         /\ k.oc # None /\ history'[k.oc] # None
    <3>1. k.at = "post" => sessions[k.sid].oc = k.oc /\ k.oc # None
      BY <1>0 DEF Follows
    <3> QED BY <1>0, <1>3, <3>1
  <2>5. k.at = "answer" => /\ sessions[k.sid].phase = "live" => sessions[k.sid].oc = k.oc
                           /\ k.oc # None /\ history'[k.oc] # None /\ t \in history'[k.oc]
    BY <1>0 DEF Follows, Remembered
  <2> QED BY <1>0, <2>1, <2>2, <2>3, <2>4, <2>5 DEF Follows
<1> QED BY <1>1, <1>2, <1>4, <1>5, <1>6

\* A turn that does not touch the sidecar or the messages of others.
LEMMA CalmTurnSteps ==
    ASSUME IInv, CalmInv, Calm, world' = world, NEW t \in Turns,
           AppendUser(t) \/ Ensure(t) \/ Allocate(t) \/ Post(t) \/ AppendAnswer(t) \/ Fail(t)
    PROVE  OneAsks' /\ Told' /\ Unasked' /\ \A u \in Turns : Follows(u)'
<1>0. /\ Asking(t) /\ sessions' = sessions
      /\ turns[t] \in Turn /\ turns[t].sid \in Sessions /\ Follows(t)
      /\ log \in [Sessions -> SUBSET ({"user", "assistant"} \X Turns)]
      /\ history \in [Turns -> Known]
  BY DEF AppendUser, Ensure, Allocate, Post, AppendAnswer, Fail, Asking,
         IInv, TypeOK, Placed, CalmInv
<1>1. ASSUME NEW at \in {"ensure", "alloc", "post", "answer", "done"}, Goto(t, at)
      PROVE  \E k \in Turn : /\ turns' = [turns EXCEPT ![t] = k]
                             /\ k.sid = turns[t].sid /\ k.oc = turns[t].oc /\ k.at = at
  <2>1. PICK k : k = [turns[t] EXCEPT !.at = at]
    OBVIOUS
  <2>2. k \in Turn /\ k.sid = turns[t].sid /\ k.oc = turns[t].oc /\ k.at = at
    BY <1>0, <2>1 DEF Turn
  <2> QED BY <1>1, <2>1, <2>2 DEF Goto
<1>2. history' = history => Remembered
  BY DEF Remembered
<1>3. CASE AppendUser(t)
  <2>1. PICK k \in Turn : /\ turns' = [turns EXCEPT ![t] = k]
                          /\ k.sid = turns[t].sid /\ k.oc = turns[t].oc /\ k.at = "ensure"
    BY <1>1, <1>3 DEF AppendUser
  <2>2. turns[t].at = "append" /\ history' = history
    BY <1>3 DEF AppendUser
  <2>3. \A s \in Sessions, u \in Turns :
            <<"assistant", u>> \in log'[s] => <<"assistant", u>> \in log[s]
    BY <1>0, <1>3 DEF AppendUser, Append
  <2> QED BY <1>0, <1>2, <2>1, <2>2, <2>3, CalmTurn
<1>4. CASE Ensure(t)
  <2>1. PICK at : at = IF turns[t].oc = None THEN "alloc" ELSE "post"
    OBVIOUS
  <2>2. PICK k \in Turn : /\ turns' = [turns EXCEPT ![t] = k]
                          /\ k.sid = turns[t].sid /\ k.oc = turns[t].oc /\ k.at = at
    BY <1>1, <1>4, <2>1 DEF Ensure
  <2>3. turns[t].at = "ensure" /\ history' = history /\ log' = log
    BY <1>4 DEF Ensure
  <2>4. (k.at = "alloc" /\ k.oc = None) \/ (k.at = "post" /\ k.oc # None)
    BY <2>1, <2>2
  <2> QED BY <1>0, <1>2, <2>2, <2>3, <2>4, CalmTurn
<1>5. CASE Allocate(t)
  <2>1. PICK k : k = [turns[t] EXCEPT !.at = "persist", !.oc = t]
    OBVIOUS
  <2>2. k \in Turn /\ k.sid = turns[t].sid /\ k.oc = t /\ k.at = "persist"
    BY <1>0, <2>1 DEF Turn
  <2>3. turns' = [turns EXCEPT ![t] = k] /\ log' = log /\ turns[t].at = "alloc"
    BY <1>5, <2>1 DEF Allocate
  <2>4. /\ history[t] = None
        /\ history'[t] = {} /\ \A o \in Turns \ {t} : history'[o] = history[o]
    BY <1>0, <1>5, <2>3 DEF Allocate, CalmInv, Unasked
  <2>5. Remembered
    BY <2>4 DEF Remembered
  <2>6. history'[t] # None
    BY <2>4, SessionsAssumption
  <2> QED BY <1>0, <2>2, <2>3, <2>4, <2>5, <2>6, CalmTurn
<1>6. CASE Post(t)
  <2>1. PICK k \in Turn : /\ turns' = [turns EXCEPT ![t] = k]
                          /\ k.sid = turns[t].sid /\ k.oc = turns[t].oc /\ k.at = "answer"
    BY <1>1, <1>6 DEF Post
  <2>2. turns[t].at = "post" /\ log' = log
    BY <1>6 DEF Post
  <2>3. turns[t].oc \in Turns /\ history[turns[t].oc] # None
    BY <1>0, <2>2 DEF Follows, Turn
  <2>4. history' = [history EXCEPT ![turns[t].oc] = @ \cup {t}]
        /\ history[turns[t].oc] \in SUBSET Turns
    BY <1>0, <1>6, <2>3 DEF Post, Known
  <2>5. history'[turns[t].oc] = history[turns[t].oc] \cup {t}
        /\ \A o \in Turns \ {turns[t].oc} : history'[o] = history[o]
    BY <1>0, <2>3, <2>4
  <2>6. history'[turns[t].oc] # None
    BY <2>4, <2>5, SessionsAssumption
  <2>7. Remembered
    BY <2>5, <2>6 DEF Remembered
  <2>8. \A o \in Turns \ {t} : history[o] = None => history'[o] = None
    BY <2>3, <2>5
  <2>9. t \in history'[k.oc]
    BY <2>1, <2>5
  <2> QED BY <1>0, <2>1, <2>2, <2>7, <2>8, <2>9, CalmTurn
<1>7. CASE AppendAnswer(t)
  <2>1. PICK k \in Turn : /\ turns' = [turns EXCEPT ![t] = k]
                          /\ k.sid = turns[t].sid /\ k.oc = turns[t].oc /\ k.at = "done"
    BY <1>1, <1>7 DEF AppendAnswer
  <2>2. turns[t].at = "answer" /\ history' = history
    BY <1>7 DEF AppendAnswer
  <2>3. /\ sessions[turns[t].sid].phase = "live"
        /\ log' = [log EXCEPT ![turns[t].sid] = @ \cup {<<"assistant", t>>}]
    BY <1>7 DEF AppendAnswer, Append
  <2>4. \A s \in Sessions, u \in Turns : <<"assistant", u>> \in log'[s] =>
            \/ <<"assistant", u>> \in log[s]
            \/ u = t /\ s = turns[t].sid
    BY <1>0, <2>3
  <2> QED BY <1>0, <1>2, <2>1, <2>2, <2>3, <2>4, CalmTurn
<1>8. CASE Fail(t)
  <2>1. PICK k \in Turn : /\ turns' = [turns EXCEPT ![t] = k]
                          /\ k.sid = turns[t].sid /\ k.oc = turns[t].oc /\ k.at = "done"
    BY <1>1, <1>8 DEF Fail
  <2>2. history' = history /\ log' = log
    BY <1>8 DEF Fail
  <2> QED BY <1>0, <1>2, <2>1, <2>2, CalmTurn
<1> QED BY <1>3, <1>4, <1>5, <1>6, <1>7, <1>8

\* A turn begins in a session in which nobody asks.
LEMMA CalmRun ==
    ASSUME IInv, CalmInv, Calm, world' = world, NEW t \in Turns, NEW s \in Sessions,
           RunAgent(t, s)
    PROVE  OneAsks' /\ Told' /\ Unasked' /\ \A u \in Turns : Follows(u)'
<1>1. PICK k : k = [at |-> "append", sid |-> s, made |-> providers[sessions[s].provider],
                    oc |-> sessions[s].oc]
  OBVIOUS
<1>2. k.at = "append" /\ k.sid = s /\ k.oc = sessions[s].oc
  BY <1>1
<1>3. /\ turns' = [turns EXCEPT ![t] = k] /\ turns[t].at = "new"
      /\ UNCHANGED <<sessions, log, history>>
  BY <1>1 DEF RunAgent
<1>4. turns'[t] = k /\ \A u \in Turns \ {t} : turns'[u] = turns[u]
  BY <1>3 DEF IInv, TypeOK
<1>5. \A u \in Turns : turns[u].sid = s => ~Asking(u)
  BY DEF RunAgent, Overlap, Calm, Asking
<1>6. OneAsks'
  BY <1>2, <1>4, <1>5 DEF CalmInv, OneAsks, Asking
<1>7. Told'
  BY <1>3 DEF CalmInv, Told
<1>8. Unasked'
  BY <1>2, <1>3, <1>4 DEF CalmInv, Unasked
<1>9. ASSUME NEW u \in Turns \ {t} PROVE Follows(u)'
  BY <1>3, <1>4 DEF CalmInv, Follows
<1>10. Follows(t)'
  BY <1>2, <1>3, <1>4 DEF Follows
<1> QED BY <1>6, <1>7, <1>8, <1>9, <1>10

\* The turn that created the opencode session stores its id.
LEMMA CalmPersist ==
    ASSUME IInv, CalmInv, Calm, world' = world, NEW t \in Turns, Persist(t)
    PROVE  OneAsks' /\ Told' /\ Unasked' /\ \A u \in Turns : Follows(u)'
<1>1. PICK k : k = [turns[t] EXCEPT !.at = "post"]
  OBVIOUS
<1>2. PICK s : s = turns[t].sid
  OBVIOUS
<1>3. turns[t].at = "persist" /\ turns[t] \in Turn /\ s \in Sessions /\ Follows(t)
  BY <1>2 DEF Persist, IInv, TypeOK, Placed, CalmInv
<1>4. k.at = "post" /\ k.sid = s /\ k.oc = turns[t].oc
  BY <1>1, <1>2, <1>3 DEF Turn
<1>5. turns' = [turns EXCEPT ![t] = k] /\ UNCHANGED <<log, history>>
  BY <1>1 DEF Persist, Goto
<1>6. turns'[t] = k /\ \A u \in Turns \ {t} : turns'[u] = turns[u]
  BY <1>5 DEF IInv, TypeOK
<1>7. /\ sessions'[s].phase = sessions[s].phase
      /\ sessions[s].phase = "live" => sessions'[s].oc = k.oc
      /\ sessions[s].phase # "live" => sessions' = sessions
      /\ \A q \in Sessions \ {s} : sessions'[q] = sessions[q]
  <2>1. sessions[s] \in Session /\ sessions \in [Sessions -> Session]
    BY <1>3 DEF IInv, TypeOK
  <2>2. PICK r : r = [sessions[s] EXCEPT !.oc = turns[t].oc]
    OBVIOUS
  <2>3. r.phase = sessions[s].phase /\ r.oc = turns[t].oc
    BY <2>1, <2>2 DEF Session
  <2>4. sessions' = IF sessions[s].phase = "live" THEN [sessions EXCEPT ![s] = r] ELSE sessions
    BY <1>2, <2>2 DEF Persist
  <2> QED BY <1>3, <1>4, <2>1, <2>3, <2>4
<1>8. sessions[s].oc = None /\ k.oc # None /\ history[k.oc] # None
  BY <1>2, <1>3, <1>4 DEF Follows
<1>9. \A u \in Turns : <<"assistant", u>> \notin log[s]
  BY <1>3, <1>8 DEF CalmInv, Told
<1>10. OneAsks'
  <2>1. \A u \in Turns : Asking(u)' => Asking(u) /\ turns'[u].sid = turns[u].sid
    BY <1>2, <1>3, <1>4, <1>6 DEF Asking
  <2> QED BY <2>1 DEF CalmInv, OneAsks
<1>11. Unasked'
  BY <1>4, <1>5, <1>6 DEF CalmInv, Unasked
<1>12. Told'
  <2>1. ASSUME NEW q \in Sessions \ {s}
        PROVE  /\ sessions'[q].oc # None => history[sessions'[q].oc] # None
               /\ \A u \in Turns : <<"assistant", u>> \in log[q] =>
                    sessions'[q].oc # None /\ u \in history[sessions'[q].oc]
    BY <1>7 DEF CalmInv, Told
  <2>2. sessions'[s].oc # None => history[sessions'[s].oc] # None
    BY <1>7, <1>8
  <2> QED BY <1>5, <1>9, <2>1, <2>2 DEF Told
<1>13. ASSUME NEW u \in Turns \ {t} PROVE Follows(u)'
  <2>1. Follows(u) /\ turns'[u] = turns[u] /\ history' = history
    BY <1>5, <1>6 DEF CalmInv
  <2>2. CASE ~Asking(u)
    BY <2>1, <2>2 DEF Follows, Asking
  <2>3. CASE Asking(u)
    <3>1. turns[u].sid \in Sessions /\ turns[u].sid # s
      BY <1>2, <1>3, <2>3 DEF CalmInv, OneAsks, Asking, IInv, Placed
    <3> QED BY <1>7, <2>1, <3>1 DEF Follows
  <2> QED BY <2>2, <2>3
<1>14. Follows(t)'
  BY <1>4, <1>5, <1>6, <1>7, <1>8 DEF Follows
<1> QED BY <1>10, <1>11, <1>12, <1>13, <1>14

\* A restart ends every turn; the pod, and so what the sidecar knows, stays.
LEMMA CalmRestart ==
    ASSUME IInv, CalmInv, Calm, world' = world, Restart
    PROVE  OneAsks' /\ Told' /\ Unasked' /\ \A u \in Turns : Follows(u)'
<1>1. history' = history
  BY DEF Restart, NewPods, Calm
<1>2. \A t \in Turns : turns'[t].at = IF turns[t].at = "new" THEN "new" ELSE "done"
  BY DEF Restart, IInv, TypeOK, Turn
<1>3. OneAsks' /\ Unasked' /\ \A u \in Turns : Follows(u)'
  BY <1>1, <1>2 DEF OneAsks, Asking, Follows, CalmInv, Unasked
<1>4. \A s \in Sessions : /\ sessions'[s].oc = sessions[s].oc
                          /\ \A u \in Turns : <<"assistant", u>> \in log'[s] =>
                                <<"assistant", u>> \in log[s]
  BY DEF Restart, IInv, TypeOK, Session
<1>5. Told'
  BY <1>1, <1>4 DEF CalmInv, Told
<1> QED BY <1>3, <1>5

LEMMA CalmStep == IInv /\ CalmInv /\ [Next]_vars => CalmInv'
<1> SUFFICES ASSUME IInv, CalmInv, [Next]_vars PROVE CalmInv'
  OBVIOUS
<1>1. world' = world /\ (Calm' <=> Calm)
  BY DEF Next, vars, Calm
<1>2. CASE ~Calm
  BY <1>1, <1>2 DEF CalmInv
<1>3. CASE UNCHANGED vars
  BY <1>3, CalmUntouched DEF vars
<1>4. CASE Calm /\ Step
  <2>1. ASSUME CreateProvider \/ \E i \in Ids : DeleteProvider(i) PROVE CalmInv'
    BY <1>1, <2>1, CalmUntouched DEF CreateProvider, DeleteProvider
  <2>2. ASSUME NEW s \in Sessions, NEW i \in Ids, CreateAgentSession(s, i) PROVE CalmInv'
    <3>1. PICK r : r = [phase |-> "live", provider |-> i, made |-> providers[i], oc |-> None]
      OBVIOUS
    <3>2. r \in Session /\ r.oc = None
      BY <3>1 DEF IInv, TypeOK, Session
    <3>3. /\ sessions' = [sessions EXCEPT ![s] = r] /\ sessions[s].phase = "new"
          /\ UNCHANGED <<turns, history, log>>
      BY <2>2, <3>1 DEF CreateAgentSession
    <3> QED BY <1>1, <1>4, <3>2, <3>3, CalmSession DEF CalmInv
  <2>3. ASSUME NEW s \in Sessions, DeleteAgentSession(s) PROVE CalmInv'
    <3>1. PICK r : r = [sessions[s] EXCEPT !.phase = "gone"]
      OBVIOUS
    <3>2. r \in Session /\ r.oc = sessions[s].oc /\ r.phase = "gone"
      BY <3>1 DEF IInv, TypeOK, Session
    <3>3. /\ sessions' = [sessions EXCEPT ![s] = r]
          /\ log' = [log EXCEPT ![s] = {}]
          /\ UNCHANGED <<turns, history>>
      BY <2>3, <3>1 DEF DeleteAgentSession
    <3> QED BY <1>1, <1>4, <3>2, <3>3, CalmSession DEF CalmInv
  <2>4. ASSUME NEW t \in Turns, NEW s \in Sessions, RunAgent(t, s) PROVE CalmInv'
    BY <1>1, <1>4, <2>4, CalmRun DEF CalmInv
  <2>5. ASSUME NEW t \in Turns, \/ AppendUser(t) \/ Ensure(t) \/ Allocate(t)
                                \/ Post(t) \/ AppendAnswer(t) \/ Fail(t)
        PROVE  CalmInv'
    BY <1>1, <1>4, <2>5, CalmTurnSteps DEF CalmInv
  <2>6. ASSUME NEW t \in Turns, Persist(t) PROVE CalmInv'
    BY <1>1, <1>4, <2>6, CalmPersist DEF CalmInv
  <2>7. \A t \in Turns : ~PersistError(t)
    BY <1>4 DEF PersistError, PersistFails, Calm
  <2>8. CASE Restart
    BY <1>1, <1>4, <2>8, CalmRestart DEF CalmInv
  <2> QED BY <1>4, <2>1, <2>2, <2>3, <2>4, <2>5, <2>6, <2>7, <2>8 DEF Step
<1> QED BY <1>2, <1>3, <1>4 DEF Next

\* Subsequent turns reuse the opencode session and inherit its history: a turn
\* is posted where all that was answered in its session is known, if turns do
\* not overlap, ids are stored and the pod stays.
THEOREM HistoryInherited == Spec => HistoryKept
<1>1. Init => CalmInv
  BY DEF Init, CalmInv, OneAsks, Asking, Told, Unasked, Follows
<1>2. Spec => []CalmInv
  BY <1>1, CalmStep, Invariance, PTL DEF Spec
<1>3. ASSUME IInv, CalmInv, [Next]_vars
      PROVE  [world \subseteq {"postgres"} =>
                \A t, u \in Turns : Post(t) /\ <<"assistant", u>> \in log[turns[t].sid] =>
                    history[turns[t].oc] # None /\ u \in history[turns[t].oc]]_vars
  <2> SUFFICES ASSUME Calm, NEW t \in Turns, NEW u \in Turns, Post(t),
                      <<"assistant", u>> \in log[turns[t].sid]
               PROVE  history[turns[t].oc] # None /\ u \in history[turns[t].oc]
    BY DEF Calm
  <2>1. turns[t].at = "post" /\ Follows(t) /\ turns[t].sid \in Sessions
    BY <1>3 DEF Post, CalmInv, IInv, Placed
  <2>2. sessions[turns[t].sid].phase = "live"
    BY <1>3, <2>1 DEF IInv, Stores, NoOrphans
  <2>3. sessions[turns[t].sid].oc = turns[t].oc /\ history[turns[t].oc] # None
    BY <2>1, <2>2 DEF Follows
  <2>4. u \in history[turns[t].oc]
    BY <1>3, <2>1, <2>3 DEF CalmInv, Told
  <2> QED BY <2>3, <2>4
<1> QED BY <1>2, <1>3, Invariance, PTL DEF Spec, HistoryKept

=============================================================================
