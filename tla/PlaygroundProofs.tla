-------------------------- MODULE PlaygroundProofs --------------------------
(***************************************************************************)
(* Proofs about the playground: about OpenCodeConfig, for any number of    *)
(* providers, hooks, turns and restarts, about the page of the chat, for   *)
(* any number of messages and chunks, and about the page of the agent, for *)
(* any number of sessions, requests in flight and acts of the user.        *)
(***************************************************************************)
EXTENDS OpenCodeConfig, ChatPage, AgentPage, SequenceTheorems, FiniteSetTheorems, TLAPS

\* r.mu: who is inside writeConfigLocked holds the lock.
Inside(k) == k.at \in {"snapshot", "write", "bounce"}
LockHeld  == \A g \in Goroutines : Inside(calls[g]) => lock = g

\* The hash is that of the file on disk, and of what the goroutine that is
\* about to send the signal has written.
HashIsFile ==
    /\ snapHash # None => snapHash = file
    /\ \A g \in Goroutines :
        /\ calls[g].at = "write"  => calls[g].want \in Config
        /\ calls[g].at = "bounce" => calls[g].want \in Config /\ calls[g].want = snapHash

\* A snapshot that is out of date will be followed by another one.
SnapshotsFollowed ==
    (\E g \in Goroutines : calls[g].at = "write" /\ calls[g].want # buildConfig)
        => \E h \in Goroutines : calls[h].at \in {"lock", "snapshot"}

\* What is known of a turn k whose provider nobody has changed: the snapshots
\* taken and the configurations written since cover it.
TurnKnown(k) ==
    /\ k.id \in Ids /\ providers[k.id] = k.model
    /\ k.at \in {"write", "bounce"} => Covers(k.want, k)
    /\ k.at = "post" =>
        /\ Covers(file, k)
        /\ ~BounceFails /\ sidecar.phase = "up" => Covers(sidecar.cfg, k)
        /\ \A h \in Goroutines :
            calls[h].at \in {"write", "bounce"} => Covers(calls[h].want, k)

TurnsKnown == \A g \in Goroutines : calls[g].kept => TurnKnown(calls[g])

\* The inductive invariant.
IInv == /\ TypeOK /\ LockHeld /\ HashIsFile
        /\ SidecarFollows /\ SnapshotsFollowed /\ FileConverges /\ TurnsKnown

-----------------------------------------------------------------------------
(* Types *)

\* Locals of a goroutine between requests, or that begins with EnsureConfig.
LEMMA IdleTypes ==
    /\ Idle \in Call /\ Idle.at = "idle" /\ Idle.kept = FALSE
    /\ Ensuring \in Call /\ Ensuring.at = "lock" /\ Ensuring.kept = FALSE
  BY DEF Idle, Ensuring, Call

\* What buildConfig renders is a configuration, and covers every provider.
LEMMA ConfigTypes ==
    ASSUME TypeOK
    PROVE  /\ buildConfig \in Config
           /\ \A k : k.id \in Ids /\ providers[k.id] = k.model => Covers(buildConfig, k)
  <1>1. buildConfig \in Config
    BY DEF TypeOK, buildConfig, Config
  <1>2. buildConfig # None
    BY <1>1, ConfigAssumption
  <1>3. buildConfig.models = providers
    BY DEF buildConfig
  <1>4. QED
    BY <1>1, <1>2, <1>3 DEF Covers

\* A goroutine moves on within EnsureConfig.
LEMMA MoveTypes ==
    ASSUME TypeOK, NEW g \in Goroutines,
           NEW at \in {"snapshot", "bounce", "post"},
           NEW k, k = [calls[g] EXCEPT !.at = at]
    PROVE  /\ k \in Call /\ k.at = at /\ k.kept = calls[g].kept
           /\ k.id = calls[g].id /\ k.model = calls[g].model /\ k.want = calls[g].want
  BY DEF TypeOK, Call

\* A goroutine takes its snapshot.
LEMMA WantTypes ==
    ASSUME TypeOK, NEW g \in Goroutines,
           NEW k, k = [calls[g] EXCEPT !.at = "write", !.want = buildConfig]
    PROVE  /\ k \in Call /\ k.at = "write" /\ k.kept = calls[g].kept
           /\ k.id = calls[g].id /\ k.model = calls[g].model /\ k.want = buildConfig
  BY ConfigTypes DEF TypeOK, Call

\* A goroutine leaves EnsureConfig.
LEMMA ProceedTypes ==
    ASSUME TypeOK, NEW g \in Goroutines
    PROVE  /\ Proceed(calls[g]) \in Call
           /\ \/ Proceed(calls[g]) = Idle
              \/ /\ Proceed(calls[g]).at = "post"
                 /\ Proceed(calls[g]).kept = calls[g].kept
                 /\ Proceed(calls[g]).id = calls[g].id
                 /\ Proceed(calls[g]).model = calls[g].model
  <1> DEFINE k == [calls[g] EXCEPT !.at = "post"]
  <1>1. k \in Call /\ k.at = "post" /\ k.kept = calls[g].kept
        /\ k.id = calls[g].id /\ k.model = calls[g].model
    BY MoveTypes
  <1>2. Proceed(calls[g]) = IF calls[g].id = 0 THEN Idle ELSE k
    BY DEF Proceed
  <1> HIDE DEF k
  <1>3. QED
    BY <1>1, <1>2, IdleTypes

\* The other goroutines stay as they are.
LEMMA OneMoves ==
    ASSUME TypeOK, NEW g \in Goroutines, NEW k \in Call,
           calls' = [calls EXCEPT ![g] = k]
    PROVE  /\ calls' \in [Goroutines -> Call]
           /\ calls'[g] = k
           /\ \A h \in Goroutines \ {g} : calls'[h] = calls[h]
  BY DEF TypeOK

-----------------------------------------------------------------------------
(* Requests *)

\* A change of the catalog: every turn that used the provider loses its claim,
\* and the hook will look at the catalog again.
LEMMA MutateStep ==
    ASSUME IInv, fails' = fails, NEW c \in Calls, NEW i \in Ids, NEW m \in Models \cup {None},
           Mutate(c, i, m), counter' \in 0..MaxId
    PROVE  IInv'
  <1>0. c \in Goroutines
    BY DEF Goroutines
  <1>1. /\ calls[c].at = "idle"
        /\ providers' = [providers EXCEPT ![i] = m]
        /\ UNCHANGED <<token, file, snapHash, lock, sidecar>>
    BY DEF Mutate
  <1>2. providers' \in Catalog
    BY <1>1 DEF IInv, TypeOK, Catalog
  <1>3. \A g \in Goroutines : calls[g] \in Call
    BY DEF IInv, TypeOK
  <1>4. \A g \in Goroutines :
          LET k == [calls[g] EXCEPT !.kept = @ /\ m = providers[i]]
          IN  /\ k \in Call /\ k.at = calls[g].at /\ k.id = calls[g].id
              /\ k.model = calls[g].model /\ k.want = calls[g].want
              /\ k.kept => calls[g].kept /\ m = providers[i]
    BY <1>3 DEF Call
  <1>5. calls' \in [Goroutines -> Call]
    BY <1>3, <1>4, IdleTypes DEF Mutate
  <1>6. calls'[c] = Ensuring
    BY <1>0 DEF Mutate
  <1>7. \A g \in Goroutines \ {c} :
          /\ calls'[g].at = calls[g].at /\ calls'[g].id = calls[g].id
          /\ calls'[g].model = calls[g].model /\ calls'[g].want = calls[g].want
          /\ calls'[g].kept => calls[g].kept /\ (calls[g].id = i => m = providers[i])
    BY <1>4 DEF Mutate
  <1>8. TypeOK'
    BY <1>1, <1>2, <1>5 DEF IInv, TypeOK
  <1>9. LockHeld'
    BY <1>1, <1>6, <1>7, IdleTypes DEF IInv, LockHeld, Inside
  <1>10. HashIsFile'
    BY <1>1, <1>6, <1>7, IdleTypes DEF IInv, HashIsFile
  <1>11. SidecarFollows'
    BY <1>0, <1>1, <1>6, <1>7 DEF IInv, SidecarFollows, BounceFails
  <1>12. FileConverges' /\ SnapshotsFollowed'
    BY <1>0, <1>6, IdleTypes DEF FileConverges, SnapshotsFollowed, WriteFails
  <1>13. ASSUME NEW g \in Goroutines, calls'[g].kept PROVE TurnKnown(calls[g])'
    <2>1. g # c /\ TurnKnown(calls[g])
      BY <1>6, <1>7, <1>13, IdleTypes DEF IInv, TurnsKnown
    <2>2. providers'[calls[g].id] = providers[calls[g].id]
      BY <1>1, <1>7, <1>13, <2>1 DEF IInv, TypeOK, Catalog, TurnKnown, BounceFails
    <2>3. \A h \in Goroutines : calls'[h].at \in {"write", "bounce"} =>
              calls[h].at \in {"write", "bounce"} /\ calls'[h].want = calls[h].want
      BY <1>6, <1>7, IdleTypes
    <2>4. QED
      BY <1>1, <1>7, <2>1, <2>2, <2>3 DEF TurnKnown, Covers, BounceFails
  <1>14. TurnsKnown'
    BY <1>13 DEF TurnsKnown
  <1>15. QED
    BY <1>8, <1>9, <1>10, <1>11, <1>12, <1>14 DEF IInv

\* A turn reads its provider.
LEMMA RunStep ==
    ASSUME IInv, fails' = fails, NEW c \in Calls, NEW i \in Ids, RunAgent(c, i)
    PROVE  IInv'
  <1> DEFINE k == [Ensuring EXCEPT !.id = i, !.model = providers[i], !.kept = TRUE]
  <1>0. c \in Goroutines /\ calls[c].at = "idle"
    BY DEF RunAgent, Goroutines
  <1>1. k \in Call /\ k.at = "lock" /\ k.id = i /\ k.model = providers[i]
    BY IdleTypes DEF IInv, TypeOK, Catalog, Call
  <1>2. /\ calls' = [calls EXCEPT ![c] = k]
        /\ UNCHANGED <<providers, counter, token, file, snapHash, lock, sidecar>>
    BY DEF RunAgent
  <1> HIDE DEF k
  <1>3. /\ calls' \in [Goroutines -> Call]
        /\ calls'[c] = k
        /\ \A h \in Goroutines \ {c} : calls'[h] = calls[h]
    BY <1>0, <1>1, <1>2, OneMoves DEF IInv
  <1>4. TypeOK'
    BY <1>2, <1>3 DEF IInv, TypeOK
  <1>5. LockHeld'
    BY <1>1, <1>2, <1>3 DEF IInv, LockHeld, Inside
  <1>6. HashIsFile'
    BY <1>1, <1>2, <1>3 DEF IInv, HashIsFile
  <1>7. SidecarFollows'
    BY <1>0, <1>2, <1>3 DEF IInv, SidecarFollows, BounceFails
  <1>8. FileConverges' /\ SnapshotsFollowed'
    BY <1>0, <1>1, <1>3 DEF FileConverges, SnapshotsFollowed, WriteFails
  <1>9. ASSUME NEW g \in Goroutines, calls'[g].kept PROVE TurnKnown(calls[g])'
    <2>1. CASE g = c
      BY <1>1, <1>2, <1>3, <2>1 DEF TurnKnown, BounceFails
    <2>2. CASE g # c
      <3>1. TurnKnown(calls[g])
        BY <1>3, <1>9, <2>2 DEF IInv, TurnsKnown
      <3>2. QED
        BY <1>1, <1>2, <1>3, <2>2, <3>1 DEF TurnKnown, Covers, BounceFails
    <2>3. QED
      BY <2>1, <2>2
  <1>10. QED
    BY <1>4, <1>5, <1>6, <1>7, <1>8, <1>9 DEF IInv, TurnsKnown

-----------------------------------------------------------------------------
(* EnsureConfig *)

\* r.mu is taken.
LEMMA LockStep ==
    ASSUME IInv, fails' = fails, NEW g \in Goroutines, Lock(g)
    PROVE  IInv'
  <1> DEFINE k == [calls[g] EXCEPT !.at = "snapshot"]
  <1>1. /\ k \in Call /\ k.at = "snapshot" /\ k.kept = calls[g].kept
        /\ k.id = calls[g].id /\ k.model = calls[g].model /\ k.want = calls[g].want
    BY MoveTypes DEF IInv
  <1>2. /\ calls' = [calls EXCEPT ![g] = k] /\ calls[g].at = "lock"
        /\ lock = None /\ lock' = g
        /\ UNCHANGED <<providers, counter, token, file, snapHash, sidecar>>
    BY DEF Lock
  <1> HIDE DEF k
  <1>3. /\ calls' \in [Goroutines -> Call]
        /\ calls'[g] = k
        /\ \A h \in Goroutines \ {g} : calls'[h] = calls[h]
    BY <1>1, <1>2, OneMoves DEF IInv
  <1>4. \A h \in Goroutines : ~Inside(calls[h])
    BY <1>2, ConfigAssumption DEF IInv, LockHeld, Goroutines
  <1>5. TypeOK'
    BY <1>2, <1>3 DEF IInv, TypeOK
  <1>6. LockHeld'
    BY <1>2, <1>3, <1>4 DEF LockHeld, Inside
  <1>7. HashIsFile'
    BY <1>1, <1>2, <1>3 DEF IInv, HashIsFile
  <1>8. SidecarFollows'
    BY <1>2, <1>3 DEF IInv, SidecarFollows, BounceFails
  <1>9. FileConverges' /\ SnapshotsFollowed'
    BY <1>1, <1>3 DEF FileConverges, SnapshotsFollowed, WriteFails
  <1>10. ASSUME NEW h \in Goroutines, calls'[h].kept PROVE TurnKnown(calls[h])'
    <2>1. TurnKnown(calls[h])
      BY <1>1, <1>3, <1>10 DEF IInv, TurnsKnown
    <2>2. QED
      BY <1>1, <1>2, <1>3, <2>1 DEF TurnKnown, Covers, BounceFails
  <1>11. QED
    BY <1>5, <1>6, <1>7, <1>8, <1>9, <1>10 DEF IInv, TurnsKnown

\* The catalog of now is rendered: it covers every turn with a claim.
LEMMA SnapshotStep ==
    ASSUME IInv, fails' = fails, NEW g \in Goroutines, Snapshot(g)
    PROVE  IInv'
  <1> DEFINE k == [calls[g] EXCEPT !.at = "write", !.want = buildConfig]
  <1>1. /\ k \in Call /\ k.at = "write" /\ k.kept = calls[g].kept
        /\ k.id = calls[g].id /\ k.model = calls[g].model /\ k.want = buildConfig
    BY WantTypes DEF IInv
  <1>2. /\ calls' = [calls EXCEPT ![g] = k] /\ calls[g].at = "snapshot"
        /\ UNCHANGED <<providers, counter, token, file, snapHash, lock, sidecar>>
        /\ buildConfig' = buildConfig
    BY DEF Snapshot, buildConfig
  <1> HIDE DEF k
  <1>3. /\ calls' \in [Goroutines -> Call]
        /\ calls'[g] = k
        /\ \A h \in Goroutines \ {g} : calls'[h] = calls[h]
    BY <1>1, <1>2, OneMoves DEF IInv
  <1>4. buildConfig \in Config
        /\ \A j : j.id \in Ids /\ providers[j.id] = j.model => Covers(buildConfig, j)
    BY ConfigTypes DEF IInv
  <1>5. TypeOK'
    BY <1>2, <1>3 DEF IInv, TypeOK
  <1>6. LockHeld'
    BY <1>1, <1>2, <1>3 DEF IInv, LockHeld, Inside
  <1>7. HashIsFile'
    BY <1>1, <1>2, <1>3, <1>4 DEF IInv, HashIsFile
  <1>8. SidecarFollows'
    BY <1>2, <1>3 DEF IInv, SidecarFollows, BounceFails
  <1>9. FileConverges' /\ SnapshotsFollowed'
    <2>1. \A h \in Goroutines \ {g} : ~Inside(calls[h])
      BY <1>2 DEF IInv, LockHeld, Inside
    <2>2. QED
      BY <1>1, <1>2, <1>3, <2>1 DEF FileConverges, SnapshotsFollowed, Inside, WriteFails
  <1>10. ASSUME NEW h \in Goroutines, calls'[h].kept PROVE TurnKnown(calls[h])'
    <2>1. TurnKnown(calls[h])
      BY <1>1, <1>3, <1>10 DEF IInv, TurnsKnown
    <2>2. Covers(buildConfig, calls'[h])
      BY <1>1, <1>3, <1>4, <2>1 DEF TurnKnown, BounceFails
    <2>3. QED
      BY <1>1, <1>2, <1>3, <2>1, <2>2 DEF TurnKnown, Covers, BounceFails
  <1>11. QED
    BY <1>5, <1>6, <1>7, <1>8, <1>9, <1>10 DEF IInv, TurnsKnown

\* The file is written: it has the last snapshot.
LEMMA WriteStep ==
    ASSUME IInv, fails' = fails, NEW g \in Goroutines, WriteConfig(g)
    PROVE  IInv'
  <1> DEFINE k == [calls[g] EXCEPT !.at = "bounce"]
  <1>1. /\ k \in Call /\ k.at = "bounce" /\ k.kept = calls[g].kept
        /\ k.id = calls[g].id /\ k.model = calls[g].model /\ k.want = calls[g].want
    BY MoveTypes DEF IInv
  <1>2. /\ calls' = [calls EXCEPT ![g] = k] /\ calls[g].at = "write"
        /\ file' = calls[g].want /\ snapHash' = calls[g].want
        /\ UNCHANGED <<providers, counter, token, lock, sidecar>>
        /\ buildConfig' = buildConfig
    BY DEF WriteConfig, buildConfig
  <1> HIDE DEF k
  <1>3. /\ calls' \in [Goroutines -> Call]
        /\ calls'[g] = k
        /\ \A h \in Goroutines \ {g} : calls'[h] = calls[h]
    BY <1>1, <1>2, OneMoves DEF IInv
  <1>4. \A h \in Goroutines \ {g} : ~Inside(calls[h])
    BY <1>2 DEF IInv, LockHeld, Inside
  <1>5. calls[g].want \in Config
    BY <1>2 DEF IInv, HashIsFile
  <1>6. TypeOK'
    BY <1>2, <1>3, <1>5 DEF IInv, TypeOK
  <1>7. LockHeld'
    BY <1>1, <1>2, <1>3 DEF IInv, LockHeld, Inside
  <1>8. HashIsFile'
    BY <1>1, <1>2, <1>3, <1>4, <1>5 DEF HashIsFile, Inside
  <1>9. SidecarFollows'
    BY <1>1, <1>3 DEF SidecarFollows, BounceFails
  <1>10. FileConverges' /\ SnapshotsFollowed'
    <2>1. calls[g].want # buildConfig =>
            \E h \in Goroutines \ {g} : calls[h].at \in {"lock", "snapshot"}
      BY <1>2 DEF IInv, SnapshotsFollowed
    <2>2. FileConverges'
      BY <1>2, <1>3, <2>1 DEF FileConverges, WriteFails
    <2>3. SnapshotsFollowed'
      BY <1>1, <1>3, <1>4 DEF SnapshotsFollowed, Inside
    <2>4. QED
      BY <2>2, <2>3
  <1>11. ASSUME NEW h \in Goroutines, calls'[h].kept PROVE TurnKnown(calls[h])'
    <2>1. TurnKnown(calls[h])
      BY <1>1, <1>3, <1>11 DEF IInv, TurnsKnown
    <2>2. QED
      BY <1>1, <1>2, <1>3, <2>1 DEF TurnKnown, Covers, BounceFails
  <1>12. QED
    BY <1>6, <1>7, <1>8, <1>9, <1>10, <1>11 DEF IInv, TurnsKnown

\* r.mu is released by g, whose snapshot is on disk or whose write failed: the
\* sidecar that is up runs the file, and so does a turn that goes on.
LEMMA UnlockStep ==
    ASSUME IInv, fails' = fails, NEW g \in Goroutines, NEW k \in Call, Unlock(g, k),
           calls[g].at \in {"write", "bounce"}, k.at \in {"idle", "post"},
           UNCHANGED <<providers, counter, token, file, snapHash>>,
           sidecar' \in Sidecar, sidecar'.phase = "up" => sidecar' = sidecar,
           SidecarFollows',
           ~WriteFails => calls[g].want = file,
           k.kept => /\ k.id \in Ids /\ providers[k.id] = k.model
                     /\ Covers(file, k)
                     /\ ~BounceFails /\ sidecar'.phase = "up" => Covers(sidecar'.cfg, k)
    PROVE  IInv'
  <1>1. /\ calls' \in [Goroutines -> Call]
        /\ calls'[g] = k
        /\ \A h \in Goroutines \ {g} : calls'[h] = calls[h]
    BY OneMoves DEF IInv, Unlock
  <1>2. \A h \in Goroutines \ {g} : ~Inside(calls[h])
    BY DEF IInv, LockHeld, Inside
  <1>3. lock' = None /\ buildConfig' = buildConfig
    BY DEF Unlock, buildConfig
  <1>4. TypeOK'
    BY <1>1, <1>3 DEF IInv, TypeOK
  <1>5. LockHeld'
    BY <1>1, <1>2 DEF LockHeld, Inside
  <1>6. HashIsFile'
    BY <1>1 DEF IInv, HashIsFile
  <1>7. SnapshotsFollowed'
    BY <1>1, <1>2 DEF SnapshotsFollowed, Inside
  <1>8. FileConverges'
    <2> SUFFICES ASSUME ~WriteFails, file # buildConfig
                 PROVE  \E h \in Goroutines \ {g} : calls[h].at \in {"lock", "snapshot"}
      BY <1>1, <1>3 DEF FileConverges, WriteFails
    <2>1. calls[g].want # buildConfig
      OBVIOUS
    <2>2. QED
      BY <1>2, <2>1 DEF IInv, FileConverges, Inside, WriteFails
  <1>9. ASSUME NEW h \in Goroutines, calls'[h].kept PROVE TurnKnown(calls[h])'
    <2>1. \A j \in Goroutines : calls'[j].at \notin {"write", "bounce"}
      BY <1>1, <1>2 DEF Inside
    <2>2. CASE h = g
      BY <1>1, <1>9, <2>1, <2>2 DEF TurnKnown, Covers, BounceFails
    <2>3. CASE h # g
      <3>1. TurnKnown(calls[h])
        BY <1>1, <1>9, <2>3 DEF IInv, TurnsKnown
      <3>2. QED
        BY <1>1, <2>1, <2>3, <3>1 DEF TurnKnown, Covers, BounceFails
    <2>4. QED
      BY <2>2, <2>3
  <1>10. QED
    BY <1>4, <1>5, <1>6, <1>7, <1>8, <1>9 DEF IInv, TurnsKnown

\* The content is on disk already, written by this process, whose signal for
\* it has been sent.
LEMMA SkipStep ==
    ASSUME IInv, fails' = fails, NEW g \in Goroutines, SkipWrite(g)
    PROVE  IInv'
  <1> DEFINE k == Proceed(calls[g])
  <1>1. /\ k \in Call
        /\ \/ k = Idle
           \/ /\ k.at = "post" /\ k.kept = calls[g].kept
              /\ k.id = calls[g].id /\ k.model = calls[g].model
    BY ProceedTypes DEF IInv
  <1>2. /\ Unlock(g, k) /\ calls[g].at = "write" /\ calls[g].want = snapHash
        /\ UNCHANGED <<providers, counter, token, file, snapHash, sidecar>>
    BY DEF SkipWrite
  <1> HIDE DEF k
  <1>3. calls[g].want \in Config /\ snapHash # None /\ file = calls[g].want
    BY <1>2, ConfigAssumption DEF IInv, HashIsFile
  <1>4. \A h \in Goroutines : calls[h].at # "bounce"
    BY <1>2 DEF IInv, LockHeld, Inside
  <1>5. ~BounceFails /\ sidecar.phase = "up" => sidecar.cfg = file
    BY <1>3, <1>4 DEF IInv, SidecarFollows, BounceFails
  <1>6. SidecarFollows'
    BY <1>2, <1>5 DEF SidecarFollows, BounceFails
  <1>7. k.kept => k.id \in Ids /\ providers[k.id] = k.model /\ Covers(file, k)
    BY <1>1, <1>2, <1>3, IdleTypes DEF IInv, TurnsKnown, TurnKnown, Covers, BounceFails
  <1>8. k.at \in {"idle", "post"} /\ sidecar' \in Sidecar
    BY <1>1, <1>2, IdleTypes DEF IInv, TypeOK
  <1>9. QED
    BY <1>1, <1>2, <1>3, <1>5, <1>6, <1>7, <1>8, UnlockStep

\* The write failed; what was on disk stays.
LEMMA WriteErrorStep ==
    ASSUME IInv, fails' = fails, NEW g \in Goroutines, WriteError(g)
    PROVE  IInv'
  <1>1. /\ Unlock(g, Idle) /\ calls[g].at = "write" /\ WriteFails
        /\ UNCHANGED <<providers, counter, token, file, snapHash, sidecar>>
    BY DEF WriteError
  <1>2. \A h \in Goroutines : calls[h].at # "bounce"
    BY <1>1 DEF IInv, LockHeld, Inside
  <1>3. SidecarFollows'
    BY <1>1, <1>2 DEF IInv, SidecarFollows, BounceFails
  <1>4. sidecar' \in Sidecar
    BY <1>1 DEF IInv, TypeOK
  <1>5. QED
    BY <1>1, <1>3, <1>4, IdleTypes, UnlockStep

\* The signal is sent, or was not needed, or (with BounceFails) failed.
LEMMA BounceStep ==
    ASSUME IInv, fails' = fails, NEW g \in Goroutines, Bounce(g) \/ BounceError(g)
    PROVE  IInv'
  <1>1. calls[g].at = "bounce"
        /\ UNCHANGED <<providers, counter, token, file, snapHash>>
    BY DEF Bounce, BounceError
  <1>2. calls[g].want = file
    BY <1>1, ConfigAssumption DEF IInv, HashIsFile
  <1>3. CASE Bounce(g)
    <2> DEFINE k == Proceed(calls[g])
    <2>1. /\ k \in Call
          /\ \/ k = Idle
             \/ /\ k.at = "post" /\ k.kept = calls[g].kept
                /\ k.id = calls[g].id /\ k.model = calls[g].model
      BY ProceedTypes DEF IInv
    <2>2. Unlock(g, k)
      BY <1>3 DEF Bounce
    <2> HIDE DEF k
    <2>3. sidecar' \in Sidecar /\ sidecar'.phase # "up"
      BY <1>3 DEF Bounce, IInv, TypeOK, Sidecar
    <2>4. SidecarFollows'
      BY <2>3 DEF SidecarFollows, BounceFails
    <2>5. k.kept => k.id \in Ids /\ providers[k.id] = k.model /\ Covers(file, k)
      BY <1>1, <1>2, <2>1, IdleTypes DEF IInv, TurnsKnown, TurnKnown, Covers, BounceFails
    <2>6. k.at \in {"idle", "post"}
      BY <2>1, IdleTypes
    <2>7. QED
      BY <1>1, <1>2, <2>1, <2>2, <2>3, <2>4, <2>5, <2>6, UnlockStep
  <1>4. CASE BounceError(g)
    <2>1. Unlock(g, Idle) /\ UNCHANGED sidecar /\ BounceFails
      BY <1>4 DEF BounceError
    <2>2. SidecarFollows'
      BY <2>1 DEF SidecarFollows, BounceFails
    <2>3. sidecar' \in Sidecar
      BY <2>1 DEF IInv, TypeOK
    <2>4. QED
      BY <1>1, <1>2, <2>1, <2>2, <2>3, IdleTypes, UnlockStep
  <1>5. QED
    BY <1>3, <1>4

\* The turn is over.
LEMMA PostStep ==
    ASSUME IInv, fails' = fails, NEW g \in Goroutines, Post(g)
    PROVE  IInv'
  <1>1. /\ calls' = [calls EXCEPT ![g] = Idle] /\ calls[g].at = "post"
        /\ UNCHANGED <<providers, counter, token, file, snapHash, lock, sidecar>>
        /\ buildConfig' = buildConfig
    BY DEF Post, buildConfig
  <1>2. /\ calls' \in [Goroutines -> Call]
        /\ calls'[g] = Idle
        /\ \A h \in Goroutines \ {g} : calls'[h] = calls[h]
    BY <1>1, IdleTypes, OneMoves DEF IInv
  <1>3. TypeOK'
    BY <1>1, <1>2 DEF IInv, TypeOK
  <1>4. LockHeld' /\ HashIsFile'
    BY <1>1, <1>2, IdleTypes DEF IInv, LockHeld, HashIsFile, Inside
  <1>5. SidecarFollows' /\ SnapshotsFollowed' /\ FileConverges'
    BY <1>1, <1>2, IdleTypes DEF IInv, SidecarFollows, SnapshotsFollowed, FileConverges, BounceFails, WriteFails
  <1>6. ASSUME NEW h \in Goroutines, calls'[h].kept PROVE TurnKnown(calls[h])'
    <2>1. h # g /\ TurnKnown(calls[h])
      BY <1>2, <1>6, IdleTypes DEF IInv, TurnsKnown
    <2>2. QED
      BY <1>1, <1>2, <2>1, IdleTypes DEF TurnKnown, Covers, BounceFails
  <1>7. QED
    BY <1>3, <1>4, <1>5, <1>6 DEF IInv, TurnsKnown

-----------------------------------------------------------------------------
(* The sidecar and restarts *)

\* The sidecar boots, reads the file, exits or crashes.
LEMMA SidecarStep ==
    ASSUME IInv, fails' = fails, Kubelet \/ Crash
    PROVE  IInv'
  <1>1. /\ UNCHANGED <<providers, counter, token, file, snapHash, lock, calls>>
        /\ buildConfig' = buildConfig
    BY DEF Kubelet, Start, Load, Exit, Crash, buildConfig
  <1>2. sidecar' \in Sidecar /\ (sidecar'.phase = "up" => sidecar'.cfg = file)
    BY DEF Kubelet, Start, Load, Exit, Crash, IInv, TypeOK, Sidecar
  <1>3. TypeOK' /\ LockHeld' /\ HashIsFile'
    BY <1>1, <1>2 DEF IInv, TypeOK, LockHeld, HashIsFile
  <1>4. SidecarFollows'
    BY <1>1, <1>2 DEF SidecarFollows, BounceFails
  <1>5. SnapshotsFollowed' /\ FileConverges'
    BY <1>1 DEF IInv, SnapshotsFollowed, FileConverges, WriteFails
  <1>6. TurnsKnown'
    BY <1>1, <1>2 DEF IInv, TurnsKnown, TurnKnown, Covers, BounceFails
  <1>7. QED
    BY <1>3, <1>4, <1>5, <1>6 DEF IInv

\* main is the only goroutine of a new process.
LEMMA StartingTypes ==
    /\ Starting \in [Goroutines -> Call]
    /\ main \in Goroutines /\ Starting[main].at = "lock"
    /\ \A g \in Goroutines : Starting[g].at \in {"idle", "lock"} /\ ~Starting[g].kept
  BY IdleTypes DEF Starting, Goroutines

\* A process with no hash, a free lock and goroutines as they start.
LEMMA FreshProcess ==
    ASSUME TypeOK', snapHash' = None, calls' = Starting
    PROVE  IInv'
  <1>1. LockHeld' /\ HashIsFile' /\ TurnsKnown'
    BY StartingTypes DEF LockHeld, HashIsFile, TurnsKnown, Inside
  <1>2. SidecarFollows' /\ SnapshotsFollowed' /\ FileConverges'
    BY StartingTypes DEF SidecarFollows, SnapshotsFollowed, FileConverges, BounceFails, WriteFails
  <1>3. QED
    BY <1>1, <1>2 DEF IInv

\* knaic-api restarts.
LEMMA RestartStep ==
    ASSUME IInv, fails' = fails, Restart
    PROVE  IInv'
  <1>1. TypeOK'
    BY StartingTypes, ConfigAssumption DEF Restart, IInv, TypeOK, NoProviders, Catalog
  <1>2. QED
    BY <1>1, FreshProcess DEF Restart

\* The pod starts.
LEMMA InitInv == Init => IInv
  <1> SUFFICES ASSUME Init PROVE IInv
    OBVIOUS
  <1>1. TypeOK
    BY StartingTypes, ConfigAssumption DEF Init, TypeOK, NoProviders, Catalog, Sidecar
  <1>2. LockHeld /\ HashIsFile /\ TurnsKnown
    BY StartingTypes DEF Init, LockHeld, HashIsFile, TurnsKnown, Inside
  <1>3. SidecarFollows /\ SnapshotsFollowed /\ FileConverges
    BY StartingTypes DEF Init, SidecarFollows, SnapshotsFollowed, FileConverges, BounceFails, WriteFails
  <1>4. QED
    BY <1>1, <1>2, <1>3 DEF IInv

-----------------------------------------------------------------------------
(* The theorems *)

\* Every step keeps the invariant.
LEMMA NextInv == IInv /\ [Next]_vars => IInv'
  <1> SUFFICES ASSUME IInv, [Next]_vars PROVE IInv'
    OBVIOUS
  <1>0. fails' = fails
    BY DEF Next, vars
  <1>1. ASSUME NEW c \in Calls, NEW m \in Models, CreateProvider(c, m) PROVE IInv'
    <2>1. counter + 1 \in Ids /\ counter' \in 0..MaxId /\ Mutate(c, counter + 1, m)
      BY <1>1, ConfigAssumption DEF CreateProvider, IInv, TypeOK, Ids
    <2>2. QED
      BY <1>0, <2>1, MutateStep
  <1>2. ASSUME NEW c \in Calls, NEW i \in Ids, NEW m \in Models \cup {None},
               PatchProvider(c, i, m) \/ DeleteProvider(c, i)
        PROVE  IInv'
    <2>1. counter' \in 0..MaxId
      BY <1>2 DEF PatchProvider, DeleteProvider, IInv, TypeOK
    <2>2. QED
      BY <1>0, <1>2, <2>1, MutateStep DEF PatchProvider, DeleteProvider
  <1>3. ASSUME NEW c \in Calls, NEW i \in Ids, RunAgent(c, i) PROVE IInv'
    BY <1>0, <1>3, RunStep
  <1>4. ASSUME NEW g \in Goroutines, Lock(g) PROVE IInv'
    BY <1>0, <1>4, LockStep
  <1>5. ASSUME NEW g \in Goroutines, Continue(g) PROVE IInv'
    BY <1>0, <1>5, SnapshotStep, SkipStep, WriteStep, WriteErrorStep, BounceStep, PostStep DEF Continue
  <1>6. CASE Kubelet \/ Crash
    BY <1>0, <1>6, SidecarStep
  <1>7. CASE Restart
    BY <1>0, <1>7, RestartStep
  <1>8. CASE UNCHANGED vars
    <2>1. UNCHANGED <<providers, counter, token, file, snapHash, lock, calls, sidecar, fails>>
          /\ buildConfig' = buildConfig
      BY <1>8 DEF vars, buildConfig
    <2>2. QED
      BY <2>1 DEF IInv, TypeOK, LockHeld, HashIsFile, SidecarFollows, SnapshotsFollowed,
                  FileConverges, TurnsKnown, TurnKnown, Covers, BounceFails, WriteFails
  <1>9. QED
    BY <1>1, <1>2, <1>3, <1>4, <1>5, <1>6, <1>7, <1>8 DEF Next, Step

\* The invariant holds throughout.
LEMMA Invariance == Spec => []IInv
  BY InitInv, NextInv, PTL DEF Spec

\* Every variable keeps its type.
THEOREM TypeCorrect == Spec => []TypeOK
  <1>1. IInv => TypeOK
    BY DEF IInv
  <1>2. QED
    BY <1>1, Invariance, PTL

\* A sidecar that is up runs the file on disk, unless a signal is on its way.
THEOREM SidecarRunsFile == Spec => []SidecarFollows
  <1>1. IInv => SidecarFollows
    BY DEF IInv
  <1>2. QED
    BY <1>1, Invariance, PTL

\* In whatever order the hooks run, the file ends with the catalog of now.
THEOREM FileGetsCatalog == Spec => []FileConverges
  <1>1. IInv => FileConverges
    BY DEF IInv
  <1>2. QED
    BY <1>1, Invariance, PTL

\* When signals do not fail, a turn whose provider nobody has changed finds it
\* in the sidecar it talks to, whatever other goroutines and restarts do.
THEOREM TurnsCovered == Spec => TurnCovered
  <1>1. IInv => (~BounceFails => CoversTurn)
    BY DEF IInv, TurnsKnown, TurnKnown, CoversTurn, Post
  <1>2. IInv => [~BounceFails => CoversTurn]_vars
    BY <1>1
  <1>3. QED
    BY <1>2, Invariance, PTL DEF TurnCovered

-----------------------------------------------------------------------------
(* The page of the chat *)

\* A bubble whose chunks are those of its own turn.
InPlace(b) == b.from \subseteq (IF b.role = "user" THEN {} ELSE {b.turn})

\* For the user who waits: a stream is open, the only one, that of the last
\* bubble, and the one that Stop aborts.
OneStream ==
    /\ ~crashed
    /\ \A i \in 1..Len(messages) : InPlace(messages[i])
    /\ \A s \in streams :
          /\ s.at = "open" /\ streaming /\ stopper = s.turn
          /\ messages # <<>>
          /\ messages[Len(messages)].role = "assistant" /\ messages[Len(messages)].turn = s.turn
    /\ \A s, r \in streams : s = r

ChatInv ==
    /\ ChatTypeOK
    /\ Len(messages) <= 2 * sent
    /\ streaming => \E s \in streams : s.at # "aborted"
    /\ Patient /\ AtOnce => OneStream

\* The invariant of the page of the chat holds at the start, and every
\* action keeps it.
LEMMA ChatInitInv == ChatInit => ChatInv
<1> SUFFICES ASSUME ChatInit PROVE ChatInv  OBVIOUS
<1>1. messages \in Seq(Bubble) /\ Len(messages) = 0
  BY EmptySeq DEF ChatInit
<1>2. ChatTypeOK /\ Len(messages) <= 2 * sent
  <2>1. sent = 0 /\ stopper = 0 /\ 0 \in 0..MaxTurns /\ 0 <= 2 * MaxTurns /\ 0 <= 2 * sent
    BY ChatPageAssumption DEF ChatInit
  <2>2. streams \subseteq Stream /\ streaming \in BOOLEAN /\ crashed \in BOOLEAN /\ chatting \in ChatWorlds
    BY DEF ChatInit
  <2> QED BY <1>1, <2>1, <2>2 DEF ChatTypeOK
<1>3. OneStream
  BY <1>1 DEF ChatInit, OneStream
<1>4. streaming => \E s \in streams : s.at # "aborted"
  BY DEF ChatInit
<1> QED BY <1>2, <1>3, <1>4 DEF ChatInv

\* What a message adds to the conversation.
LEMMA SendInv == ChatInv /\ Send => ChatInv'
<1> SUFFICES ASSUME ChatInv, Send PROVE ChatInv'  OBVIOUS
<1> USE ChatPageAssumption
<1>t. ChatTypeOK
  BY DEF ChatInv
<1> DEFINE u == [turn |-> sent', role |-> "user", from |-> {}]
           b == [turn |-> sent', role |-> "assistant", from |-> {}]
<1>1. sent' = sent + 1 /\ sent' \in Turns /\ sent' \in 0..MaxTurns
  BY <1>t DEF Send, ChatTypeOK, Turns
<1>2. u \in Bubble /\ b \in Bubble
  BY <1>1 DEF Bubble
<1>3. <<u, b>> \in Seq(Bubble) /\ Len(<<u, b>>) = 2 /\ <<u, b>>[1] = u /\ <<u, b>>[2] = b
  BY <1>2
<1>4. messages \in Seq(Bubble) /\ Len(messages) \in Nat
  BY <1>t, LenProperties DEF ChatTypeOK
<1>5. messages' = messages \o <<u, b>>
  BY DEF Send
<1>6. /\ messages' \in Seq(Bubble)
      /\ Len(messages') = Len(messages) + 2
      /\ \A i \in 1..(Len(messages) + 2) :
            messages'[i] = IF i <= Len(messages) THEN messages[i] ELSE <<u, b>>[i - Len(messages)]
  BY <1>3, <1>4, <1>5, ConcatProperties
<1>7. Len(messages') <= 2 * sent' /\ Len(messages') <= 2 * MaxTurns
  BY <1>1, <1>4, <1>6, <1>t DEF ChatInv, ChatTypeOK
<1>8. PICK n \in 0..MaxChunks :
        streams' = streams \cup {[turn |-> sent', at |-> IF Offline \/ AtOnce THEN "open" ELSE "opening", left |-> n]}
  BY DEF Send
<1> DEFINE new == [turn |-> sent', at |-> IF Offline \/ AtOnce THEN "open" ELSE "opening", left |-> n]
<1>9. new \in Stream /\ new \in streams' /\ new.at # "aborted" /\ new.turn = sent'
  BY <1>1, <1>8 DEF Stream
<1>10. ChatTypeOK'
  <2>1. streams' \subseteq Stream
    BY <1>8, <1>9, <1>t DEF ChatTypeOK
  <2>2. streaming' \in BOOLEAN /\ stopper' \in 0..MaxTurns /\ UNCHANGED <<crashed, chatting>>
    BY <1>1 DEF Send
  <2> QED BY <2>1, <2>2, <1>1, <1>6, <1>7, <1>t DEF ChatTypeOK
<1>11. streaming' => \E s \in streams' : s.at # "aborted"
  BY <1>9
<1>12. ASSUME (Patient /\ AtOnce)' PROVE OneStream'
  <2>1. Patient /\ AtOnce /\ ~streaming /\ OneStream
    BY <1>12 DEF Send, Patient, AtOnce, ChatInv
  <2>2. streams' = {new} /\ new.at = "open"
    BY <2>1, <1>8 DEF OneStream
  <2>3. ASSUME NEW i \in 1..Len(messages') PROVE InPlace(messages'[i])
    <3>1. CASE i <= Len(messages)
      <4>1. i \in 1..Len(messages) /\ messages'[i] = messages[i]
        BY <3>1, <1>4, <1>6
      <4> QED BY <4>1, <2>1 DEF OneStream
    <3>2. CASE i = Len(messages) + 1
      <4>1. ~(i <= Len(messages)) /\ i - Len(messages) = 1 /\ i \in 1..(Len(messages) + 2)
        BY <3>2, <1>4
      <4>2. messages'[i] = <<u, b>>[1]
        BY <4>1, <1>6
      <4>3. messages'[i].role = "user" /\ messages'[i].from = {}
        BY <4>2
      <4> QED BY <4>3 DEF InPlace
    <3>3. CASE i = Len(messages) + 2
      <4>1. ~(i <= Len(messages)) /\ i - Len(messages) = 2 /\ i \in 1..(Len(messages) + 2)
        BY <3>3, <1>4
      <4>2. messages'[i] = <<u, b>>[2]
        BY <4>1, <1>6
      <4>3. messages'[i].role = "assistant" /\ messages'[i].from = {}
        BY <4>2
      <4> QED BY <4>3 DEF InPlace
    <3> QED BY <3>1, <3>2, <3>3, <1>4, <1>6
  <2>4. messages'[Len(messages')] = b /\ messages' # <<>>
    <3>1. messages'[Len(messages) + 2] = <<u, b>>[2]
      <4>1. /\ ~(Len(messages) + 2 <= Len(messages)) /\ (Len(messages) + 2) - Len(messages) = 2
            /\ Len(messages) + 2 \in 1..(Len(messages) + 2)
        BY <1>4
      <4> QED BY <4>1, <1>6
    <3>2. messages' # <<>>
      BY <1>4, <1>6, EmptySeq
    <3> QED BY <3>1, <3>2, <1>3, <1>6
  <2>5. ~crashed' /\ streaming' /\ stopper' = sent'
    BY <2>1 DEF Send, OneStream
  <2>6. \A s \in streams' :
          /\ s.at = "open" /\ streaming' /\ stopper' = s.turn
          /\ messages' # <<>>
          /\ messages'[Len(messages')].role = "assistant" /\ messages'[Len(messages')].turn = s.turn
    BY <2>2, <2>4, <2>5, <1>9
  <2>7. \A s, r \in streams' : s = r
    BY <2>2
  <2> QED BY <2>3, <2>5, <2>6, <2>7 DEF OneStream, InPlace
<1> QED BY <1>7, <1>10, <1>11, <1>12 DEF ChatInv

LEMMA StopInv == ChatInv /\ Stop => ChatInv'
<1> SUFFICES ASSUME ChatInv, Stop PROVE ChatInv'  OBVIOUS
<1>t. ChatTypeOK
  BY DEF ChatInv
<1>1. UNCHANGED <<messages, stopper, sent, crashed, chatting>> /\ ~streaming' /\ streaming' \in BOOLEAN
  BY DEF Stop
<1>2. \A s \in streams' : \E r \in streams :
        /\ r.turn # stopper \/ r.at # "open"
        /\ s = IF r.turn = stopper /\ r.at = "opening" THEN [r EXCEPT !.at = "aborted"] ELSE r
  BY DEF Stop
<1>3. streams' \subseteq Stream
  <2> SUFFICES ASSUME NEW s \in streams' PROVE s \in Stream  OBVIOUS
  <2>1. PICK r \in streams : s = IF r.turn = stopper /\ r.at = "opening" THEN [r EXCEPT !.at = "aborted"] ELSE r
    BY <1>2
  <2>2. r \in Stream
    BY <1>t DEF ChatTypeOK
  <2>3. [r EXCEPT !.at = "aborted"] \in Stream
    BY <2>2 DEF Stream
  <2> QED BY <2>1, <2>2, <2>3
<1>4. ChatTypeOK'
  BY <1>1, <1>3, <1>t DEF ChatTypeOK
<1>5. ASSUME (Patient /\ AtOnce)' PROVE OneStream'
  <2>1. OneStream
    BY <1>1, <1>5 DEF Patient, AtOnce, ChatInv
  <2>2. streams' = {}
    BY <1>2, <2>1 DEF OneStream
  <2> QED BY <1>1, <2>1, <2>2 DEF OneStream, InPlace
<1> QED BY <1>1, <1>4, <1>5 DEF ChatInv

LEMMA ClearInv == ChatInv /\ Clear => ChatInv'
<1> SUFFICES ASSUME ChatInv, Clear PROVE ChatInv'  OBVIOUS
<1>t. ChatTypeOK
  BY DEF ChatInv
<1>1. messages' \in Seq(Bubble) /\ Len(messages') = 0
  BY EmptySeq DEF Clear
<1>2. UNCHANGED <<streaming, streams, stopper, sent, crashed, chatting>>
  BY DEF Clear
<1>3. ChatTypeOK' /\ (Len(messages) <= 2 * sent)'
  BY <1>1, <1>2, <1>t, ChatPageAssumption DEF ChatTypeOK
<1>4. ASSUME (Patient /\ AtOnce)' PROVE OneStream'
  <2>1. OneStream /\ ~streaming
    BY <1>2, <1>4 DEF Clear, Patient, AtOnce, ChatInv
  <2>2. streams' = {}
    BY <1>2, <2>1 DEF OneStream
  <2> QED BY <1>1, <1>2, <2>1, <2>2 DEF OneStream
<1> QED BY <1>2, <1>3, <1>4 DEF ChatInv

\* What is left when a stream is over.
LEMMA OverInv ==
  ASSUME NEW s \in streams, ChatInv, Over(s), UNCHANGED <<messages, stopper, sent, crashed, chatting>>
  PROVE  ChatInv'
<1>1. ChatTypeOK'
  BY DEF ChatInv, ChatTypeOK, Over
<1>2. ~streaming' /\ (Len(messages) <= 2 * sent)'
  BY DEF ChatInv, Over
<1>3. ASSUME (Patient /\ AtOnce)' PROVE OneStream'
  <2>1. OneStream
    BY <1>3 DEF Patient, AtOnce, ChatInv
  <2>2. streams' = {}
    BY <2>1 DEF OneStream, Over
  <2> QED BY <2>1, <2>2 DEF OneStream, InPlace
<1> QED BY <1>1, <1>2, <1>3 DEF ChatInv

LEMMA StreamOpensInv ==
  ASSUME NEW s \in streams, ChatInv, StreamOpens(s)
  PROVE  ChatInv'
<1>t. ChatTypeOK
  BY DEF ChatInv
<1> DEFINE r == [s EXCEPT !.at = "open"]
<1>1. s \in Stream /\ r \in Stream /\ r.at # "aborted"
  BY <1>t DEF ChatTypeOK, Stream
<1>2. streams' = (streams \ {s}) \cup {r} /\ UNCHANGED <<messages, streaming, stopper, sent, crashed, chatting>>
  BY DEF StreamOpens
<1>3. ChatTypeOK' /\ (Len(messages) <= 2 * sent)'
  BY <1>1, <1>2, <1>t DEF ChatTypeOK, ChatInv
<1>4. (\E x \in streams : x.at # "aborted")'
  BY <1>1, <1>2
<1>5. ~(Patient /\ AtOnce)'
  BY <1>2 DEF StreamOpens, ChatInv, OneStream, Patient, AtOnce
<1> QED BY <1>3, <1>4, <1>5 DEF ChatInv

LEMMA ChunkInv ==
  ASSUME NEW s \in streams, ChatInv, Chunk(s)
  PROVE  ChatInv'
<1>t. ChatTypeOK
  BY DEF ChatInv
<1> USE ChatPageAssumption
<1> DEFINE r == [s EXCEPT !.left = @ - 1]
<1>1. s \in Stream /\ s.at = "open" /\ r \in Stream /\ r.at = "open" /\ r.turn = s.turn
  BY <1>t DEF ChatTypeOK, Stream, Chunk
<1>2. streams' = (streams \ {s}) \cup {r} /\ UNCHANGED <<streaming, stopper, sent, chatting>>
  BY DEF Chunk
<1>3. (\E x \in streams : x.at # "aborted")'
  BY <1>1, <1>2
<1>4. CASE messages = <<>>
  <2>1. crashed' = TRUE /\ UNCHANGED messages
    BY <1>4 DEF Chunk
  <2>2. ChatTypeOK' /\ (Len(messages) <= 2 * sent)'
    BY <1>1, <1>2, <1>t, <2>1 DEF ChatTypeOK, ChatInv
  <2>3. ~(Patient /\ AtOnce)'
    BY <1>2, <1>4 DEF ChatInv, OneStream, Patient, AtOnce
  <2> QED BY <1>3, <2>2, <2>3 DEF ChatInv
<1>5. CASE messages # <<>>
  <2> DEFINE n == Len(messages)
             old == messages[n]
             b == [old EXCEPT !.from = @ \cup {s.turn}]
  <2>1. messages' = [messages EXCEPT ![n] = b] /\ UNCHANGED crashed
    BY <1>5 DEF Chunk
  <2>2. messages \in Seq(Bubble) /\ n \in 1..n /\ n \in Nat
    BY <1>5, <1>t, EmptySeq DEF ChatTypeOK
  <2>3. old \in Bubble
    BY <2>2, ElementOfSeq
  <2>4. b \in Bubble /\ b.turn = old.turn /\ b.role = old.role /\ b.from = old.from \cup {s.turn}
    BY <1>1, <2>3 DEF Bubble, Stream
  <2> HIDE DEF b
  <2>5. /\ messages' \in Seq(Bubble) /\ Len(messages') = n
        /\ \A i \in 1..n : messages'[i] = IF i = n THEN b ELSE messages[i]
    BY <2>1, <2>2, <2>4, ExceptSeq
  <2>6. ChatTypeOK' /\ (Len(messages) <= 2 * sent)'
    <3>1. (Len(messages) <= 2 * sent)' /\ Len(messages') <= 2 * MaxTurns
      BY <1>2, <1>t, <2>5 DEF ChatInv, ChatTypeOK
    <3>2. streams' \subseteq Stream
      BY <1>1, <1>2, <1>t DEF ChatTypeOK
    <3> QED BY <1>2, <1>t, <2>1, <2>5, <3>1, <3>2 DEF ChatTypeOK
  <2>7. ASSUME (Patient /\ AtOnce)' PROVE OneStream'
    <3>1. OneStream
      BY <1>2, <2>7 DEF Patient, AtOnce, ChatInv
    <3>2. old.role = "assistant" /\ old.turn = s.turn /\ streaming /\ stopper = s.turn
      BY <3>1 DEF OneStream
    <3>3. streams' = {r}
      BY <1>2, <3>1 DEF OneStream
    <3>4. messages'[Len(messages')] = b /\ messages' # <<>>
      BY <2>2, <2>5, EmptySeq
    <3>5. InPlace(old)
      BY <2>2, <3>1 DEF OneStream
    <3>6. InPlace(b)
      BY <2>4, <3>2, <3>5 DEF InPlace
    <3>7. ASSUME NEW i \in 1..Len(messages') PROVE InPlace(messages'[i])
      BY <2>5, <3>1, <3>6 DEF OneStream
    <3>8. ~crashed' /\ streaming' /\ stopper' = s.turn
      BY <1>2, <2>1, <3>1, <3>2 DEF OneStream
    <3>9. \A x \in streams' :
            /\ x.at = "open" /\ streaming' /\ stopper' = x.turn
            /\ messages' # <<>>
            /\ messages'[Len(messages')].role = "assistant" /\ messages'[Len(messages')].turn = x.turn
      BY <1>1, <2>4, <3>2, <3>3, <3>4, <3>8
    <3>10. \A x, y \in streams' : x = y
      BY <3>3
    <3> QED BY <3>7, <3>8, <3>9, <3>10 DEF OneStream, InPlace
  <2> QED BY <1>3, <2>6, <2>7 DEF ChatInv
<1> QED BY <1>4, <1>5

LEMMA ChatStepInv == ChatInv /\ [ChatNext]_chatVars => ChatInv'
<1> SUFFICES ASSUME ChatInv, [ChatNext]_chatVars PROVE ChatInv'  OBVIOUS
<1>1. CASE Send
  BY <1>1, SendInv
<1>2. CASE Stop
  BY <1>2, StopInv
<1>3. CASE Clear
  BY <1>3, ClearInv
<1>4. CASE Streaming
  <2>1. PICK s \in streams : StreamOpens(s) \/ Chunk(s) \/ StreamEnds(s) \/ StreamFails(s)
    BY <1>4 DEF Streaming
  <2>2. CASE StreamOpens(s)
    BY <2>2, StreamOpensInv
  <2>3. CASE Chunk(s)
    BY <2>3, ChunkInv
  <2>4. CASE StreamEnds(s) \/ StreamFails(s)
    <3>1. Over(s) /\ UNCHANGED <<messages, stopper, sent, crashed, chatting>>
      BY <2>4 DEF StreamEnds, StreamFails
    <3> QED BY <3>1, OverInv
  <2> QED BY <2>1, <2>2, <2>3, <2>4
<1>5. CASE UNCHANGED chatVars
  BY <1>5 DEF chatVars, ChatInv, ChatTypeOK, OneStream, InPlace, Patient, AtOnce
<1> QED BY <1>1, <1>2, <1>3, <1>4, <1>5 DEF ChatNext

\* Bubbles and buttons of the chat agree with the streams, for any number of
\* messages and chunks: a chunk lands in the bubble of its own turn and never
\* in an empty conversation, and every reply can be stopped, for a user who
\* waits for Send and a token that needs no renewal.  (Chat.tsx:42)
THEOREM ChunksInPlace == ChatSpec => []ChatPageInv
<1>1. ChatInv => ChatPageInv
  <2> SUFFICES ASSUME ChatInv PROVE ChatPageInv  OBVIOUS
  <2>1. RepliesInPlace
    BY DEF ChatInv, OneStream, InPlace, RepliesInPlace
  <2>2. StopReaches
    BY DEF ChatInv, OneStream, StopReaches
  <2> QED BY <2>1, <2>2 DEF ChatInv, ChatPageInv
<1> QED BY <1>1, ChatInitInv, ChatStepInv, PTL DEF ChatSpec

-----------------------------------------------------------------------------
(* The page of the agent *)

Known(s) == store[s].phase # "new"

\* A job is at a request of its own kind, and of a session where it needs one,
\* and what it knows of has been there.
Formed(j) ==
    /\ \/ j.of \in {"visit", "refresh"} /\ j.at = "list"
       \/ j.of = "show" /\ j.at = "get"
       \/ j.of = "new" /\ j.at \in {"create", "list"}
       \/ j.of = "remove" /\ j.at \in {"delete", "list"}
       \/ j.of = "run" /\ j.at \in {"create", "list", "stream", "stopped", "get", "relist"}
    /\ \/ j.sid \in SessionIds
       \/ j.sid = 0 /\ (j.of \in {"visit", "refresh"} \/ (j.at = "create" /\ ~j.served))
    /\ j.at = "create" /\ ~j.served => j.sid = 0
    /\ j.n <= agentActs
    /\ j.of \in {"new", "remove", "refresh", "run"} => j.n > 0
    /\ j.sid # 0 => Known(j.sid)
    /\ \A s \in j.ids : Known(s)

\* An act has one job.
Distinct(js) == \A j, k \in js : j.n = k.n /\ j.n > 0 => j = k

WellFormed(js) == IsFiniteSet(js) /\ Distinct(js) /\ \A j \in js : j \in Job /\ Formed(j)

\* What the server may still store on behalf of a run: prompt and reply, or
\* the reply alone.
OwesBoth(j)  == j.of = "run" /\ (j.at \in {"create", "list"} \/ (j.at = "stream" /\ ~j.served))
OwesReply(j) == j.of = "run" /\ (j.at = "stopped" \/ (j.at = "stream" /\ j.served))
Owes(j)      == IF OwesBoth(j) THEN 2 ELSE IF OwesReply(j) THEN 1 ELSE 0
Owed(js)     == 2 * Cardinality({j \in js : OwesBoth(j)}) + Cardinality({j \in js : OwesReply(j)})

\* Every message is owed to an act, or was there.
CountsOwed == \A s \in SessionIds : store[s].count + Owed(jobs) <= 2 * agentActs + 1

\* What the page shows has been there.
ShowsKnown == (\A s \in listed : Known(s)) /\ (selected # 0 => Known(selected))

Paid == AgentTypeOK /\ WellFormed(jobs) /\ CountsOwed /\ ShowsKnown

-----------------------------------------------------------------------------
\* What is owed is a number; a job that comes, goes or is replaced changes
\* it by its own share.
LEMMA OwedType ==
  ASSUME NEW js, IsFiniteSet(js)
  PROVE  Owed(js) \in Nat
<1> DEFINE B == {j \in js : OwesBoth(j)}
           R == {j \in js : OwesReply(j)}
<1>1. B \in SUBSET js /\ R \in SUBSET js
  OBVIOUS
<1>2. IsFiniteSet(B) /\ IsFiniteSet(R)
  BY <1>1, FS_Subset
<1>3. Cardinality(B) \in Nat /\ Cardinality(R) \in Nat
  BY <1>2, FS_CardinalityType
<1>4. Owed(js) = 2 * Cardinality(B) + Cardinality(R)
  BY DEF Owed
<1> HIDE DEF B, R
<1> QED BY <1>3, <1>4

\* A job that is dropped owes no longer.
LEMMA OwedWithout ==
  ASSUME NEW js, IsFiniteSet(js), NEW j \in js
  PROVE  /\ IsFiniteSet(js \ {j})
         /\ Owed(js \ {j}) \in Nat /\ Owed(js) \in Nat
         /\ Owed(js \ {j}) + Owes(j) = Owed(js)
<1> DEFINE B(X) == {k \in X : OwesBoth(k)}
           R(X) == {k \in X : OwesReply(k)}
           ks == js \ {j}
<1>1. IsFiniteSet(ks)
  BY FS_RemoveElement
<1>2. B(js) \in SUBSET js /\ R(js) \in SUBSET js
  OBVIOUS
<1>3. IsFiniteSet(B(js)) /\ IsFiniteSet(R(js))
  BY <1>2, FS_Subset
<1>4. Cardinality(B(js)) \in Nat /\ Cardinality(R(js)) \in Nat
  BY <1>3, FS_CardinalityType
<1>5. ~(OwesBoth(j) /\ OwesReply(j))
  BY DEF OwesBoth, OwesReply
<1>6. Cardinality(B(ks)) = Cardinality(B(js)) - (IF OwesBoth(j) THEN 1 ELSE 0)
  <2>1. CASE OwesBoth(j)
    <3>1. B(ks) = B(js) \ {j} /\ j \in B(js)
      BY <2>1
    <3>2. Cardinality(B(js) \ {j}) = Cardinality(B(js)) - 1
      BY <3>1, <1>3, FS_RemoveElement
    <3> QED BY <2>1, <3>1, <3>2
  <2>2. CASE ~OwesBoth(j)
    <3>1. B(ks) = B(js)
      BY <2>2
    <3> HIDE DEF B
    <3> QED BY <2>2, <3>1, <1>4
  <2> QED BY <2>1, <2>2
<1>7. Cardinality(R(ks)) = Cardinality(R(js)) - (IF OwesReply(j) THEN 1 ELSE 0)
  <2>1. CASE OwesReply(j)
    <3>1. R(ks) = R(js) \ {j} /\ j \in R(js)
      BY <2>1
    <3>2. Cardinality(R(js) \ {j}) = Cardinality(R(js)) - 1
      BY <3>1, <1>3, FS_RemoveElement
    <3> QED BY <2>1, <3>1, <3>2
  <2>2. CASE ~OwesReply(j)
    <3>1. R(ks) = R(js)
      BY <2>2
    <3> HIDE DEF R
    <3> QED BY <2>2, <3>1, <1>4
  <2> QED BY <2>1, <2>2
<1>8. Owed(js) = 2 * Cardinality(B(js)) + Cardinality(R(js))
      /\ Owed(ks) = 2 * Cardinality(B(ks)) + Cardinality(R(ks))
  BY DEF Owed
<1>9. Owed(ks) \in Nat /\ Owed(js) \in Nat
  BY <1>1, OwedType
<1>10. Owed(ks) + Owes(j) = Owed(js)
  <2> HIDE DEF B, R, ks
  <2> QED BY <1>4, <1>5, <1>6, <1>7, <1>8 DEF Owes
<1> QED BY <1>1, <1>9, <1>10

\* A job that is added owes what it owes.
LEMMA OwedWith ==
  ASSUME NEW js, IsFiniteSet(js), NEW k
  PROVE  /\ IsFiniteSet(js \cup {k})
         /\ Owed(js \cup {k}) \in Nat /\ Owed(js) \in Nat
         /\ Owed(js \cup {k}) <= Owed(js) + Owes(k)
<1> DEFINE ks == js \cup {k}
<1>1. IsFiniteSet(ks)
  BY FS_AddElement
<1>2. Owed(ks) \in Nat /\ Owed(js) \in Nat /\ Owes(k) \in Nat
  BY <1>1, OwedType DEF Owes
<1>3. ASSUME k \in js PROVE Owed(ks) <= Owed(js) + Owes(k)
  <2>1. ks = js
    BY <1>3
  <2> HIDE DEF ks
  <2> QED BY <2>1, <1>1, <1>2
<1>4. ASSUME k \notin js PROVE Owed(ks) <= Owed(js) + Owes(k)
  <2>1. k \in ks /\ ks \ {k} = js
    BY <1>4
  <2>2. Owed(ks \ {k}) + Owes(k) = Owed(ks)
    BY <1>1, <2>1, OwedWithout
  <2>3. Owed(js) + Owes(k) = Owed(ks)
    BY <2>1, <2>2
  <2> HIDE DEF ks
  <2> QED BY <2>3, <1>1, <1>2
<1> QED BY <1>1, <1>2, <1>3, <1>4

\* One job in the place of another.
LEMMA OwedReplaced ==
  ASSUME NEW js, IsFiniteSet(js), NEW j \in js, NEW k
  PROVE  /\ IsFiniteSet((js \ {j}) \cup {k})
         /\ Owed((js \ {j}) \cup {k}) \in Nat /\ Owed(js) \in Nat
         /\ Owed((js \ {j}) \cup {k}) + Owes(j) <= Owed(js) + Owes(k)
<1> DEFINE ks == js \ {j}
           ls == ks \cup {k}
<1>1. IsFiniteSet(ks) /\ Owed(ks) \in Nat /\ Owed(js) \in Nat /\ Owed(ks) + Owes(j) = Owed(js)
  BY OwedWithout
<1>2. IsFiniteSet(ls) /\ Owed(ls) \in Nat /\ Owed(ls) <= Owed(ks) + Owes(k)
  BY <1>1, OwedWith
<1>3. Owes(j) \in Nat /\ Owes(k) \in Nat
  BY DEF Owes
<1>4. Owed(ls) + Owes(j) <= Owed(js) + Owes(k)
  <2> HIDE DEF ks, ls
  <2> QED BY <1>1, <1>2, <1>3
<1> QED BY <1>1, <1>2, <1>4

\* Only runs owe.
LEMMA OwedAlike ==
  ASSUME NEW js, NEW ks, \A j : j.of = "run" => (j \in js <=> j \in ks)
  PROVE  Owed(js) = Owed(ks)
<1>1. {j \in js : OwesBoth(j)} = {j \in ks : OwesBoth(j)}
  BY DEF OwesBoth
<1>2. {j \in js : OwesReply(j)} = {j \in ks : OwesReply(j)}
  BY DEF OwesReply
<1> QED BY <1>1, <1>2 DEF Owed

\* What Effects does to the jobs.
LEMMA EffectsJobs ==
  ASSUME NEW s, NEW b \in BOOLEAN, NEW t, NEW js, IsFiniteSet(js), Effects(s, b, t, js)
  PROVE  /\ selected' = s /\ busy' = b
         /\ trace' = t \/ (trace' = NoSteps /\ ~b /\ s = 0)
         /\ IsFiniteSet(jobs')
         /\ Owed(jobs') = Owed(js)
         /\ \A k \in jobs' : k \in js \/ (k = NewJob(0, "show", "get", s) /\ s # 0 /\ ~b)
         /\ \A k \in js : k.of # "show" => k \in jobs'
<1>1. selected' = s /\ busy' = b
  BY DEF Effects
<1>2. CASE s = selected /\ b = busy
  <2>1. jobs' = js /\ trace' = t
    BY <1>2 DEF Effects
  <2> QED BY <1>1, <2>1
<1>3. CASE ~(s = selected /\ b = busy)
  <2>1. PICK show : show = NewJob(0, "show", "get", s)
    OBVIOUS
  <2>2. show.of = "show"
    BY <2>1 DEF NewJob
  <2>3. PICK ks : ks = {j \in js : j.of # "show"}
    OBVIOUS
  <2>4. jobs' = ks \/ (jobs' = ks \cup {show} /\ s # 0 /\ ~b)
    BY <1>3, <2>1, <2>3 DEF Effects
  <2>5. IsFiniteSet(ks)
    <3>1. ks \in SUBSET js
      BY <2>3
    <3> QED BY <3>1, FS_Subset
  <2>6. IsFiniteSet(jobs')
    BY <2>4, <2>5, FS_AddElement
  <2>7. Owed(jobs') = Owed(js)
    BY <2>2, <2>3, <2>4, OwedAlike
  <2>8. trace' = t \/ (trace' = NoSteps /\ ~b /\ s = 0)
    BY <1>3 DEF Effects
  <2> QED BY <1>1, <2>1, <2>2, <2>3, <2>4, <2>6, <2>7, <2>8
<1> QED BY <1>2, <1>3

\* More precisely: unless nothing has changed, the session is read anew.
LEMMA EffectsShows ==
  ASSUME NEW s, NEW b \in BOOLEAN, NEW t, NEW js, Effects(s, b, t, js)
  PROVE  \/ /\ s = selected /\ b = busy /\ jobs' = js /\ trace' = t
         \/ /\ \A k \in jobs' : k.of = "show" => k = NewJob(0, "show", "get", s)
            /\ ~b /\ s # 0 => NewJob(0, "show", "get", s) \in jobs'
            /\ ~b /\ s = 0 => trace' = NoSteps /\ \A k \in jobs' : k.of # "show"
            /\ b \/ s # 0 => trace' = t
            /\ b => \A k \in jobs' : k.of # "show"
<1>1. CASE s = selected /\ b = busy
  BY <1>1 DEF Effects
<1>2. CASE ~(s = selected /\ b = busy)
  <2>1. PICK show : show = NewJob(0, "show", "get", s)
    OBVIOUS
  <2>2. show.of = "show"
    BY <2>1 DEF NewJob
  <2>3. jobs' = {j \in js : j.of # "show"} \cup (IF b \/ s = 0 THEN {} ELSE {show})
    BY <1>2, <2>1 DEF Effects
  <2>4. trace' = IF ~b /\ s = 0 THEN NoSteps ELSE t
    BY <1>2 DEF Effects
  <2> QED BY <2>1, <2>2, <2>3, <2>4
<1> QED BY <1>1, <1>2

-----------------------------------------------------------------------------
\* What has been there has been there, and acts are only added.
Onward == agentActs <= agentActs' /\ \A s \in SessionIds : Known(s) => Known(s)'

\* Jobs stay well formed while sessions only come and go and acts are only
\* added; so do they with one more, one replaced and one less.
LEMMA StillFormed ==
  ASSUME Paid, Onward, agentActs' \in Nat, NEW js \in SUBSET jobs
  PROVE  WellFormed(js)'
<1>1. IsFiniteSet(js)
  BY FS_Subset DEF Paid, WellFormed
<1>2. Distinct(js)
  BY DEF Paid, WellFormed, Distinct
<1>3. ASSUME NEW j \in js PROVE j \in Job /\ Formed(j)'
  <2>1. j \in Job /\ Formed(j)
    BY <1>3 DEF Paid, WellFormed
  <2>2. j.n \in Nat /\ agentActs \in Nat /\ j.n <= agentActs'
    BY <2>1, AgentPageAssumption DEF Paid, AgentTypeOK, Onward, Formed, Job
  <2>3. j.sid # 0 => Known(j.sid)'
    BY <2>1 DEF Formed, Onward, Job, SessionIds
  <2>4. \A s \in j.ids : Known(s)'
    BY <2>1 DEF Formed, Onward, Job
  <2> QED BY <2>1, <2>2, <2>3, <2>4 DEF Formed
<1> QED BY <1>1, <1>2, <1>3 DEF WellFormed

LEMMA AddedFormed ==
  ASSUME Paid, Onward, agentActs' \in Nat, NEW ks \in SUBSET jobs,
         NEW k \in Job, Formed(k)', k.n = 0 \/ k.n > agentActs,
         NEW js, js = ks \cup {k}
  PROVE  WellFormed(js)' /\ Owed(js) <= Owed(ks) + Owes(k) /\ Owed(js) \in Nat
<1>1. WellFormed(ks)'
  BY StillFormed
<1>2. IsFiniteSet(js) /\ Owed(js) <= Owed(ks) + Owes(k) /\ Owed(js) \in Nat
  BY <1>1, OwedWith DEF WellFormed
<1>3. \A j \in ks : j.n <= agentActs /\ j.n \in Nat
  BY DEF Paid, WellFormed, Formed, Job
<1>4. agentActs \in Nat /\ k.n \in Nat
  BY AgentPageAssumption DEF Paid, AgentTypeOK, Job
<1>5. Distinct(js)
  BY <1>1, <1>3, <1>4 DEF WellFormed, Distinct
<1> QED BY <1>1, <1>2, <1>5 DEF WellFormed

LEMMA ReplacedFormed ==
  ASSUME Paid, Onward, agentActs' \in Nat, NEW j \in jobs,
         NEW k \in Job, Formed(k)', k.n = j.n,
         NEW js, js = Replace(j, k)
  PROVE  WellFormed(js)' /\ Owed(js) + Owes(j) <= Owed(jobs) + Owes(k) /\ Owed(js) \in Nat
<1>1. WellFormed(jobs \ {j}) /\ \A i \in jobs \ {j} : Formed(i)'
  <2>1. PICK ks : ks = jobs \ {j}
    OBVIOUS
  <2>2. WellFormed(ks)'
    BY <2>1, StillFormed
  <2>3. WellFormed(ks)
    BY <2>1, <2>2 DEF Paid, WellFormed
  <2> QED BY <2>1, <2>2, <2>3 DEF WellFormed
<1>2. IsFiniteSet(js) /\ Owed(js) + Owes(j) <= Owed(jobs) + Owes(k) /\ Owed(js) \in Nat
  BY OwedReplaced DEF Paid, WellFormed, Replace
<1>3. Distinct(js)
  BY DEF Paid, WellFormed, Distinct, Replace
<1> QED BY <1>1, <1>2, <1>3 DEF WellFormed, Replace

LEMMA DroppedFormed ==
  ASSUME Paid, Onward, agentActs' \in Nat, NEW j \in jobs, NEW js, js = jobs \ {j}
  PROVE  WellFormed(js)' /\ Owed(js) + Owes(j) = Owed(jobs) /\ Owed(js) \in Nat
<1>1. WellFormed(js)'
  BY StillFormed
<1> QED BY <1>1, OwedWithout DEF Paid, WellFormed

StoreType == [SessionIds -> [phase : {"new", "live", "gone"}, ns : Namespaces, count : Nat]]
TraceType == [of : SUBSET SessionIds, count : Counts, more : BOOLEAN]

\* What is left to be seen of a step whose jobs are js and, it may be, a
\* reading of what is selected.
LEMMA StepPaid ==
  ASSUME Paid, Onward,
         namespace' \in Namespaces, agentWorld' = agentWorld, agentActs' \in 0..MaxAgentActs,
         store' \in StoreType, aborts' \in 0..MaxAgentActs,
         listed' \in SUBSET SessionIds, \A s \in listed' : Known(s)',
         selected' \in 0..MaxSessions, selected' # 0 => Known(selected)',
         trace' \in TraceType, busy' \in BOOLEAN,
         NEW js, WellFormed(js)', IsFiniteSet(jobs'), Owed(jobs') = Owed(js), Owed(js) \in Nat,
         \A k \in jobs' : k \in js \/ (k = NewJob(0, "show", "get", selected') /\ selected' # 0),
         \A s \in SessionIds : store'[s].count + Owed(js) <= 2 * agentActs' + 1
  PROVE  Paid'
<1>1. namespace \in Namespaces /\ MaxAgentActs \in Nat /\ MaxSessions \in Nat
  BY AgentPageAssumption DEF Paid, AgentTypeOK
<1>2. PICK show : show = NewJob(0, "show", "get", selected')
  OBVIOUS
<1>3. selected' # 0 => show \in Job /\ Formed(show)' /\ show.n = 0
  <2>1. show \in Job /\ show.n = 0 /\ show.of = "show" /\ show.at = "get" /\ show.sid = selected' /\ show.ids = {}
    <3>1. 0 \in 0..MaxAgentActs
      BY <1>1
    <3>2. NewJob(0, "show", "get", selected') \in Job
      BY <1>1, <3>1, AgentPageAssumption DEF NewJob, Job, Counts
    <3>3. show \in Job
      BY <1>2, <3>2
    <3> QED BY <1>2, <3>3 DEF NewJob
  <2>2. 0 <= agentActs'
    BY <1>1
  <2>3. selected' # 0 => selected' \in SessionIds
    BY <1>1 DEF SessionIds
  <2> QED BY <2>1, <2>2, <2>3 DEF Formed
<1>4. WellFormed(jobs)'
  <2>1. \A k \in jobs' : k \in Job /\ Formed(k)'
    BY <1>2, <1>3 DEF WellFormed
  <2>2. Distinct(jobs')
    <3> SUFFICES ASSUME NEW j \in jobs', NEW k \in jobs', j.n = k.n, j.n > 0 PROVE j = k
      BY DEF Distinct
    <3>1. j \in js /\ k \in js
      BY <1>2, <1>3
    <3> QED BY <3>1 DEF WellFormed, Distinct
  <2> QED BY <2>1, <2>2 DEF WellFormed
<1>5. CountsOwed'
  BY DEF CountsOwed
<1>6. store' \in [SessionIds -> [phase : {"new", "live", "gone"}, ns : Namespaces, count : Counts]]
  <2>1. ASSUME NEW s \in SessionIds PROVE store'[s].count \in Counts
    <3>1. store'[s].count \in Nat
      BY DEF StoreType
    <3>2. store'[s].count + Owed(js) <= 2 * agentActs' + 1
      OBVIOUS
    <3>3. store'[s].count <= 2 * MaxAgentActs + 1
      BY <1>1, <3>1, <3>2
    <3> QED BY <1>1, <3>1, <3>3 DEF Counts
  <2> QED BY <2>1 DEF StoreType
<1>7. jobs' \subseteq Job
  BY <1>4 DEF WellFormed
<1>8. AgentTypeOK'
  BY <1>6, <1>7 DEF AgentTypeOK, Paid, TraceType
<1> QED BY <1>4, <1>5, <1>8 DEF Paid, ShowsKnown

\* An answer that selects x, sets the flag to b and the trace to t, and the
\* effect of the selection that follows it.
LEMMA EffectsPaid ==
  ASSUME Paid, Onward,
         namespace' \in Namespaces, agentWorld' = agentWorld, agentActs' \in 0..MaxAgentActs,
         store' \in StoreType, aborts' \in 0..MaxAgentActs,
         listed' \in SUBSET SessionIds, \A s \in listed' : Known(s)',
         NEW x \in 0..MaxSessions, x # 0 => Known(x)', NEW b \in BOOLEAN, NEW t \in TraceType,
         NEW js, WellFormed(js)', Owed(js) \in Nat, Effects(x, b, t, js),
         \A s \in SessionIds : store'[s].count + Owed(js) <= 2 * agentActs' + 1
  PROVE  Paid'
<1>1. IsFiniteSet(js)
  BY DEF WellFormed
<1>2. /\ selected' = x /\ busy' = b /\ trace' \in {t, NoSteps}
      /\ IsFiniteSet(jobs') /\ Owed(jobs') = Owed(js)
      /\ \A k \in jobs' : k \in js \/ (k = NewJob(0, "show", "get", x) /\ x # 0)
  BY <1>1, EffectsJobs
<1>3. NoSteps \in TraceType
  BY AgentPageAssumption DEF NoSteps, TraceType, Counts
<1> QED BY <1>2, <1>3, StepPaid

\* What the provers need of the types.
LEMMA PaidTypes ==
  ASSUME Paid
  PROVE  /\ namespace \in Namespaces /\ store \in StoreType /\ aborts \in 0..MaxAgentActs
         /\ listed \in SUBSET SessionIds /\ selected \in 0..MaxSessions /\ trace \in TraceType
         /\ busy \in BOOLEAN /\ agentActs \in 0..MaxAgentActs /\ jobs \in SUBSET Job /\ jobs \in SUBSET jobs
         /\ Owed(jobs) \in Nat
         /\ \A s \in SessionIds : store[s].count \in Nat /\ store[s].count + Owed(jobs) <= 2 * agentActs + 1
         /\ MaxAgentActs \in Nat /\ MaxSessions \in Nat /\ NoSteps \in TraceType
<1>1. MaxAgentActs \in Nat /\ MaxSessions \in Nat
  BY AgentPageAssumption
<1>2. store \in StoreType
  <2>1. Counts \subseteq Nat
    BY <1>1 DEF Counts
  <2> QED BY <2>1 DEF Paid, AgentTypeOK, StoreType
<1>3. Owed(jobs) \in Nat
  BY OwedType DEF Paid, WellFormed
<1>4. NoSteps \in TraceType
  BY <1>1 DEF NoSteps, TraceType, Counts
<1>5. \A s \in SessionIds : store[s].count \in Nat /\ store[s].count + Owed(jobs) <= 2 * agentActs + 1
  BY <1>2 DEF Paid, CountsOwed, StoreType
<1> QED BY <1>1, <1>2, <1>3, <1>4, <1>5 DEF Paid, AgentTypeOK, TraceType

\* What the user does takes an act and leaves store and list alone.
LEMMA ActPaid ==
  ASSUME Paid, Act, UNCHANGED store
  PROVE  /\ Onward /\ agentActs' = agentActs + 1 /\ agentActs' \in 0..MaxAgentActs /\ agentActs' \in Nat
         /\ agentWorld' = agentWorld /\ store' \in StoreType
         /\ \A s \in SessionIds : Known(s)' <=> Known(s)
         /\ \A js : Owed(js) \in Nat /\ Owed(js) <= Owed(jobs) + 2 =>
              \A s \in SessionIds : store'[s].count + Owed(js) <= 2 * agentActs' + 1
<1>1. agentActs' = agentActs + 1 /\ agentWorld' = agentWorld
  BY DEF Act
<1>2. agentActs \in 0..MaxAgentActs /\ MaxAgentActs \in Nat /\ MaxHastyActs \in 0..MaxAgentActs
  BY AgentPageAssumption DEF Paid, AgentTypeOK
<1>3. agentActs < MaxAgentActs
  BY <1>2 DEF Act
<1>4. agentActs' \in 0..MaxAgentActs /\ agentActs' \in Nat /\ agentActs <= agentActs'
  BY <1>1, <1>2, <1>3
<1>5. \A s \in SessionIds : Known(s)' <=> Known(s)
  BY DEF Known
<1>6. ASSUME NEW js, Owed(js) \in Nat, Owed(js) <= Owed(jobs) + 2, NEW s \in SessionIds
      PROVE  store'[s].count + Owed(js) <= 2 * agentActs' + 1
  <2>1. store'[s].count \in Nat /\ store'[s].count + Owed(jobs) <= 2 * agentActs + 1 /\ Owed(jobs) \in Nat
    BY PaidTypes
  <2> QED BY <1>1, <1>2, <1>6, <2>1
<1> QED BY <1>1, <1>4, <1>5, <1>6, PaidTypes DEF Onward

\* What the page shows are sessions the store knows.
LEMMA ShownKnown ==
  ASSUME Paid
  PROVE  /\ \A s \in listed : s \in SessionIds /\ Known(s)
         /\ selected # 0 => selected \in SessionIds /\ Known(selected)
<1>1. selected \in 0..MaxSessions /\ MaxSessions \in Nat /\ listed \in SUBSET SessionIds
  BY PaidTypes
<1> QED BY <1>1 DEF Paid, ShowsKnown, SessionIds

-----------------------------------------------------------------------------
\* A job that is begun.
LEMMA BegunFormed ==
  ASSUME Paid, Onward, agentActs' \in 0..MaxAgentActs, agentActs' = agentActs + 1,
         NEW s \in 0..MaxSessions, s # 0 => Known(s)',
         NEW k, NEW of, NEW at, k = NewJob(agentActs', of, at, s),
         \/ of = "refresh" /\ at = "list"
         \/ of \in {"new", "run"} /\ at = "create" /\ s = 0
         \/ of = "remove" /\ at = "delete" /\ s # 0
         \/ of = "run" /\ at = "stream" /\ s # 0
  PROVE  k \in Job /\ k.n > agentActs /\ Formed(k)' /\ Owes(k) <= 2 /\ Owes(k) \in Nat
<1>1. agentActs \in Nat /\ namespace \in Namespaces /\ MaxAgentActs \in Nat /\ MaxSessions \in Nat
  BY PaidTypes
<1>2. k \in Job
  BY <1>1 DEF NewJob, Job, Counts
<1>3. k.n = agentActs' /\ k.of = of /\ k.at = at /\ k.sid = s /\ k.ids = {} /\ k.served = FALSE
  BY DEF NewJob
<1>4. s # 0 => s \in SessionIds
  BY <1>1 DEF SessionIds
<1>5. agentActs' > 0 /\ agentActs' > agentActs /\ agentActs' <= agentActs'
  BY <1>1
<1>6. Formed(k)'
  BY <1>3, <1>4, <1>5 DEF Formed
<1>7. Owes(k) <= 2 /\ Owes(k) \in Nat
  BY DEF Owes
<1> QED BY <1>2, <1>3, <1>5, <1>6, <1>7

\* A job is begun, and the rest of the page left alone.
LEMMA BeginPaid ==
  ASSUME Paid, Act, UNCHANGED <<namespace, store, listed, selected, trace, busy, aborts>>,
         NEW k, jobs' = jobs \cup {k}, k \in Job, k.n > agentActs, Formed(k)', Owes(k) <= 2, Owes(k) \in Nat
  PROVE  Paid'
<1>1. PICK js : js = jobs \cup {k}
  OBVIOUS
<1>2. WellFormed(js)' /\ Owed(js) <= Owed(jobs) + Owes(k) /\ Owed(js) \in Nat
  BY <1>1, ActPaid, AddedFormed, PaidTypes
<1>3. Owed(js) <= Owed(jobs) + 2
  BY <1>2, PaidTypes
<1>4. IsFiniteSet(jobs') /\ jobs' = js
  BY <1>1, <1>2 DEF WellFormed
<1>5. (\A s \in listed' : Known(s)') /\ (selected' # 0 => Known(selected)')
  BY ShownKnown DEF Known
<1>6. /\ Onward /\ agentActs' \in 0..MaxAgentActs /\ agentWorld' = agentWorld /\ store' \in StoreType
      /\ \A s \in SessionIds : store'[s].count + Owed(js) <= 2 * agentActs' + 1
  BY <1>2, <1>3, ActPaid
<1>7. /\ namespace' \in Namespaces /\ aborts' \in 0..MaxAgentActs /\ listed' \in SUBSET SessionIds
      /\ selected' \in 0..MaxSessions /\ trace' \in TraceType /\ busy' \in BOOLEAN
  BY PaidTypes
<1> QED BY <1>2, <1>4, <1>5, <1>6, <1>7, StepPaid

\* The acts of the user.
LEMMA SwitchNamespacePaid ==
  ASSUME Paid, NEW ns \in Namespaces, SwitchNamespace(ns)
  PROVE  Paid'
<1>1. PICK k : k = [NewJob(0, "visit", "list", 0) EXCEPT !.ns = ns]
  OBVIOUS
<1>2. PICK ks : ks = {j \in jobs : j.of # "visit"}
  OBVIOUS
<1>3. PICK js : js = ks \cup {k}
  OBVIOUS
<1>4. jobs' = js
  BY <1>1, <1>2, <1>3 DEF SwitchNamespace
<1>5. /\ Onward /\ agentActs' \in 0..MaxAgentActs /\ agentActs' \in Nat /\ agentWorld' = agentWorld /\ store' \in StoreType
      /\ \A ls : Owed(ls) \in Nat /\ Owed(ls) <= Owed(jobs) + 2 =>
           \A s \in SessionIds : store'[s].count + Owed(ls) <= 2 * agentActs' + 1
  <2>1. Act /\ UNCHANGED store
    BY DEF SwitchNamespace
  <2> QED BY <2>1, ActPaid
<1>6. k \in Job /\ k.n = 0 /\ Formed(k)' /\ Owes(k) = 0
  <2>1. k \in Job /\ k.n = 0 /\ k.of = "visit" /\ k.at = "list" /\ k.sid = 0 /\ k.ids = {}
    <3>1. k = [n |-> 0, of |-> "visit", at |-> "list", served |-> FALSE, ns |-> ns, sid |-> 0,
               ids |-> {}, count |-> 0, erred |-> FALSE]
      BY <1>1 DEF NewJob
    <3>2. k \in Job
      BY <3>1, AgentPageAssumption DEF Job, Counts
    <3> QED BY <3>1, <3>2
  <2>2. Owes(k) = 0
    BY <2>1 DEF Owes, OwesBoth, OwesReply
  <2>3. 0 <= agentActs'
    BY <1>5
  <2> QED BY <2>1, <2>2, <2>3 DEF Formed
<1>7. ks \in SUBSET jobs
  BY <1>2
<1>8. WellFormed(js)' /\ Owed(js) <= Owed(ks) + Owes(k) /\ Owed(js) \in Nat
  BY <1>3, <1>5, <1>6, <1>7, AddedFormed
<1>9. Owed(ks) = Owed(jobs)
  BY <1>2, OwedAlike
<1>10. Owed(js) <= Owed(jobs) + 2 /\ IsFiniteSet(jobs')
  BY <1>4, <1>6, <1>8, <1>9, PaidTypes DEF WellFormed
<1>11. UNCHANGED <<store, listed, selected, trace, busy, aborts>> /\ namespace' = ns
  BY DEF SwitchNamespace
<1>12. (\A s \in listed' : Known(s)') /\ (selected' # 0 => Known(selected)')
  BY <1>11, ShownKnown DEF Known
<1>13. /\ namespace' \in Namespaces /\ aborts' \in 0..MaxAgentActs /\ listed' \in SUBSET SessionIds
       /\ selected' \in 0..MaxSessions /\ trace' \in TraceType /\ busy' \in BOOLEAN
  BY <1>11, PaidTypes
<1>14. \A s \in SessionIds : store'[s].count + Owed(js) <= 2 * agentActs' + 1
  BY <1>5, <1>8, <1>10
<1> QED BY <1>4, <1>5, <1>8, <1>10, <1>12, <1>13, <1>14, StepPaid

LEMMA NewSessionPaid == Paid /\ NewSession => Paid'
<1> SUFFICES ASSUME Paid, NewSession PROVE Paid'  OBVIOUS
<1>1. PICK k : k = NewJob(agentActs', "new", "create", 0)
  OBVIOUS
<1>2. Act /\ UNCHANGED <<namespace, store, listed, selected, trace, busy, aborts>> /\ jobs' = jobs \cup {k}
  BY <1>1 DEF NewSession
<1>3. k \in Job /\ k.n > agentActs /\ Formed(k)' /\ Owes(k) <= 2 /\ Owes(k) \in Nat
  BY <1>1, <1>2, ActPaid, BegunFormed, PaidTypes
<1> QED BY <1>2, <1>3, BeginPaid

LEMMA RefreshSessionsPaid == Paid /\ RefreshSessions => Paid'
<1> SUFFICES ASSUME Paid, RefreshSessions PROVE Paid'  OBVIOUS
<1>1. PICK k : k = NewJob(agentActs', "refresh", "list", 0)
  OBVIOUS
<1>2. Act /\ UNCHANGED <<namespace, store, listed, selected, trace, busy, aborts>> /\ jobs' = jobs \cup {k}
  BY <1>1 DEF RefreshSessions
<1>3. k \in Job /\ k.n > agentActs /\ Formed(k)' /\ Owes(k) <= 2 /\ Owes(k) \in Nat
  BY <1>1, <1>2, ActPaid, BegunFormed, PaidTypes
<1> QED BY <1>2, <1>3, BeginPaid

LEMMA ClearTracePaid == Paid /\ ClearTrace => Paid'
<1> SUFFICES ASSUME Paid, ClearTrace PROVE Paid'  OBVIOUS
<1>1. Act /\ UNCHANGED <<namespace, store, listed, selected, busy, aborts, jobs>> /\ trace' = [NoSteps EXCEPT !.more = TRUE]
  BY DEF ClearTrace
<1>2. PICK js : js = jobs
  OBVIOUS
<1>3. WellFormed(js)' /\ Owed(js) \in Nat /\ Owed(js) <= Owed(jobs) + 2 /\ IsFiniteSet(jobs') /\ jobs' = js
  <2>1. WellFormed(js)'
    BY <1>1, <1>2, ActPaid, StillFormed, PaidTypes
  <2>2. Owed(js) \in Nat /\ Owed(js) <= Owed(jobs) + 2
    BY <1>2, PaidTypes
  <2> QED BY <1>1, <1>2, <2>1, <2>2 DEF WellFormed
<1>4. (\A s \in listed' : Known(s)') /\ (selected' # 0 => Known(selected)')
  BY <1>1, ShownKnown DEF Known
<1>5. /\ namespace' \in Namespaces /\ aborts' \in 0..MaxAgentActs /\ listed' \in SUBSET SessionIds
      /\ selected' \in 0..MaxSessions /\ trace' \in TraceType /\ busy' \in BOOLEAN
  <2>1. trace' \in TraceType
    <3>1. trace' = [of |-> {}, count |-> 0, more |-> TRUE]
      BY <1>1 DEF NoSteps
    <3> QED BY <3>1, AgentPageAssumption DEF TraceType, Counts
  <2> QED BY <1>1, <2>1, PaidTypes
<1>6. /\ Onward /\ agentActs' \in 0..MaxAgentActs /\ agentWorld' = agentWorld /\ store' \in StoreType
      /\ \A s \in SessionIds : store'[s].count + Owed(js) <= 2 * agentActs' + 1
  BY <1>1, <1>3, ActPaid
<1> QED BY <1>3, <1>4, <1>5, <1>6, StepPaid

\* An act that changes selection, flag or trace.
LEMMA ActEffectsPaid ==
  ASSUME Paid, Act, UNCHANGED <<namespace, store, listed>>, aborts' \in 0..MaxAgentActs,
         NEW x \in 0..MaxSessions, x # 0 => Known(x), NEW b \in BOOLEAN, NEW t \in TraceType,
         NEW js, WellFormed(js)', Owed(js) \in Nat, Owed(js) <= Owed(jobs) + 2, Effects(x, b, t, js)
  PROVE  Paid'
<1>1. /\ Onward /\ agentActs' \in 0..MaxAgentActs /\ agentWorld' = agentWorld /\ store' \in StoreType
      /\ \A s \in SessionIds : store'[s].count + Owed(js) <= 2 * agentActs' + 1
  BY ActPaid
<1>2. (\A s \in listed' : Known(s)') /\ (x # 0 => Known(x)')
  BY ShownKnown DEF Known
<1>3. namespace' \in Namespaces /\ listed' \in SUBSET SessionIds
  BY PaidTypes
<1> QED BY <1>1, <1>2, <1>3, EffectsPaid

LEMMA PickSessionPaid ==
  ASSUME Paid, NEW s \in listed, PickSession(s)
  PROVE  Paid'
<1>1. Act /\ UNCHANGED <<namespace, store, listed, aborts>> /\ Effects(s, busy, trace, jobs)
  BY DEF PickSession
<1>2. s \in 0..MaxSessions /\ Known(s) /\ busy \in BOOLEAN /\ trace \in TraceType /\ aborts' \in 0..MaxAgentActs
  BY <1>1, ShownKnown, PaidTypes DEF SessionIds
<1>3. PICK js : js = jobs
  OBVIOUS
<1>4. WellFormed(js)' /\ Owed(js) \in Nat /\ Owed(js) <= Owed(jobs) + 2
  BY <1>1, <1>3, ActPaid, StillFormed, PaidTypes
<1>5. Effects(s, busy, trace, js)
  BY <1>1, <1>3
<1> QED BY <1>1, <1>2, <1>4, <1>5, ActEffectsPaid

LEMMA RemoveSessionPaid ==
  ASSUME Paid, NEW s \in listed, RemoveSession(s)
  PROVE  Paid'
<1>1. PICK k : k = NewJob(agentActs', "remove", "delete", s)
  OBVIOUS
<1>2. PICK js : js = jobs \cup (IF busy THEN {} ELSE {k})
  OBVIOUS
<1>3. Act /\ UNCHANGED <<namespace, store, listed, aborts>> /\ Effects(s, busy, trace, js)
  BY <1>1, <1>2 DEF RemoveSession
<1>4. s \in 0..MaxSessions /\ s # 0 /\ Known(s) /\ busy \in BOOLEAN /\ trace \in TraceType /\ aborts' \in 0..MaxAgentActs
  BY <1>3, ShownKnown, PaidTypes DEF SessionIds
<1>5. WellFormed(js)' /\ Owed(js) \in Nat /\ Owed(js) <= Owed(jobs) + 2
  <2>1. CASE busy
    <3>1. js = jobs
      BY <1>2, <2>1
    <3> QED BY <1>3, <3>1, ActPaid, StillFormed, PaidTypes
  <2>2. CASE ~busy
    <3>1. js = jobs \cup {k}
      BY <1>2, <2>2
    <3>2. k \in Job /\ k.n > agentActs /\ Formed(k)' /\ Owes(k) <= 2 /\ Owes(k) \in Nat
      <4>1. Known(s)'
        BY <1>3, <1>4 DEF Known
      <4> QED BY <1>1, <1>3, <1>4, <4>1, ActPaid, BegunFormed, PaidTypes
    <3>3. WellFormed(js)' /\ Owed(js) <= Owed(jobs) + Owes(k) /\ Owed(js) \in Nat
      BY <1>3, <3>1, <3>2, ActPaid, AddedFormed, PaidTypes
    <3> QED BY <3>2, <3>3, PaidTypes
  <2> QED BY <1>4, <2>1, <2>2
<1> QED BY <1>3, <1>4, <1>5, ActEffectsPaid

\* What is appended is of a session.
LEMMA AppendedType ==
  ASSUME Paid, NEW s \in SessionIds
  PROVE  Appended(s) \in TraceType /\ Appended(s).of = trace.of \cup {s}
<1>1. trace \in TraceType
  BY PaidTypes
<1> QED BY <1>1 DEF Appended, TraceType

LEMMA RunPaid == Paid /\ Run => Paid'
<1> SUFFICES ASSUME Paid, Run PROVE Paid'  OBVIOUS
<1>1. PICK at : at = IF selected = 0 THEN "create" ELSE "stream"
  OBVIOUS
<1>2. PICK k : k = NewJob(agentActs', "run", at, selected)
  OBVIOUS
<1>3. PICK js : js = jobs \cup {k}
  OBVIOUS
<1>4. PICK t : t = IF selected = 0 THEN trace ELSE Appended(selected)
  OBVIOUS
<1>5. /\ Act /\ UNCHANGED <<namespace, store, listed>> /\ Effects(selected, TRUE, t, js)
      /\ aborts' = IF selected = 0 THEN aborts ELSE k.n
  BY <1>1, <1>2, <1>3, <1>4 DEF Run
<1>6. selected \in 0..MaxSessions /\ (selected # 0 => selected \in SessionIds /\ Known(selected))
  BY ShownKnown, PaidTypes
<1>7. k \in Job /\ k.n > agentActs /\ Formed(k)' /\ Owes(k) <= 2 /\ Owes(k) \in Nat
  <2>2. PICK s : s = selected
    OBVIOUS
  <2>3. s \in 0..MaxSessions /\ (s # 0 => Known(s)')
    BY <1>5, <1>6, <2>2 DEF Known
  <2>4. k = NewJob(agentActs', "run", at, s)
    BY <1>2, <2>2
  <2>5. (at = "create" /\ s = 0) \/ (at = "stream" /\ s # 0)
    BY <1>1, <2>2
  <2> QED BY <1>5, <2>3, <2>4, <2>5, ActPaid, BegunFormed, PaidTypes
<1>8. WellFormed(js)' /\ Owed(js) \in Nat /\ Owed(js) <= Owed(jobs) + 2
  <2>1. WellFormed(js)' /\ Owed(js) <= Owed(jobs) + Owes(k) /\ Owed(js) \in Nat
    BY <1>3, <1>5, <1>7, ActPaid, AddedFormed, PaidTypes
  <2> QED BY <1>7, <2>1, PaidTypes
<1>9. t \in TraceType
  BY <1>4, <1>6, AppendedType, PaidTypes
<1>10. aborts' \in 0..MaxAgentActs
  <2>1. k.n \in 0..MaxAgentActs
    BY <1>7 DEF Job
  <2> QED BY <1>5, <2>1, PaidTypes
<1> QED BY <1>5, <1>6, <1>8, <1>9, <1>10, ActEffectsPaid

\* Stop changes at most one job, and only where the job is.
LEMMA StopFormed ==
  ASSUME Paid, Act, UNCHANGED <<namespace, store>>,
         NEW js, js = {IF j.at = "stream" /\ j.n = aborts THEN [j EXCEPT !.at = "stopped"] ELSE j : j \in jobs}
  PROVE  WellFormed(js)' /\ Owed(js) \in Nat /\ Owed(js) <= Owed(jobs)
<1> DEFINE Stopped(j) == j.at = "stream" /\ j.n = aborts
<1>1. Onward /\ agentActs' \in Nat
  BY ActPaid
<1>2. CASE \A j \in jobs : ~Stopped(j)
  <2>1. js = jobs
    BY <1>2
  <2>2. WellFormed(js)'
    BY <1>1, <2>1, StillFormed
  <2>3. Owed(jobs) \in Nat
    BY PaidTypes
  <2>4. Owed(js) = Owed(jobs)
    BY <2>1
  <2> QED BY <2>2, <2>3, <2>4
<1>3. ASSUME NEW j \in jobs, Stopped(j)
      PROVE  WellFormed(js)' /\ Owed(js) \in Nat /\ Owed(js) <= Owed(jobs)
  <2>1. j \in Job /\ Formed(j) /\ j.of = "run" /\ j.n > 0
    BY <1>3 DEF Paid, WellFormed, Formed
  <2>2. PICK k : k = [j EXCEPT !.at = "stopped"]
    OBVIOUS
  <2>3. /\ k \in Job /\ k.n = j.n /\ k.of = "run" /\ k.at = "stopped"
        /\ k.sid = j.sid /\ k.ids = j.ids /\ k.served = j.served
    BY <2>1, <2>2 DEF Job
  <2>4. \A i \in jobs : Stopped(i) => i = j
    BY <1>3, <2>1 DEF Paid, WellFormed, Distinct
  <2>5. js = Replace(j, k)
    <3>1. js = {IF i = j THEN k ELSE i : i \in jobs}
      BY <1>3, <2>2, <2>4
    <3> QED BY <1>3, <3>1 DEF Replace
  <2>6. Formed(k)'
    <3>1. Formed(j)'
      <4>1. PICK ks : ks = jobs
        OBVIOUS
      <4>2. WellFormed(ks)'
        BY <1>1, <4>1, StillFormed, PaidTypes
      <4> QED BY <4>1, <4>2 DEF WellFormed
    <3> QED BY <1>3, <2>1, <2>3, <3>1 DEF Formed
  <2>7. Owes(k) <= Owes(j) /\ Owes(k) \in Nat /\ Owes(j) \in Nat
    BY <1>3, <2>1, <2>3 DEF Owes, OwesBoth, OwesReply, Job
  <2>8. WellFormed(js)' /\ Owed(js) + Owes(j) <= Owed(jobs) + Owes(k) /\ Owed(js) \in Nat
    BY <1>1, <2>3, <2>5, <2>6, ReplacedFormed
  <2> QED BY <2>7, <2>8, PaidTypes
<1> QED BY <1>2, <1>3

LEMMA StopRunPaid == Paid /\ StopRun => Paid'
<1> SUFFICES ASSUME Paid, StopRun PROVE Paid'  OBVIOUS
<1>1. PICK js : js = {IF j.at = "stream" /\ j.n = aborts THEN [j EXCEPT !.at = "stopped"] ELSE j : j \in jobs}
  OBVIOUS
<1>2. Act /\ UNCHANGED <<namespace, store, listed, aborts>> /\ Effects(selected, FALSE, trace, js)
  BY <1>1 DEF StopRun
<1>3. WellFormed(js)' /\ Owed(js) \in Nat /\ Owed(js) <= Owed(jobs)
  BY <1>1, <1>2, StopFormed
<1>4. Owed(js) <= Owed(jobs) + 2
  BY <1>3, PaidTypes
<1>5. selected \in 0..MaxSessions /\ (selected # 0 => Known(selected)) /\ trace \in TraceType /\ aborts' \in 0..MaxAgentActs
  BY <1>2, ShownKnown, PaidTypes
<1> QED BY <1>2, <1>3, <1>4, <1>5, ActEffectsPaid

-----------------------------------------------------------------------------
\* A step of the server or of an answer, which changes neither the namespace
\* nor what the user has done.
Answering == UNCHANGED <<namespace, agentActs, agentWorld>>

\* One job goes on, and the trace and the store may change.
LEMMA GoesOnPaid ==
  ASSUME Paid, Answering, UNCHANGED <<listed, selected, busy, aborts>>,
         NEW j \in jobs, NEW k, k \in Job, Formed(k)', k.n = j.n, jobs' = Replace(j, k),
         Onward, store' \in StoreType, trace' \in TraceType,
         \A s \in SessionIds : store'[s].count + Owes(k) <= store[s].count + Owes(j)
  PROVE  Paid'
<1>1. PICK js : js = Replace(j, k)
  OBVIOUS
<1>2. /\ namespace' \in Namespaces /\ aborts' \in 0..MaxAgentActs /\ listed' \in SUBSET SessionIds
      /\ selected' \in 0..MaxSessions /\ busy' \in BOOLEAN /\ agentActs' \in 0..MaxAgentActs /\ agentWorld' = agentWorld
  BY PaidTypes DEF Answering
<1>3. WellFormed(js)' /\ Owed(js) + Owes(j) <= Owed(jobs) + Owes(k) /\ Owed(js) \in Nat
  <2>1. agentActs' \in Nat
    BY <1>2, PaidTypes
  <2> QED BY <1>1, <2>1, ReplacedFormed
<1>4. jobs' = js /\ IsFiniteSet(jobs')
  BY <1>1, <1>3 DEF WellFormed
<1>5. ASSUME NEW s \in SessionIds PROVE store'[s].count + Owed(js) <= 2 * agentActs' + 1
  <2>1. store[s].count \in Nat /\ store[s].count + Owed(jobs) <= 2 * agentActs + 1 /\ Owed(jobs) \in Nat /\ agentActs \in Nat
    BY PaidTypes
  <2>2. store'[s].count \in Nat /\ store'[s].count + Owes(k) <= store[s].count + Owes(j)
    BY DEF StoreType
  <2>3. Owes(j) \in Nat /\ Owes(k) \in Nat
    BY DEF Owes
  <2>4. agentActs' = agentActs
    BY DEF Answering
  <2> QED BY <1>3, <2>1, <2>2, <2>3, <2>4
<1>6. (\A s \in listed' : Known(s)') /\ (selected' # 0 => Known(selected)')
  <2>1. \A s \in SessionIds : Known(s) => Known(s)'
    BY DEF Onward
  <2>2. PICK x : x = selected
    OBVIOUS
  <2>3. x # 0 => Known(x)'
    BY <2>1, <2>2, ShownKnown
  <2>4. selected' = x
    BY <2>2
  <2>5. selected' # 0 => Known(selected)'
    BY <2>3, <2>4 DEF Known
  <2> QED BY <2>1, <2>5, ShownKnown
<1> QED BY <1>2, <1>3, <1>4, <1>5, <1>6, StepPaid

\* One job is over, and the trace may change.
LEMMA GoesPaid ==
  ASSUME Paid, Answering, UNCHANGED <<store, listed, selected, busy, aborts>>,
         NEW j \in jobs, jobs' \in {jobs, jobs \ {j}}, trace' \in TraceType
  PROVE  Paid'
<1>1. PICK js : js = jobs'
  OBVIOUS
<1>2. /\ namespace' \in Namespaces /\ aborts' \in 0..MaxAgentActs /\ listed' \in SUBSET SessionIds /\ store' \in StoreType
      /\ selected' \in 0..MaxSessions /\ busy' \in BOOLEAN /\ agentActs' \in 0..MaxAgentActs /\ agentWorld' = agentWorld
  BY PaidTypes DEF Answering
<1>3. Onward /\ agentActs' \in Nat
  BY PaidTypes DEF Onward, Answering, Known
<1>4. WellFormed(js)' /\ Owed(js) <= Owed(jobs) /\ Owed(js) \in Nat
  <2>1. CASE js = jobs
    BY <2>1, <1>3, StillFormed, PaidTypes
  <2>2. CASE js = jobs \ {j}
    <3>1. WellFormed(js)' /\ Owed(js) + Owes(j) = Owed(jobs) /\ Owed(js) \in Nat
      BY <1>3, <2>2, DroppedFormed
    <3>2. Owes(j) \in Nat
      BY DEF Owes
    <3> QED BY <3>1, <3>2
  <2> QED BY <1>1, <2>1, <2>2
<1>5. IsFiniteSet(jobs') /\ Owed(jobs') = Owed(js) /\ \A k \in jobs' : k \in js
  BY <1>1, <1>4 DEF WellFormed
<1>6. ASSUME NEW s \in SessionIds PROVE store'[s].count + Owed(js) <= 2 * agentActs' + 1
  <2>1. store[s].count \in Nat /\ store[s].count + Owed(jobs) <= 2 * agentActs + 1 /\ Owed(jobs) \in Nat
    BY PaidTypes
  <2>2. agentActs' = agentActs /\ store'[s].count = store[s].count /\ agentActs \in Nat
    BY PaidTypes DEF Answering
  <2> QED BY <1>4, <2>1, <2>2
<1>7. (\A s \in listed' : Known(s)') /\ (selected' # 0 => Known(selected)')
  BY ShownKnown DEF Known
<1> QED BY <1>2, <1>3, <1>4, <1>5, <1>6, <1>7, StepPaid

\* A session gets another record.
LEMMA StoredAnew ==
  ASSUME Paid, NEW x \in SessionIds, NEW r, store' = [store EXCEPT ![x] = r],
         r.phase \in {"live", "gone"}, r.ns \in Namespaces, r.count \in Nat,
         r = [phase |-> r.phase, ns |-> r.ns, count |-> r.count], agentActs <= agentActs'
  PROVE  /\ store' \in StoreType /\ Onward
         /\ store'[x] = r /\ \A s \in SessionIds \ {x} : store'[s] = store[s]
<1>1. store \in StoreType
  BY PaidTypes
<1>2. store'[x] = r /\ \A s \in SessionIds \ {x} : store'[s] = store[s]
  BY <1>1 DEF StoreType
<1>3. store' \in StoreType
  <2>1. r \in [phase : {"new", "live", "gone"}, ns : Namespaces, count : Nat]
    OBVIOUS
  <2> QED BY <1>1, <2>1 DEF StoreType
<1>4. \A s \in SessionIds : Known(s) => Known(s)'
  BY <1>2 DEF Known
<1> QED BY <1>2, <1>3, <1>4 DEF Onward

\* What is known of a job under way.
LEMMA JobFields ==
  ASSUME Paid, NEW j \in jobs
  PROVE  /\ j \in Job /\ Formed(j) /\ j.n \in 0..MaxAgentActs /\ j.ns \in Namespaces
         /\ j.sid # 0 => j.sid \in SessionIds /\ Known(j.sid)
         /\ \A s \in j.ids : s \in SessionIds /\ Known(s)
<1>1. j \in Job /\ Formed(j)
  BY DEF Paid, WellFormed
<1>2. MaxSessions \in Nat
  BY PaidTypes
<1> QED BY <1>1, <1>2 DEF Formed, Job, SessionIds

\* A job keeps its form where it goes on in its session.
LEMMA GoesOnFormed ==
  ASSUME Paid, NEW j \in jobs, Onward, Answering, NEW k, k.n = j.n, k.of = j.of, k.ids = j.ids, k.sid = j.sid, j.sid # 0, k.at # "create",
         \/ k.of \in {"visit", "refresh"} /\ k.at = "list"
         \/ k.of = "show" /\ k.at = "get"
         \/ k.of = "new" /\ k.at \in {"create", "list"}
         \/ k.of = "remove" /\ k.at \in {"delete", "list"}
         \/ k.of = "run" /\ k.at \in {"create", "list", "stream", "stopped", "get", "relist"}
  PROVE  Formed(k)'
<1>1. Formed(j) /\ j.sid \in SessionIds /\ Known(j.sid) /\ \A s \in j.ids : s \in SessionIds /\ Known(s)
  BY JobFields
<1>2. Known(j.sid)' /\ \A s \in j.ids : Known(s)'
  BY <1>1 DEF Onward
<1>3. agentActs' = agentActs
  BY DEF Answering
<1>4. j.n <= agentActs /\ (j.of \in {"new", "remove", "refresh", "run"} => j.n > 0)
  BY <1>1 DEF Formed
<1> QED BY <1>1, <1>2, <1>3, <1>4 DEF Formed

\* The five requests.
HandleList(j)   == j.at \in {"list", "relist"} /\ UNCHANGED store
                   /\ jobs' = Replace(j, [j EXCEPT !.served = TRUE, !.ids = SessionsOf(j.ns)])
HandleGet(j)    == j.at = "get" /\ store[j.sid].phase = "live" /\ UNCHANGED store
                   /\ jobs' = Replace(j, [j EXCEPT !.served = TRUE, !.count = store[j.sid].count])
HandleCreate(j) == j.at = "create" /\ \E s \in Fresh :
                   /\ store' = [store EXCEPT ![s] = [phase |-> "live", ns |-> j.ns, count |-> 0]]
                   /\ jobs' = Replace(j, [j EXCEPT !.served = TRUE, !.sid = s])
HandleDelete(j) == j.at = "delete" /\ store[j.sid].phase = "live"
                   /\ store' = [store EXCEPT ![j.sid].phase = "gone", ![j.sid].count = 0]
                   /\ jobs' = Replace(j, [j EXCEPT !.served = TRUE])
HandleStream(j) == j.at = "stream" /\ store[j.sid].phase = "live"
                   /\ store' = [store EXCEPT ![j.sid].count = @ + 1]
                   /\ jobs' = Replace(j, [j EXCEPT !.served = TRUE])

\* The server handles a request of one of five kinds.
LEMMA HandleCases ==
  ASSUME NEW j \in jobs, Handle(j)
  PROVE  /\ ~j.served /\ Answering /\ UNCHANGED <<listed, selected, trace, busy, aborts>>
         /\ HandleList(j) \/ HandleGet(j) \/ HandleCreate(j) \/ HandleDelete(j) \/ HandleStream(j)
BY DEF Handle, Answering, HandleList, HandleGet, HandleCreate, HandleDelete, HandleStream

LEMMA HandlePaid ==
  ASSUME Paid, NEW j \in jobs, Handle(j)
  PROVE  Paid'
<1>1. ~j.served /\ Answering /\ UNCHANGED <<listed, selected, trace, busy, aborts>>
  BY HandleCases
<1>2. /\ j \in Job /\ Formed(j) /\ (j.sid # 0 => j.sid \in SessionIds /\ Known(j.sid))
      /\ trace' \in TraceType /\ store \in StoreType /\ agentActs' \in Nat /\ agentActs' = agentActs
  <2>1. agentActs' \in Nat /\ trace' \in TraceType
    BY <1>1, PaidTypes DEF Answering
  <2> QED BY <1>1, <2>1, JobFields, PaidTypes DEF Answering
<1>3. CASE HandleList(j)
  <2>1. UNCHANGED store
    BY <1>3 DEF HandleList
  <2>2. PICK ids : ids = SessionsOf(j.ns)
    OBVIOUS
  <2>3. PICK k : k = [j EXCEPT !.served = TRUE, !.ids = ids]
    OBVIOUS
  <2>4. jobs' = Replace(j, k)
    BY <1>3, <2>2, <2>3 DEF HandleList
  <2>5. Onward
    BY <1>2, <2>1 DEF Onward, Known
  <2>6. \A s \in ids : s \in SessionIds /\ Known(s)'
    BY <2>1, <2>2 DEF SessionsOf, Known
  <2>7. k \in Job /\ k.n = j.n /\ k.of = j.of /\ k.at = j.at /\ k.sid = j.sid /\ k.ids = ids /\ k.served = TRUE
    BY <1>2, <2>3, <2>6 DEF Job
  <2>8. Formed(k)'
    <3>1. j.sid # 0 => Known(j.sid)'
      BY <1>2, <2>5 DEF Onward
    <3> QED BY <1>2, <1>3, <2>6, <2>7, <3>1 DEF Formed, HandleList
  <2>9. Owes(k) = Owes(j)
    BY <1>3, <2>7 DEF Owes, OwesBoth, OwesReply, HandleList
  <2>10. store' \in StoreType /\ \A s \in SessionIds : store'[s].count + Owes(k) <= store[s].count + Owes(j)
    BY <1>2, <2>1, <2>9 DEF StoreType, Owes
  <2> QED BY <1>1, <1>2, <2>4, <2>5, <2>7, <2>8, <2>10, GoesOnPaid
<1>4. CASE HandleGet(j)
  <2>1. UNCHANGED store /\ j.at = "get"
    BY <1>4 DEF HandleGet
  <2>2. j.sid \in SessionIds /\ j.sid # 0
    BY <1>2, <2>1 DEF Formed, SessionIds
  <2>3. PICK c : c = store[j.sid].count
    OBVIOUS
  <2>4. PICK k : k = [j EXCEPT !.served = TRUE, !.count = c]
    OBVIOUS
  <2>5. c \in Counts
    BY <2>2, <2>3 DEF Paid, AgentTypeOK
  <2>6. k \in Job /\ k.n = j.n /\ k.of = j.of /\ k.at = j.at /\ k.sid = j.sid /\ k.ids = j.ids
    BY <1>2, <2>4, <2>5 DEF Job
  <2>7. jobs' = Replace(j, k)
    BY <1>4, <2>3, <2>4 DEF HandleGet
  <2>8. Onward
    BY <1>2, <2>1 DEF Onward, Known
  <2>9. Formed(k)'
    BY <1>1, <1>2, <2>2, <2>6, <2>8, GoesOnFormed DEF Formed
  <2>10. Owes(k) = Owes(j)
    BY <2>1, <2>6 DEF Owes, OwesBoth, OwesReply
  <2>11. store' \in StoreType /\ \A s \in SessionIds : store'[s].count + Owes(k) <= store[s].count + Owes(j)
    BY <1>2, <2>1, <2>10 DEF StoreType, Owes
  <2> QED BY <1>1, <1>2, <2>6, <2>7, <2>8, <2>9, <2>11, GoesOnPaid
<1>5. CASE HandleCreate(j)
  <2>1. PICK x \in Fresh :
            /\ store' = [store EXCEPT ![x] = [phase |-> "live", ns |-> j.ns, count |-> 0]]
            /\ jobs' = Replace(j, [j EXCEPT !.served = TRUE, !.sid = x])
    BY <1>5 DEF HandleCreate
  <2>2. PICK r : r = [phase |-> "live", ns |-> j.ns, count |-> 0]
    OBVIOUS
  <2>3. PICK k : k = [j EXCEPT !.served = TRUE, !.sid = x]
    OBVIOUS
  <2>4. x \in SessionIds /\ x # 0 /\ x \in 0..MaxSessions
    BY <2>1, PaidTypes DEF Fresh, SessionIds
  <2>5. store' \in StoreType /\ Onward /\ store'[x] = r /\ \A s \in SessionIds \ {x} : store'[s] = store[s]
    <3>1. r.phase = "live" /\ r.ns \in Namespaces /\ r.count \in Nat /\ r = [phase |-> r.phase, ns |-> r.ns, count |-> r.count]
      BY <1>2, <2>2 DEF Job
    <3>2. store' = [store EXCEPT ![x] = r] /\ agentActs <= agentActs'
      BY <1>2, <2>1, <2>2
    <3> QED BY <2>4, <3>1, <3>2, StoredAnew
  <2>6. k \in Job /\ k.n = j.n /\ k.of = j.of /\ k.at = j.at /\ k.sid = x /\ k.ids = j.ids /\ k.served = TRUE
    BY <1>2, <2>3, <2>4 DEF Job
  <2>7. jobs' = Replace(j, k)
    BY <2>1, <2>3
  <2>8. Formed(k)'
    <3>1. Known(x)'
      BY <2>2, <2>5 DEF Known
    <3>2. \A s \in j.ids : Known(s)'
      BY <2>5, JobFields DEF Onward
    <3> QED BY <1>2, <2>4, <2>6, <3>1, <3>2 DEF Formed
  <2>9. Owes(k) = Owes(j) /\ Owes(j) \in Nat
    BY <1>5, <2>6 DEF Owes, OwesBoth, OwesReply, HandleCreate
  <2>10. ASSUME NEW s \in SessionIds PROVE store'[s].count + Owes(k) <= store[s].count + Owes(j)
    <3>1. store[s].count \in Nat
      BY PaidTypes
    <3>2. store'[s].count = 0 \/ store'[s].count = store[s].count
      BY <2>2, <2>5
    <3> QED BY <2>9, <3>1, <3>2
  <2> QED BY <1>1, <1>2, <2>5, <2>6, <2>7, <2>8, <2>10, GoesOnPaid
<1>6. CASE HandleDelete(j)
  <2>1. j.at = "delete"
    BY <1>6 DEF HandleDelete
  <2>2. j.sid \in SessionIds /\ j.sid # 0
    BY <1>2, <2>1 DEF Formed, SessionIds
  <2>3. PICK r : r = [store[j.sid] EXCEPT !.phase = "gone", !.count = 0]
    OBVIOUS
  <2>4. r.phase = "gone" /\ r.ns \in Namespaces /\ r.count = 0 /\ r = [phase |-> r.phase, ns |-> r.ns, count |-> r.count]
    BY <1>2, <2>2, <2>3 DEF StoreType
  <2>5. store' = [store EXCEPT ![j.sid] = r]
    <3>1. PICK x : x = j.sid
      OBVIOUS
    <3>2. x \in SessionIds /\ DOMAIN store = SessionIds
      BY <1>2, <2>2, <3>1 DEF StoreType
    <3>3. store' = [s \in SessionIds |-> IF s = x THEN r ELSE store[s]]
      BY <2>3, <3>1, <3>2, <1>6 DEF HandleDelete
    <3> QED BY <3>1, <3>2, <3>3
  <2>6. store' \in StoreType /\ Onward /\ store'[j.sid] = r /\ \A s \in SessionIds \ {j.sid} : store'[s] = store[s]
    <3>1. agentActs <= agentActs'
      BY <1>2
    <3>2. r.phase \in {"live", "gone"} /\ r.count \in Nat
      BY <2>4
    <3> QED BY <2>2, <2>4, <2>5, <3>1, <3>2, StoredAnew
  <2>7. PICK k : k = [j EXCEPT !.served = TRUE]
    OBVIOUS
  <2>8. k \in Job /\ k.n = j.n /\ k.of = j.of /\ k.at = j.at /\ k.sid = j.sid /\ k.ids = j.ids
    BY <1>2, <2>7 DEF Job
  <2>9. jobs' = Replace(j, k)
    BY <1>6, <2>7 DEF HandleDelete
  <2>10. Formed(k)'
    BY <1>1, <1>2, <2>2, <2>6, <2>8, GoesOnFormed DEF Formed
  <2>11. Owes(k) = Owes(j) /\ Owes(j) \in Nat
    BY <2>1, <2>8 DEF Owes, OwesBoth, OwesReply
  <2>12. ASSUME NEW s \in SessionIds PROVE store'[s].count + Owes(k) <= store[s].count + Owes(j)
    <3>1. store[s].count \in Nat
      BY PaidTypes
    <3>2. store'[s].count = 0 \/ store'[s].count = store[s].count
      BY <2>4, <2>6
    <3> QED BY <2>11, <3>1, <3>2
  <2> QED BY <1>1, <1>2, <2>6, <2>8, <2>9, <2>10, <2>12, GoesOnPaid
<1>7. CASE HandleStream(j)
  <2>1. j.at = "stream" /\ j.of = "run"
    BY <1>2, <1>7 DEF HandleStream, Formed
  <2>2. j.sid \in SessionIds /\ j.sid # 0
    BY <1>2, <2>1 DEF Formed, SessionIds
  <2>3. PICK r : r = [store[j.sid] EXCEPT !.count = store[j.sid].count + 1]
    OBVIOUS
  <2>4. /\ r.phase = "live" /\ r.ns \in Namespaces /\ r.count = store[j.sid].count + 1 /\ r.count \in Nat
        /\ r = [phase |-> r.phase, ns |-> r.ns, count |-> r.count]
    BY <1>2, <1>7, <2>2, <2>3 DEF StoreType, HandleStream
  <2>5. store' = [store EXCEPT ![j.sid] = r]
    <3>1. PICK x : x = j.sid
      OBVIOUS
    <3>2. x \in SessionIds /\ DOMAIN store = SessionIds
      BY <1>2, <2>2, <3>1 DEF StoreType
    <3>3. store' = [s \in SessionIds |-> IF s = x THEN r ELSE store[s]]
      BY <2>3, <3>1, <3>2, <1>7 DEF HandleStream
    <3> QED BY <3>1, <3>2, <3>3
  <2>6. store' \in StoreType /\ Onward /\ store'[j.sid] = r /\ \A s \in SessionIds \ {j.sid} : store'[s] = store[s]
    <3>1. agentActs <= agentActs'
      BY <1>2
    <3>2. r.phase \in {"live", "gone"} /\ r.count \in Nat
      BY <2>4
    <3> QED BY <2>2, <2>4, <2>5, <3>1, <3>2, StoredAnew
  <2>7. PICK k : k = [j EXCEPT !.served = TRUE]
    OBVIOUS
  <2>8. k \in Job /\ k.n = j.n /\ k.of = j.of /\ k.at = j.at /\ k.sid = j.sid /\ k.ids = j.ids /\ k.served = TRUE
    BY <1>2, <2>7 DEF Job
  <2>9. jobs' = Replace(j, k)
    BY <1>7, <2>7 DEF HandleStream
  <2>10. Formed(k)'
    BY <1>1, <1>2, <2>2, <2>6, <2>8, GoesOnFormed DEF Formed
  <2>11. Owes(k) = 1 /\ Owes(j) = 2
    BY <1>1, <2>1, <2>8 DEF Owes, OwesBoth, OwesReply
  <2>12. ASSUME NEW s \in SessionIds PROVE store'[s].count + Owes(k) <= store[s].count + Owes(j)
    <3>1. store[s].count \in Nat
      BY PaidTypes
    <3>2. store'[s].count = store[s].count + 1 \/ store'[s].count = store[s].count
      BY <2>4, <2>6
    <3> QED BY <2>11, <3>1, <3>2
  <2> QED BY <1>1, <1>2, <2>6, <2>8, <2>9, <2>10, <2>12, GoesOnPaid
<1> QED BY <1>3, <1>4, <1>5, <1>6, <1>7, HandleCases

-----------------------------------------------------------------------------
\* An answer leaves the store alone.
LEMMA OnwardAnswering ==
  ASSUME Paid, Answering, UNCHANGED store
  PROVE  /\ Onward /\ agentActs' \in Nat /\ agentActs' \in 0..MaxAgentActs /\ namespace' \in Namespaces
         /\ agentWorld' = agentWorld /\ store' \in StoreType
BY PaidTypes DEF Answering, Onward, Known

\* One job is over, and the selection or the flag may change.
LEMMA OverPaid ==
  ASSUME Paid, Answering, NEW j \in jobs, Onward, store' \in StoreType,
         aborts' \in 0..MaxAgentActs, listed' \in SUBSET SessionIds, \A s \in listed' : Known(s)',
         NEW x \in 0..MaxSessions, x # 0 => Known(x), NEW b \in BOOLEAN, Effects(x, b, trace, jobs \ {j}),
         \A s \in SessionIds : store'[s].count <= store[s].count + Owes(j)
  PROVE  Paid'
<1>1. PICK js : js = jobs \ {j}
  OBVIOUS
<1>2. /\ namespace' \in Namespaces /\ agentActs' \in 0..MaxAgentActs /\ agentWorld' = agentWorld /\ trace \in TraceType
      /\ agentActs' \in Nat
  BY PaidTypes DEF Answering
<1>3. WellFormed(js)' /\ Owed(js) + Owes(j) = Owed(jobs) /\ Owed(js) \in Nat
  BY <1>1, <1>2, DroppedFormed
<1>4. x # 0 => Known(x)'
  <2>1. x # 0 => x \in SessionIds
    BY PaidTypes DEF SessionIds
  <2> QED BY <2>1 DEF Onward
<1>5. Effects(x, b, trace, js)
  BY <1>1
<1>6. ASSUME NEW s \in SessionIds PROVE store'[s].count + Owed(js) <= 2 * agentActs' + 1
  <2>1. store[s].count \in Nat /\ store[s].count + Owed(jobs) <= 2 * agentActs + 1 /\ Owed(jobs) \in Nat /\ agentActs \in Nat
    BY PaidTypes
  <2>2. store'[s].count \in Nat /\ store'[s].count <= store[s].count + Owes(j)
    BY DEF StoreType
  <2>3. agentActs' = agentActs /\ Owes(j) \in Nat
    BY DEF Answering, Owes
  <2> QED BY <1>3, <2>1, <2>2, <2>3
<1> QED BY <1>2, <1>3, <1>4, <1>5, <1>6, EffectsPaid

\* The same, where the store is left alone.
LEMMA OverQuietly ==
  ASSUME Paid, Answering, UNCHANGED store, NEW j \in jobs,
         aborts' \in 0..MaxAgentActs, listed' \in {listed, j.ids},
         NEW x \in 0..MaxSessions, x # 0 => Known(x), NEW b \in BOOLEAN, Effects(x, b, trace, jobs \ {j})
  PROVE  Paid'
<1>1. Onward /\ store' \in StoreType
  BY OnwardAnswering
<1>2. listed' \in SUBSET SessionIds /\ \A s \in listed' : Known(s)'
  <2>1. \A s \in listed' : s \in SessionIds /\ Known(s)
    BY ShownKnown, JobFields
  <2> QED BY <2>1 DEF Known
<1>3. \A s \in SessionIds : store'[s].count <= store[s].count + Owes(j)
  <2>1. \A s \in SessionIds : store[s].count \in Nat
    BY PaidTypes
  <2>2. Owes(j) \in Nat
    BY DEF Owes
  <2> QED BY <2>1, <2>2
<1> QED BY <1>1, <1>2, <1>3, OverPaid

\* The answers.
LEMMA ListAnsweredPaid ==
  ASSUME Paid, NEW j \in jobs, ListAnswered(j)
  PROVE  Paid'
<1>1. PICK s \in IF j.of = "new" THEN {j.sid} ELSE Kept(j.ids) : Effects(s, busy, trace, jobs \ {j})
  BY DEF ListAnswered
<1>2. Answering /\ UNCHANGED <<store, aborts>> /\ listed' = j.ids /\ Answered(j, {"visit", "remove", "refresh", "new"}, "list")
  BY DEF ListAnswered, Answering
<1>3. s \in 0..MaxSessions /\ (s # 0 => Known(s))
  <2>1. s \in {0, j.sid, selected} \/ s \in j.ids
    BY <1>1 DEF Kept
  <2>2. \A x \in j.ids : x \in 0..MaxSessions /\ Known(x)
    BY JobFields, PaidTypes DEF SessionIds
  <2>3. j.sid \in 0..MaxSessions /\ (j.sid # 0 => Known(j.sid))
    BY JobFields DEF Job
  <2> QED BY <2>1, <2>2, <2>3, ShownKnown, PaidTypes
<1>4. aborts' \in 0..MaxAgentActs /\ busy \in BOOLEAN
  BY <1>2, PaidTypes
<1> QED BY <1>1, <1>2, <1>3, <1>4, OverQuietly

LEMMA StepsType ==
  ASSUME Paid, NEW j \in jobs, j.sid # 0
  PROVE  StepsOf(j.sid, j.count) \in TraceType
<1>1. j.sid \in SessionIds /\ j.count \in Counts /\ NoSteps \in TraceType
  BY JobFields, PaidTypes DEF Job
<1> QED BY <1>1 DEF StepsOf, TraceType

LEMMA ShowAnsweredPaid ==
  ASSUME Paid, NEW j \in jobs, ShowAnswered(j)
  PROVE  Paid'
<1>1. j.sid # 0
  BY JobFields DEF ShowAnswered, Answered, Formed, SessionIds
<1>2. trace' \in TraceType
  BY <1>1, StepsType DEF ShowAnswered
<1>3. Answering /\ UNCHANGED <<store, listed, selected, busy, aborts>> /\ jobs' = jobs \ {j}
  BY DEF ShowAnswered, Answering
<1> QED BY <1>2, <1>3, GoesPaid

LEMMA EventArrivesPaid ==
  ASSUME Paid, NEW j \in jobs, EventArrives(j)
  PROVE  Paid'
<1>1. j.sid \in SessionIds
  BY JobFields DEF EventArrives, Answered, Formed
<1>2. trace' \in TraceType
  BY <1>1, AppendedType DEF EventArrives
<1>3. Answering /\ UNCHANGED <<store, listed, selected, busy, aborts, jobs>>
  BY DEF EventArrives, Answering
<1> QED BY <1>2, <1>3, GoesPaid

\* A job that goes on to another request of its session.
GoesTo(j, at, e) == [j EXCEPT !.at = at, !.served = FALSE, !.erred = e]

\* The next request of the same job.
LEMMA NextRequest ==
  ASSUME Paid, NEW j \in jobs, j.served, NEW at, NEW e \in BOOLEAN, Onward, Answering,
         NEW k, k = GoesTo(j, at, e),
         at \in {"list", "stream", "get", "relist"}, j.of \in {"new", "remove", "run"}, at = "list" \/ j.of = "run"
  PROVE  /\ k \in Job /\ k.n = j.n /\ k.of = j.of /\ k.at = at /\ k.sid = j.sid /\ k.ids = j.ids /\ k.ns = j.ns
         /\ ~k.served /\ (k.erred <=> e) /\ k.count = j.count /\ j.sid # 0
         /\ Formed(k)'
<1>1. j \in Job /\ Formed(j) /\ j.sid # 0
  BY JobFields DEF Formed, SessionIds
<1>2. at \in {"list", "get", "create", "delete", "stream", "stopped", "relist"}
  OBVIOUS
<1>3. /\ k \in Job /\ k.n = j.n /\ k.of = j.of /\ k.at = at /\ k.sid = j.sid /\ k.ids = j.ids /\ k.ns = j.ns
      /\ ~k.served /\ (k.erred <=> e) /\ k.count = j.count
  BY <1>1, <1>2 DEF Job, GoesTo
<1>4. Formed(k)'
  BY <1>1, <1>3, GoesOnFormed
<1> QED BY <1>1, <1>3, <1>4

LEMMA GoesToSame ==
  ASSUME NEW j \in Job, NEW at
  PROVE  [j EXCEPT !.at = at, !.served = FALSE] = GoesTo(j, at, j.erred) /\ j.erred \in BOOLEAN
BY DEF Job, GoesTo

LEMMA ChangeAnsweredPaid ==
  ASSUME Paid, NEW j \in jobs, ChangeAnswered(j)
  PROVE  Paid'
<1>1. PICK k : k = [j EXCEPT !.at = "list", !.served = FALSE]
  OBVIOUS
<1>2. /\ Answering /\ UNCHANGED <<store, listed, selected, busy, aborts>> /\ trace' = NoSteps /\ jobs' = Replace(j, k)
      /\ j.served /\ (j.of \in {"new", "run", "remove"}) /\ j.at \in {"create", "delete"}
  BY <1>1 DEF ChangeAnswered, Answering, Answered
<1>3. Onward /\ store' \in StoreType /\ trace' \in TraceType
  BY <1>2, OnwardAnswering, PaidTypes
<1>4. k \in Job /\ k.n = j.n /\ k.of = j.of /\ k.at = "list" /\ Formed(k)'
  <2>1. k = GoesTo(j, "list", j.erred) /\ j.erred \in BOOLEAN
    BY <1>1, JobFields, GoesToSame
  <2> QED BY <1>2, <1>3, <2>1, NextRequest
<1>5. Owes(k) = Owes(j) /\ Owes(j) \in Nat
  BY <1>2, <1>4, JobFields DEF Owes, OwesBoth, OwesReply, Formed
<1>6. \A s \in SessionIds : store'[s].count + Owes(k) <= store[s].count + Owes(j)
  <2>1. \A s \in SessionIds : store[s].count \in Nat
    BY PaidTypes
  <2> QED BY <1>2, <1>5, <2>1
<1> QED BY <1>2, <1>3, <1>4, <1>6, GoesOnPaid

\* The readings of a run.
LEMMA RunReadPaid ==
  ASSUME Paid, NEW j \in jobs, RunRead(j)
  PROVE  Paid'
<1>1. PICK k : k = [j EXCEPT !.at = "relist", !.served = FALSE]
  OBVIOUS
<1>2. /\ Answering /\ UNCHANGED <<store, listed, selected, busy, aborts>> /\ jobs' = Replace(j, k)
      /\ j.served /\ j.of = "run" /\ j.at = "get" /\ trace' = IF j.erred THEN trace ELSE StepsOf(j.sid, j.count)
  BY <1>1 DEF RunRead, Answering, Answered
<1>3. Onward /\ store' \in StoreType
  BY <1>2, OnwardAnswering
<1>4. k \in Job /\ k.n = j.n /\ k.of = j.of /\ k.at = "relist" /\ j.sid # 0 /\ Formed(k)'
  <2>1. k = GoesTo(j, "relist", j.erred) /\ j.erred \in BOOLEAN
    BY <1>1, JobFields, GoesToSame
  <2> QED BY <1>2, <1>3, <2>1, NextRequest
<1>5. trace' \in TraceType
  BY <1>2, <1>4, StepsType, PaidTypes
<1>6. \A s \in SessionIds : store'[s].count + Owes(k) <= store[s].count + Owes(j)
  <2>1. Owes(k) = 0 /\ Owes(j) = 0
    BY <1>2, <1>4 DEF Owes, OwesBoth, OwesReply
  <2>2. \A s \in SessionIds : store[s].count \in Nat
    BY PaidTypes
  <2> QED BY <1>2, <2>1, <2>2
<1> QED BY <1>2, <1>3, <1>4, <1>5, <1>6, GoesOnPaid

\* A message more is stored in a session that there is.
LEMMA MessageStored ==
  ASSUME Paid, NEW x \in SessionIds, store[x].phase # "new", store' = [store EXCEPT ![x].count = @ + 1], agentActs <= agentActs'
  PROVE  /\ store' \in StoreType /\ Onward
         /\ \A s \in SessionIds : /\ store'[s].phase = store[s].phase /\ store'[s].ns = store[s].ns
                                  /\ store'[s].count <= store[s].count + 1
<1>1. store \in StoreType
  BY PaidTypes
<1>2. PICK r : r = [store[x] EXCEPT !.count = store[x].count + 1]
  OBVIOUS
<1>3. store' = [store EXCEPT ![x] = r]
  <2>1. DOMAIN store = SessionIds
    BY <1>1 DEF StoreType
  <2>2. store' = [s \in SessionIds |-> IF s = x THEN r ELSE store[s]]
    BY <1>2, <2>1
  <2> QED BY <2>1, <2>2
<1>4. /\ r.phase = store[x].phase /\ r.ns = store[x].ns /\ r.ns \in Namespaces /\ r.phase \in {"live", "gone"}
      /\ r.count \in Nat /\ r.count = store[x].count + 1
      /\ r = [phase |-> r.phase, ns |-> r.ns, count |-> r.count]
  BY <1>1, <1>2 DEF StoreType
<1>5. /\ store' \in StoreType /\ Onward /\ store'[x] = r /\ \A s \in SessionIds \ {x} : store'[s] = store[s]
  BY <1>3, <1>4, StoredAnew
<1>6. ASSUME NEW s \in SessionIds
      PROVE  /\ store'[s].phase = store[s].phase /\ store'[s].ns = store[s].ns
             /\ store'[s].count <= store[s].count + 1
  <2>1. store[s].count \in Nat
    BY PaidTypes
  <2>2. CASE s = x
    BY <1>4, <1>5, <2>1, <2>2
  <2>3. CASE s # x
    <3>1. store'[s] = store[s]
      BY <1>5, <2>3
    <3> QED BY <2>1, <3>1
  <2> QED BY <2>2, <2>3
<1> QED BY <1>5, <1>6

LEMMA StreamDonePaid ==
  ASSUME Paid, NEW j \in jobs, StreamDone(j)
  PROVE  Paid'
<1>1. PICK e \in IF store[j.sid].phase # "live" THEN {TRUE} ELSE {FALSE, Misses} :
        /\ store' = IF e THEN store ELSE [store EXCEPT ![j.sid].count = @ + 1]
        /\ jobs' = Replace(j, [j EXCEPT !.at = "get", !.served = FALSE, !.erred = e])
  BY DEF StreamDone
<1>2. PICK k : k = GoesTo(j, "get", e)
  OBVIOUS
<1>3. /\ Answering /\ UNCHANGED <<listed, selected, trace, busy, aborts>> /\ jobs' = Replace(j, k)
      /\ j.served /\ j.of = "run" /\ j.at = "stream"
  <2>1. jobs' = Replace(j, k)
    BY <1>1, <1>2 DEF GoesTo
  <2> QED BY <2>1 DEF StreamDone, Answering, Answered
<1>4. j.sid \in SessionIds /\ e \in BOOLEAN
  <2>1. Misses \in BOOLEAN
    BY DEF Misses
  <2>2. e \in BOOLEAN
    BY <1>1, <2>1
  <2> QED BY <1>3, <2>2, JobFields DEF Formed
<1>5. /\ store' \in StoreType /\ Onward /\ \A s \in SessionIds : store'[s].count <= store[s].count + 1
  <2>1. CASE e
    <3>1. store' = store
      BY <1>1, <2>1
    <3>2. \A s \in SessionIds : store[s].count \in Nat
      BY PaidTypes
    <3> QED BY <1>3, <3>1, <3>2, OnwardAnswering
  <2>2. CASE ~e
    <3>1. store' = [store EXCEPT ![j.sid].count = @ + 1] /\ store[j.sid].phase = "live"
      BY <1>1, <2>2
    <3>2. agentActs <= agentActs'
      BY <1>3, PaidTypes DEF Answering
    <3> QED BY <1>4, <3>1, <3>2, MessageStored
  <2> QED BY <1>4, <2>1, <2>2
<1>6. k \in Job /\ k.n = j.n /\ k.of = j.of /\ k.at = "get" /\ Formed(k)'
  BY <1>2, <1>3, <1>4, <1>5, NextRequest
<1>7. Owes(k) = 0 /\ Owes(j) = 1
  BY <1>3, <1>6 DEF Owes, OwesBoth, OwesReply
<1>8. \A s \in SessionIds : store'[s].count + Owes(k) <= store[s].count + Owes(j)
  <2>1. \A s \in SessionIds : store[s].count \in Nat /\ store'[s].count \in Nat
    BY <1>5, PaidTypes DEF StoreType
  <2> QED BY <1>5, <1>7, <2>1
<1>9. trace' \in TraceType
  BY <1>3, PaidTypes
<1> QED BY <1>3, <1>5, <1>6, <1>8, <1>9, GoesOnPaid

LEMMA RunStartsPaid ==
  ASSUME Paid, NEW j \in jobs, RunStarts(j)
  PROVE  Paid'
<1>1. PICK k : k = [j EXCEPT !.at = "stream", !.served = FALSE]
  OBVIOUS
<1>2. PICK js : js = Replace(j, k)
  OBVIOUS
<1>3. /\ Answering /\ UNCHANGED store /\ listed' = j.ids /\ aborts' = j.n
      /\ j.served /\ j.of = "run" /\ j.at = "list" /\ Effects(j.sid, busy, Appended(j.sid), js)
  BY <1>1, <1>2 DEF RunStarts, Answering, Answered
<1>4. /\ Onward /\ store' \in StoreType /\ agentActs' \in Nat /\ agentActs' \in 0..MaxAgentActs
      /\ namespace' \in Namespaces /\ agentWorld' = agentWorld
  BY <1>3, OnwardAnswering
<1>5. /\ k \in Job /\ k.n = j.n /\ k.of = j.of /\ k.at = "stream" /\ ~k.served /\ j.sid # 0 /\ Formed(k)'
  <2>1. k = GoesTo(j, "stream", j.erred) /\ j.erred \in BOOLEAN
    BY <1>1, JobFields, GoesToSame
  <2> QED BY <1>3, <1>4, <2>1, NextRequest
<1>6. WellFormed(js)' /\ Owed(js) + Owes(j) <= Owed(jobs) + Owes(k) /\ Owed(js) \in Nat
  BY <1>2, <1>4, <1>5, ReplacedFormed
<1>7. Owes(k) = 2 /\ Owes(j) = 2
  BY <1>3, <1>5 DEF Owes, OwesBoth, OwesReply
<1>8. ASSUME NEW s \in SessionIds PROVE store'[s].count + Owed(js) <= 2 * agentActs' + 1
  <2>1. store[s].count \in Nat /\ store[s].count + Owed(jobs) <= 2 * agentActs + 1 /\ Owed(jobs) \in Nat /\ agentActs \in Nat
    BY PaidTypes
  <2>2. agentActs' = agentActs /\ store'[s].count = store[s].count
    BY <1>3 DEF Answering
  <2> QED BY <1>6, <1>7, <2>1, <2>2
<1>9. /\ aborts' \in 0..MaxAgentActs /\ listed' \in SUBSET SessionIds /\ (\A s \in listed' : Known(s)')
      /\ j.sid \in SessionIds /\ j.sid \in 0..MaxSessions /\ Known(j.sid)'
  <2>1. j.sid \in 0..MaxSessions
    BY JobFields DEF Job
  <2>2. j.sid \in SessionIds /\ Known(j.sid) /\ \A s \in j.ids : s \in SessionIds /\ Known(s)
    BY <1>5, JobFields
  <2>3. Known(j.sid)' /\ \A s \in j.ids : Known(s)'
    BY <1>4, <2>2 DEF Onward
  <2>4. j.n \in 0..MaxAgentActs
    BY JobFields
  <2> QED BY <1>3, <2>1, <2>2, <2>3, <2>4
<1>10. Appended(j.sid) \in TraceType /\ busy \in BOOLEAN
  BY <1>9, AppendedType, PaidTypes
<1>11. PICK x : x = j.sid
  OBVIOUS
<1>12. x \in 0..MaxSessions /\ Known(x)'
  BY <1>9, <1>11
<1>13. PICK t \in TraceType : t = Appended(j.sid)
  BY <1>10
<1>14. Effects(x, busy, t, js)
  BY <1>3, <1>11, <1>13
<1> QED BY <1>4, <1>6, <1>8, <1>9, <1>10, <1>12, <1>14, EffectsPaid

LEMMA RunListedPaid ==
  ASSUME Paid, NEW j \in jobs, RunListed(j)
  PROVE  Paid'
<1>1. /\ Answering /\ UNCHANGED store /\ listed' = j.ids /\ aborts' = 0
      /\ Effects(j.sid, FALSE, trace, jobs \ {j})
  BY DEF RunListed, Answering, Finally
<1>2. j.sid \in 0..MaxSessions /\ (j.sid # 0 => Known(j.sid))
  BY JobFields DEF Job
<1>3. aborts' \in 0..MaxAgentActs
  BY <1>1, PaidTypes
<1> QED BY <1>1, <1>2, <1>3, OverQuietly

LEMMA RunStoppedPaid ==
  ASSUME Paid, NEW j \in jobs, RunStopped(j)
  PROVE  Paid'
<1>1. PICK more \in IF store[j.sid].phase = "live" THEN {0, 1} ELSE {0} :
        store' = [store EXCEPT ![j.sid].count = @ + more]
  BY DEF RunStopped
<1>2. /\ Answering /\ UNCHANGED listed /\ aborts' = 0 /\ j.at = "stopped" /\ j.of = "run"
      /\ Effects(selected, FALSE, trace, jobs \ {j})
  BY JobFields DEF RunStopped, Answering, Finally, Formed
<1>3. j.sid \in SessionIds /\ agentActs <= agentActs'
  BY <1>2, JobFields, PaidTypes DEF Formed, Answering
<1>4. store' \in StoreType /\ Onward /\ \A s \in SessionIds : store'[s].count <= store[s].count + 1
  <2>1. CASE more = 0
    <3>1. PICK x \in SessionIds : x = j.sid
      BY <1>3
    <3>2. store \in StoreType /\ store[x].count \in Nat
      BY PaidTypes
    <3>3. store' = [store EXCEPT ![x].count = store[x].count + 0]
      BY <1>1, <2>1, <3>1
    <3>4. [store[x] EXCEPT !.count = store[x].count + 0] = store[x]
      BY <3>2 DEF StoreType
    <3>5. store' = store
      <4>1. DOMAIN store = SessionIds /\ store = [s \in SessionIds |-> store[s]]
        BY <3>2 DEF StoreType
      <4>2. store' = [s \in SessionIds |-> IF s = x THEN [store[x] EXCEPT !.count = store[x].count + 0] ELSE store[s]]
        BY <3>3, <4>1
      <4>3. store' = [s \in SessionIds |-> store[s]]
        BY <3>4, <4>2
      <4> QED BY <4>1, <4>3
    <3>6. \A s \in SessionIds : store[s].count \in Nat
      BY PaidTypes
    <3> QED BY <1>2, <3>5, <3>6, OnwardAnswering
  <2>2. CASE more = 1
    <3>1. store' = [store EXCEPT ![j.sid].count = @ + 1] /\ store[j.sid].phase = "live"
      BY <1>1, <2>2
    <3> QED BY <1>3, <3>1, MessageStored
  <2> QED BY <1>1, <2>1, <2>2
<1>5. \A s \in SessionIds : store'[s].count <= store[s].count + Owes(j)
  <2>1. Owes(j) = 1
    BY <1>2 DEF Owes, OwesBoth, OwesReply
  <2> QED BY <1>4, <2>1
<1>6. aborts' \in 0..MaxAgentActs /\ listed' \in SUBSET SessionIds /\ \A s \in listed' : Known(s)'
  <2>1. \A s \in listed' : s \in SessionIds /\ Known(s)'
    BY <1>2, <1>4, ShownKnown DEF Onward
  <2> QED BY <1>2, <2>1, PaidTypes
<1>7. selected \in 0..MaxSessions /\ (selected # 0 => Known(selected))
  BY ShownKnown, PaidTypes
<1> QED BY <1>2, <1>4, <1>5, <1>6, <1>7, OverPaid

LEMMA JobFailsPaid ==
  ASSUME Paid, NEW j \in jobs, JobFails(j)
  PROVE  Paid'
<1>1. Answering /\ UNCHANGED <<store, listed>>
  BY DEF JobFails, Answering
<1>2. CASE j.of = "run"
  <2>1. aborts' = 0 /\ Effects(selected, FALSE, trace, jobs \ {j})
    BY <1>2 DEF JobFails, Finally
  <2>2. selected \in 0..MaxSessions /\ (selected # 0 => Known(selected)) /\ aborts' \in 0..MaxAgentActs
    BY <2>1, ShownKnown, PaidTypes
  <2> QED BY <1>1, <2>1, <2>2, OverQuietly
<1>3. CASE j.of # "run"
  <2>1. UNCHANGED <<selected, trace, busy, aborts>> /\ jobs' = jobs \ {j}
    BY <1>3 DEF JobFails
  <2>2. trace' \in TraceType
    BY <2>1, PaidTypes
  <2> QED BY <1>1, <2>1, <2>2, GoesPaid
<1> QED BY <1>2, <1>3

-----------------------------------------------------------------------------
\* The start, and every step.
LEMMA InitPaid == AgentInit => Paid
<1> SUFFICES ASSUME AgentInit PROVE Paid  OBVIOUS
<1>1. MaxAgentActs \in Nat /\ MaxSessions \in Nat /\ AgentWorlds \subseteq SUBSET AgentCircumstances
  BY AgentPageAssumption
<1>2. PICK k : k = NewJob(0, "visit", "list", 0)
  OBVIOUS
<1>3. /\ agentWorld \in AgentWorlds /\ namespace \in Namespaces /\ listed = {} /\ selected = 0 /\ trace = NoSteps
      /\ busy = FALSE /\ aborts = 0 /\ jobs = {k} /\ agentActs = 0
  BY <1>2 DEF AgentInit
<1>4. k \in Job /\ k.n = 0 /\ k.of = "visit" /\ k.at = "list" /\ k.sid = 0 /\ k.ids = {}
  BY <1>1, <1>2, <1>3 DEF NewJob, Job, Counts
<1>5. WellFormed(jobs)
  <2>1. IsFiniteSet(jobs) /\ Distinct(jobs)
    BY <1>3, FS_Singleton DEF Distinct
  <2>2. Formed(k)
    BY <1>3, <1>4 DEF Formed
  <2> QED BY <1>3, <1>4, <2>1, <2>2 DEF WellFormed
<1>6. ASSUME NEW s \in SessionIds
      PROVE  store[s] \in [phase : {"new", "live", "gone"}, ns : Namespaces, count : {0, 1}]
  <2>1. CASE s \in DOMAIN StoredSessions
    <3>1. StoredSessions[s] \in Namespaces
      BY <2>1, AgentPageAssumption
    <3>2. store[s] = [phase |-> "live", ns |-> StoredSessions[s], count |-> 1]
      BY <2>1 DEF AgentInit
    <3> QED BY <3>1, <3>2
  <2>2. CASE s \notin DOMAIN StoredSessions
    <3>1. store[s] = [phase |-> "new", ns |-> namespace, count |-> 0]
      BY <2>2 DEF AgentInit
    <3> QED BY <1>3, <3>1
  <2> QED BY <2>1, <2>2
<1>7. store \in [SessionIds -> [phase : {"new", "live", "gone"}, ns : Namespaces, count : Counts]]
  <2>1. {0, 1} \subseteq Counts
    BY <1>1 DEF Counts
  <2>2. \E f : store = [s \in SessionIds |-> f[s]]
    <3>1. store = [s \in SessionIds |-> store[s]]
      BY DEF AgentInit
    <3> QED BY <3>1
  <2>3. \A s \in SessionIds : store[s] \in [phase : {"new", "live", "gone"}, ns : Namespaces, count : Counts]
    BY <1>6, <2>1
  <2> QED BY <2>2, <2>3
<1>8. Owed(jobs) = 0
  <2>1. ~OwesBoth(k) /\ ~OwesReply(k)
    BY <1>4 DEF OwesBoth, OwesReply
  <2>2. {j \in jobs : OwesBoth(j)} = {} /\ {j \in jobs : OwesReply(j)} = {}
    BY <1>3, <2>1
  <2>3. Cardinality({}) = 0
    BY FS_EmptySet
  <2> QED BY <2>2, <2>3 DEF Owed
<1>9. CountsOwed
  BY <1>3, <1>6, <1>8 DEF CountsOwed
<1>10. AgentTypeOK
  <2>1. NoSteps \in [of : SUBSET SessionIds, count : Counts, more : BOOLEAN]
    BY <1>1 DEF NoSteps, Counts
  <2>2. jobs \subseteq Job
    BY <1>3, <1>4
  <2>3. listed \subseteq SessionIds /\ selected \in 0..MaxSessions /\ aborts \in 0..MaxAgentActs /\ agentActs \in 0..MaxAgentActs
    BY <1>1, <1>3
  <2> QED BY <1>3, <1>7, <2>1, <2>2, <2>3 DEF AgentTypeOK
<1>11. ShowsKnown
  BY <1>3 DEF ShowsKnown
<1> QED BY <1>5, <1>9, <1>10, <1>11 DEF Paid

\* What a step can be.
LEMMA AgentSteps ==
  ASSUME [AgentNext]_agentVars
  PROVE  \/ UNCHANGED agentVars
         \/ \E ns \in Namespaces : SwitchNamespace(ns)
         \/ \E s \in listed : PickSession(s) \/ RemoveSession(s)
         \/ NewSession \/ RefreshSessions \/ ClearTrace \/ Run \/ StopRun
         \/ \E j \in jobs : \/ Handle(j) \/ ListAnswered(j) \/ ShowAnswered(j) \/ ChangeAnswered(j) \/ RunStarts(j)
                            \/ EventArrives(j) \/ StreamDone(j) \/ RunRead(j) \/ RunListed(j) \/ RunStopped(j) \/ JobFails(j)
BY DEF AgentNext, AnswerJob

LEMMA NextPaid == Paid /\ [AgentNext]_agentVars => Paid'
<1> SUFFICES ASSUME Paid, [AgentNext]_agentVars PROVE Paid'  OBVIOUS
<1>1. ASSUME UNCHANGED agentVars PROVE Paid'
  BY <1>1 DEF agentVars, Paid, AgentTypeOK, WellFormed, Formed, CountsOwed, ShowsKnown, Known
<1>2. ASSUME NEW s \in listed, PickSession(s) \/ RemoveSession(s) PROVE Paid'
  BY <1>2, PickSessionPaid, RemoveSessionPaid
<1>3. ASSUME NEW j \in jobs,
             \/ Handle(j) \/ ListAnswered(j) \/ ShowAnswered(j) \/ ChangeAnswered(j) \/ RunStarts(j)
             \/ EventArrives(j) \/ StreamDone(j) \/ RunRead(j) \/ RunListed(j) \/ RunStopped(j) \/ JobFails(j)
      PROVE  Paid'
  BY <1>3, HandlePaid, ListAnsweredPaid, ShowAnsweredPaid, ChangeAnsweredPaid, RunStartsPaid,
     EventArrivesPaid, StreamDonePaid, RunReadPaid, RunListedPaid, RunStoppedPaid, JobFailsPaid
<1> QED
  BY <1>1, <1>2, <1>3, AgentSteps, SwitchNamespacePaid, NewSessionPaid, RefreshSessionsPaid, ClearTracePaid, RunPaid, StopRunPaid

-----------------------------------------------------------------------------
\* A session is read for the trace only while it is selected and the page is
\* not busy; a busy page has a run.
ReadsOnly(js) ==
    /\ \A j \in js : j.of = "show" => j.sid = selected /\ ~busy
    /\ \A j, k \in js : j.of = "show" /\ k.of = "show" => j = k

ReadsSelected == ReadsOnly(jobs) /\ (busy => \E j \in jobs : j.of = "run")

\* The reading that Effects begins.
LEMMA ShowFields ==
  ASSUME NEW x, NEW show, show = NewJob(0, "show", "get", x)
  PROVE  show.of = "show" /\ show.at = "get" /\ show.sid = x /\ ~show.served /\ show.n = 0
BY DEF NewJob

\* After the effect of the selection the only reading is of it.
LEMMA EffectsReads ==
  ASSUME NEW x, NEW b \in BOOLEAN, NEW t, NEW js, IsFiniteSet(js), Effects(x, b, t, js),
         ReadsOnly(js), b => \E j \in js : j.of = "run"
  PROVE  ReadsSelected'
<1>1. selected' = x /\ busy' = b /\ \A k \in js : k.of # "show" => k \in jobs'
  BY EffectsJobs
<1>2. busy' => \E j \in jobs' : j.of = "run"
  BY <1>1
<1>3. ReadsOnly(jobs)'
  <2>1. CASE x = selected /\ b = busy /\ jobs' = js
    BY <1>1, <2>1 DEF ReadsOnly
  <2>2. CASE /\ \A k \in jobs' : k.of = "show" => k = NewJob(0, "show", "get", x)
             /\ b => \A k \in jobs' : k.of # "show"
    <3>1. \A k \in jobs' : k.of = "show" => k.sid = x /\ ~b
      BY <2>2, ShowFields
    <3>2. \A j, k \in jobs' : j.of = "show" /\ k.of = "show" => j = k
      BY <2>2
    <3> QED BY <1>1, <3>1, <3>2 DEF ReadsOnly
  <2> QED BY <2>1, <2>2, EffectsShows
<1> QED BY <1>2, <1>3 DEF ReadsSelected

\* Jobs that go, that are of another kind, or that go on, leave it so.
LEMMA FewerReads ==
  ASSUME NEW js, ReadsOnly(js), NEW ks \in SUBSET js
  PROVE  ReadsOnly(ks)
BY DEF ReadsOnly

LEMMA OtherReads ==
  ASSUME NEW js, ReadsOnly(js), NEW k, k.of # "show"
  PROVE  ReadsOnly(js \cup {k})
BY DEF ReadsOnly

LEMMA GoesOnReads ==
  ASSUME ReadsOnly(jobs), NEW j \in jobs, NEW k, k.of = j.of, k.of = "show" => k.sid = j.sid
  PROVE  /\ ReadsOnly(Replace(j, k))
         /\ (\E i \in jobs : i.of = "run") => \E i \in Replace(j, k) : i.of = "run"
BY DEF ReadsOnly, Replace

\* Nothing but jobs changes.
LEMMA QuietReads ==
  ASSUME UNCHANGED <<selected, busy>>, NEW js, jobs' = js, ReadsOnly(js), busy => \E j \in js : j.of = "run"
  PROVE  ReadsSelected'
BY DEF ReadsOnly, ReadsSelected

\* The acts of the user, and the answers.
LEMMA ActsRead ==
  ASSUME Paid, ReadsSelected
  PROVE  /\ (\E ns \in Namespaces : SwitchNamespace(ns)) => ReadsSelected'
         /\ (\E s \in listed : PickSession(s) \/ RemoveSession(s)) => ReadsSelected'
         /\ NewSession \/ RefreshSessions \/ ClearTrace \/ Run \/ StopRun => ReadsSelected'
<1>1. ReadsOnly(jobs) /\ (busy => \E j \in jobs : j.of = "run") /\ IsFiniteSet(jobs) /\ busy \in BOOLEAN
  BY PaidTypes DEF ReadsSelected, Paid, WellFormed
<1>2. ASSUME NEW ns \in Namespaces, SwitchNamespace(ns) PROVE ReadsSelected'
  <2>1. PICK k : k = [NewJob(0, "visit", "list", 0) EXCEPT !.ns = ns]
    OBVIOUS
  <2>2. PICK ks : ks = {j \in jobs : j.of # "visit"}
    OBVIOUS
  <2>3. k.of = "visit"
    BY <2>1 DEF NewJob
  <2>4. ReadsOnly(ks \cup {k})
    BY <1>1, <2>2, <2>3, FewerReads, OtherReads
  <2>5. busy => \E j \in ks \cup {k} : j.of = "run"
    BY <1>1, <2>2
  <2>6. jobs' = ks \cup {k} /\ UNCHANGED <<selected, busy>>
    BY <1>2, <2>1, <2>2 DEF SwitchNamespace
  <2> QED BY <2>4, <2>5, <2>6, QuietReads
<1>3. ASSUME NEW s \in listed, PickSession(s) PROVE ReadsSelected'
  <2>1. Effects(s, busy, trace, jobs)
    BY <1>3 DEF PickSession
  <2> QED BY <1>1, <2>1, EffectsReads
<1>4. ASSUME NEW s \in listed, RemoveSession(s) PROVE ReadsSelected'
  <2>1. PICK k : k = NewJob(agentActs', "remove", "delete", s)
    OBVIOUS
  <2>2. PICK js : js = jobs \cup (IF busy THEN {} ELSE {k})
    OBVIOUS
  <2>3. Effects(s, busy, trace, js)
    BY <1>4, <2>1, <2>2 DEF RemoveSession
  <2>4. k.of = "remove"
    BY <2>1 DEF NewJob
  <2>5. js = jobs \/ js = jobs \cup {k}
    BY <2>2
  <2>6. ReadsOnly(js) /\ IsFiniteSet(js) /\ (busy => \E j \in js : j.of = "run")
    BY <1>1, <2>4, <2>5, OtherReads, FS_AddElement
  <2> QED BY <1>1, <2>3, <2>6, EffectsReads
<1>5. ASSUME NEW k, k.of \in {"new", "refresh"}, jobs' = jobs \cup {k}, UNCHANGED <<selected, busy>> PROVE ReadsSelected'
  <2>1. ReadsOnly(jobs \cup {k}) /\ (busy => \E j \in jobs \cup {k} : j.of = "run")
    BY <1>1, <1>5, OtherReads
  <2> QED BY <1>5, <2>1, QuietReads
<1>6. ASSUME NewSession PROVE ReadsSelected'
  <2>1. PICK k : k = NewJob(agentActs', "new", "create", 0)
    OBVIOUS
  <2>2. k.of = "new"
    BY <2>1 DEF NewJob
  <2> QED BY <1>5, <1>6, <2>1, <2>2 DEF NewSession
<1>7. ASSUME RefreshSessions PROVE ReadsSelected'
  <2>1. PICK k : k = NewJob(agentActs', "refresh", "list", 0)
    OBVIOUS
  <2>2. k.of = "refresh"
    BY <2>1 DEF NewJob
  <2> QED BY <1>5, <1>7, <2>1, <2>2 DEF RefreshSessions
<1>8. ASSUME ClearTrace PROVE ReadsSelected'
  <2>1. UNCHANGED <<selected, busy, jobs>>
    BY <1>8 DEF ClearTrace
  <2> QED BY <2>1 DEF ReadsSelected, ReadsOnly
<1>9. ASSUME Run PROVE ReadsSelected'
  <2>1. PICK k : k = NewJob(agentActs', "run", IF selected = 0 THEN "create" ELSE "stream", selected)
    OBVIOUS
  <2>2. k.of = "run"
    BY <2>1 DEF NewJob
  <2>3. PICK js : js = jobs \cup {k}
    OBVIOUS
  <2>4. PICK t : t = IF selected = 0 THEN trace ELSE Appended(selected)
    OBVIOUS
  <2>5. Effects(selected, TRUE, t, js)
    BY <1>9, <2>1, <2>3, <2>4 DEF Run
  <2>6. ReadsOnly(js) /\ IsFiniteSet(js) /\ \E j \in js : j.of = "run"
    BY <1>1, <2>2, <2>3, OtherReads, FS_AddElement
  <2> QED BY <2>5, <2>6, EffectsReads
<1>10. ASSUME StopRun PROVE ReadsSelected'
  <2>1. PICK js : js = {IF j.at = "stream" /\ j.n = aborts THEN [j EXCEPT !.at = "stopped"] ELSE j : j \in jobs}
    OBVIOUS
  <2>2. Act /\ UNCHANGED <<namespace, store>> /\ Effects(selected, FALSE, trace, js)
    BY <1>10, <2>1 DEF StopRun
  <2>3. IsFiniteSet(js)
    BY <2>1, <2>2, StopFormed DEF WellFormed
  <2>4. \A k \in js : k.of = "show" => k \in jobs
    <3>1. ASSUME NEW j \in jobs, j.at = "stream", NEW k, k = [j EXCEPT !.at = "stopped"] PROVE k.of # "show"
      <4>1. j \in Job /\ j.of = "run"
        BY <3>1, JobFields DEF Formed
      <4> QED BY <3>1, <4>1 DEF Job
    <3> QED BY <2>1, <3>1
  <2>5. ReadsOnly(js)
    BY <1>1, <2>4 DEF ReadsOnly
  <2> QED BY <2>2, <2>3, <2>5, EffectsReads
<1> QED BY <1>2, <1>3, <1>4, <1>6, <1>7, <1>8, <1>9, <1>10

\* What becomes of a job whose request is handled.
LEMMA HandledFields ==
  ASSUME Paid, NEW j \in jobs, Handle(j)
  PROVE  \E k : /\ jobs' = Replace(j, k)
                /\ k.n = j.n /\ k.of = j.of /\ k.at = j.at /\ k.served /\ k.ns = j.ns /\ (k.erred <=> j.erred)
                /\ j.at # "create" => k.sid = j.sid
                /\ j.at = "create" => k.sid \in Fresh /\ HandleCreate(j) /\ k.ids = j.ids /\ k.count = j.count
                                      /\ store' = [store EXCEPT ![k.sid] = [phase |-> "live", ns |-> j.ns, count |-> 0]]
                /\ IF j.at \in {"list", "relist"} THEN k.ids = SessionsOf(j.ns) ELSE k.ids = j.ids
                /\ IF j.at = "get" THEN k.count = store[j.sid].count ELSE k.count = j.count
<1>1. j \in Job /\ ~j.served
  BY JobFields, HandleCases
<1>2. CASE HandleList(j)
  <2>1. PICK ids : ids = SessionsOf(j.ns)
    OBVIOUS
  <2>2. PICK k : k = [j EXCEPT !.served = TRUE, !.ids = ids]
    OBVIOUS
  <2>3. jobs' = Replace(j, k) /\ j.at \in {"list", "relist"}
    BY <1>2, <2>1, <2>2 DEF HandleList
  <2>4. /\ k.n = j.n /\ k.of = j.of /\ k.at = j.at /\ k.served /\ k.ns = j.ns /\ (k.erred <=> j.erred) /\ k.sid = j.sid
        /\ k.ids = ids /\ k.count = j.count
    BY <1>1, <2>2 DEF Job
  <2> QED BY <2>1, <2>3, <2>4
<1>3. CASE HandleGet(j)
  <2>1. PICK c : c = store[j.sid].count
    OBVIOUS
  <2>2. PICK k : k = [j EXCEPT !.served = TRUE, !.count = c]
    OBVIOUS
  <2>3. jobs' = Replace(j, k) /\ j.at = "get"
    BY <1>3, <2>1, <2>2 DEF HandleGet
  <2>4. /\ k.n = j.n /\ k.of = j.of /\ k.at = j.at /\ k.served /\ k.ns = j.ns /\ (k.erred <=> j.erred) /\ k.sid = j.sid
        /\ k.ids = j.ids /\ k.count = c
    BY <1>1, <2>2 DEF Job
  <2> QED BY <2>1, <2>3, <2>4
<1>4. CASE HandleCreate(j)
  <2>1. PICK x \in Fresh :
            /\ store' = [store EXCEPT ![x] = [phase |-> "live", ns |-> j.ns, count |-> 0]]
            /\ jobs' = Replace(j, [j EXCEPT !.served = TRUE, !.sid = x])
    BY <1>4 DEF HandleCreate
  <2>2. PICK k : k = [j EXCEPT !.served = TRUE, !.sid = x]
    OBVIOUS
  <2>3. jobs' = Replace(j, k) /\ j.at = "create"
    BY <1>4, <2>1, <2>2 DEF HandleCreate
  <2>4. /\ k.n = j.n /\ k.of = j.of /\ k.at = j.at /\ k.served /\ k.ns = j.ns /\ (k.erred <=> j.erred) /\ k.sid = x
        /\ k.ids = j.ids /\ k.count = j.count
    BY <1>1, <2>2 DEF Job
  <2> QED BY <1>4, <2>1, <2>3, <2>4
<1>5. CASE HandleDelete(j) \/ HandleStream(j)
  <2>1. PICK k : k = [j EXCEPT !.served = TRUE]
    OBVIOUS
  <2>2. jobs' = Replace(j, k) /\ j.at \in {"delete", "stream"}
    BY <1>5, <2>1 DEF HandleDelete, HandleStream
  <2>3. /\ k.n = j.n /\ k.of = j.of /\ k.at = j.at /\ k.served /\ k.ns = j.ns /\ (k.erred <=> j.erred) /\ k.sid = j.sid
        /\ k.ids = j.ids /\ k.count = j.count
    BY <1>1, <2>1 DEF Job
  <2> QED BY <2>2, <2>3
<1> QED BY <1>2, <1>3, <1>4, <1>5, HandleCases

\* A run is over.
LEMMA FinallyReads ==
  ASSUME Paid, ReadsSelected, NEW x, NEW j \in jobs, Finally(x, j)
  PROVE  ReadsSelected'
<1>1. PICK js : js = jobs \ {j}
  OBVIOUS
<1>2. Effects(x, FALSE, trace, js)
  BY <1>1 DEF Finally
<1>3. IsFiniteSet(js) /\ ReadsOnly(js)
  BY <1>1, FewerReads, FS_RemoveElement DEF ReadsSelected, Paid, WellFormed
<1> QED BY <1>2, <1>3, EffectsReads

\* What becomes of a job that goes on to another request.
NextAt(j, at) == [j EXCEPT !.at = at, !.served = FALSE]

\* The fields of a job that goes on.
LEMMA NextAtFields ==
  ASSUME Paid, NEW j \in jobs, NEW at, NEW k, k = NextAt(j, at)
  PROVE  /\ k.n = j.n /\ k.of = j.of /\ k.at = at /\ ~k.served /\ k.ns = j.ns /\ k.sid = j.sid /\ k.ids = j.ids
         /\ k.count = j.count /\ (k.erred <=> j.erred)
<1>1. j \in Job
  BY JobFields
<1> QED BY <1>1 DEF Job, NextAt

LEMMA GoesToFields ==
  ASSUME Paid, NEW j \in jobs, NEW at, NEW e \in BOOLEAN, NEW k, k = GoesTo(j, at, e)
  PROVE  /\ k.n = j.n /\ k.of = j.of /\ k.at = at /\ ~k.served /\ k.ns = j.ns /\ k.sid = j.sid /\ k.ids = j.ids
         /\ k.count = j.count /\ (k.erred <=> e)
<1>1. j \in Job
  BY JobFields
<1> QED BY <1>1 DEF Job, GoesTo

LEMMA AnswersRead ==
  ASSUME Paid, ReadsSelected, NEW j \in jobs
  PROVE  \/ Handle(j) \/ ListAnswered(j) \/ ShowAnswered(j) \/ ChangeAnswered(j) \/ RunStarts(j)
         \/ EventArrives(j) \/ StreamDone(j) \/ RunRead(j) \/ RunListed(j) \/ RunStopped(j) \/ JobFails(j)
         => ReadsSelected'
<1>1. ReadsOnly(jobs) /\ (busy => \E i \in jobs : i.of = "run") /\ IsFiniteSet(jobs) /\ busy \in BOOLEAN
  BY PaidTypes DEF ReadsSelected, Paid, WellFormed
<1>2. ASSUME NEW k, k.of = j.of, k.of = "show" => k.sid = j.sid, jobs' = Replace(j, k), UNCHANGED <<selected, busy>>
      PROVE  ReadsSelected'
  BY <1>1, <1>2, GoesOnReads, QuietReads
<1>3. ASSUME j.of # "run", jobs' = jobs \ {j}, UNCHANGED <<selected, busy>> PROVE ReadsSelected'
  <2>1. ReadsOnly(jobs \ {j}) /\ (busy => \E i \in jobs \ {j} : i.of = "run")
    BY <1>1, <1>3, FewerReads
  <2> QED BY <1>3, <2>1, QuietReads
<1>4. ASSUME Handle(j) PROVE ReadsSelected'
  <2>1. PICK k : jobs' = Replace(j, k) /\ k.of = j.of /\ (j.at # "create" => k.sid = j.sid)
    BY <1>4, HandledFields
  <2>2. k.of = "show" => k.sid = j.sid
    BY <2>1, JobFields DEF Formed
  <2> QED BY <1>2, <1>4, <2>1, <2>2 DEF Handle
<1>5. ASSUME ListAnswered(j) PROVE ReadsSelected'
  <2>1. PICK s : Effects(s, busy, trace, jobs \ {j})
    BY <1>5 DEF ListAnswered
  <2>2. j.of # "run"
    BY <1>5 DEF ListAnswered, Answered
  <2>3. PICK js : js = jobs \ {j}
    OBVIOUS
  <2>4. IsFiniteSet(js) /\ ReadsOnly(js) /\ (busy => \E i \in js : i.of = "run")
    BY <1>1, <2>2, <2>3, FewerReads, FS_RemoveElement
  <2>5. Effects(s, busy, trace, js)
    BY <2>1, <2>3
  <2> QED BY <1>1, <2>4, <2>5, EffectsReads
<1>6. ASSUME ShowAnswered(j) PROVE ReadsSelected'
  BY <1>3, <1>6 DEF ShowAnswered, Answered
<1>7. ASSUME ChangeAnswered(j) PROVE ReadsSelected'
  <2>1. PICK k : k = NextAt(j, "list")
    OBVIOUS
  <2>2. k.of = j.of /\ k.sid = j.sid
    BY <2>1, NextAtFields
  <2> QED BY <1>2, <1>7, <2>1, <2>2 DEF ChangeAnswered, NextAt
<1>8. ASSUME RunStarts(j) PROVE ReadsSelected'
  <2>1. PICK k : k = NextAt(j, "stream")
    OBVIOUS
  <2>2. PICK js : js = Replace(j, k)
    OBVIOUS
  <2>3. k.of = j.of /\ k.sid = j.sid
    BY <2>1, NextAtFields
  <2>4. PICK x : x = j.sid
    OBVIOUS
  <2>5. PICK t : t = Appended(j.sid)
    OBVIOUS
  <2>6. Effects(x, busy, t, js)
    BY <1>8, <2>1, <2>2, <2>4, <2>5 DEF RunStarts, NextAt
  <2>7. IsFiniteSet(js)
    BY <1>1, <2>2, FS_RemoveElement, FS_AddElement DEF Replace
  <2>8. ReadsOnly(js) /\ (busy => \E i \in js : i.of = "run")
    BY <1>1, <2>2, <2>3, GoesOnReads
  <2> QED BY <1>1, <2>6, <2>7, <2>8, EffectsReads
<1>9. ASSUME EventArrives(j) PROVE ReadsSelected'
  BY <1>9 DEF EventArrives, ReadsSelected, ReadsOnly
<1>10. ASSUME StreamDone(j) PROVE ReadsSelected'
  <2>1. PICK e : /\ e \in IF store[j.sid].phase # "live" THEN {TRUE} ELSE {FALSE, Misses}
                 /\ jobs' = Replace(j, GoesTo(j, "get", e))
    BY <1>10 DEF StreamDone, GoesTo
  <2>2. PICK k : k = GoesTo(j, "get", e)
    OBVIOUS
  <2>3. e \in BOOLEAN
    <3>1. Misses \in BOOLEAN
      BY DEF Misses
    <3> QED BY <2>1, <3>1
  <2>4. k.of = j.of /\ k.sid = j.sid
    BY <2>2, <2>3, GoesToFields
  <2>5. jobs' = Replace(j, k)
    BY <2>1, <2>2
  <2> QED BY <1>2, <1>10, <2>4, <2>5 DEF StreamDone
<1>11. ASSUME RunRead(j) PROVE ReadsSelected'
  <2>1. PICK k : k = NextAt(j, "relist")
    OBVIOUS
  <2>2. k.of = j.of /\ k.sid = j.sid
    BY <2>1, NextAtFields
  <2> QED BY <1>2, <1>11, <2>1, <2>2 DEF RunRead, NextAt
<1>12. ASSUME RunListed(j) \/ RunStopped(j) PROVE ReadsSelected'
  BY <1>12, FinallyReads DEF RunListed, RunStopped
<1>13. ASSUME JobFails(j) PROVE ReadsSelected'
  BY <1>3, <1>13, FinallyReads DEF JobFails
<1> QED BY <1>4, <1>5, <1>6, <1>7, <1>8, <1>9, <1>10, <1>11, <1>12, <1>13

LEMMA NextReads == Paid /\ ReadsSelected /\ [AgentNext]_agentVars => ReadsSelected'
<1> SUFFICES ASSUME Paid, ReadsSelected, [AgentNext]_agentVars PROVE ReadsSelected'  OBVIOUS
<1>1. UNCHANGED agentVars => ReadsSelected'
  BY DEF agentVars, ReadsSelected, ReadsOnly
<1> QED BY <1>1, ActsRead, AnswersRead, AgentSteps

-----------------------------------------------------------------------------
\* What is in the trace and not of the selected session, will be replaced.
Gone(s) == store[s].phase = "gone"

RunOf(s) == \E j \in jobs : j.of = "run" /\ j.at # "stopped" /\ j.sid = s

TraceOwed ==
    \/ busy \/ (\E j \in jobs : j.of = "show")
    \/ selected # 0 /\ Gone(selected)
    \/ \A s \in trace.of : s = selected \/ Gone(s) \/ RunOf(s)

\* What is deleted stays deleted.
StaysGone == \A s \in SessionIds : Gone(s) => Gone(s)'

\* A session that is gone stays gone.
LEMMA StoreGoesOn ==
  ASSUME UNCHANGED store
  PROVE  StaysGone
BY DEF StaysGone, Gone

LEMMA GoneStays ==
  ASSUME Paid, [AgentNext]_agentVars
  PROVE  StaysGone
<1>1. store \in StoreType
  BY PaidTypes
<1>2. ASSUME NEW j \in jobs, Handle(j) PROVE StaysGone
  <2>1. CASE HandleList(j) \/ HandleGet(j)
    BY <2>1, StoreGoesOn DEF HandleList, HandleGet
  <2>2. CASE HandleCreate(j)
    <3>1. PICK x \in Fresh : store' = [store EXCEPT ![x] = [phase |-> "live", ns |-> j.ns, count |-> 0]]
      BY <2>2 DEF HandleCreate
    <3>2. x \in SessionIds /\ ~Gone(x) /\ \A s \in SessionIds \ {x} : store'[s] = store[s]
      BY <1>1, <3>1 DEF Fresh, Gone, StoreType
    <3> QED BY <3>2 DEF StaysGone, Gone
  <2>3. CASE HandleDelete(j) \/ HandleStream(j)
    <3>1. PICK x : x = j.sid
      OBVIOUS
    <3>2. ~Gone(x)
      BY <2>3, <3>1 DEF HandleDelete, HandleStream, Gone
    <3>3. \A s \in SessionIds \ {x} : store'[s] = store[s]
      BY <1>1, <2>3, <3>1 DEF HandleDelete, HandleStream, StoreType
    <3> QED BY <3>2, <3>3 DEF StaysGone, Gone
  <2> QED BY <1>2, <2>1, <2>2, <2>3, HandleCases
<1>3. ASSUME NEW x \in SessionIds, store[x].phase # "new", store' = [store EXCEPT ![x].count = @ + 1] PROVE StaysGone
  <2>1. \A s \in SessionIds : store'[s].phase = store[s].phase
    BY <1>1, <1>3 DEF StoreType
  <2> QED BY <2>1 DEF StaysGone, Gone
<1>4. ASSUME NEW j \in jobs, StreamDone(j) PROVE StaysGone
  <2>1. j.sid \in SessionIds
    BY <1>4, JobFields DEF StreamDone, Answered, Formed
  <2>2. store' = store \/ (store[j.sid].phase # "new" /\ store' = [store EXCEPT ![j.sid].count = @ + 1])
    BY <1>4 DEF StreamDone
  <2> QED BY <1>3, <2>1, <2>2, StoreGoesOn
<1>5. ASSUME NEW j \in jobs, RunStopped(j) PROVE StaysGone
  <2>1. PICK x : x = j.sid
    OBVIOUS
  <2>2. PICK more : store' = [store EXCEPT ![x].count = @ + more]
    BY <1>5, <2>1 DEF RunStopped
  <2>3. \A s \in SessionIds : store'[s].phase = store[s].phase
    BY <1>1, <2>2 DEF StoreType
  <2> QED BY <2>3 DEF StaysGone, Gone
<1>6. ASSUME UNCHANGED store PROVE StaysGone
  BY <1>6, StoreGoesOn
<1>7. ASSUME NEW j \in jobs,
             \/ ListAnswered(j) \/ ShowAnswered(j) \/ ChangeAnswered(j) \/ RunStarts(j)
             \/ EventArrives(j) \/ RunRead(j) \/ RunListed(j) \/ JobFails(j)
      PROVE  UNCHANGED store
  BY <1>7 DEF ListAnswered, ShowAnswered, ChangeAnswered, RunStarts, EventArrives, RunRead, RunListed, JobFails
<1>8. ASSUME \/ UNCHANGED agentVars
             \/ \E ns \in Namespaces : SwitchNamespace(ns)
             \/ \E s \in listed : PickSession(s) \/ RemoveSession(s)
             \/ NewSession \/ RefreshSessions \/ ClearTrace \/ Run \/ StopRun
      PROVE  UNCHANGED store
  BY <1>8 DEF agentVars, SwitchNamespace, PickSession, RemoveSession, NewSession, RefreshSessions, ClearTrace, Run, StopRun
<1> QED BY <1>2, <1>4, <1>5, <1>6, <1>7, <1>8, AgentSteps

\* The page is read anew, or only the trace is, and the jobs are.
LEMMA EffectsOwed ==
  ASSUME NEW x, NEW b \in BOOLEAN, NEW t, NEW js, Effects(x, b, t, js),
         x = selected /\ b = busy /\ selected' = selected /\ busy' = busy /\ jobs' = js /\ trace' = t => TraceOwed'
  PROVE  TraceOwed'
<1>1. selected' = x /\ busy' = b
  BY DEF Effects
<1>2. CASE x = selected /\ b = busy /\ jobs' = js /\ trace' = t
  BY <1>1, <1>2
<1>3. CASE ~b /\ x # 0 /\ NewJob(0, "show", "get", x) \in jobs'
  BY <1>3, ShowFields DEF TraceOwed
<1>4. CASE b
  BY <1>1, <1>4 DEF TraceOwed
<1>5. CASE trace' = NoSteps
  BY <1>5 DEF TraceOwed, NoSteps
<1> QED BY <1>2, <1>3, <1>4, <1>5, EffectsShows

\* A step that leaves the selection alone and keeps the readings and the
\* runs there are.
LEMMA QuietOwed ==
  ASSUME Paid, TraceOwed, StaysGone, UNCHANGED <<selected, busy>>,
         (\E j \in jobs : j.of = "show") => (\E j \in jobs' : j.of = "show") \/ (selected # 0 /\ Gone(selected)'),
         \A s \in trace'.of : s \in trace.of \/ s = selected \/ Gone(s)' \/ RunOf(s)',
         \A i \in jobs : i.of = "run" /\ i.at # "stopped" /\ i.sid # 0 =>
            i.sid = selected \/ Gone(i.sid)' \/ \E k \in jobs' : k.of = "run" /\ k.at # "stopped" /\ k.sid = i.sid
  PROVE  TraceOwed'
<1>1. ASSUME busy PROVE TraceOwed'
  BY <1>1 DEF TraceOwed
<1>2. ASSUME \E j \in jobs : j.of = "show" PROVE TraceOwed'
  BY <1>2 DEF TraceOwed
<1>3. ASSUME selected # 0, Gone(selected) PROVE TraceOwed'
  <2>1. selected \in SessionIds
    BY <1>3, ShownKnown
  <2>2. PICK x : x = selected
    OBVIOUS
  <2>3. Gone(x)' /\ selected' = x /\ x # 0
    BY <1>3, <2>1, <2>2 DEF StaysGone
  <2>4. Gone(selected)'
    BY <2>3 DEF Gone
  <2> QED BY <2>3, <2>4 DEF TraceOwed
<1>4. ASSUME \A s \in trace.of : s = selected \/ Gone(s) \/ RunOf(s) PROVE TraceOwed'
  <2>1. \A s \in trace.of : s \in SessionIds /\ s # 0
    BY PaidTypes DEF TraceType, SessionIds
  <2>2. ASSUME NEW s \in trace'.of PROVE s = selected' \/ Gone(s)' \/ RunOf(s)'
    <3>1. CASE s = selected \/ Gone(s)' \/ RunOf(s)'
      BY <3>1
    <3>2. CASE s \in trace.of /\ Gone(s)
      BY <2>1, <3>2 DEF StaysGone
    <3>3. CASE s \in trace.of /\ RunOf(s)
      BY <2>1, <3>3 DEF RunOf
    <3> QED BY <1>4, <3>1, <3>2, <3>3
  <2> QED BY <2>2 DEF TraceOwed
<1> QED BY <1>1, <1>2, <1>3, <1>4 DEF TraceOwed

\* In particular, where jobs are only added to.
LEMMA MoreOwed ==
  ASSUME Paid, TraceOwed, StaysGone, UNCHANGED <<selected, busy, trace>>,
         \A j \in jobs : j.of \in {"show", "run"} => j \in jobs'
  PROVE  TraceOwed'
BY QuietOwed

\* The acts of the user.
LEMMA ActsOwed ==
  ASSUME Paid, ReadsSelected, TraceOwed, StaysGone
  PROVE  /\ (\E ns \in Namespaces : SwitchNamespace(ns)) => TraceOwed'
         /\ (\E s \in listed : PickSession(s) \/ RemoveSession(s)) => TraceOwed'
         /\ NewSession \/ RefreshSessions \/ ClearTrace \/ Run \/ StopRun => TraceOwed'
<1>1. busy \in BOOLEAN
  BY PaidTypes
<1>2. ASSUME NEW ns \in Namespaces, SwitchNamespace(ns) PROVE TraceOwed'
  BY <1>2, MoreOwed DEF SwitchNamespace
<1>3. ASSUME NEW s \in listed, PickSession(s) PROVE TraceOwed'
  <2>1. Effects(s, busy, trace, jobs)
    BY <1>3 DEF PickSession
  <2>2. jobs' = jobs /\ trace' = trace /\ selected' = selected /\ busy' = busy => TraceOwed'
    BY MoreOwed
  <2> QED BY <1>1, <2>1, <2>2, EffectsOwed
<1>4. ASSUME NEW s \in listed, RemoveSession(s) PROVE TraceOwed'
  <2>1. PICK js : js = jobs \cup (IF busy THEN {} ELSE {NewJob(agentActs', "remove", "delete", s)})
    OBVIOUS
  <2>2. Effects(s, busy, trace, js)
    BY <1>4, <2>1 DEF RemoveSession
  <2>3. \A j \in jobs : j \in js
    BY <2>1
  <2>4. jobs' = js /\ trace' = trace /\ selected' = selected /\ busy' = busy => TraceOwed'
    BY <2>3, MoreOwed
  <2> QED BY <1>1, <2>2, <2>4, EffectsOwed
<1>5. ASSUME NewSession \/ RefreshSessions PROVE TraceOwed'
  BY <1>5, MoreOwed DEF NewSession, RefreshSessions
<1>6. ASSUME ClearTrace PROVE TraceOwed'
  <2>1. trace' = [of |-> {}, count |-> 0, more |-> TRUE]
    BY <1>6 DEF ClearTrace, NoSteps
  <2> QED BY <2>1 DEF TraceOwed
<1>7. ASSUME Run PROVE TraceOwed'
  BY <1>7 DEF Run, Effects, TraceOwed
<1>8. ASSUME StopRun PROVE TraceOwed'
  <2>1. PICK js : js = {IF j.at = "stream" /\ j.n = aborts THEN [j EXCEPT !.at = "stopped"] ELSE j : j \in jobs}
    OBVIOUS
  <2>2. Effects(selected, FALSE, trace, js) /\ busy
    BY <1>8, <2>1 DEF StopRun
  <2> QED BY <2>2, EffectsOwed
<1> QED BY <1>2, <1>3, <1>4, <1>5, <1>6, <1>7, <1>8

\* The job j is over, and the page is as it was.
LEMMA OverOwed ==
  ASSUME Paid, TraceOwed, StaysGone, NEW j \in jobs, jobs' = jobs \ {j}, UNCHANGED <<selected, busy, trace>>,
         j.of = "show" => selected # 0 /\ Gone(selected)',
         j.of = "run" /\ j.at # "stopped" /\ j.sid # 0 => j.sid = selected \/ Gone(j.sid)'
  PROVE  TraceOwed'
<1>1. (\E i \in jobs : i.of = "show") => (\E i \in jobs' : i.of = "show") \/ (selected # 0 /\ Gone(selected)')
  OBVIOUS
<1>2. ASSUME NEW i \in jobs, i.of = "run", i.at # "stopped", i.sid # 0
      PROVE  i.sid = selected \/ Gone(i.sid)' \/ \E k \in jobs' : k.of = "run" /\ k.at # "stopped" /\ k.sid = i.sid
  BY <1>2
<1> QED BY <1>1, <1>2, QuietOwed

\* The job j goes on.
LEMMA GoesOnOwed ==
  ASSUME Paid, TraceOwed, StaysGone, NEW j \in jobs, NEW k, jobs' = Replace(j, k), UNCHANGED <<selected, busy>>,
         k.of = j.of, j.of = "run" /\ j.sid # 0 => k.sid = j.sid, k.at # "stopped" \/ k.at = j.at,
         \A s \in trace'.of : s \in trace.of \/ (j.of = "run" /\ k.at # "stopped" /\ s = k.sid)
  PROVE  TraceOwed'
<1>1. k \in jobs' /\ \A i \in jobs : i = j \/ i \in jobs'
  BY DEF Replace
<1>2. (\E i \in jobs : i.of = "show") => (\E i \in jobs' : i.of = "show")
  BY <1>1
<1>3. ASSUME NEW i \in jobs, i.of = "run", i.at # "stopped", i.sid # 0
      PROVE  i.sid = selected \/ Gone(i.sid)' \/ \E l \in jobs' : l.of = "run" /\ l.at # "stopped" /\ l.sid = i.sid
  BY <1>1, <1>3
<1>4. \A s \in trace'.of : s \in trace.of \/ s = selected \/ Gone(s)' \/ RunOf(s)'
  BY <1>1 DEF RunOf
<1> QED BY <1>2, <1>3, <1>4, QuietOwed

\* A run is over that is of the selected session, or of none, or of one that
\* is gone, or was stopped.
LEMMA FinallyOwed ==
  ASSUME Paid, TraceOwed, StaysGone, NEW x, NEW j \in jobs, Finally(x, j), j.of = "run",
         j.at # "stopped" /\ j.sid # 0 => j.sid = x \/ Gone(j.sid)'
  PROVE  TraceOwed'
<1>1. PICK js : js = jobs \ {j}
  OBVIOUS
<1>2. Effects(x, FALSE, trace, js)
  BY <1>1 DEF Finally
<1>3. x = selected /\ selected' = selected /\ busy' = busy /\ jobs' = js /\ trace' = trace => TraceOwed'
  BY <1>1, OverOwed
<1> QED BY <1>2, <1>3, EffectsOwed

\* The answers.
LEMMA AnswersOwed ==
  ASSUME Paid, ReadsSelected, TraceOwed, StaysGone, ~Misses, NEW j \in jobs
  PROVE  \/ Handle(j) \/ ListAnswered(j) \/ ShowAnswered(j) \/ ChangeAnswered(j) \/ RunStarts(j)
         \/ EventArrives(j) \/ StreamDone(j) \/ RunRead(j) \/ RunListed(j) \/ RunStopped(j) \/ JobFails(j)
         => TraceOwed'
<1>1. busy \in BOOLEAN /\ j \in Job /\ Formed(j)
  BY PaidTypes, JobFields
<1>2. ASSUME Handle(j) PROVE TraceOwed'
  <2>1. PICK k : jobs' = Replace(j, k) /\ k.of = j.of /\ k.at = j.at /\ (j.at # "create" => k.sid = j.sid)
    BY <1>2, HandledFields
  <2>2. j.sid # 0 => j.at # "create"
    <3>1. ~j.served
      BY <1>2, HandleCases
    <3> QED BY <1>1, <3>1 DEF Formed
  <2> QED BY <1>2, <2>1, <2>2, GoesOnOwed DEF Handle
<1>3. ASSUME ListAnswered(j) PROVE TraceOwed'
  <2>1. PICK s : Effects(s, busy, trace, jobs \ {j})
    BY <1>3 DEF ListAnswered
  <2>2. j.of \notin {"run", "show"}
    BY <1>3 DEF ListAnswered, Answered
  <2>3. PICK js : js = jobs \ {j}
    OBVIOUS
  <2>4. jobs' = js /\ trace' = trace /\ selected' = selected /\ busy' = busy => TraceOwed'
    BY <2>2, <2>3, OverOwed
  <2>5. Effects(s, busy, trace, js)
    BY <2>1, <2>3
  <2> QED BY <1>1, <2>4, <2>5, EffectsOwed
<1>4. ASSUME ShowAnswered(j) PROVE TraceOwed'
  <2>1. trace' = StepsOf(j.sid, j.count) /\ selected' = selected /\ j.sid = selected
    BY <1>4 DEF ShowAnswered, Answered, ReadsSelected, ReadsOnly
  <2> QED BY <2>1 DEF TraceOwed, StepsOf, NoSteps
<1>5. ASSUME ChangeAnswered(j) PROVE TraceOwed'
  BY <1>5 DEF ChangeAnswered, TraceOwed, NoSteps
<1>6. ASSUME RunStarts(j) PROVE TraceOwed'
  <2>1. PICK k : k = NextAt(j, "stream")
    OBVIOUS
  <2>2. k.of = j.of /\ k.sid = j.sid /\ k.at = "stream" /\ j.of = "run"
    BY <1>6, <2>1, NextAtFields DEF RunStarts, Answered
  <2>3. PICK js : js = Replace(j, k)
    OBVIOUS
  <2>4. PICK t : t = Appended(j.sid)
    OBVIOUS
  <2>5. PICK x : x = j.sid
    OBVIOUS
  <2>6. Effects(x, busy, t, js)
    BY <1>6, <2>1, <2>3, <2>4, <2>5 DEF RunStarts, NextAt
  <2>7. t.of = trace.of \cup {k.sid}
    <3>1. j.sid \in SessionIds
      BY <1>1, <1>6 DEF RunStarts, Answered, Formed
    <3> QED BY <2>2, <2>4, <3>1, AppendedType
  <2>8. jobs' = js /\ trace' = t /\ selected' = selected /\ busy' = busy => TraceOwed'
    BY <2>2, <2>3, <2>7, GoesOnOwed
  <2> QED BY <1>1, <2>6, <2>8, EffectsOwed
<1>7. ASSUME EventArrives(j) PROVE TraceOwed'
  <2>1. j.of = "run" /\ j.at = "stream" /\ j.sid \in SessionIds
    BY <1>1, <1>7 DEF EventArrives, Answered, Formed
  <2>2. trace'.of = trace.of \cup {j.sid} /\ UNCHANGED <<selected, busy, jobs>>
    BY <1>7, <2>1, AppendedType DEF EventArrives
  <2>3. RunOf(j.sid)'
    BY <2>1, <2>2 DEF RunOf
  <2>4. \A s \in trace'.of : s \in trace.of \/ RunOf(s)'
    BY <2>2, <2>3
  <2> QED BY <2>2, <2>4, QuietOwed
<1>8. ASSUME StreamDone(j) PROVE TraceOwed'
  <2>1. PICK e : /\ e \in IF store[j.sid].phase # "live" THEN {TRUE} ELSE {FALSE, Misses}
                 /\ jobs' = Replace(j, GoesTo(j, "get", e))
    BY <1>8 DEF StreamDone, GoesTo
  <2>2. PICK k : k = GoesTo(j, "get", e)
    OBVIOUS
  <2>3. e \in BOOLEAN
    <3>1. Misses \in BOOLEAN
      BY DEF Misses
    <3> QED BY <2>1, <3>1
  <2>4. k.of = j.of /\ k.sid = j.sid /\ k.at = "get"
    BY <2>2, <2>3, GoesToFields
  <2>5. jobs' = Replace(j, k)
    BY <2>1, <2>2
  <2> QED BY <1>8, <2>4, <2>5, GoesOnOwed DEF StreamDone
<1>9. ASSUME RunRead(j) PROVE TraceOwed'
  <2>1. PICK k : k = NextAt(j, "relist")
    OBVIOUS
  <2>2. k.of = j.of /\ k.sid = j.sid /\ k.at = "relist" /\ j.of = "run"
    BY <1>9, <2>1, NextAtFields DEF RunRead, Answered
  <2>3. jobs' = Replace(j, k) /\ UNCHANGED <<selected, busy>>
    BY <1>9, <2>1 DEF RunRead, NextAt
  <2>4. \A s \in trace'.of : s \in trace.of \/ s = k.sid
    BY <1>9, <2>2 DEF RunRead, StepsOf, NoSteps
  <2> QED BY <2>2, <2>3, <2>4, GoesOnOwed
<1>10. ASSUME RunListed(j) PROVE TraceOwed'
  <2>1. PICK x : x = j.sid
    OBVIOUS
  <2>2. Finally(x, j) /\ j.of = "run"
    BY <1>10, <2>1 DEF RunListed, Answered
  <2> QED BY <2>1, <2>2, FinallyOwed
<1>11. ASSUME RunStopped(j) PROVE TraceOwed'
  <2>1. j.at = "stopped" /\ j.of = "run" /\ Finally(selected, j)
    BY <1>1, <1>11 DEF RunStopped, Formed
  <2>2. PICK x : x = selected
    OBVIOUS
  <2>3. Finally(x, j)
    BY <2>1, <2>2
  <2> QED BY <2>1, <2>3, FinallyOwed
<1>12. ASSUME JobFails(j) PROVE TraceOwed'
  <2>1. Refused(j) /\ UNCHANGED store
    BY <1>12 DEF JobFails
  <2>2. j.sid # 0 => j.at \in {"get", "delete", "stream"} /\ Gone(j.sid)'
    <3>1. j.sid # 0 => j.sid \in SessionIds /\ Known(j.sid)
      BY JobFields
    <3>2. j.sid # 0 => j.at # "create"
      BY <1>1, <2>1 DEF Formed, Refused
    <3>3. j.sid # 0 => store[j.sid].phase \in {"new", "live", "gone"}
      BY <3>1, PaidTypes DEF StoreType
    <3> QED BY <2>1, <3>1, <3>2, <3>3 DEF Refused, Known, Gone
  <2>3. CASE j.of = "run"
    <3>1. PICK x : x = selected
      OBVIOUS
    <3>2. Finally(x, j)
      BY <1>12, <2>3, <3>1 DEF JobFails
    <3> QED BY <2>2, <2>3, <3>2, FinallyOwed
  <2>4. CASE j.of # "run"
    <3>1. jobs' = jobs \ {j} /\ UNCHANGED <<selected, trace, busy>>
      BY <1>12, <2>4 DEF JobFails
    <3>2. j.of = "show" => j.sid = selected /\ j.sid # 0
      BY <1>1 DEF ReadsSelected, ReadsOnly, Formed, SessionIds
    <3>3. j.of = "show" => selected # 0 /\ Gone(selected)'
      BY <2>2, <3>1, <3>2 DEF Gone
    <3> QED BY <2>4, <3>1, <3>3, OverOwed
  <2> QED BY <2>3, <2>4
<1> QED BY <1>2, <1>3, <1>4, <1>5, <1>6, <1>7, <1>8, <1>9, <1>10, <1>11, <1>12

LEMMA NextOwed == Paid /\ ReadsSelected /\ ~Misses /\ TraceOwed /\ [AgentNext]_agentVars => TraceOwed'
<1> SUFFICES ASSUME Paid, ReadsSelected, ~Misses, TraceOwed, [AgentNext]_agentVars PROVE TraceOwed'  OBVIOUS
<1>1. StaysGone
  BY GoneStays
<1>2. UNCHANGED agentVars => TraceOwed'
  BY DEF agentVars, TraceOwed, Gone, RunOf
<1> QED BY <1>1, <1>2, ActsOwed, AnswersOwed, AgentSteps

-----------------------------------------------------------------------------
InList ==
    /\ listed = SessionsOf(namespace)
    /\ IF listed = {} THEN selected = 0 ELSE selected \in listed

\* The trace is right, or about to be.
Right   == trace \in {[NoSteps EXCEPT !.more = TRUE], IF selected = 0 THEN NoSteps ELSE StepsOf(selected, store[selected].count)}
Righted == Right \/ \E j \in jobs : j.of = "show"

\* An operation has not taken effect yet.
Before(j) == j.at \in {"create", "delete"} /\ ~j.served

\* There is, or there will be a list, by the stage of the errand j of a user
\* who waits.
Stage(j) ==
    /\ j.ns = namespace
    /\ busy <=> j.of = "run"
    /\ j.at \in {"list", "relist"} /\ j.served => j.ids = SessionsOf(namespace)
    /\ j.of = "visit" => Right /\ \A k \in jobs : k.of # "show"
    /\ j.of = "refresh" \/ Before(j) => InList /\ Righted
    /\ j.of = "new" /\ ~Before(j) => j.sid \in SessionsOf(namespace) \ {selected}
    /\ j.of = "remove" => j.sid = selected /\ (Before(j) \/ Gone(selected))
    /\ j.of = "run" =>
        /\ j.at # "stopped" /\ ~j.erred
        /\ IF Before(j) THEN selected = 0 ELSE j.sid \in SessionsOf(namespace)
        /\ j.at \in {"stream", "get", "relist"} => InList /\ j.sid = selected

\* A session that was read is still as it was.
ReadsTrue(js) ==
    \A j \in js : j.of = "show" /\ j.served /\ store[j.sid].phase = "live" => j.count = store[j.sid].count

\* For the user who waits there is one errand at a time.
WaitsItOut ==
    /\ \A j, k \in jobs : j.of # "show" /\ k.of # "show" => j = k
    /\ \A j \in jobs : j.of # "show" => Stage(j)
    /\ (\A j \in jobs : j.of = "show") => InList /\ Righted /\ ~busy
    /\ ReadsTrue(jobs)

\* What is left to show when there is one errand, and when there is none.
LEMMA OneErrand ==
  ASSUME NEW k \in jobs', k.of # "show", \A i \in jobs' : i.of # "show" => i = k, Stage(k)', ReadsTrue(jobs)'
  PROVE  WaitsItOut'
BY DEF WaitsItOut

LEMMA NoErrand ==
  ASSUME \A i \in jobs' : i.of = "show", InList', Righted', ~busy', ReadsTrue(jobs)'
  PROVE  WaitsItOut'
BY DEF WaitsItOut

\* The sessions of a namespace are those of the store.
LEMMA SameSessions ==
  ASSUME \A s \in SessionIds : store'[s].phase = store[s].phase /\ store'[s].ns = store[s].ns
  PROVE  \A ns : SessionsOf(ns)' = SessionsOf(ns)
BY DEF SessionsOf

\* A reading that the effect of the selection starts is not answered yet.
LEMMA EffectsTrue ==
  ASSUME NEW x, NEW b \in BOOLEAN, NEW t, NEW js, Effects(x, b, t, js), UNCHANGED store, ReadsTrue(js)
  PROVE  ReadsTrue(jobs)'
<1>1. CASE jobs' = js
  BY <1>1 DEF ReadsTrue
<1>2. CASE \A k \in jobs' : k.of = "show" => k = NewJob(0, "show", "get", x)
  BY <1>2, ShowFields DEF ReadsTrue
<1> QED BY <1>1, <1>2, EffectsShows

\* A selection while the page is not busy is read, unless it was there.
LEMMA EffectsRighted ==
  ASSUME NEW x, NEW t, NEW js, Effects(x, FALSE, t, js),
         x = selected /\ ~busy /\ jobs' = js /\ trace' = t /\ selected' = selected => Righted'
  PROVE  Righted'
<1>1. selected' = x
  BY DEF Effects
<1>2. CASE x = selected /\ FALSE = busy /\ jobs' = js /\ trace' = t
  BY <1>1, <1>2
<1>3. CASE x # 0 /\ NewJob(0, "show", "get", x) \in jobs'
  BY <1>3, ShowFields DEF Righted
<1>4. CASE x = 0 /\ trace' = NoSteps
  BY <1>1, <1>4 DEF Righted, Right
<1> QED BY <1>2, <1>3, <1>4, EffectsShows

\* A page whose list is right shows sessions that are there.
LEMMA ListedSession ==
  ASSUME Paid, InList
  PROVE  /\ \A s \in listed : s \in SessionIds /\ s # 0 /\ store[s].phase = "live"
         /\ selected # 0 => selected \in listed
<1>1. MaxSessions \in Nat
  BY PaidTypes
<1> QED BY <1>1 DEF InList, SessionsOf, SessionIds

\* A user who waits acts when nothing is under way.
LEMMA ActsWait ==
  ASSUME Paid, ReadsSelected, WaitsItOut, Waits
  PROVE  /\ (\E ns \in Namespaces : SwitchNamespace(ns)) => WaitsItOut'
         /\ (\E s \in listed : PickSession(s) \/ RemoveSession(s)) => WaitsItOut'
         /\ NewSession \/ RefreshSessions \/ ClearTrace \/ Run \/ StopRun => WaitsItOut'
<1>1. ASSUME Act PROVE jobs = {} /\ InList /\ Right /\ ~busy
  BY <1>1 DEF Act, WaitsItOut, Righted
<1>2. ASSUME UNCHANGED <<namespace, store, listed, selected>>, InList PROVE InList'
  BY <1>2 DEF InList, SessionsOf
<1>3. ASSUME UNCHANGED <<trace, store, selected>>, Right PROVE Right'
  BY <1>3 DEF Right
<1>4. ASSUME NEW ns \in Namespaces, SwitchNamespace(ns) PROVE WaitsItOut'
  <2>1. jobs = {} /\ Right /\ ~busy
    BY <1>1, <1>4 DEF SwitchNamespace
  <2>2. PICK k : k = [NewJob(0, "visit", "list", 0) EXCEPT !.ns = ns]
    OBVIOUS
  <2>3. k.of = "visit" /\ k.at = "list" /\ ~k.served /\ k.ns = ns
    BY <2>2 DEF NewJob
  <2>4. jobs' = {k}
    BY <1>4, <2>1, <2>2 DEF SwitchNamespace
  <2>5. namespace' = ns /\ ~busy' /\ Right'
    BY <1>3, <1>4, <2>1 DEF SwitchNamespace
  <2>6. Stage(k)'
    BY <2>3, <2>4, <2>5 DEF Stage, Before
  <2> QED BY <2>3, <2>4, <2>6, OneErrand DEF ReadsTrue
<1>5. ASSUME NEW s \in listed, PickSession(s) PROVE WaitsItOut'
  <2>1. jobs = {} /\ InList /\ Right /\ ~busy /\ busy \in BOOLEAN
    BY <1>1, <1>5, PaidTypes DEF PickSession
  <2>2. PICK js : js = jobs
    OBVIOUS
  <2>3. PICK show : show = NewJob(0, "show", "get", s)
    OBVIOUS
  <2>4. Effects(s, FALSE, trace, js)
    <3>1. Effects(s, busy, trace, js)
      BY <1>5, <2>2 DEF PickSession
    <3>2. busy = FALSE
      BY <2>1
    <3> QED BY <3>1, <3>2
  <2>5. selected' = s /\ ~busy' /\ UNCHANGED <<namespace, store, listed>>
    BY <1>5, <2>4 DEF Effects, PickSession
  <2>6. \A k \in jobs' : k.of = "show"
    <3>1. js = {} /\ IsFiniteSet(js)
      BY <2>1, <2>2, FS_EmptySet
    <3>2. \A k \in jobs' : k \in js \/ k = show
      BY <2>3, <2>4, <3>1, EffectsJobs
    <3>3. show.of = "show"
      BY <2>3, ShowFields
    <3> QED BY <3>1, <3>2, <3>3
  <2>7. InList'
    BY <2>1, <2>5 DEF InList, SessionsOf
  <2>8. Righted'
    BY <1>3, <2>1, <2>4, <2>5, EffectsRighted DEF Righted
  <2>9. ReadsTrue(jobs)'
    <3>1. ReadsTrue(js)
      BY <2>1, <2>2 DEF ReadsTrue
    <3> QED BY <2>4, <2>5, <3>1, EffectsTrue
  <2> QED BY <2>5, <2>6, <2>7, <2>8, <2>9, NoErrand
<1>6. ASSUME NEW s \in listed, RemoveSession(s) PROVE WaitsItOut'
  <2>1. Act
    BY <1>6 DEF RemoveSession
  <2>2. jobs = {} /\ InList /\ Right /\ ~busy
    BY <1>1, <2>1
  <2>3. PICK k : k = NewJob(agentActs', "remove", "delete", s)
    OBVIOUS
  <2>4. k.of = "remove" /\ k.at = "delete" /\ ~k.served /\ k.ns = namespace /\ k.sid = s
    BY <2>3 DEF NewJob
  <2>5. PICK js : js = {k}
    OBVIOUS
  <2>6. Effects(s, FALSE, trace, js)
    <3>1. Effects(s, busy, trace, js)
      BY <1>6, <2>2, <2>3, <2>5 DEF RemoveSession
    <3>2. busy = FALSE
      BY <2>2, PaidTypes
    <3> QED BY <3>1, <3>2
  <2>7. selected' = s /\ ~busy' /\ UNCHANGED <<namespace, store, listed>>
    BY <1>6, <2>6 DEF Effects, RemoveSession
  <2>8. k \in jobs' /\ \A i \in jobs' : i.of # "show" => i = k
    <3>1. IsFiniteSet(js)
      BY <2>5, FS_Singleton
    <3>2. PICK show : show = NewJob(0, "show", "get", s)
      OBVIOUS
    <3>4. \A i \in jobs' : i \in js \/ i = show
      BY <2>6, <3>1, <3>2, EffectsJobs
    <3>3. \A i \in js : i.of # "show" => i \in jobs'
      BY <2>6, <3>1, EffectsJobs
    <3>5. show.of = "show"
      BY <3>2, ShowFields
    <3> QED BY <2>4, <2>5, <3>3, <3>4, <3>5
  <2>9. InList'
    BY <2>2, <2>7 DEF InList, SessionsOf
  <2>10. Righted'
    BY <1>3, <2>2, <2>6, <2>7, EffectsRighted DEF Righted
  <2>11. ReadsTrue(jobs)'
    <3>1. ReadsTrue(js)
      BY <2>4, <2>5 DEF ReadsTrue
    <3> QED BY <2>6, <2>7, <3>1, EffectsTrue
  <2>12. Stage(k)'
    BY <2>4, <2>7, <2>9, <2>10 DEF Stage, Before
  <2> QED BY <2>4, <2>8, <2>11, <2>12, OneErrand
<1>7. ASSUME NEW k, k.of \in {"new", "refresh"}, jobs' = jobs \cup {k}, Act, ~k.served, k.ns = namespace,
             k.of = "new" => k.at = "create", UNCHANGED <<namespace, store, listed, selected, trace, busy>>
      PROVE  WaitsItOut'
  <2>1. jobs = {} /\ InList /\ Right /\ ~busy
    BY <1>1, <1>7
  <2>2. InList' /\ Right' /\ ~busy'
    BY <1>2, <1>3, <1>7, <2>1
  <2>3. Stage(k)'
    BY <1>7, <2>2 DEF Stage, Before, Righted
  <2> QED BY <1>7, <2>1, <2>3, OneErrand DEF ReadsTrue
<1>8. ASSUME NewSession PROVE WaitsItOut'
  <2>1. PICK k : k = NewJob(agentActs', "new", "create", 0)
    OBVIOUS
  <2>2. k.of = "new" /\ k.at = "create" /\ ~k.served /\ k.ns = namespace
    BY <2>1 DEF NewJob
  <2> QED BY <1>7, <1>8, <2>1, <2>2 DEF NewSession
<1>9. ASSUME RefreshSessions PROVE WaitsItOut'
  <2>1. PICK k : k = NewJob(agentActs', "refresh", "list", 0)
    OBVIOUS
  <2>2. k.of = "refresh" /\ k.at = "list" /\ ~k.served /\ k.ns = namespace
    BY <2>1 DEF NewJob
  <2> QED BY <1>7, <1>9, <2>1, <2>2 DEF RefreshSessions
<1>10. ASSUME ClearTrace PROVE WaitsItOut'
  <2>1. jobs = {} /\ InList /\ ~busy
    BY <1>1, <1>10 DEF ClearTrace
  <2>2. UNCHANGED <<namespace, store, listed, selected, busy, jobs>> /\ trace' = [NoSteps EXCEPT !.more = TRUE]
    BY <1>10 DEF ClearTrace
  <2>3. InList' /\ Right'
    BY <1>2, <2>1, <2>2 DEF Right
  <2> QED BY <2>1, <2>2, <2>3, NoErrand DEF Righted, ReadsTrue
<1>11. ASSUME Run PROVE WaitsItOut'
  <2>1. Act
    BY <1>11 DEF Run
  <2>2. jobs = {} /\ InList /\ Right /\ ~busy
    BY <1>1, <2>1
  <2>3. PICK k : k = NewJob(agentActs', "run", IF selected = 0 THEN "create" ELSE "stream", selected)
    OBVIOUS
  <2>4. /\ k.of = "run" /\ ~k.served /\ k.ns = namespace /\ k.sid = selected /\ ~k.erred
        /\ k.at = IF selected = 0 THEN "create" ELSE "stream"
    BY <2>3 DEF NewJob
  <2>5. PICK js : js = {k}
    OBVIOUS
  <2>6. PICK t : t = IF selected = 0 THEN trace ELSE Appended(selected)
    OBVIOUS
  <2>7. Effects(selected, TRUE, t, js) /\ UNCHANGED <<namespace, store, listed>>
    BY <1>11, <2>2, <2>3, <2>5, <2>6 DEF Run
  <2>8. selected' = selected /\ busy' /\ trace' = t
    BY <2>7 DEF Effects
  <2>9. k \in jobs' /\ \A i \in jobs' : i.of # "show" => i = k
    <3>1. IsFiniteSet(js)
      BY <2>5, FS_Singleton
    <3>2. \A i \in jobs' : i \in js
      BY <2>7, <3>1, EffectsJobs
    <3>3. \A i \in js : i.of # "show" => i \in jobs'
      BY <2>7, <3>1, EffectsJobs
    <3> QED BY <2>4, <2>5, <3>2, <3>3
  <2>10. InList'
    BY <1>2, <2>2, <2>7, <2>8
  <2>11. ReadsTrue(jobs)'
    <3>1. ReadsTrue(js)
      BY <2>4, <2>5 DEF ReadsTrue
    <3> QED BY <2>7, <3>1, EffectsTrue
  <2>12. Stage(k)'
    <3>1. CASE selected = 0
      <4>1. Righted'
        BY <1>3, <2>2, <2>6, <2>7, <2>8, <3>1 DEF Righted
      <4> QED BY <2>4, <2>7, <2>8, <2>10, <3>1, <4>1 DEF Stage, Before
    <3>2. CASE selected # 0
      <4>1. selected \in SessionsOf(namespace)
        BY <2>2, <3>2, ListedSession DEF InList
      <4>2. k.sid \in SessionsOf(namespace)' /\ k.sid = selected'
        BY <2>4, <2>7, <2>8, <4>1 DEF SessionsOf
      <4> QED BY <2>4, <2>7, <2>8, <2>10, <3>2, <4>2 DEF Stage, Before
    <3> QED BY <3>1, <3>2
  <2> QED BY <2>4, <2>9, <2>11, <2>12, OneErrand
<1>12. ASSUME StopRun PROVE WaitsItOut'
  BY <1>1, <1>12 DEF StopRun
<1> QED BY <1>4, <1>5, <1>6, <1>8, <1>9, <1>10, <1>11, <1>12

\* The errand of a user who waits is alone with readings of the trace.
LEMMA TheErrand ==
  ASSUME Paid, ReadsSelected, WaitsItOut, NEW j \in jobs, j.of # "show"
  PROVE  /\ Stage(j) /\ \A i \in jobs \ {j} : i.of = "show"
         /\ busy => \A i \in jobs \ {j} : FALSE
BY DEF WaitsItOut, ReadsSelected, ReadsOnly

\* What a reading does to a page that waits for an errand, or for none.
LEMMA ReadingWaits ==
  ASSUME WaitsItOut, NEW j \in jobs, j.of = "show", UNCHANGED <<namespace, store, listed, selected, busy>>,
         \A i \in jobs : i.of # "show" => i \in jobs', \A i \in jobs' : i.of # "show" => i \in jobs,
         ReadsTrue(jobs)', InList => Righted'
  PROVE  WaitsItOut'
<1>1. InList' <=> InList
  BY DEF InList, SessionsOf
<1>2. CASE \A i \in jobs : i.of = "show"
  <2>1. InList' /\ Righted' /\ ~busy'
    BY <1>1, <1>2 DEF WaitsItOut
  <2>2. \A i \in jobs' : i.of = "show"
    BY <1>2
  <2> QED BY <2>1, <2>2, NoErrand
<1>3. ASSUME NEW e \in jobs, e.of # "show" PROVE WaitsItOut'
  <2>1. Stage(e) /\ e \in jobs' /\ \A i \in jobs' : i.of # "show" => i = e
    BY <1>3 DEF WaitsItOut
  <2>2. e.of # "visit"
    BY <2>1 DEF Stage
  <2>3. SessionsOf(namespace)' = SessionsOf(namespace) /\ (Gone(selected) <=> Gone(selected)')
    BY DEF SessionsOf, Gone
  <2>4. Stage(e)'
    BY <1>1, <2>1, <2>2, <2>3 DEF Stage, Before
  <2> QED BY <1>3, <2>1, <2>4, OneErrand
<1> QED BY <1>2, <1>3

\* A reading is answered.
LEMMA ShowWaits ==
  ASSUME Paid, ReadsSelected, WaitsItOut, ~Misses, NEW j \in jobs, j.of = "show"
  PROVE  Handle(j) \/ ShowAnswered(j) \/ JobFails(j) => WaitsItOut'
<1>1. j.at = "get" /\ j.sid \in SessionIds /\ j.sid # 0 /\ j.sid = selected
  BY JobFields DEF Formed, SessionIds, ReadsSelected, ReadsOnly
<1>2. InList => selected \in listed /\ store[selected].phase = "live"
  BY <1>1, ListedSession
<1>3. ASSUME Handle(j) PROVE WaitsItOut'
  <2>6. PICK k : /\ jobs' = Replace(j, k) /\ k.of = j.of /\ (j.at # "create" => k.sid = j.sid)
                 /\ IF j.at = "get" THEN k.count = store[j.sid].count ELSE k.count = j.count
    BY <1>3, HandledFields
  <2>1. jobs' = Replace(j, k) /\ k.of = "show" /\ k.sid = j.sid /\ k.count = store[j.sid].count
    BY <1>1, <2>6
  <2>2. UNCHANGED <<namespace, store, listed, selected, trace, busy>>
    <3>1. UNCHANGED <<namespace, listed, selected, trace, busy>>
      BY <1>3 DEF Handle
    <3>2. UNCHANGED store
      BY <1>1, <1>3, HandleCases DEF HandleList, HandleGet, HandleCreate, HandleDelete, HandleStream
    <3> QED BY <3>1, <3>2
  <2>3. ReadsTrue(jobs)'
    BY <2>1, <2>2 DEF ReadsTrue, Replace, WaitsItOut
  <2>4. k \in jobs' /\ Righted'
    BY <2>1 DEF Replace, Righted
  <2>5. (\A i \in jobs : i.of # "show" => i \in jobs') /\ \A i \in jobs' : i.of # "show" => i \in jobs
    BY <2>1 DEF Replace
  <2> QED BY <2>2, <2>3, <2>4, <2>5, ReadingWaits
<1>4. ASSUME jobs' = jobs \ {j}, UNCHANGED <<namespace, store, listed, selected, busy>>, InList => Righted' PROVE WaitsItOut'
  <2>1. ReadsTrue(jobs)'
    BY <1>4 DEF ReadsTrue, WaitsItOut
  <2>2. (\A i \in jobs : i.of # "show" => i \in jobs') /\ \A i \in jobs' : i.of # "show" => i \in jobs
    BY <1>4
  <2> QED BY <1>4, <2>1, <2>2, ReadingWaits
<1>5. ASSUME ShowAnswered(j) PROVE WaitsItOut'
  <2>1. jobs' = jobs \ {j} /\ UNCHANGED <<namespace, store, listed, selected, busy>> /\ trace' = StepsOf(j.sid, j.count)
    BY <1>5 DEF ShowAnswered
  <2>2. ASSUME InList PROVE Righted'
    <3>1. j.count = store[j.sid].count
      BY <1>1, <1>2, <1>5, <2>2 DEF WaitsItOut, ReadsTrue, ShowAnswered, Answered
    <3>2. trace' = StepsOf(selected, store[selected].count) /\ selected # 0
      BY <1>1, <2>1, <3>1
    <3>3. selected' # 0 /\ trace' = StepsOf(selected', store'[selected'].count)
      BY <2>1, <3>2
    <3> QED BY <3>3 DEF Righted, Right
  <2> QED BY <1>4, <2>1, <2>2
<1>6. ASSUME JobFails(j) PROVE WaitsItOut'
  <2>1. jobs' = jobs \ {j} /\ UNCHANGED <<namespace, store, listed, selected, busy>> /\ store[j.sid].phase # "live"
    BY <1>1, <1>6 DEF JobFails, Refused
  <2>2. ~InList
    BY <1>1, <1>2, <2>1
  <2> QED BY <1>4, <2>1, <2>2
<1> QED BY <1>3, <1>5, <1>6

\* The errand goes on.
LEMMA ErrandGoesOn ==
  ASSUME Paid, ReadsSelected, WaitsItOut, NEW j \in jobs, j.of # "show", NEW k, k.of = j.of, jobs' = Replace(j, k),
         Stage(k)', NEW js, js = jobs \ {j}, ReadsTrue(js)'
  PROVE  WaitsItOut'
<1>1. \A i \in jobs \ {j} : i.of = "show"
  BY TheErrand
<1>2. k \in jobs' /\ \A i \in jobs' : i.of # "show" => i = k
  BY <1>1 DEF Replace
<1>3. ReadsTrue(jobs)'
  BY DEF ReadsTrue, Replace
<1> QED BY <1>2, <1>3, OneErrand

\* Readings stay true unless the selected session gets a message.
LEMMA StillTrue ==
  ASSUME Paid, ReadsSelected, WaitsItOut, NEW js \in SUBSET jobs,
         busy \/ (selected # 0 => store'[selected] = store[selected] \/ store'[selected].phase = "gone"),
         \E j \in jobs : j.of # "show" /\ j \notin js
  PROVE  ReadsTrue(js)'
<1>1. ASSUME NEW i \in js, i.of = "show" PROVE i.sid = selected /\ selected # 0 /\ ~busy
  BY <1>1, JobFields DEF ReadsSelected, ReadsOnly, Formed, SessionIds
<1> QED BY <1>1 DEF ReadsTrue, WaitsItOut

\* The server handles a request.
LEMMA HandleWaits ==
  ASSUME Paid, ReadsSelected, WaitsItOut, NEW j \in jobs, j.of # "show", Handle(j)
  PROVE  WaitsItOut'
<1>1. /\ j \in Job /\ Formed(j) /\ ~j.served
      /\ Stage(j) /\ (\A i \in jobs \ {j} : i.of = "show") /\ (busy => \A i \in jobs \ {j} : FALSE)
  BY JobFields, HandleCases, TheErrand
<1>2. PICK k : /\ jobs' = Replace(j, k) /\ k.of = j.of /\ k.at = j.at /\ k.served /\ k.ns = j.ns /\ (k.erred <=> j.erred)
               /\ j.at # "create" => k.sid = j.sid
               /\ j.at = "create" => k.sid \in Fresh /\ HandleCreate(j)
                       /\ store' = [store EXCEPT ![k.sid] = [phase |-> "live", ns |-> j.ns, count |-> 0]]
               /\ IF j.at \in {"list", "relist"} THEN k.ids = SessionsOf(j.ns) ELSE k.ids = j.ids
  BY HandledFields
<1>3. PICK js : js = jobs \ {j}
  OBVIOUS
<1>4. UNCHANGED <<namespace, listed, selected, trace, busy>>
  BY HandleCases DEF Answering
<1>5. ~Before(k)
  BY <1>2 DEF Before
<1>6. \A i \in jobs : i # j => i \in jobs'
  BY <1>2 DEF Replace
<1>7. CASE HandleList(j) \/ HandleGet(j)
  <2>1. UNCHANGED store
    BY <1>7 DEF HandleList, HandleGet
  <2>2. ReadsTrue(js)'
    BY <1>3, <2>1, StillTrue
  <2>3. SessionsOf(namespace)' = SessionsOf(namespace)
    BY <1>4, <2>1 DEF SessionsOf
  <2>4. (InList <=> InList') /\ (Right <=> Right') /\ (Gone(selected) <=> Gone(selected)') /\ (Righted => Righted')
    <3>1. InList <=> InList'
      BY <1>4, <2>3 DEF InList
    <3>2. Right <=> Right'
      BY <1>4, <2>1 DEF Right
    <3>3. Gone(selected) <=> Gone(selected)'
      BY <1>4, <2>1 DEF Gone
    <3> QED BY <1>6, <3>1, <3>2, <3>3 DEF Righted
  <2>5. j.at \in {"list", "relist", "get"} /\ ~Before(j) /\ k.sid = j.sid
    BY <1>2, <1>7 DEF HandleList, HandleGet, Before
  <2>6. j.of = "visit" => Right' /\ \A i \in jobs' : i.of # "show"
    BY <1>1, <1>2, <2>4 DEF Stage, Replace
  <2>7. k.at \in {"list", "relist"} /\ k.served => k.ids = SessionsOf(namespace)'
    BY <1>1, <1>2, <2>3 DEF Stage
  <2>8. j.of = "run" =>
          /\ k.at # "stopped" /\ ~k.erred /\ k.sid \in SessionsOf(namespace)'
          /\ k.at \in {"stream", "get", "relist"} => InList' /\ k.sid = selected'
    BY <1>1, <1>2, <1>4, <2>3, <2>4, <2>5 DEF Stage
  <2>9. Stage(k)'
    BY <1>1, <1>2, <1>4, <1>5, <2>3, <2>4, <2>5, <2>6, <2>7, <2>8 DEF Stage
  <2> QED BY <1>2, <1>3, <2>2, <2>9, ErrandGoesOn
<1>8. CASE HandleCreate(j)
  <2>1. j.at = "create" /\ j.of \in {"new", "run"} /\ Before(j)
    BY <1>1, <1>8 DEF HandleCreate, Formed, Before
  <2>2. k.sid \in SessionIds /\ ~Known(k.sid)
    BY <1>2, <2>1 DEF Fresh, Known
  <2>3. k.sid # selected
    BY <2>2, ShownKnown, PaidTypes DEF SessionIds
  <2>4. store'[k.sid] = [phase |-> "live", ns |-> j.ns, count |-> 0]
    BY <1>2, <2>1, <2>2, PaidTypes DEF StoreType
  <2>5. selected # 0 => store'[selected] = store[selected]
    BY <1>2, <2>1, <2>2, <2>3, ShownKnown, PaidTypes DEF StoreType
  <2>6. ReadsTrue(js)'
    BY <1>3, <2>1, <2>5, StillTrue
  <2>7. k.sid \in SessionsOf(namespace)' /\ k.sid # selected'
    BY <1>1, <1>4, <2>2, <2>3, <2>4 DEF SessionsOf, Stage
  <2>8. Stage(k)'
    BY <1>1, <1>2, <1>4, <1>5, <2>1, <2>7 DEF Stage
  <2> QED BY <1>2, <1>3, <2>1, <2>6, <2>8, ErrandGoesOn
<1>9. CASE HandleDelete(j)
  <2>1. j.at = "delete" /\ j.of = "remove" /\ j.sid = selected /\ j.sid \in SessionIds
    BY <1>1, <1>9 DEF HandleDelete, Formed, Stage
  <2>2. store'[j.sid].phase = "gone"
    BY <1>9, <2>1, PaidTypes DEF HandleDelete, StoreType
  <2>3. store'[selected].phase = "gone" /\ Gone(selected)'
    BY <1>4, <2>1, <2>2 DEF Gone
  <2>4. ReadsTrue(js)'
    BY <1>3, <2>1, <2>3, StillTrue
  <2>5. Stage(k)'
    BY <1>1, <1>2, <1>4, <1>5, <2>1, <2>3 DEF Stage
  <2> QED BY <1>2, <1>3, <2>1, <2>4, <2>5, ErrandGoesOn
<1>10. CASE HandleStream(j)
  <2>1. j.at = "stream" /\ j.of = "run" /\ busy /\ ~Before(j)
    BY <1>1, <1>10 DEF HandleStream, Formed, Stage, Before
  <2>2. j.sid \in SessionIds
    BY <1>1, <2>1 DEF Formed
  <2>3. \A s \in SessionIds : store'[s].phase = store[s].phase /\ store'[s].ns = store[s].ns
    BY <1>10, <2>2, PaidTypes DEF HandleStream, StoreType
  <2>4. SessionsOf(namespace)' = SessionsOf(namespace)
    BY <1>4, <2>3 DEF SessionsOf
  <2>5. ReadsTrue(js)'
    BY <1>3, <2>1, StillTrue
  <2>6. InList' /\ k.sid = selected' /\ k.sid \in SessionsOf(namespace)'
    BY <1>1, <1>2, <1>4, <2>1, <2>4 DEF Stage, InList
  <2>7. Stage(k)'
    BY <1>1, <1>2, <1>4, <1>5, <2>1, <2>6 DEF Stage
  <2> QED BY <1>2, <1>3, <2>1, <2>5, <2>7, ErrandGoesOn
<1> QED BY <1>7, <1>8, <1>9, <1>10, HandleCases

\* The list of an errand is answered.
LEMMA ListWaits ==
  ASSUME Paid, ReadsSelected, WaitsItOut, NEW j \in jobs, ListAnswered(j)
  PROVE  WaitsItOut'
<1>1. /\ j.of \in {"visit", "remove", "refresh", "new"} /\ j.at = "list" /\ j.served /\ listed' = j.ids
      /\ UNCHANGED <<namespace, store>>
  BY DEF ListAnswered, Answered
<1>2. Stage(j) /\ (\A i \in jobs \ {j} : i.of = "show") /\ ~Before(j) /\ j.ids = SessionsOf(namespace) /\ ~busy
  BY <1>1, TheErrand DEF Before, Stage
<1>3. PICK js : js = jobs \ {j}
  OBVIOUS
<1>4. PICK s \in IF j.of = "new" THEN {j.sid} ELSE Kept(j.ids) : Effects(s, busy, trace, js)
  BY <1>3 DEF ListAnswered
<1>5. Effects(s, FALSE, trace, js)
  <2>1. busy = FALSE
    BY <1>2, PaidTypes
  <2> QED BY <1>4, <2>1
<1>6. selected' = s /\ ~busy'
  BY <1>5 DEF Effects
<1>7. IF j.ids = {} THEN s = 0 ELSE s \in j.ids
  <2>1. CASE j.of = "new"
    BY <1>2, <1>4, <2>1 DEF Stage
  <2>2. CASE j.of # "new"
    BY <1>4, <2>2 DEF Kept
  <2> QED BY <2>1, <2>2
<1>8. InList'
  <2>1. SessionsOf(namespace)' = SessionsOf(namespace)
    BY <1>1 DEF SessionsOf
  <2> QED BY <1>1, <1>2, <1>6, <1>7, <2>1 DEF InList
<1>9. ASSUME s = selected, jobs' = js, trace' = trace, selected' = selected PROVE Righted'
  <2>1. CASE j.of \in {"visit", "refresh"}
    <3>1. Righted
      BY <1>2, <2>1 DEF Stage, Righted
    <3>2. Right => Right'
      BY <1>1, <1>9 DEF Right
    <3> QED BY <1>1, <1>3, <1>9, <3>1, <3>2 DEF Righted
  <2>2. CASE j.of = "new"
    BY <1>2, <1>4, <1>9, <2>2 DEF Stage
  <2>3. CASE j.of = "remove"
    <3>1. j.sid = selected /\ Gone(selected)
      BY <1>2, <2>3 DEF Stage
    <3>2. j.sid # 0
      BY <1>1, <2>3, JobFields, PaidTypes DEF Formed, SessionIds
    <3>3. \A x \in j.ids : ~Gone(x)
      BY <1>2 DEF SessionsOf, Gone
    <3> QED BY <1>7, <1>9, <3>1, <3>2, <3>3
  <2> QED BY <1>1, <2>1, <2>2, <2>3
<1>10. Righted'
  BY <1>5, <1>9, EffectsRighted
<1>11. ReadsTrue(jobs)'
  <2>1. ReadsTrue(js)
    BY <1>3 DEF WaitsItOut, ReadsTrue
  <2> QED BY <1>1, <1>5, <2>1, EffectsTrue
<1>12. \A i \in jobs' : i.of = "show"
  <2>1. IsFiniteSet(js)
    BY <1>3, FS_RemoveElement DEF Paid, WellFormed
  <2>2. PICK show : show = NewJob(0, "show", "get", s)
    OBVIOUS
  <2>3. \A i \in jobs' : i \in js \/ i = show
    BY <1>5, <2>1, <2>2, EffectsJobs
  <2>4. show.of = "show"
    BY <2>2, ShowFields
  <2> QED BY <1>2, <1>3, <2>3, <2>4
<1> QED BY <1>6, <1>8, <1>10, <1>11, <1>12, NoErrand

\* The change that an errand is for is made.
LEMMA ChangeWaits ==
  ASSUME Paid, ReadsSelected, WaitsItOut, NEW j \in jobs, ChangeAnswered(j)
  PROVE  WaitsItOut'
<1>1. PICK k : k = NextAt(j, "list")
  OBVIOUS
<1>2. PICK js : js = jobs \ {j}
  OBVIOUS
<1>3. /\ j.of \in {"new", "run", "remove"} /\ j.served /\ jobs' = Replace(j, k)
      /\ UNCHANGED <<namespace, store, listed, selected, busy>>
  BY <1>1 DEF ChangeAnswered, Answered, NextAt
<1>4. k.of = j.of /\ k.at = "list" /\ ~k.served /\ k.ns = j.ns /\ k.sid = j.sid /\ (k.erred <=> j.erred)
  BY <1>1, NextAtFields
<1>5. Stage(j) /\ ~Before(j) /\ ~Before(k)
  BY <1>3, <1>4, TheErrand DEF Before
<1>6. ReadsTrue(js)'
  BY <1>2, <1>3, StillTrue
<1>7. SessionsOf(namespace)' = SessionsOf(namespace) /\ (Gone(selected) <=> Gone(selected)')
  BY <1>3 DEF SessionsOf, Gone
<1>8. Stage(k)'
  BY <1>3, <1>4, <1>5, <1>7 DEF Stage
<1> QED BY <1>2, <1>3, <1>4, <1>6, <1>8, ErrandGoesOn

\* The answers of a run.
LEMMA RunWaits ==
  ASSUME Paid, ReadsSelected, WaitsItOut, ~Misses, NEW j \in jobs, j.of = "run"
  PROVE  RunStarts(j) \/ EventArrives(j) \/ StreamDone(j) \/ RunRead(j) \/ RunListed(j) \/ RunStopped(j) => WaitsItOut'
<1>1. /\ Stage(j) /\ busy /\ jobs = {j} /\ j.at # "stopped" /\ ~j.erred
      /\ j.ns = namespace /\ j.sid \in SessionIds \cup {0}
  BY TheErrand, JobFields DEF Stage, Formed
<1>2. PICK js : js = jobs \ {j}
  OBVIOUS
<1>3. js = {}
  BY <1>1, <1>2
<1>4. ReadsTrue(js)'
  BY <1>3 DEF ReadsTrue
<1>5. ASSUME UNCHANGED store PROVE \A ns : SessionsOf(ns)' = SessionsOf(ns)
  BY <1>5 DEF SessionsOf
<1>6. ASSUME NEW k, k.of = "run", k.at \in {"get", "relist"}, ~k.served, k.ns = j.ns, k.sid = j.sid, ~k.erred,
             j.at \in {"stream", "get"}, ~Before(j), jobs' = Replace(j, k), UNCHANGED <<namespace, listed, selected, busy>>,
             \A ns : SessionsOf(ns)' = SessionsOf(ns)
      PROVE  WaitsItOut'
  <2>1. InList /\ j.sid = selected /\ j.sid \in SessionsOf(namespace)
    BY <1>1, <1>6 DEF Stage
  <2>2. InList' /\ k.sid = selected' /\ k.sid \in SessionsOf(namespace)'
    BY <1>6, <2>1 DEF InList
  <2>3. ~Before(k)
    BY <1>6 DEF Before
  <2>4. Stage(k)'
    BY <1>1, <1>6, <2>2, <2>3 DEF Stage
  <2> QED BY <1>2, <1>4, <1>6, <2>4, ErrandGoesOn
<1>7. ASSUME RunStarts(j) PROVE WaitsItOut'
  <2>1. PICK k : k = NextAt(j, "stream")
    OBVIOUS
  <2>2. PICK ks : ks = {k}
    OBVIOUS
  <2>3. PICK x : x = j.sid
    OBVIOUS
  <2>4. PICK t : t = Appended(j.sid)
    OBVIOUS
  <2>5. Effects(x, busy, t, ks) /\ listed' = j.ids /\ UNCHANGED <<namespace, store>> /\ j.at = "list" /\ j.served
    <3>1. Replace(j, k) = ks
      BY <1>1, <2>2 DEF Replace
    <3>2. /\ listed' = j.ids /\ UNCHANGED <<namespace, store>> /\ j.at = "list" /\ j.served
          /\ Effects(j.sid, busy, Appended(j.sid), Replace(j, k))
      BY <1>7, <2>1 DEF RunStarts, Answered, NextAt
    <3> QED BY <2>3, <2>4, <3>1, <3>2
  <2>6. /\ k.of = "run" /\ k.at = "stream" /\ ~k.served /\ k.ns = namespace /\ k.sid = j.sid /\ ~k.erred
    BY <1>1, <2>1, NextAtFields
  <2>7. Effects(x, TRUE, t, ks)
    <3>1. busy = TRUE
      BY <1>1, PaidTypes
    <3> QED BY <2>5, <3>1
  <2>8. selected' = x /\ busy'
    BY <2>7 DEF Effects
  <2>9. k \in jobs' /\ \A i \in jobs' : i.of # "show" => i = k
    <3>1. IsFiniteSet(ks)
      BY <2>2, FS_Singleton
    <3>2. \A i \in jobs' : i \in ks
      BY <2>7, <3>1, EffectsJobs
    <3>3. \A i \in ks : i.of # "show" => i \in jobs'
      BY <2>7, <3>1, EffectsJobs
    <3> QED BY <2>2, <2>6, <3>2, <3>3
  <2>10. j.ids = SessionsOf(namespace) /\ j.sid \in SessionsOf(namespace)
    BY <1>1, <2>5 DEF Stage, Before
  <2>11. InList' /\ k.sid \in SessionsOf(namespace)' /\ k.sid = selected'
    <3>1. SessionsOf(namespace)' = SessionsOf(namespace)
      BY <1>5, <2>5
    <3> QED BY <2>3, <2>5, <2>6, <2>8, <2>10, <3>1 DEF InList
  <2>12. ReadsTrue(jobs)'
    <3>1. ReadsTrue(ks)
      BY <2>2, <2>6 DEF ReadsTrue
    <3> QED BY <2>5, <2>7, <3>1, EffectsTrue
  <2>13. Stage(k)'
    BY <2>5, <2>6, <2>8, <2>11 DEF Stage, Before
  <2> QED BY <2>6, <2>9, <2>12, <2>13, OneErrand
<1>8. ASSUME EventArrives(j) PROVE WaitsItOut'
  <2>1. UNCHANGED <<namespace, store, listed, selected, busy, jobs>> /\ j.at = "stream" /\ ~Before(j)
    BY <1>8 DEF EventArrives, Answered, Before
  <2>2. InList' /\ j.sid = selected' /\ j.sid \in SessionsOf(namespace)'
    BY <1>1, <2>1 DEF Stage, InList, SessionsOf
  <2>3. Stage(j)'
    BY <1>1, <2>1, <2>2 DEF Stage
  <2>4. ReadsTrue(jobs)'
    BY <1>1, <2>1 DEF ReadsTrue
  <2> QED BY <1>1, <2>1, <2>3, <2>4, OneErrand
<1>9. ASSUME StreamDone(j) PROVE WaitsItOut'
  <2>1. j.at = "stream" /\ j.served /\ ~Before(j) /\ UNCHANGED <<namespace, listed, selected, busy>>
    BY <1>9 DEF StreamDone, Answered, Before
  <2>2. j.sid \in SessionIds /\ store[j.sid].phase = "live"
    BY <1>1, <2>1 DEF Stage, SessionsOf
  <2>3. PICK e : /\ e \in IF store[j.sid].phase # "live" THEN {TRUE} ELSE {FALSE, Misses}
                 /\ jobs' = Replace(j, GoesTo(j, "get", e))
                 /\ ~e => store' = [store EXCEPT ![j.sid].count = @ + 1]
    BY <1>9 DEF StreamDone, GoesTo
  <2>4. e \in BOOLEAN /\ ~e
    <3>1. Misses = FALSE
      BY DEF Misses
    <3> QED BY <2>2, <2>3, <3>1
  <2>9. PICK k : k = GoesTo(j, "get", e)
    OBVIOUS
  <2>5. k.of = j.of /\ k.at = "get" /\ ~k.served /\ k.ns = j.ns /\ k.sid = j.sid /\ ~k.erred
    BY <2>4, <2>9, GoesToFields
  <2>6. \A s \in SessionIds : store'[s].phase = store[s].phase /\ store'[s].ns = store[s].ns
    BY <2>2, <2>3, <2>4, PaidTypes DEF StoreType
  <2>7. \A ns : SessionsOf(ns)' = SessionsOf(ns)
    BY <2>6, SameSessions
  <2>8. jobs' = Replace(j, k)
    BY <2>3, <2>9
  <2> QED BY <1>6, <2>1, <2>5, <2>7, <2>8
<1>10. ASSUME RunRead(j) PROVE WaitsItOut'
  <2>1. PICK k : k = NextAt(j, "relist")
    OBVIOUS
  <2>2. j.at = "get" /\ j.served /\ ~Before(j) /\ UNCHANGED <<namespace, store, listed, selected, busy>> /\ jobs' = Replace(j, k)
    BY <1>10, <2>1 DEF RunRead, Answered, Before, NextAt
  <2>3. k.of = j.of /\ k.at = "relist" /\ ~k.served /\ k.ns = j.ns /\ k.sid = j.sid /\ ~k.erred
    BY <1>1, <2>1, NextAtFields
  <2>4. \A ns : SessionsOf(ns)' = SessionsOf(ns)
    BY <1>5, <2>2
  <2> QED BY <1>6, <2>2, <2>3, <2>4
<1>11. ASSUME RunListed(j) PROVE WaitsItOut'
  <2>1. PICK x : x = j.sid
    OBVIOUS
  <2>2. /\ j.at = "relist" /\ j.served /\ listed' = j.ids /\ UNCHANGED <<namespace, store>>
        /\ Effects(x, FALSE, trace, js)
    BY <1>2, <1>11, <2>1 DEF RunListed, Answered, Finally
  <2>3. j.ids = SessionsOf(namespace) /\ x \in SessionsOf(namespace)
    BY <1>1, <2>1, <2>2 DEF Stage, Before
  <2>4. selected' = x /\ ~busy'
    BY <2>2 DEF Effects
  <2>5. InList'
    <3>1. SessionsOf(namespace)' = SessionsOf(namespace)
      BY <1>5, <2>2
    <3> QED BY <2>2, <2>3, <2>4, <3>1 DEF InList
  <2>6. Righted'
    BY <1>1, <2>2, EffectsRighted
  <2>7. ReadsTrue(jobs)'
    <3>1. ReadsTrue(js)
      BY <1>3 DEF ReadsTrue
    <3> QED BY <2>2, <3>1, EffectsTrue
  <2>8. \A i \in jobs' : i.of = "show"
    <3>1. IsFiniteSet(js)
      BY <1>3, FS_EmptySet
    <3>2. PICK show : show = NewJob(0, "show", "get", x)
      OBVIOUS
    <3>3. \A i \in jobs' : i \in js \/ i = show
      BY <2>2, <3>1, <3>2, EffectsJobs
    <3>4. show.of = "show"
      BY <3>2, ShowFields
    <3> QED BY <1>3, <3>3, <3>4
  <2> QED BY <2>4, <2>5, <2>6, <2>7, <2>8, NoErrand
<1>12. ASSUME RunStopped(j) PROVE WaitsItOut'
  BY <1>1, <1>12 DEF RunStopped
<1> QED BY <1>7, <1>8, <1>9, <1>10, <1>11, <1>12

\* An errand of a user who waits fails only where no session can be created.
LEMMA FailWaits ==
  ASSUME Paid, ReadsSelected, WaitsItOut, ~Misses, NEW j \in jobs, j.of # "show", JobFails(j)
  PROVE  WaitsItOut'
<1>1. Stage(j) /\ (\A i \in jobs \ {j} : i.of = "show") /\ Refused(j) /\ UNCHANGED <<namespace, store, listed>>
  BY TheErrand DEF JobFails
<1>2. PICK js : js = jobs \ {j}
  OBVIOUS
<1>3. Formed(j) /\ ~j.served
  BY <1>1, JobFields DEF Refused
<1>4. j.at = "create" /\ j.of \in {"new", "run"}
  <2>1. CASE j.of = "remove"
    <3>1. j.at = "delete" /\ store[j.sid].phase # "live"
      BY <1>1, <1>3, <2>1 DEF Refused, Formed
    <3>2. InList /\ j.sid = selected /\ selected # 0
      BY <1>1, <1>3, <2>1, <3>1, PaidTypes DEF Stage, Before, Formed, SessionIds
    <3> QED BY <3>1, <3>2, ListedSession
  <2>2. CASE j.of = "run" /\ j.at # "create"
    <3>1. store[j.sid].phase # "live" /\ ~Before(j)
      BY <1>1, <1>3, <2>2 DEF Refused, Formed, Before
    <3>2. j.sid \in SessionsOf(namespace)
      BY <1>1, <2>2, <3>1 DEF Stage
    <3> QED BY <3>1, <3>2 DEF SessionsOf
  <2> QED BY <1>1, <1>3, <2>1, <2>2 DEF Refused, Formed
<1>5. InList /\ Righted
  BY <1>1, <1>3, <1>4 DEF Stage, Before
<1>6. IsFiniteSet(js) /\ (\A i \in js : i.of = "show") /\ ReadsTrue(js)
  BY <1>1, <1>2, FS_RemoveElement DEF Paid, WellFormed, WaitsItOut, ReadsTrue
<1>7. CASE j.of = "new"
  <2>1. jobs' = js /\ UNCHANGED <<selected, trace, busy>> /\ ~busy
    BY <1>1, <1>2, <1>7 DEF JobFails, Stage
  <2>2. InList'
    BY <1>1, <1>5, <2>1 DEF InList, SessionsOf
  <2>3. Righted'
    <3>1. Right => Right'
      BY <1>1, <2>1 DEF Right
    <3> QED BY <1>2, <1>5, <1>7, <2>1, <3>1 DEF Righted
  <2>4. ReadsTrue(jobs)'
    BY <1>1, <1>6, <2>1 DEF ReadsTrue
  <2> QED BY <1>6, <2>1, <2>2, <2>3, <2>4, NoErrand
<1>8. CASE j.of = "run"
  <2>1. selected = 0 /\ busy
    BY <1>1, <1>3, <1>4, <1>8 DEF Stage, Before
  <2>2. PICK x : x = selected
    OBVIOUS
  <2>3. Effects(x, FALSE, trace, js)
    BY <1>2, <1>8, <2>2 DEF JobFails, Finally
  <2>4. selected' = x /\ ~busy'
    BY <2>3 DEF Effects
  <2>5. InList'
    BY <1>1, <1>5, <2>2, <2>4 DEF InList, SessionsOf
  <2>6. Righted'
    BY <2>1, <2>3, EffectsRighted
  <2>7. ReadsTrue(jobs)'
    BY <1>1, <1>6, <2>3, EffectsTrue
  <2>8. \A i \in jobs' : i.of = "show"
    <3>1. PICK show : show = NewJob(0, "show", "get", x)
      OBVIOUS
    <3>2. \A i \in jobs' : i \in js \/ i = show
      BY <1>6, <2>3, <3>1, EffectsJobs
    <3>3. show.of = "show"
      BY <3>1, ShowFields
    <3> QED BY <1>6, <3>2, <3>3
  <2> QED BY <2>4, <2>5, <2>6, <2>7, <2>8, NoErrand
<1> QED BY <1>4, <1>7, <1>8

LEMMA NextWaits ==
  ASSUME Paid, ReadsSelected, WaitsItOut, Waits, ~Misses, [AgentNext]_agentVars
  PROVE  WaitsItOut'
<1>1. ASSUME UNCHANGED agentVars PROVE WaitsItOut'
  <2>1. UNCHANGED <<namespace, store, listed, selected, trace, busy, jobs>>
    BY <1>1 DEF agentVars
  <2>2. \A ns : SessionsOf(ns)' = SessionsOf(ns)
    BY <2>1 DEF SessionsOf
  <2>3. (InList <=> InList') /\ (Right <=> Right') /\ (Gone(selected) <=> Gone(selected)')
    BY <2>1, <2>2 DEF InList, Right, Gone
  <2>4. Righted <=> Righted'
    BY <2>1, <2>3 DEF Righted
  <2>5. \A j \in jobs : Stage(j) => Stage(j)'
    BY <2>1, <2>2, <2>3, <2>4 DEF Stage
  <2>6. ReadsTrue(jobs) => ReadsTrue(jobs)'
    BY <2>1 DEF ReadsTrue
  <2> QED BY <2>1, <2>3, <2>4, <2>5, <2>6 DEF WaitsItOut
<1>2. ASSUME NEW j \in jobs,
             \/ Handle(j) \/ ListAnswered(j) \/ ShowAnswered(j) \/ ChangeAnswered(j) \/ RunStarts(j)
             \/ EventArrives(j) \/ StreamDone(j) \/ RunRead(j) \/ RunListed(j) \/ RunStopped(j) \/ JobFails(j)
      PROVE  WaitsItOut'
  <2>1. CASE j.of = "show" /\ (Handle(j) \/ ShowAnswered(j) \/ JobFails(j))
    BY <2>1, ShowWaits
  <2>2. CASE j.of # "show" /\ (Handle(j) \/ JobFails(j))
    BY <2>2, HandleWaits, FailWaits
  <2>3. CASE ShowAnswered(j)
    BY <2>3, ShowWaits DEF ShowAnswered, Answered
  <2>4. CASE ListAnswered(j) \/ ChangeAnswered(j)
    BY <2>4, ListWaits, ChangeWaits
  <2>5. CASE RunStarts(j) \/ EventArrives(j) \/ StreamDone(j) \/ RunRead(j) \/ RunListed(j) \/ RunStopped(j)
    <3>1. j.of = "run"
      BY <2>5, JobFields DEF RunStarts, EventArrives, StreamDone, RunRead, RunListed, RunStopped, Answered, Formed
    <3> QED BY <2>5, <3>1, RunWaits
  <2> QED BY <1>2, <2>1, <2>2, <2>3, <2>4, <2>5
<1> QED BY <1>1, <1>2, ActsWait, AgentSteps

-----------------------------------------------------------------------------
\* The inductive invariant.
AgentInv ==
    /\ Paid /\ ReadsSelected
    /\ ~Misses => TraceOwed
    /\ Waits /\ ~Misses => WaitsItOut

LEMMA InitAgent == AgentInit => AgentInv
<1> SUFFICES ASSUME AgentInit PROVE AgentInv  OBVIOUS
<1>1. Paid
  BY InitPaid
<1>2. PICK k : k = NewJob(0, "visit", "list", 0)
  OBVIOUS
<1>3. k.of = "visit" /\ k.at = "list" /\ ~k.served /\ k.ns = namespace
  BY <1>2 DEF NewJob
<1>4. jobs = {k} /\ ~busy /\ selected = 0 /\ trace = NoSteps
  BY <1>2 DEF AgentInit
<1>5. ReadsSelected
  BY <1>3, <1>4 DEF ReadsSelected, ReadsOnly
<1>6. TraceOwed
  BY <1>4 DEF TraceOwed, NoSteps
<1>7. Stage(k)
  BY <1>3, <1>4 DEF Stage, Before, Right
<1>8. WaitsItOut
  BY <1>3, <1>4, <1>7 DEF WaitsItOut, ReadsTrue
<1> QED BY <1>1, <1>5, <1>6, <1>8 DEF AgentInv

LEMMA NextAgent == AgentInv /\ [AgentNext]_agentVars => AgentInv'
<1> SUFFICES ASSUME AgentInv, [AgentNext]_agentVars PROVE AgentInv'  OBVIOUS
<1>1. agentWorld' = agentWorld
  BY DEF AgentNext, AnswerJob, agentVars, SwitchNamespace, PickSession, RemoveSession, NewSession, RefreshSessions, ClearTrace, Run,
         StopRun, Act, Handle, ListAnswered, ShowAnswered, ChangeAnswered, RunStarts, EventArrives, StreamDone, RunRead, RunListed,
         RunStopped, JobFails
<1>2. (Waits <=> Waits') /\ (Misses <=> Misses')
  BY <1>1 DEF Waits, Misses
<1>3. Paid' /\ ReadsSelected'
  BY NextPaid, NextReads DEF AgentInv
<1>4. ASSUME ~Misses PROVE TraceOwed'
  BY <1>4, NextOwed DEF AgentInv
<1>5. ASSUME Waits, ~Misses PROVE WaitsItOut'
  BY <1>5, NextWaits DEF AgentInv
<1> QED BY <1>2, <1>3, <1>4, <1>5 DEF AgentInv

\* List, selection and trace of the agent's page agree with each other and
\* with the store (refreshSessions, the effect of the selection, runPrompt),
\* whatever the user does while whatever is under way.
THEOREM AgentPageAgrees == AgentSpec => []AgentPageInv
<1>1. AgentInv => AgentPageInv
  <2> SUFFICES ASSUME AgentInv PROVE AgentPageInv  OBVIOUS
  <2>1. AgentTypeOK
    BY DEF AgentInv, Paid
  <2>2. TraceBelongs
    <3> SUFFICES ASSUME jobs = {}, ~Misses, NEW s \in trace.of, s # selected
                 PROVE  "gone" \in {store[x].phase : x \in {s, selected} \ {0}}
      BY DEF TraceBelongs
    <3>1. s # 0
      BY PaidTypes DEF AgentInv, TraceType, SessionIds
    <3>2. (selected # 0 /\ Gone(selected)) \/ Gone(s)
      BY DEF AgentInv, TraceOwed, RunOf, ReadsSelected
    <3> QED BY <3>1, <3>2 DEF Gone
  <2>3. AgentShowsSelected
    BY DEF AgentShowsSelected, AgentInv, WaitsItOut, InList, Righted, Right
  <2> QED BY <2>1, <2>2, <2>3 DEF AgentPageInv
<1> QED BY <1>1, InitAgent, NextAgent, PTL DEF AgentSpec

=============================================================================
