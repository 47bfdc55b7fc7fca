-------------------------- MODULE GitLabLFSProofs --------------------------
(* Proofs about GitLabLFS, for any number of uploads at once, whichever of  *)
(* their requests fail.                                                     *)
EXTENDS GitLabLFSTurns, TLAPS

\* A call knows what it uploads, and past the transfer its content is stored;
\* it has not answered yet.
Sent(k) ==
    k.at # "idle" =>
        /\ k.answer = "none"
        /\ k.path \in Paths
        /\ k.file \in File
        /\ k.at \notin {"batch", "object"} /\ k.file.kind = "pointer" => k.file.blob \in store

\* The inductive invariant.
IInv == TypeOK /\ PointersResolve /\ \A c \in Calls : Sent(calls[c])

-----------------------------------------------------------------------------

\* A line more has one pattern more.
LEMMA AppendRange ==
    ASSUME NEW S, NEW s \in Seq(S), NEW x \in S
    PROVE  Append(s, x) \in Seq(S) /\ Range(Append(s, x)) = Range(s) \cup {x}
<1>1. /\ Append(s, x) \in Seq(S) /\ DOMAIN s = 1..Len(s) /\ Len(s) \in Nat
      /\ DOMAIN Append(s, x) = 1 .. Len(s) + 1
      /\ \A i \in 1..Len(s) : Append(s, x)[i] = s[i]
      /\ Append(s, x)[Len(s) + 1] = x
  OBVIOUS
<1> PICK t : t = Append(s, x)
  OBVIOUS
<1> PICK n : n = Len(s)
  OBVIOUS
<1>2. 1 .. n + 1 = (1..n) \cup {n + 1}
  BY <1>1
<1>3. DOMAIN t = DOMAIN s \cup {n + 1} /\ (\A i \in DOMAIN s : t[i] = s[i]) /\ t[n + 1] = x
  BY <1>1, <1>2
<1>4. Range(t) = Range(s) \cup {x}
  BY <1>3 DEF Range
<1> QED BY <1>1, <1>4

\* The first lines of a file are a file, and all of them are the file.
LEMMA FirstLines ==
    ASSUME NEW S, NEW s \in Seq(S), NEW n \in 0..Len(s)
    PROVE  SubSeq(s, 1, n) \in Seq(S) /\ (n = Len(s) => SubSeq(s, 1, n) = s)
<1>1. SubSeq(s, 1, n) \in Seq(S)
  OBVIOUS
<1>2. ASSUME n = Len(s) PROVE SubSeq(s, 1, n) = s
  <2>1. Len(SubSeq(s, 1, n)) = Len(s)
    BY <1>2
  <2>2. \A i \in 1..Len(s) : SubSeq(s, 1, n)[i] = s[i]
    BY <1>2
  <2> QED BY <1>1, <2>1, <2>2
<1> QED BY <1>1, <1>2

LEMMA FirstRange ==
    ASSUME NEW S, NEW s \in Seq(S), NEW n \in 0..Len(s)
    PROVE  Range(SubSeq(s, 1, n)) \subseteq Range(s)
<1> PICK t : t = SubSeq(s, 1, n)
  OBVIOUS
<1>1. DOMAIN t = 1..n /\ (\A i \in 1..n : t[i] = s[i]) /\ DOMAIN s = 1..Len(s)
  OBVIOUS
<1>2. \A i \in DOMAIN t : i \in DOMAIN s /\ t[i] = s[i]
  BY <1>1
<1> QED BY <1>2 DEF Range

LEMMA EmptyFile == \A S : <<>> \in Seq(S)
OBVIOUS

LEMMA IdleTypes ==
    ASSUME NEW answer \in {"none", "ok", "error"}
    PROVE  Idle(answer) \in Call /\ Idle(answer).at = "idle"
<1> QED BY EmptyFile DEF Idle, Call

LEMMA InitIInv == Init => IInv
<1> SUFFICES ASSUME Init PROVE IInv
  OBVIOUS
<1>1. TypeOK
  <2>1. files \in [Paths -> File \cup {None}] /\ store \in SUBSET Blobs
    BY DEF Init
  <2>2. calls \in [Calls -> Call]
    BY IdleTypes DEF Init
  <2>3. attrs \in Seq(Patterns) \cup {None}
    <3>1. ASSUME NEW n \in 0 .. Limit + 1, NEW q \in [1..n -> Globs]
          PROVE  q \in Seq(Patterns)
      <4>1. n \in Nat /\ q \in [1..n -> Patterns]
        BY <3>1, LFSAssumption DEF Patterns
      <4> QED BY <4>1
    <3> QED BY <3>1 DEF Init
  <2> QED BY <2>1, <2>2, <2>3 DEF TypeOK
<1>2. PointersResolve
  BY DEF Init, PointersResolve
<1>3. \A c \in Calls : Sent(calls[c])
  BY IdleTypes DEF Init, Sent
<1> QED BY <1>1, <1>2, <1>3 DEF IInv

\* A call that moves on, or returns, keeps what it knows.
LEMMA GotoKeeps ==
    ASSUME IInv, NEW c \in Calls, calls[c].at # "idle",
           NEW at \in Requests, Goto(c, at),
           store \subseteq store',
           at \notin {"batch", "object"} /\ calls[c].at \in {"batch", "object"}
               => calls[c].file.blob \in store'
    PROVE  calls' \in [Calls -> Call] /\ \A d \in Calls : Sent(calls[d])'
<1> DEFINE k == [calls[c] EXCEPT !.at = at]
<1>1. calls[c] \in Call
  BY DEF IInv, TypeOK
<1>2. k \in Call /\ k.at = at /\ k.path = calls[c].path /\ k.file = calls[c].file
                /\ k.answer = calls[c].answer
  BY <1>1 DEF Call
<1>3. calls' = [calls EXCEPT ![c] = k]
  BY DEF Goto
<1> HIDE DEF k
<1>4. calls'[c] = k /\ \A d \in Calls \ {c} : calls'[d] = calls[d]
  BY <1>3 DEF IInv, TypeOK
<1>5. Sent(calls[c])'
  BY <1>2, <1>4 DEF IInv, Sent
<1>6. \A d \in Calls \ {c} : Sent(calls[d])'
  BY <1>4 DEF IInv, Sent
<1> QED BY <1>2, <1>3, <1>5, <1>6 DEF IInv, TypeOK

LEMMA ReturnKeeps ==
    ASSUME IInv, NEW c \in Calls, NEW what \in {"ok", "error"}, Return(c, what),
           store \subseteq store'
    PROVE  calls' \in [Calls -> Call] /\ \A d \in Calls : Sent(calls[d])'
<1>1. calls' \in [Calls -> Call]
  BY IdleTypes DEF Return, IInv, TypeOK
<1>2. calls'[c].at = "idle" /\ \A d \in Calls \ {c} : calls'[d] = calls[d]
  BY IdleTypes DEF Return, IInv, TypeOK
<1> QED BY <1>1, <1>2 DEF IInv, Sent

\* Committing the file of a call whose content is stored.
LEMMA CommitKeeps ==
    ASSUME IInv, NEW c \in Calls, calls[c].at \in {"post", "put"},
           files' = [files EXCEPT ![calls[c].path] = calls[c].file],
           store' = store
    PROVE  files' \in [Paths -> File \cup {None}] /\ PointersResolve'
<1>1. calls[c].path \in Paths /\ calls[c].file \in File
  BY DEF IInv, Sent
<1>2. calls[c].file.kind = "pointer" => calls[c].file.blob \in store
  BY DEF IInv, Sent
<1>3. files' \in [Paths -> File \cup {None}]
  BY <1>1 DEF IInv, TypeOK
<1>4. \A p \in Paths : files'[p] = IF p = calls[c].path THEN calls[c].file ELSE files[p]
  BY <1>1 DEF IInv, TypeOK
<1> QED BY <1>2, <1>3, <1>4 DEF IInv, PointersResolve

LEMMA UpdatedTypes ==
    ASSUME IInv, NEW c \in Calls, calls[c].at \in {"postAttrs", "putAttrs"}
    PROVE  /\ Updated(c) \in Seq(Patterns)
           /\ Range(Updated(c)) = Range(calls[c].read) \cup {calls[c].path}
<1>1. calls[c].read \in Seq(Patterns) /\ calls[c].path \in Patterns
  BY DEF IInv, TypeOK, Sent, Call, Patterns
<1> QED BY <1>1, AppendRange DEF Updated

-----------------------------------------------------------------------------

LEMMA NextIInv == IInv /\ [Next]_vars => IInv'
<1> SUFFICES ASSUME IInv, [Next]_vars PROVE IInv'
  OBVIOUS
<1>0. TypeOK /\ PointersResolve /\ \A d \in Calls : Sent(calls[d])
  BY DEF IInv
<1>1. ASSUME NEW c \in Calls, NEW p \in Paths, NEW b \in Blobs, NEW lfs \in BOOLEAN,
             GitLabUpload(c, p, b, lfs)
      PROVE  IInv'
  <2> DEFINE f == [kind |-> IF lfs THEN "pointer" ELSE "plain", blob |-> b]
             k == [at |-> IF lfs THEN "batch" ELSE "post", path |-> p, file |-> f,
                   read |-> <<>>, answer |-> "none"]
  <2>1. f \in File /\ f.kind = IF lfs THEN "pointer" ELSE "plain"
    BY DEF File
  <2> HIDE DEF f
  <2>2. k \in Call /\ k.path = p /\ k.file = f /\ k.answer = "none"
                  /\ k.at = IF lfs THEN "batch" ELSE "post"
    BY <2>1, EmptyFile DEF Call, Requests
  <2>3. calls' = [calls EXCEPT ![c] = k]
    BY <1>1 DEF GitLabUpload, f
  <2> HIDE DEF k
  <2>4. calls' \in [Calls -> Call] /\ calls'[c] = k
                                   /\ \A d \in Calls \ {c} : calls'[d] = calls[d]
    BY <1>0, <2>2, <2>3 DEF TypeOK
  <2>5. UNCHANGED <<files, attrs, store>>
    BY <1>1 DEF GitLabUpload
  <2>6. TypeOK' /\ PointersResolve'
    BY <1>0, <2>4, <2>5 DEF TypeOK, PointersResolve
  <2>7. Sent(calls[c])'
    BY <2>1, <2>2, <2>4 DEF Sent
  <2>8. \A d \in Calls \ {c} : Sent(calls[d])'
    BY <1>0, <2>4, <2>5 DEF Sent
  <2> QED BY <2>6, <2>7, <2>8 DEF IInv
<1>2. ASSUME NEW c \in Calls, Batch(c) PROVE IInv'
  <2>1. calls[c].at = "batch" /\ UNCHANGED <<files, attrs, store>>
    BY <1>2 DEF Batch
  <2>2. \/ Goto(c, "post") /\ calls[c].file.blob \in store
        \/ Goto(c, "object")
    BY <1>2 DEF Batch
  <2>3. calls' \in [Calls -> Call] /\ \A d \in Calls : Sent(calls[d])'
    BY <2>1, <2>2, GotoKeeps DEF Requests
  <2> QED BY <1>0, <2>1, <2>3 DEF IInv, TypeOK, PointersResolve
<1>3. ASSUME NEW c \in Calls, UploadObject(c) PROVE IInv'
  <2>1. calls[c].at = "object" /\ UNCHANGED <<files, attrs>>
                               /\ store' = store \cup {calls[c].file.blob}
    BY <1>3 DEF UploadObject
  <2>2. calls[c].file.blob \in Blobs
    BY <1>0, <2>1 DEF Sent, File
  <2>3. Goto(c, "post") \/ Return(c, "error")
    BY <1>3 DEF UploadObject, FailedAnyway
  <2>4. calls' \in [Calls -> Call] /\ \A d \in Calls : Sent(calls[d])'
    BY <2>1, <2>3, GotoKeeps, ReturnKeeps DEF Requests
  <2>5. TypeOK'
    BY <1>0, <2>1, <2>2, <2>4 DEF TypeOK
  <2>6. PointersResolve'
    BY <1>0, <2>1 DEF PointersResolve
  <2> QED BY <2>4, <2>5, <2>6 DEF IInv
<1>4. ASSUME NEW c \in Calls, PostFile(c) \/ PutFile(c) PROVE IInv'
  <2>1. calls[c].at \in {"post", "put"} /\ UNCHANGED <<attrs, store>>
    BY <1>4 DEF PostFile, PutFile
  <2>2. \/ Goto(c, "put") \/ Goto(c, "readAttrs") \/ Return(c, "ok") \/ Return(c, "error")
    BY <1>4 DEF PostFile, PutFile, Committed, FailedAnyway
  <2>3. calls' \in [Calls -> Call] /\ \A d \in Calls : Sent(calls[d])'
    BY <2>1, <2>2, GotoKeeps, ReturnKeeps DEF Requests
  <2>4. files' \in [Paths -> File \cup {None}] /\ PointersResolve'
    <3>1. CASE files' = files
      BY <1>0, <2>1, <3>1 DEF TypeOK, PointersResolve
    <3>2. CASE files' = [files EXCEPT ![calls[c].path] = calls[c].file]
      BY <2>1, <3>2, CommitKeeps
    <3> QED BY <1>4, <3>1, <3>2 DEF PostFile, PutFile
  <2> QED BY <1>0, <2>1, <2>3, <2>4 DEF IInv, TypeOK
<1>5. ASSUME NEW c \in Calls, ReadAttrs(c) PROVE IInv'
  <2>1. calls[c].at = "readAttrs" /\ UNCHANGED <<files, attrs, store>>
    BY <1>5 DEF ReadAttrs
  <2>2. calls' \in [Calls -> Call] /\ \A d \in Calls : Sent(calls[d])'
    <3>1. CASE Return(c, "ok") \/ Goto(c, "postAttrs")
      BY <2>1, <3>1, GotoKeeps, ReturnKeeps DEF Requests
    <3>2. ASSUME NEW r \in Seq(Patterns),
                 calls' = [calls EXCEPT ![c] = [@ EXCEPT !.at = "postAttrs", !.read = r]]
          PROVE  calls' \in [Calls -> Call] /\ \A d \in Calls : Sent(calls[d])'
      <4> DEFINE k == [calls[c] EXCEPT !.at = "postAttrs", !.read = r]
      <4>1. calls[c] \in Call
        BY <1>0 DEF TypeOK
      <4>2. k \in Call /\ k.at = "postAttrs" /\ k.path = calls[c].path /\ k.file = calls[c].file
                      /\ k.answer = calls[c].answer
        BY <4>1 DEF Call, Requests
      <4>3. calls' = [calls EXCEPT ![c] = k]
        BY <3>2
      <4> HIDE DEF k
      <4>4. calls' \in [Calls -> Call] /\ calls'[c] = k
                                       /\ \A d \in Calls \ {c} : calls'[d] = calls[d]
        BY <1>0, <4>2, <4>3 DEF TypeOK
      <4>5. Sent(calls[c])'
        BY <1>0, <2>1, <4>2, <4>4 DEF Sent
      <4> QED BY <1>0, <2>1, <4>4, <4>5 DEF Sent
    <3>3. ASSUME attrs # None, NEW n \in LinesRead PROVE SubSeq(attrs, 1, n) \in Seq(Patterns)
      BY <1>0, <3>3, FirstLines DEF TypeOK, LinesRead
    <3> QED BY <1>5, <3>1, <3>2, <3>3 DEF ReadAttrs
  <2> QED BY <1>0, <2>1, <2>2 DEF IInv, TypeOK, PointersResolve
<1>6. ASSUME NEW c \in Calls, PostAttrs(c) \/ PutAttrs(c) PROVE IInv'
  <2>1. calls[c].at \in {"postAttrs", "putAttrs"} /\ UNCHANGED <<files, store>>
    BY <1>6 DEF PostAttrs, PutAttrs
  <2>2. attrs' \in {attrs, Updated(c)}
    BY <1>6 DEF PostAttrs, PutAttrs
  <2>3. Goto(c, "putAttrs") \/ Return(c, "ok") \/ Return(c, "error")
    BY <1>6 DEF PostAttrs, PutAttrs, FailedAnyway
  <2>4. calls' \in [Calls -> Call] /\ \A d \in Calls : Sent(calls[d])'
    BY <2>1, <2>3, GotoKeeps, ReturnKeeps DEF Requests
  <2>5. attrs' \in Seq(Patterns) \cup {None}
    BY <1>0, <2>1, <2>2, UpdatedTypes DEF TypeOK
  <2> QED BY <1>0, <2>1, <2>4, <2>5 DEF IInv, TypeOK, PointersResolve
<1>7. ASSUME NEW c \in Calls, Fail(c) PROVE IInv'
  <2>1. Return(c, "error") /\ UNCHANGED <<files, attrs, store>>
    BY <1>7 DEF Fail
  <2>2. calls' \in [Calls -> Call] /\ \A d \in Calls : Sent(calls[d])'
    BY <2>1, ReturnKeeps
  <2> QED BY <1>0, <2>1, <2>2 DEF IInv, TypeOK, PointersResolve
<1>8. CASE UNCHANGED vars
  BY <1>0, <1>8 DEF vars, IInv, TypeOK, PointersResolve, Sent
<1> QED BY <1>1, <1>2, <1>3, <1>4, <1>5, <1>6, <1>7, <1>8 DEF Next

LEMMA Invariance == Spec => []IInv
  BY InitIInv, NextIInv, PTL DEF Spec

-----------------------------------------------------------------------------

\* The branch, .gitattributes, the LFS store and the calls keep their types.
THEOREM TypeCorrect == Spec => []TypeOK
<1>1. IInv => TypeOK
  BY DEF IInv
<1> QED BY <1>1, Invariance, PTL

\* GitLabUpload sends the bytes before it commits their pointer: however many
\* uploads overlap and whichever requests fail, GitLabDownload returns what was
\* uploaded, but for empty files marked as LFS.
THEOREM UploadsCanBeDownloaded == Spec => []FilesDownload
<1>1. IInv => FilesDownload
  <2> SUFFICES ASSUME IInv, NEW p \in Paths, files[p] # None,
                      files[p] # [kind |-> "pointer", blob |-> Empty]
               PROVE  Download(p) = files[p].blob
    BY DEF FilesDownload
  <2>1. files[p] \in File
    BY DEF IInv, TypeOK
  <2>2. files[p].kind = "pointer" => files[p].blob \in store \ {Empty}
    BY <2>1 DEF IInv, PointersResolve, File
  <2> QED BY <2>1, <2>2 DEF Download, File
<1> QED BY <1>1, Invariance, PTL

\* A step of one call leaves the answers of the others alone.
LEMMA OneAnswers ==
    ASSUME TypeOK, NEW c \in Calls, NEW d \in Calls, d # c,
           \/ \E p \in Paths, b \in Blobs, lfs \in BOOLEAN : GitLabUpload(d, p, b, lfs)
           \/ Batch(d) \/ UploadObject(d) \/ PostFile(d) \/ PutFile(d)
           \/ ReadAttrs(d) \/ PostAttrs(d) \/ PutAttrs(d) \/ Fail(d)
    PROVE  calls'[c] = calls[c]
<1>1. \E k : calls' = [calls EXCEPT ![d] = k]
  BY DEF GitLabUpload, Batch, UploadObject, PostFile, PutFile, ReadAttrs, PostAttrs,
         PutAttrs, Fail, Committed, FailedAnyway, Goto, Return
<1> QED BY <1>1 DEF TypeOK

\* Moving on is not answering.
LEMMA GotoSilent ==
    ASSUME IInv, NEW c \in Calls, calls[c].at # "idle", NEW at, Goto(c, at)
    PROVE  calls'[c].answer = "none"
BY DEF IInv, TypeOK, Sent, Goto, Call

\* GitLabUpload patches .gitattributes: an LFS upload answers ok only in a step
\* after which its path is there, whatever the other uploads have done.
THEOREM OkMeansMarked == Spec => UploadMarks
<1>0. None \notin Seq(Patterns)
  BY LFSAssumption
<1>1. ASSUME IInv, [Next]_vars, NEW c \in Calls, calls[c].at # "idle",
             calls[c].file.kind = "pointer", calls'[c].answer = "ok"
      PROVE  attrs' # None /\ calls[c].path \in Range(attrs')
  <2>1. calls[c].answer = "none" /\ TypeOK
    BY <1>1 DEF IInv, Sent
  <2>2. PICK d \in Calls :
            \/ \E p \in Paths, b \in Blobs, lfs \in BOOLEAN : GitLabUpload(d, p, b, lfs)
            \/ Batch(d) \/ UploadObject(d) \/ PostFile(d) \/ PutFile(d)
            \/ ReadAttrs(d) \/ PostAttrs(d) \/ PutAttrs(d) \/ Fail(d)
    BY <1>1, <2>1 DEF Next, vars
  <2>3. d = c
    BY <1>1, <2>1, <2>2, OneAnswers
  <2>4. \A p \in Paths, b \in Blobs, lfs \in BOOLEAN : ~GitLabUpload(c, p, b, lfs)
    BY <1>1 DEF GitLabUpload
  <2>5. ASSUME NEW r, calls' = [calls EXCEPT ![c] = [@ EXCEPT !.at = "postAttrs", !.read = r]]
        PROVE  FALSE
    BY <1>1, <2>1, <2>5 DEF TypeOK, Call
  <2>6. \A at : ~Goto(c, at)
    BY <1>1, GotoSilent
  <2>7. ~Return(c, "error")
    BY <1>1, <2>1 DEF Return, Idle, TypeOK
  <2>8. \/ ReadAttrs(c) /\ attrs # None /\ calls[c].path \in Range(attrs)
        \/ (PostAttrs(c) \/ PutAttrs(c)) /\ attrs' = Updated(c)
    <3>1. ~Batch(c) /\ ~UploadObject(c) /\ ~Fail(c)
      BY <2>6, <2>7 DEF Batch, UploadObject, Fail, FailedAnyway
    <3>2. ~PostFile(c) /\ ~PutFile(c)
      BY <1>1, <2>6, <2>7 DEF PostFile, PutFile, Committed, FailedAnyway
    <3>3. ASSUME ReadAttrs(c) PROVE attrs # None /\ calls[c].path \in Range(attrs)
      <4>1. PICK n \in LinesRead : attrs # None /\ calls[c].path \in Range(SubSeq(attrs, 1, n))
        BY <2>5, <2>6, <3>3 DEF ReadAttrs
      <4>2. attrs \in Seq(Patterns) /\ n \in 0..Len(attrs)
        BY <2>1, <4>1 DEF TypeOK, LinesRead
      <4>3. Range(SubSeq(attrs, 1, n)) \subseteq Range(attrs)
        BY <4>2, FirstRange
      <4> QED BY <4>1, <4>3
    <3>4. PostAttrs(c) \/ PutAttrs(c) => attrs' = Updated(c)
      BY <2>6 DEF PostAttrs, PutAttrs
    <3> QED BY <2>2, <2>3, <2>4, <3>1, <3>2, <3>3, <3>4
  <2> QED BY <1>0, <1>1, <2>8, UpdatedTypes DEF ReadAttrs, PostAttrs, PutAttrs
<1>2. IInv /\ [Next]_vars
        => [\A c \in Calls :
              /\ calls[c].at # "idle"
              /\ calls[c].file.kind = "pointer"
              /\ calls'[c].answer = "ok"
              => attrs' # None /\ calls[c].path \in Range(attrs')]_vars
  BY <1>1
<1> QED BY <1>2, Invariance, PTL DEF Spec, UploadMarks


-----------------------------------------------------------------------------
(* Uploads in turn, whose reads of .gitattributes are not interrupted *)

\* What an upload is about to write has every pattern that is there, unless
\* there are more than it could read.
SawPatterns(c) ==
    calls[c].at \in {"postAttrs", "putAttrs"} /\ attrs # None /\ Len(attrs) <= Limit
        => Range(attrs) \subseteq Range(Updated(c))

TurnInv == inTurn => OneRuns /\ \A c \in Calls : SawPatterns(c)

\* The steps of one upload for which reads succeed.
ReadableStep(c) ==
    \/ \E p \in Paths, b \in Blobs, lfs \in BOOLEAN : Readable!GitLabUpload(c, p, b, lfs)
    \/ Readable!Batch(c) \/ Readable!UploadObject(c) \/ Readable!PostFile(c)
    \/ Readable!PutFile(c) \/ Readable!ReadAttrs(c) \/ Readable!PostAttrs(c)
    \/ Readable!PutAttrs(c) \/ Readable!Fail(c)

\* They are steps of the upload.
LEMMA ReadableNext == Readable!Next => Next
<1> SUFFICES ASSUME NEW c \in Calls, ReadableStep(c) PROVE Next
  BY DEF Readable!Next, ReadableStep
<1>1. \A at, what : /\ Readable!Goto(c, at) <=> Goto(c, at)
                    /\ Readable!Return(c, what) <=> Return(c, what)
  BY DEF Readable!Goto, Readable!Return, Readable!Idle, Goto, Return, Idle
<1>2. Readable!FailedAnyway(c) => FailedAnyway(c)
  BY <1>1 DEF Readable!FailedAnyway, FailedAnyway
<1>3. Readable!Committed(c) <=> Committed(c)
  BY <1>1 DEF Readable!Committed, Committed
<1>4. ASSUME NEW p \in Paths, NEW b \in Blobs, NEW lfs \in BOOLEAN,
             Readable!GitLabUpload(c, p, b, lfs)
      PROVE  GitLabUpload(c, p, b, lfs)
  BY <1>4 DEF Readable!GitLabUpload, GitLabUpload
<1>5. Readable!Batch(c) => Batch(c)
  BY <1>1 DEF Readable!Batch, Batch
<1>6. Readable!UploadObject(c) => UploadObject(c)
  BY <1>1, <1>2 DEF Readable!UploadObject, UploadObject
<1>7. Readable!PostFile(c) => PostFile(c)
  BY <1>1, <1>3 DEF Readable!PostFile, PostFile
<1>8. Readable!PutFile(c) => PutFile(c)
  BY <1>2, <1>3 DEF Readable!PutFile, PutFile
<1>9. Readable!ReadAttrs(c) => ReadAttrs(c)
  <2>1. Readable!LinesRead \subseteq LinesRead
    BY DEF Readable!LinesRead, LinesRead
  <2>2. \A q : Readable!Range(q) = Range(q)
    BY DEF Readable!Range, Range
  <2> QED BY <1>1, <2>1, <2>2 DEF Readable!ReadAttrs, ReadAttrs
<1>10. Readable!PostAttrs(c) => PostAttrs(c)
  BY <1>1 DEF Readable!PostAttrs, PostAttrs, Readable!Updated, Updated
<1>11. Readable!PutAttrs(c) => PutAttrs(c)
  BY <1>1, <1>2 DEF Readable!PutAttrs, PutAttrs, Readable!Updated, Updated
<1>12. Readable!Fail(c) => Fail(c)
  BY <1>1 DEF Readable!Fail, Fail
<1> QED BY <1>4, <1>5, <1>6, <1>7, <1>8, <1>9, <1>10, <1>11, <1>12 DEF ReadableStep, Next

\* What a step of the one upload that runs does to .gitattributes, and to what
\* the upload knows of it.
LEMMA ReadableKeeps ==
    ASSUME IInv, NEW c \in Calls, SawPatterns(c), ReadableStep(c)
    PROVE  /\ calls[c].at # "idle" \/ calls'[c].at # "idle"
           /\ \A d \in Calls \ {c} : calls'[d] = calls[d]
           /\ KeepsPatterns /\ SawPatterns(c)'
<1> USE DEF Readable!Goto, Readable!Return, Readable!Idle, Readable!FailedAnyway,
            Readable!Committed, Readable!Updated
<1>0. calls[c] \in Call /\ calls \in [Calls -> Call] /\ attrs \in Seq(Patterns) \cup {None}
  BY DEF IInv, TypeOK
<1>1. ASSUME NEW k, calls' = [calls EXCEPT ![c] = k], calls[c].at # "idle" \/ k.at # "idle",
             k.at \in {"postAttrs", "putAttrs"} => k.path = calls[c].path /\ k.read = calls[c].read,
             k.at \in {"postAttrs", "putAttrs"} /\ attrs' # None /\ Len(attrs') <= Limit
                 => Range(attrs') \subseteq Range(Updated(c)),
             KeepsPatterns
      PROVE  /\ calls[c].at # "idle" \/ calls'[c].at # "idle"
             /\ \A d \in Calls \ {c} : calls'[d] = calls[d]
             /\ KeepsPatterns /\ SawPatterns(c)'
  BY <1>0, <1>1 DEF SawPatterns, Updated
<1>2. attrs' = attrs => KeepsPatterns
  BY DEF KeepsPatterns
\* The upload ends.
<1>3. ASSUME NEW what, calls' = [calls EXCEPT ![c] = Idle(what)], calls[c].at # "idle",
             KeepsPatterns
      PROVE  /\ calls[c].at # "idle" \/ calls'[c].at # "idle"
             /\ \A d \in Calls \ {c} : calls'[d] = calls[d]
             /\ KeepsPatterns /\ SawPatterns(c)'
  BY <1>1, <1>3 DEF Idle
\* It goes on, past nothing but its write of .gitattributes.
<1>4. ASSUME NEW at, calls' = [calls EXCEPT ![c] = [calls[c] EXCEPT !.at = at]],
             calls[c].at # "idle",
             at \in {"postAttrs", "putAttrs"} /\ attrs' # None /\ Len(attrs') <= Limit
                 => Range(attrs') \subseteq Range(Updated(c)),
             KeepsPatterns
      PROVE  /\ calls[c].at # "idle" \/ calls'[c].at # "idle"
             /\ \A d \in Calls \ {c} : calls'[d] = calls[d]
             /\ KeepsPatterns /\ SawPatterns(c)'
  <2>1. PICK k : k = [calls[c] EXCEPT !.at = at]
    OBVIOUS
  <2>2. k.at = at /\ k.path = calls[c].path /\ k.read = calls[c].read
    BY <1>0, <2>1 DEF Call
  <2> QED BY <1>1, <1>4, <2>1, <2>2
<1>5. ASSUME NEW p \in Paths, NEW b \in Blobs, NEW lfs \in BOOLEAN,
             Readable!GitLabUpload(c, p, b, lfs)
      PROVE  /\ calls[c].at # "idle" \/ calls'[c].at # "idle"
             /\ \A d \in Calls \ {c} : calls'[d] = calls[d]
             /\ KeepsPatterns /\ SawPatterns(c)'
  <2>1. PICK k : k = [at |-> IF lfs THEN "batch" ELSE "post", path |-> p,
                      file |-> [kind |-> IF lfs THEN "pointer" ELSE "plain", blob |-> b],
                      read |-> <<>>, answer |-> "none"]
    OBVIOUS
  <2>2. k.at \in {"batch", "post"}
    BY <2>1
  <2>3. calls' = [calls EXCEPT ![c] = k] /\ attrs' = attrs
    BY <1>5, <2>1 DEF Readable!GitLabUpload
  <2> QED BY <1>1, <1>2, <2>2, <2>3
<1>6. CASE Readable!Batch(c) \/ Readable!UploadObject(c) \/ Readable!PostFile(c)
           \/ Readable!PutFile(c) \/ Readable!Fail(c)
  <2>1. calls[c].at # "idle" /\ attrs' = attrs
    BY <1>6, LFSAssumption
       DEF Readable!Batch, Readable!UploadObject, Readable!PostFile, Readable!PutFile,
           Readable!Fail, Requests
  <2>2. \/ \E what : calls' = [calls EXCEPT ![c] = Idle(what)]
        \/ \E at \in {"post", "object", "put", "readAttrs"} :
                calls' = [calls EXCEPT ![c] = [calls[c] EXCEPT !.at = at]]
    <3>1. CASE Readable!Batch(c)
      BY <3>1 DEF Readable!Batch
    <3>2. CASE Readable!UploadObject(c)
      BY <3>2 DEF Readable!UploadObject, Idle
    <3>3. CASE Readable!PostFile(c)
      BY <3>3 DEF Readable!PostFile, Idle
    <3>4. CASE Readable!PutFile(c)
      BY <3>4 DEF Readable!PutFile, Idle
    <3>5. CASE Readable!Fail(c)
      BY <3>5 DEF Readable!Fail, Idle
    <3> QED BY <1>6, <3>1, <3>2, <3>3, <3>4, <3>5
  <2> QED BY <1>2, <1>3, <1>4, <2>1, <2>2
<1>7. CASE Readable!ReadAttrs(c)
  <2>1. calls[c].at = "readAttrs" /\ attrs' = attrs
    BY <1>7 DEF Readable!ReadAttrs
  <2>2. CASE calls' = [calls EXCEPT ![c] = Idle("ok")]
    BY <1>2, <1>3, <2>1, <2>2
  <2>3. ASSUME attrs # None, NEW n \in Readable!LinesRead,
               calls' = [calls EXCEPT ![c] = [@ EXCEPT !.at = "postAttrs", !.read = SubSeq(attrs, 1, n)]]
        PROVE  /\ calls[c].at # "idle" \/ calls'[c].at # "idle"
               /\ \A d \in Calls \ {c} : calls'[d] = calls[d]
               /\ KeepsPatterns /\ SawPatterns(c)'
    <3>1. PICK r : r = SubSeq(attrs, 1, n)
      OBVIOUS
    <3>2. attrs \in Seq(Patterns) /\ n \in 0..Len(attrs) /\ Len(attrs) \in Nat
      BY <1>0, <2>3 DEF Readable!LinesRead
    <3>3. Len(attrs) <= Limit => n = Len(attrs)
      BY <2>3, <3>2, LFSAssumption DEF Readable!LinesRead
    <3>4. r \in Seq(Patterns) /\ (Len(attrs) <= Limit => r = attrs)
      BY <3>1, <3>2, <3>3, FirstLines
    <3>5. PICK k : k = [calls[c] EXCEPT !.at = "postAttrs", !.read = r]
      OBVIOUS
    <3>6. k.at = "postAttrs" /\ k.read = r /\ k.path = calls[c].path
      BY <1>0, <3>5 DEF Call
    <3>7. calls'[c] = k /\ \A d \in Calls \ {c} : calls'[d] = calls[d]
      BY <1>0, <2>3, <3>1, <3>5
    <3>8. k.path \in Patterns
      BY <2>1, <3>6 DEF IInv, Sent, Patterns
    <3>9. Range(r) \subseteq Range(Append(r, k.path))
      BY <3>4, <3>8, AppendRange
    <3>10. SawPatterns(c)'
      BY <2>1, <3>4, <3>6, <3>7, <3>9 DEF SawPatterns, Updated
    <3> QED BY <1>2, <2>1, <3>7, <3>10
  <2>4. CASE calls' = [calls EXCEPT ![c] = [@ EXCEPT !.at = "postAttrs"]] /\ attrs = None
    BY <1>2, <1>4, <2>1, <2>4
  <2> QED BY <1>7, <2>2, <2>3, <2>4 DEF Readable!ReadAttrs, Idle
<1>8. CASE Readable!PostAttrs(c) \/ Readable!PutAttrs(c)
  <2>1. calls[c].at \in {"postAttrs", "putAttrs"}
    BY <1>8 DEF Readable!PostAttrs, Readable!PutAttrs
  <2>2. \/ \E what : calls' = [calls EXCEPT ![c] = Idle(what)]
        \/ calls' = [calls EXCEPT ![c] = [calls[c] EXCEPT !.at = "putAttrs"]]
    BY <1>8 DEF Readable!PostAttrs, Readable!PutAttrs, Idle
  <2>3. \/ attrs' = Updated(c)
        \/ attrs' = attrs
    BY <1>8 DEF Readable!PostAttrs, Readable!PutAttrs, Updated
  <2>4. Updated(c) # None
    BY <2>1, UpdatedTypes, LFSAssumption
  <2>5. attrs # None /\ Len(attrs) <= Limit => Range(attrs) \subseteq Range(Updated(c))
    BY <2>1 DEF SawPatterns
  <2>6. KeepsPatterns /\ (attrs' # None /\ Len(attrs') <= Limit
                            => Range(attrs') \subseteq Range(Updated(c)))
    BY <2>3, <2>4, <2>5 DEF KeepsPatterns
  <2> QED BY <1>3, <1>4, <2>1, <2>2, <2>6
<1> QED BY <1>5, <1>6, <1>7, <1>8 DEF ReadableStep

\* Every step keeps the invariant and the patterns.
LEMMA TurnStep ==
    ASSUME IInv, TurnInv, [TurnNext]_<<vars, inTurn>>
    PROVE  IInv' /\ TurnInv' /\ (inTurn => KeepsPatterns)
<1>1. [Next]_vars
  BY ReadableNext DEF TurnNext, vars
<1>2. inTurn' = inTurn
  BY DEF TurnNext
<1>3. CASE UNCHANGED vars
  BY <1>1, <1>2, <1>3, NextIInv
     DEF vars, TurnInv, OneRuns, SawPatterns, Updated, KeepsPatterns
<1>4. CASE inTurn /\ Readable!Next /\ OneRuns'
  <2>1. PICK c \in Calls : ReadableStep(c)
    BY <1>4 DEF Readable!Next, ReadableStep
  <2>2. /\ calls[c].at # "idle" \/ calls'[c].at # "idle"
        /\ \A d \in Calls \ {c} : calls'[d] = calls[d]
        /\ KeepsPatterns /\ SawPatterns(c)'
    BY <1>4, <2>1, ReadableKeeps DEF TurnInv
  <2>3. \A d \in Calls \ {c} : calls'[d].at = "idle"
    BY <1>4, <2>2 DEF TurnInv, OneRuns
  <2>4. \A d \in Calls : SawPatterns(d)'
    BY <2>2, <2>3 DEF SawPatterns
  <2> QED BY <1>1, <1>2, <1>4, <2>2, <2>4, NextIInv DEF TurnInv
<1>5. CASE ~inTurn
  BY <1>1, <1>2, <1>5, NextIInv DEF TurnInv
<1> QED BY <1>3, <1>4, <1>5 DEF TurnNext

\* For uploads in turn whose reads get to the end of a .gitattributes of at most
\* 64 KiB, a pattern that is there stays there, whatever else fails:
\* ensureLFSPattern writes back what it read, which is all of it, and nobody
\* else has written since.
THEOREM PatternsSurviveInTurn == TurnSpec => PatternsKeptInTurn
<1>1. TurnInit => IInv /\ TurnInv
  BY InitIInv, IdleTypes DEF TurnInit, Init, TurnInv, OneRuns, SawPatterns
<1>2. TurnSpec => [](IInv /\ TurnInv)
  BY <1>1, TurnStep, PTL DEF TurnSpec
<1>3. IInv /\ TurnInv /\ [TurnNext]_<<vars, inTurn>> => [inTurn => KeepsPatterns]_vars
  BY TurnStep
<1> QED BY <1>2, <1>3, PTL DEF TurnSpec, PatternsKeptInTurn

=============================================================================
