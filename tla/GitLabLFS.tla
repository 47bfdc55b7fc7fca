----------------------------- MODULE GitLabLFS -----------------------------
(***************************************************************************)
(* Uploads of AI Storage into a branch of a GitLab project.  A file marked *)
(* as LFS goes to the LFS store; a pointer is committed in its place and   *)
(* its path is added to .gitattributes.  Each request of an upload can     *)
(* fail, carried out or not, and other uploads run in between.             *)
(* Source: backend/internal/aistorage/gitlab.go.                           *)
(***************************************************************************)
EXTENDS Naturals, Sequences, Functions

CONSTANTS
    Paths,    \* files users upload
    Globs,    \* patterns that users of git have put in .gitattributes
    Blobs,    \* contents, each its own SHA-256
    Empty,    \* the content of no bytes
    Calls,    \* bound: uploads at once
    None,     \* no file, no .gitattributes
    Limit,    \* how many lines of .gitattributes are in the 64 KiB that an
              \* upload reads of it; lines are taken to be equally long
    Failing   \* the requests that may fail

Patterns == Paths \cup Globs
Requests == {"batch", "object", "post", "put", "readAttrs", "postAttrs", "putAttrs"}

ASSUME LFSAssumption ==
    /\ Failing \subseteq Requests
    /\ None \notin Paths /\ None \notin Blobs
    /\ None \notin [kind : {"plain", "pointer"}, blob : Blobs]
    /\ None \notin Seq(Patterns)
    /\ Limit \in Nat

VARIABLES
    files,  \* the branch: path -> content
    attrs,  \* the patterns with filter=lfs in its .gitattributes, by line
    store,  \* the LFS store of the project
    calls   \* the running GitLabUpload calls

vars == <<files, attrs, store, calls>>

File == [kind : {"plain", "pointer"}, blob : Blobs]

\* at: the request the call makes next; read: .gitattributes as it read it;
\* answer: of the last call that ended, "none" while one runs.
Call == [at     : Requests \cup {"idle"},
         path   : Paths \cup {None},
         file   : File \cup {None},
         read   : Seq(Patterns),
         answer : {"none", "ok", "error"}]

TypeOK ==
    /\ files \in [Paths -> File \cup {None}]
    /\ attrs \in Seq(Patterns) \cup {None}
    /\ store \in SUBSET Blobs
    /\ calls \in [Calls -> Call]

Idle(answer) == [at |-> "idle", path |-> None, file |-> None, read |-> <<>>, answer |-> answer]

\* The branch that users of git have prepared; .gitattributes may be longer
\* than what is read of it.
Init ==
    /\ files = [p \in Paths |-> None]
    /\ \/ attrs = None
       \/ \E n \in 0 .. Limit + 1 : attrs \in {s \in [1..n -> Globs] : IsInjective(s)}
    /\ store = {}
    /\ calls = [c \in Calls |-> Idle("none")]

-----------------------------------------------------------------------------

Goto(c, at)     == calls' = [calls EXCEPT ![c] = [@ EXCEPT !.at = at]]
Return(c, what) == calls' = [calls EXCEPT ![c] = Idle(what)]

\* A request was carried out, but its answer did not arrive.
FailedAnyway(c) == calls[c].at \in Failing /\ Return(c, "error")

GitLabUpload(c, p, b, markAsLFS) ==
    /\ calls[c].at = "idle"
    /\ calls' = [calls EXCEPT ![c] =
            [at     |-> IF markAsLFS THEN "batch" ELSE "post",
             path   |-> p,
             file   |-> [kind |-> IF markAsLFS THEN "pointer" ELSE "plain", blob |-> b],
             read   |-> <<>>,
             answer |-> "none"]]
    /\ UNCHANGED <<files, attrs, store>>

\* lfsUpload, lfsBatch: the server offers no upload of an object that it has.
Batch(c) ==
    /\ calls[c].at = "batch"
    /\ Goto(c, IF calls[c].file.blob \in store THEN "post" ELSE "object")
    /\ UNCHANGED <<files, attrs, store>>

\* The transfer, and the verification that the server may ask for.
UploadObject(c) ==
    /\ calls[c].at = "object"
    /\ store' = store \cup {calls[c].file.blob}
    /\ Goto(c, "post") \/ FailedAnyway(c)
    /\ UNCHANGED <<files, attrs>>

\* What GitLabUpload does when the file is committed.
Committed(c) == IF calls[c].file.kind = "pointer" THEN Goto(c, "readAttrs") ELSE Return(c, "ok")

\* commitFile: POST makes a new file, and PUT is tried when POST did not.
PostFile(c) ==
    /\ calls[c].at = "post"
    /\ \/ /\ files[calls[c].path] = None
          /\ files' = [files EXCEPT ![calls[c].path] = calls[c].file]
          /\ Committed(c) \/ ("post" \in Failing /\ Goto(c, "put"))
       \/ /\ files[calls[c].path] # None \/ "post" \in Failing
          /\ Goto(c, "put")
          /\ UNCHANGED files
    /\ UNCHANGED <<attrs, store>>

PutFile(c) ==
    /\ calls[c].at = "put"
    /\ files[calls[c].path] # None
    /\ files' = [files EXCEPT ![calls[c].path] = calls[c].file]
    /\ Committed(c) \/ FailedAnyway(c)
    /\ UNCHANGED <<attrs, store>>

\* How many lines a read returns: those in its 64 KiB.  A body that is cut off
\* is taken for the whole file: the error is dropped.
LinesRead == {n \in 0..Len(attrs) :
    n <= Limit /\ (n \in {Len(attrs), Limit} \/ "readAttrs" \in Failing)}

\* ensureLFSPattern: a request that fails counts as no file.
ReadAttrs(c) ==
    /\ calls[c].at = "readAttrs"
    /\ \/ /\ attrs # None
          /\ \E n \in LinesRead :
               LET existing == SubSeq(attrs, 1, n) IN
               IF calls[c].path \in Range(existing)
               THEN Return(c, "ok")
               ELSE calls' = [calls EXCEPT ![c] = [@ EXCEPT !.at = "postAttrs", !.read = existing]]
       \/ /\ attrs = None \/ "readAttrs" \in Failing
          /\ Goto(c, "postAttrs")
    /\ UNCHANGED <<files, attrs, store>>

\* Mutants: writes the new line only; what it has read only.
UpdatedAlone(c)     == <<calls[c].path>>
UpdatedUnchanged(c) == calls[c].read
\* The lines it has read and, after them, the one of the new file.
Updated(c) == Append(calls[c].read, calls[c].path)

PostAttrs(c) ==
    /\ calls[c].at = "postAttrs"
    /\ \/ /\ attrs = None
          /\ attrs' = Updated(c)
          /\ Return(c, "ok") \/ ("postAttrs" \in Failing /\ Goto(c, "putAttrs"))
       \/ /\ attrs # None \/ "postAttrs" \in Failing
          /\ Goto(c, "putAttrs")
          /\ UNCHANGED attrs
    /\ UNCHANGED <<files, store>>

PutAttrs(c) ==
    /\ calls[c].at = "putAttrs"
    /\ attrs # None
    /\ attrs' = Updated(c)
    /\ Return(c, "ok") \/ FailedAnyway(c)
    /\ UNCHANGED <<files, store>>

\* Any other request that fails ends the upload; a PUT without a file always
\* does.
Fail(c) ==
    /\ \/ calls[c].at \in Failing \ {"post", "readAttrs", "postAttrs"}
       \/ calls[c].at = "put" /\ files[calls[c].path] = None
       \/ calls[c].at = "putAttrs" /\ attrs = None
    /\ Return(c, "error")
    /\ UNCHANGED <<files, attrs, store>>

\* Mutant: hands out the file as it is in the branch.
DownloadRaw(p) == IF files[p].kind = "plain" THEN files[p].blob ELSE "pointer"

\* GitLabDownload: what a user gets; parseLFSPointer takes size 0 for no size.
Download(p) ==
    IF \/ files[p].kind = "plain"
       \/ files[p].blob \in store \ {Empty}
    THEN files[p].blob
    ELSE "error"

Next == \E c \in Calls :
    \/ \E p \in Paths, b \in Blobs, lfs \in BOOLEAN : GitLabUpload(c, p, b, lfs)
    \/ Batch(c) \/ UploadObject(c) \/ PostFile(c) \/ PutFile(c)
    \/ ReadAttrs(c) \/ PostAttrs(c) \/ PutAttrs(c) \/ Fail(c)

Spec == Init /\ [][Next]_vars

-----------------------------------------------------------------------------

\* "first upload the bytes via the LFS batch protocol, then commit a pointer
\* file": whatever fails or overlaps, each pointer leads to its content.
PointersResolve ==
    \A p \in Paths : files[p] # None /\ files[p].kind = "pointer" => files[p].blob \in store

\* "For LFS-backed files this transparently follows the LFS batch protocol":
\* every file of the branch can be downloaded as it was uploaded, except an
\* empty one that was marked as LFS.
FilesDownload ==
    \A p \in Paths :
        files[p] # None /\ files[p] # [kind |-> "pointer", blob |-> Empty]
            => Download(p) = files[p].blob

\* "appends ... to .gitattributes": a pattern that is there stays there.  The
\* code does not keep this for a file longer than the 64 KiB that it reads, nor
\* (see GitLabLFSTurns) for uploads that overlap or whose read is cut off.
KeepsPatterns ==
    attrs # None /\ Len(attrs) <= Limit
        => attrs' # None /\ Range(attrs) \subseteq Range(attrs')
PatternsKept  == [][KeepsPatterns]_vars

\* "patches .gitattributes so future reads recognise the file as LFS": an LFS
\* upload that answers ok has its path there.
UploadMarks ==
    [][\A c \in Calls :
        /\ calls[c].at # "idle"
        /\ calls[c].file.kind = "pointer"
        /\ calls'[c].answer = "ok"
        => attrs' # None /\ calls[c].path \in Range(attrs')]_vars

=============================================================================
