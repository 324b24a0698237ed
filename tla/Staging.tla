------------------------------- MODULE Staging -------------------------------
(***************************************************************************)
(* Downloads of forensic artifacts: the actions of defender_forensics that *)
(* fetch an SAS link and stage the archive in the quarantine directory     *)
(* (server.rs investigation_package_url, stage_artifact; client.rs         *)
(* download_artifact, stream_to_file).                                     *)
(*                                                                         *)
(* Calls run concurrently and nothing in the server orders them.  A file   *)
(* name is made of the action id, or of a SHA-1, so two calls may write    *)
(* the same one.  A file is an inode: opening an existing name truncates   *)
(* and shares it, every handle has a position of its own, and an unlinked  *)
(* inode goes on taking the writes of its handles.                         *)
(***************************************************************************)
EXTENDS Integers, Sequences, SequencesExt

CONSTANTS
    Calls,      \* the concurrent tool calls
    Name,       \* Name[c]: the file name the call stages under
    IsPackage,  \* IsPackage[c]: asks for an investigation package
    Body,       \* Body[c]: the archive behind the call's link, as its blocks
    Leftover    \* names a former process left a partial file under

Names == {Name[c] : c \in Calls}

ASSUME StagingAssumption ==
    /\ IsPackage \in [Calls -> BOOLEAN]
    /\ \A c \in Calls : Body[c] \in Seq(STRING)
    /\ Leftover \subseteq Names

VARIABLES
    ready,      \* the packages the service has finished, by file name
    reauth,     \* the session's reauth cell is set
    pc,         \* where each call is
    answer,     \* what each call answered
    readyThen,  \* history: the package was ready when the link was asked for
    dir,        \* dir[n]: the inode a name is linked to, or NoFile
    data,       \* data[i]: the blocks of an inode
    handle,     \* handle[c]: the inode the call has open
    received,   \* received[c]: the blocks received, hashed and written
    unremoved   \* history: the calls whose partial file could not be removed

service == <<ready, readyThen>>
files == <<dir, data, unremoved>>
vars == <<service, reauth, pc, answer, files, handle, received>>

NoFile == <<"no", "file">>

\* Inodes: at most one per call, and one a former process left per name.
Old(n) == <<"old", n>>
New(c) == <<"new", c>>
Inodes == {Old(n) : n \in Names} \cup {New(c) : c \in Calls}

\* The inodes that can be made under a name.
InodesOf(n) == {Old(n)} \cup {New(c) : c \in {d \in Calls : Name[d] = n}}

OldBlock == "old"
Hole == "hole"

\* What a former process left is longer than anything written now.
Blocks == (UNION {ToSet(Body[c]) : c \in Calls}) \cup {OldBlock, Hole}
OldData == [i \in 1 .. 3 |-> OldBlock]

Packages == {Name[c] : c \in {d \in Calls : IsPackage[d]}}

Init ==
    /\ ready \in SUBSET Packages
    /\ reauth = FALSE
    /\ pc = [c \in Calls |-> "start"]
    /\ answer = [c \in Calls |-> "none"]
    /\ readyThen = [c \in Calls |-> FALSE]
    /\ dir = [n \in Names |-> IF n \in Leftover THEN Old(n) ELSE NoFile]
    /\ data = [i \in Inodes |-> IF i \in {Old(n) : n \in Leftover}
                                THEN OldData ELSE <<>>]
    /\ handle = [c \in Calls |-> NoFile]
    /\ received = [c \in Calls |-> 0]
    /\ unremoved = {}

\* The service finishes a package while calls are under way.
FinishPackage(n) ==
    /\ n \notin ready
    /\ ready' = ready \cup {n}
    /\ UNCHANGED <<readyThen, reauth, pc, answer, files, handle, received>>

Go(c, label) == pc' = [pc EXCEPT ![c] = label]

Finish(c, says) ==
    /\ Go(c, "done")
    /\ answer' = [answer EXCEPT ![c] = says]

\* A failed request, or renewal of a token for one, may end the session: the
\* claims challenge of a 401, also of the archive's store.
MayEndSession == reauth' \in {reauth, TRUE}

\* get_token lets a request for the link or the status through.
Ask(c) ==
    /\ pc[c] \in {"start", "status"}
    /\ ~reauth
    /\ Go(c, IF pc[c] = "start" THEN "link" ELSE "reading")
    /\ UNCHANGED <<service, reauth, answer, files, handle, received>>

\* There is no token for it.
AskFails(c) ==
    /\ pc[c] \in {"start", "status"}
    /\ MayEndSession
    /\ Finish(c, "failed")
    /\ UNCHANGED <<service, files, handle, received>>

\* The link was asked for and the service answered with it.
LinkFound(c) ==
    /\ pc[c] = "link"
    /\ IsPackage[c] => Name[c] \in ready
    /\ readyThen' = [readyThen EXCEPT ![c] = Name[c] \in ready]
    /\ Go(c, "open")
    /\ UNCHANGED <<ready, reauth, answer, files, handle, received>>

\* getPackageUri answered 404: the package is not there yet.
LinkMissing(c) ==
    /\ pc[c] = "link"
    /\ IsPackage[c]
    /\ Name[c] \notin ready
    /\ readyThen' = [readyThen EXCEPT ![c] = FALSE]
    /\ Go(c, "status")
    /\ UNCHANGED <<ready, reauth, answer, files, handle, received>>

\* Mutant: every error is taken for a 404.
LinkFailsUnsorted(c) ==
    /\ pc[c] = "link"
    /\ readyThen' = [readyThen EXCEPT ![c] = Name[c] \in ready]
    /\ Go(c, "status")
    /\ UNCHANGED <<ready, reauth, answer, files, handle, received>>

\* Any other answer, or none: the error is the call's answer.
LinkFails(c) ==
    /\ pc[c] = "link"
    /\ readyThen' = [readyThen EXCEPT ![c] = Name[c] \in ready]
    /\ MayEndSession
    /\ Finish(c, "failed")
    /\ UNCHANGED <<ready, files, handle, received>>

\* The action exists: "not ready", with the status it has by now, which may
\* already be Succeeded.  It does not: the 404 is the answer.
StatusRead(c) ==
    /\ pc[c] = "reading"
    /\ \/ Finish(c, "not_ready") /\ UNCHANGED reauth
       \/ Finish(c, "failed") /\ MayEndSession
    /\ UNCHANGED <<service, files, handle, received>>

\* The staging directory, the request, its status or the opening of the file
\* fails: nothing is written.
RequestFails(c) ==
    /\ pc[c] = "open"
    /\ MayEndSession
    /\ Finish(c, "failed")
    /\ UNCHANGED <<service, files, handle, received>>

\* Mutant: the file is not truncated.
OpenWithoutTruncate(c) ==
    /\ pc[c] = "open"
    /\ LET i == IF dir[Name[c]] = NoFile THEN New(c) ELSE dir[Name[c]]
       IN /\ dir' = [dir EXCEPT ![Name[c]] = i]
          /\ handle' = [handle EXCEPT ![c] = i]
    /\ Go(c, "stream")
    /\ UNCHANGED <<service, reauth, answer, data, received, unremoved>>

\* Status 200: write, create, truncate.
Open(c) ==
    /\ pc[c] = "open"
    /\ LET i == IF dir[Name[c]] = NoFile THEN New(c) ELSE dir[Name[c]]
       IN /\ dir' = [dir EXCEPT ![Name[c]] = i]
          /\ data' = [data EXCEPT ![i] = <<>>]
          /\ handle' = [handle EXCEPT ![c] = i]
    /\ Go(c, "stream")
    /\ UNCHANGED <<service, reauth, answer, received, unremoved>>

\* Block b at position p of file f; what lies before it unwritten is a hole.
Put(f, p, b) ==
    [i \in 1 .. (IF p > Len(f) THEN p ELSE Len(f)) |->
        IF i = p THEN b ELSE IF i <= Len(f) THEN f[i] ELSE Hole]

\* A block is received, hashed and written at the handle's position.
WriteBlock(c) ==
    /\ pc[c] = "stream"
    /\ received[c] < Len(Body[c])
    /\ LET n == received[c] + 1
       IN /\ received' = [received EXCEPT ![c] = n]
          /\ data' = [data EXCEPT ![handle[c]] = Put(@, n, Body[c][n])]
    /\ UNCHANGED <<service, reauth, pc, answer, dir, handle, unremoved>>

\* The body is complete and flushed: the digest is of what was received.
Report(c) ==
    /\ pc[c] = "stream"
    /\ received[c] = Len(Body[c])
    /\ Finish(c, "downloaded")
    /\ UNCHANGED <<service, reauth, files, handle, received>>

\* Mutants: the partial file stays; a stalled stream is waited for.
StreamFailsUncleaned(c) ==
    /\ pc[c] = "stream"
    /\ Finish(c, "failed")
    /\ UNCHANGED <<service, reauth, files, handle, received>>

StreamFailsAtEnd(c) ==
    /\ pc[c] = "stream"
    /\ received[c] = Len(Body[c])
    /\ Finish(c, "failed")
    /\ dir' = [dir EXCEPT ![Name[c]] = NoFile]
    /\ UNCHANGED <<service, reauth, data, unremoved, handle, received>>

\* download_artifact removes the file by its name, and ignores that it cannot.
RemovePartial(c) ==
    \/ /\ dir' = [dir EXCEPT ![Name[c]] = NoFile]
       /\ UNCHANGED unremoved
    \/ /\ unremoved' = unremoved \cup {c}
       /\ UNCHANGED dir

\* The stream breaks, the 210 s of the request run out, or the disk is full.
StreamFails(c) ==
    /\ pc[c] = "stream"
    /\ Finish(c, "failed")
    /\ RemovePartial(c)
    /\ UNCHANGED <<service, reauth, data, handle, received>>

\* The process ends with calls under way: nothing is removed.
Stop ==
    /\ \E c \in Calls : pc[c] \notin {"done", "stopped"}
    /\ pc' = [c \in Calls |-> IF pc[c] = "done" THEN "done" ELSE "stopped"]
    /\ UNCHANGED <<service, reauth, answer, files, handle, received>>

\* A step of the server on behalf of a call.
Step(c) ==
    \/ Ask(c) \/ AskFails(c)
    \/ LinkFound(c) \/ LinkMissing(c) \/ LinkFails(c) \/ StatusRead(c)
    \/ RequestFails(c) \/ Open(c) \/ WriteBlock(c) \/ Report(c)
    \/ StreamFails(c)

Next ==
    \/ \E n \in Packages : FinishPackage(n)
    \/ \E c \in Calls : Step(c)
    \/ Stop

Spec == Init /\ [][Next]_vars

\* get_token returns, and the client's timeout covers each request with its
\* body, so every wait ends with a failure at the latest; that the service
\* answers is not assumed.
WaitEnds(c) ==
    \/ Ask(c) \/ AskFails(c)
    \/ LinkFails(c) \/ StatusRead(c) \/ RequestFails(c) \/ StreamFails(c)

FairSpec == Spec /\ \A c \in Calls : WF_vars(WaitEnds(c))

-----------------------------------------------------------------------------
(***************************************************************************)
(* Properties.                                                             *)
(***************************************************************************)

\* The file of this name is there and holds just these blocks.
Holds(n, blocks) == dir[n] # NoFile /\ data[dir[n]] = blocks

\* Where a call can be, before it has a file and after.
Early == {"start", "link", "status", "reading", "open"}
PC == Early \cup {"stream", "done", "stopped"}

\* A name is linked only to inodes made under it, a call has a handle from
\* Open on and none before, and it answers exactly when it is done.
TypeOK ==
    /\ ready \subseteq Packages
    /\ reauth \in BOOLEAN
    /\ pc \in [Calls -> PC]
    /\ unremoved \subseteq Calls
    /\ answer \in [Calls -> {"none", "failed", "not_ready", "downloaded"}]
    /\ readyThen \in [Calls -> BOOLEAN]
    /\ dir \in [Names -> Inodes \cup {NoFile}]
    /\ \A n \in Names : dir[n] \in {NoFile} \cup InodesOf(n)
    /\ data \in [Inodes -> Seq(Blocks)]
    /\ handle \in [Calls -> Inodes \cup {NoFile}]
    /\ received \in [Calls -> Nat]
    /\ \A c \in Calls :
          /\ pc[c] \in Early => handle[c] = NoFile
          /\ pc[c] = "stream" => handle[c] # NoFile
          /\ handle[c] = NoFile => received[c] = 0
          /\ received[c] \in 0 .. Len(Body[c])
          /\ answer[c] # "none" <=> pc[c] = "done"

\* No other call stages under the call's name.
Alone(c) == \A d \in Calls \ {c} : Name[d] # Name[c]

\* An artifact that was reported is in its file, whole, with nothing before
\* or after it that the digest does not cover, and stays there while other
\* calls write and remove their own files and after the process has ended,
\* though a former process may have left a longer file under its name.
ReportedIsStaged ==
    \A c \in Calls :
        Alone(c) /\ answer[c] = "downloaded" => Holds(Name[c], Body[c])

\* A download that failed after it began to write leaves no file, not even the
\* one it found; if the removal fails too, it leaves a beginning of its own
\* archive and nothing of the file it found, and the answer does not tell.
FailureLeavesNoMore ==
    \A c \in Calls :
        Alone(c) /\ answer[c] = "failed" /\ handle[c] # NoFile
            => \/ dir[Name[c]] = NoFile
               \/ c \in unremoved /\ IsPrefix(data[dir[Name[c]]], Body[c])

\* "Not ready" is not said of a package that was ready when the call asked
\* for its link, whatever has happened since.
NotReadyWasNotReady ==
    \A c \in Calls : answer[c] = "not_ready" => ~readyThen[c]

\* Every download ends, though its service never answers again.
DownloadEnds ==
    \A c \in Calls : (pc[c] # "done") ~> (pc[c] \in {"done", "stopped"})

\* At the moment a download is reported the file it names holds the bytes of
\* the digest it reports, whoever else downloads to the same name.
ReportedHoldsDigest ==
    [][\A c \in Calls :
          answer[c] # "downloaded" /\ answer'[c] = "downloaded"
              => Holds(Name[c], Body[c])']_vars
====
