----------------------------- MODULE RemoteEdit -----------------------------
(***************************************************************************)
(* fs/RemoteEditManager, fs/RemoteEditSession and fs/SaveAnnouncePolicy:   *)
(* a remote file is fetched into a working copy, the user's editor is      *)
(* started on it, and every save found by an inotify watch is uploaded.    *)
(*                                                                         *)
(* Four actors meet in one edit: the editor, which writes the copy when it *)
(* likes; the watch thread; the transport, which reads the copy and writes *)
(* the remote file; and the owning thread, which alone starts uploads,     *)
(* hears their results and ends edits.  What the others send it is in      *)
(* posted, in the order the dispatcher keeps.  Each edit here is of a      *)
(* remote file of its own.                                                 *)
(***************************************************************************)
EXTENDS Naturals, Sequences, SequencesExt

CONSTANTS
    Edits,          \* bound: the files ever opened
    Filesystems,    \* bound: the connections ever made, one port each
    NoFs,
    Errors,         \* the messages an upload or a download can fail with
    Lost,           \* the one it fails with when its connection ends
    MaxSaves,       \* bound: the saves of each edit
    Torn, Unread    \* part of a version, and nothing read so far

ASSUME EditAssumption ==
    /\ NoFs \notin Filesystems
    /\ Lost \in Errors
    /\ {"", "saved", "unclosed", "trigger"} \cap Errors = {}
    /\ MaxSaves \in [Edits -> Nat]
    /\ Torn \notin Nat /\ Unread \notin Nat /\ Torn # Unread

\* What a file holds: the number of the save that wrote it, or a part of one.
Contents == Nat \union {Torn}

\* SftpService drops the handle of an upload that is closing when it is stopped
\* and answers with the outcome it had: a success whose close nobody confirmed
\* is told apart from a confirmed one here, never in the code.
Successes == {"saved", "unclosed"}
Results == Errors \union Successes
Phases == {"none", "fetching", "fetched", "refused", "editing", "ended"}

VARIABLES
    phase,          \* how far each edit has come
    on,             \* EditEndpoint::fs
    watching,       \* watchThread_ is in its loop
    copy,           \* the working copy exists
    local,          \* what it holds
    writing,        \* the editor is part of the way through writing it
    remote,         \* what the remote file holds
    noticed,        \* inotify has an event the watch has not read
    posted,         \* what waits for the owning thread: triggers and results
    inFlight,       \* uploadInFlight_
    pending,        \* pendingUpload_
    uploads,        \* for each upload asked for and unanswered, what it read
    lastReported,   \* SaveAnnouncePolicy::lastReported_
    told,           \* the last thing the user was told of this edit's saves
    link            \* each connection: not made, up, its link lost, destroyed

edit == <<phase, on, watching>>
file == <<copy, local, writing>>
flow == <<posted, inFlight, pending, uploads>>
word == <<lastReported, told>>
vars == <<edit, file, remote, noticed, flow, word, link>>

Init ==
    /\ phase = [e \in Edits |-> "none"]
    /\ on = [e \in Edits |-> NoFs]
    /\ watching = [e \in Edits |-> FALSE]
    /\ copy = [e \in Edits |-> FALSE]
    /\ local = [e \in Edits |-> 0]
    /\ writing = [e \in Edits |-> FALSE]
    /\ remote = [e \in Edits |-> 0]
    /\ noticed = [e \in Edits |-> FALSE]
    /\ posted = [e \in Edits |-> <<>>]
    /\ inFlight = [e \in Edits |-> FALSE]
    /\ pending = [e \in Edits |-> FALSE]
    /\ uploads = [e \in Edits |-> <<>>]
    /\ lastReported = [e \in Edits |-> ""]
    /\ told = [e \in Edits |-> ""]
    /\ link = [f \in Filesystems |-> "none"]

-----------------------------------------------------------------------------
(* Opening *)

\* The working copy's directory is made before the download is asked for.
OpenRemoteFile(e, f) ==
    /\ phase[e] = "none"
    /\ link[f] \in {"up", "down"}
    /\ phase' = [phase EXCEPT ![e] = "fetching"]
    /\ on' = [on EXCEPT ![e] = f]
    /\ copy' = [copy EXCEPT ![e] = TRUE]
    /\ UNCHANGED <<watching, local, writing, remote, noticed, flow, word, link>>

\* The transport answers the download.
DownloadDone(e, answer) ==
    /\ phase[e] = "fetching"
    /\ link[on[e]] = "up"
    /\ phase' = [phase EXCEPT ![e] = answer]
    /\ UNCHANGED <<on, watching, file, remote, noticed, flow, word, link>>

\* The answer reaches the owning thread.  No session will own the copy of a
\* failed download.
DownloadRefused(e) ==
    /\ phase[e] = "refused"
    /\ phase' = [phase EXCEPT ![e] = "ended"]
    /\ copy' = [copy EXCEPT ![e] = FALSE]
    /\ UNCHANGED <<on, watching, local, writing, remote, noticed, flow, word,
                   link>>

\* A session is built and the editor launched whether or not Start could set
\* up its pipe and its inotify descriptor.
BeginEdit(e, started) ==
    /\ phase[e] = "fetched"
    /\ phase' = [phase EXCEPT ![e] = "editing"]
    /\ watching' = [watching EXCEPT ![e] = started]
    /\ UNCHANGED <<on, file, remote, noticed, flow, word, link>>

-----------------------------------------------------------------------------
(* The editor *)

\* A save in place begins by truncating the file: an upload under way may have
\* had all of it, or is left with a part.
BeginWrite(e) ==
    /\ copy[e] /\ phase[e] = "editing" /\ ~writing[e]
    /\ local[e] < MaxSaves[e]
    /\ writing' = [writing EXCEPT ![e] = TRUE]
    /\ \E reads \in {uploads[e], [i \in DOMAIN uploads[e] |->
                        IF uploads[e][i] = Unread THEN Unread ELSE Torn]} :
           uploads' = [uploads EXCEPT ![e] = reads]
    /\ UNCHANGED <<edit, copy, local, remote, noticed, posted, inFlight,
                   pending, word, link>>

\* IN_CLOSE_WRITE.
EndWrite(e) ==
    /\ writing[e]
    /\ writing' = [writing EXCEPT ![e] = FALSE]
    /\ local' = [local EXCEPT ![e] = @ + 1]
    /\ noticed' = [noticed EXCEPT ![e] = watching[e]]
    /\ UNCHANGED <<edit, copy, remote, flow, word, link>>

\* IN_MOVED_TO: the editor wrote another file and renamed it over this one, so
\* an upload under way still reads the old one.
SaveByRename(e) ==
    /\ copy[e] /\ phase[e] = "editing" /\ ~writing[e]
    /\ local[e] < MaxSaves[e]
    /\ local' = [local EXCEPT ![e] = @ + 1]
    /\ noticed' = [noticed EXCEPT ![e] = watching[e]]
    /\ UNCHANGED <<edit, copy, writing, remote, flow, word, link>>

-----------------------------------------------------------------------------
(* The watch thread *)

\* One read takes every event there is, and posts one trigger for them all.
WatchNotice(e) ==
    /\ watching[e] /\ noticed[e]
    /\ noticed' = [noticed EXCEPT ![e] = FALSE]
    /\ posted' = [posted EXCEPT ![e] = Append(@, "trigger")]
    /\ UNCHANGED <<edit, file, remote, inFlight, pending, uploads, word, link>>

\* The loop ends at any error of poll, an interrupted one too.
WatchBreaks(e) ==
    /\ watching[e]
    /\ watching' = [watching EXCEPT ![e] = FALSE]
    /\ noticed' = [noticed EXCEPT ![e] = FALSE]
    /\ UNCHANGED <<phase, on, file, remote, flow, word, link>>

-----------------------------------------------------------------------------
(* Uploads, on the owning thread *)

\* Saves during an upload are coalesced into one more.
TriggerUpload(e) ==
    /\ inFlight' = [inFlight EXCEPT ![e] = TRUE]
    /\ IF inFlight[e]
         THEN pending' = [pending EXCEPT ![e] = TRUE] /\ UNCHANGED uploads
         ELSE /\ uploads' = [uploads EXCEPT ![e] = Append(@, Unread)]
              /\ UNCHANGED pending
    /\ UNCHANGED word

\* Mutant: a save that lands does not re-arm reporting.
DecideWithoutRearming(e, result, superseded) ==
    IF superseded \/ result = lastReported[e]
      THEN UNCHANGED word
      ELSE /\ told' = [told EXCEPT ![e] = result]
           /\ lastReported' =
                [lastReported EXCEPT ![e] = IF result \in Successes THEN @ ELSE result]

\* SaveAnnouncePolicy::Decide: the outcome of a burst is its last upload's, a
\* failure is news once, and a save that lands re-arms reporting.
Decide(e, result, superseded) ==
    IF superseded \/ result = lastReported[e]
      THEN UNCHANGED word
      ELSE /\ told' = [told EXCEPT ![e] = result]
           /\ lastReported' =
                [lastReported EXCEPT ![e] = IF result \in Successes THEN "" ELSE result]

\* Mutant: the pending request is forgotten with the upload it waited for.
OnUploadFinishedAlone(e, result) ==
    /\ Decide(e, result, pending[e])
    /\ pending' = [pending EXCEPT ![e] = FALSE]
    /\ inFlight' = [inFlight EXCEPT ![e] = FALSE]
    /\ UNCHANGED uploads

OnUploadFinished(e, result) ==
    /\ Decide(e, result, pending[e])
    /\ pending' = [pending EXCEPT ![e] = FALSE]
    /\ inFlight' = [inFlight EXCEPT ![e] = pending[e]]
    /\ uploads' = [uploads EXCEPT ![e] =
                      IF pending[e] THEN Append(@, Unread) ELSE @]

\* Mutant: what is posted reaches a session that has been stopped.
HandlePostUnguarded(e) ==
    /\ posted[e] # <<>>
    /\ posted' = [posted EXCEPT ![e] = Tail(@)]
    /\ IF Head(posted[e]) = "trigger"
         THEN TriggerUpload(e)
         ELSE OnUploadFinished(e, Head(posted[e]))
    /\ UNCHANGED <<edit, file, remote, noticed, link>>

\* The next thing posted is run, if the session it is for has not been retired.
HandlePost(e) ==
    /\ posted[e] # <<>>
    /\ posted' = [posted EXCEPT ![e] = Tail(@)]
    /\ IF phase[e] = "ended"
         THEN UNCHANGED <<inFlight, pending, uploads, word>>
         ELSE IF Head(posted[e]) = "trigger"
                THEN TriggerUpload(e)
                ELSE OnUploadFinished(e, Head(posted[e]))
    /\ UNCHANGED <<edit, file, remote, noticed, link>>

-----------------------------------------------------------------------------
(* The transport *)

\* The local file is opened, then the remote one is opened and truncated.  Only
\* a connection that is up answers: what is asked of a lost one stays in a
\* queue nobody drains, and a call on one that is gone is on a destroyed
\* object, of which nothing coming back is the mildest outcome.
UploadReads(e, i) ==
    /\ link[on[e]] = "up" /\ copy[e]
    /\ uploads[e][i] = Unread
    /\ uploads' = [uploads EXCEPT ![e][i] = IF writing[e] THEN Torn ELSE local[e]]
    /\ remote' = [remote EXCEPT ![e] = Torn]
    /\ UNCHANGED <<edit, file, noticed, posted, inFlight, pending, word, link>>

Answer(e, i, result) ==
    /\ uploads' = [uploads EXCEPT ![e] = RemoveAt(@, i)]
    /\ posted' = [posted EXCEPT ![e] = Append(@, result)]
    /\ UNCHANGED <<edit, file, noticed, inFlight, pending, word, link>>

UploadLands(e, i) ==
    /\ link[on[e]] = "up"
    /\ uploads[e][i] # Unread
    /\ remote' = [remote EXCEPT ![e] = uploads[e][i]]
    /\ Answer(e, i, "saved")

\* Before the remote file is touched, or at any point of writing it.
UploadFails(e, i, error) ==
    /\ link[on[e]] = "up"
    /\ \E left \in {remote[e], uploads[e][i]} \ {Unread} :
           remote' = [remote EXCEPT ![e] = left]
    /\ Answer(e, i, error)

On(f) == {e \in Edits : on[e] = f}
In(p) == {e \in Edits : phase[e] = p}
Begun(S) == {e \in S : uploads[e] # <<>> /\ uploads[e][1] # Unread}

\* What a connection answers as it ends: everything asked of it until then.
\* Nothing it is asked for later is answered, and nothing before is kept.  An
\* upload that was writing is lost; one that was closing answers what it had,
\* its success unconfirmed or its failure.  Either way the remote file may hold
\* what was sent or a part of it.
AnswerAll(lost) ==
    \E answer \in [Begun(lost) -> Errors \union {"unclosed"}],
       arrived \in SUBSET Begun(lost) :
        /\ uploads' = [e \in Edits |-> IF e \in lost THEN <<>> ELSE uploads[e]]
        /\ posted' = [e \in Edits |->
              IF e \in lost
                THEN posted[e] \o [i \in DOMAIN uploads[e] |->
                                     IF e \in Begun(lost) THEN answer[e] ELSE Lost]
                ELSE posted[e]]
        /\ remote' = [e \in Edits |->
              IF e \in arrived THEN uploads[e][1] ELSE remote[e]]

DropLink(f) ==
    /\ link[f] = "up"
    /\ link' = [link EXCEPT ![f] = "down"]
    /\ AnswerAll(On(f))
    /\ phase' = [e \in Edits |->
                    IF e \in On(f) \cap In("fetching") THEN "refused" ELSE phase[e]]
    /\ UNCHANGED <<on, watching, file, noticed, inFlight, pending, word>>

-----------------------------------------------------------------------------
(* Ending *)

\* RemoteEditSession::Stop and the end of the session, for a set of edits: the
\* watch is joined, the posts are retired and the working copy is removed.
Ended(old, S) == [e \in Edits |-> IF e \in S THEN FALSE ELSE old[e]]

Stop(S) ==
    /\ copy' = Ended(copy, S)
    /\ watching' = Ended(watching, S)
    /\ noticed' = Ended(noticed, S)
    /\ writing' = Ended(writing, S)
    /\ UNCHANGED <<on, local>>

\* "Finish editing" in the dialog.
StopSession(e) ==
    /\ phase[e] = "editing"
    /\ phase' = [phase EXCEPT ![e] = "ended"]
    /\ Stop({e})
    /\ UNCHANGED <<remote, flow, word, link>>

\* SessionManager::CloseSession: the transport is stopped, StopEditsForFilesystem
\* finds the edits on its port, and the port is destroyed.  Downloads that have
\* not been handled belong to no session and are not found.
EndSession(f) ==
    LET stopped == On(f) \cap In("editing")
        cut == IF link[f] = "up" THEN On(f) \cap In("fetching") ELSE {}
    IN  /\ link[f] \in {"up", "down"}
        /\ link' = [link EXCEPT ![f] = "gone"]
        /\ phase' = [e \in Edits |-> IF e \in stopped THEN "ended"
                                     ELSE IF e \in cut THEN "refused"
                                     ELSE phase[e]]
        /\ IF link[f] = "up" THEN AnswerAll(On(f))
                             ELSE UNCHANGED <<uploads, posted, remote>>
        /\ Stop(stopped)
        /\ UNCHANGED <<inFlight, pending, word>>

\* CreateSession.
Connect(f) ==
    /\ link[f] = "none"
    /\ link' = [link EXCEPT ![f] = "up"]
    /\ UNCHANGED <<edit, file, remote, noticed, flow, word>>

\* Session::ReplaceConnection destroys the transport and makes another; no edit
\* is stopped, and none is moved to the new port.
Reconnect(f, g) ==
    /\ link[f] = "down" /\ link[g] = "none"
    /\ link' = [link EXCEPT ![f] = "gone", ![g] = "up"]
    /\ UNCHANGED <<edit, file, remote, noticed, flow, word>>

-----------------------------------------------------------------------------
Open(e) ==
    \/ \E f \in Filesystems : OpenRemoteFile(e, f)
    \/ \E answer \in {"fetched", "refused"} : DownloadDone(e, answer)
    \/ DownloadRefused(e)
    \/ \E started \in BOOLEAN : BeginEdit(e, started)

Editor(e) == BeginWrite(e) \/ EndWrite(e) \/ SaveByRename(e)

Watch(e) == WatchNotice(e) \/ WatchBreaks(e)

Transport(e) ==
    \E i \in DOMAIN uploads[e] :
        \/ UploadReads(e, i)
        \/ UploadLands(e, i)
        \/ \E error \in Errors \ {Lost} : UploadFails(e, i, error)

Connections(f) ==
    \/ Connect(f) \/ DropLink(f) \/ EndSession(f)
    \/ \E g \in Filesystems : Reconnect(f, g)

Next ==
    \/ \E e \in Edits : \/ Open(e) \/ Editor(e) \/ Watch(e) \/ Transport(e)
                        \/ HandlePost(e) \/ StopSession(e)
    \/ \E f \in Filesystems : Connections(f)

Spec == Init /\ [][Next]_vars

\* The watch thread, the owning thread and a connection that is up keep going.
\* Nothing is asked of the user, the editor or the network.
FairSpec ==
    /\ Spec
    /\ \A e \in Edits : /\ WF_vars(WatchNotice(e))
                        /\ WF_vars(HandlePost(e))
                        /\ WF_vars(Transport(e))

-----------------------------------------------------------------------------
(* Properties *)

\* Everything has its type; only an edit that is open is watched.
TypeOK ==
    /\ phase \in [Edits -> Phases]
    /\ on \in [Edits -> Filesystems \union {NoFs}]
    /\ watching \in [Edits -> BOOLEAN]
    /\ copy \in [Edits -> BOOLEAN]
    /\ local \in [Edits -> Nat]
    /\ writing \in [Edits -> BOOLEAN]
    /\ remote \in [Edits -> Contents]
    /\ noticed \in [Edits -> BOOLEAN]
    /\ posted \in [Edits -> Seq(Results \union {"trigger"})]
    /\ inFlight \in [Edits -> BOOLEAN]
    /\ pending \in [Edits -> BOOLEAN]
    /\ uploads \in [Edits -> Seq(Contents \union {Unread})]
    /\ lastReported \in [Edits -> Errors \union {""}]
    /\ told \in [Edits -> Results \union {""}]
    /\ link \in [Filesystems -> {"none", "up", "down", "gone"}]
    /\ \A e \in Edits : watching[e] => phase[e] = "editing"

\* One upload of a file is out at a time (uploadInFlight_), and none while the
\* result of the last one is on its way: two would truncate and write one
\* remote file together, in an order nobody chose.
OneUpload ==
    \A e \in Edits :
        LET results == {i \in DOMAIN posted[e] : posted[e][i] # "trigger"}
        IN  /\ Len(uploads[e]) <= 1
            /\ uploads[e] # <<>> => results = {}
            /\ \A i, j \in results : i = j

\* Nothing of an edit's saves is still on its way.
Quiet(e) ==
    /\ phase[e] = "editing" /\ watching[e]
    /\ ~writing[e] /\ ~noticed[e] /\ posted[e] = <<>> /\ uploads[e] = <<>>

\* What coalescing and SaveAnnouncePolicy are for: when an edit has come to
\* rest and the last thing its user heard is not a failure, the remote file
\* holds the last save, whatever saves overlapped whatever uploads before.  The
\* one exception is the code's own (SshSftpService.cpp:823): a success that was
\* answered as the connection ended, the close of the file unconfirmed, and the
\* user is told of a save that may not be there.
Doubtful == Errors \union {"unclosed"}

SilenceMeansSaved ==
    \A e \in Edits : Quiet(e) /\ told[e] \notin Doubtful => remote[e] = local[e]

\* A working copy belongs to a download that has not been handled or to an open
\* edit; however either ends, it is removed, and no other is.
CopiesAreOwned ==
    \A e \in Edits : copy[e] <=> phase[e] \notin {"none", "ended"}

\* An edit that was finished says nothing more and starts no upload, whatever
\* was posted or in flight when it ended.
EndedIsOver ==
    [][\A e \in Edits : phase[e] = "ended" =>
           /\ told'[e] = told[e]
           /\ Len(uploads'[e]) <= Len(uploads[e])]_vars

\* A save that the watch is there to see reaches the remote file, or the user
\* hears that it did not, unless the edit ends or its connection is lost.
Settled(e) ==
    \/ remote[e] = local[e] \/ told[e] \in Errors
    \/ writing[e] \/ ~watching[e]

SavesAreAnswered ==
    \A e \in Edits : ~Settled(e) ~> (Settled(e) \/ link[on[e]] # "up")

\* RemoteEditSession.h says a failed save is never silent.  That a connection is
\* lost excuses nothing while its session is still there.
NoSilentLoss ==
    \A e \in Edits : ~Settled(e) ~> (Settled(e) \/ link[on[e]] = "gone")
=============================================================================
