----------------------------- MODULE FileSystems -----------------------------
(***************************************************************************)
(* The two filesystems behind transport/IRemoteFileSystem, and what those  *)
(* who call either of them may rely on.                                    *)
(***************************************************************************)
EXTENDS SftpService, LocalFileSystem

VARIABLE which  \* which of them is called: "sftp" or "local"

allVars == <<vars, localVars, which>>

BothInit == Init /\ InitLocal /\ which \in {"sftp", "local"}

Sftp == which = "sftp" /\ Next /\ UNCHANGED <<localVars, which>>
Local == which = "local" /\ LocalNext /\ UNCHANGED <<vars, which>>

BothNext == Sftp \/ Local

\* Both workers run, and the server answers.
BothSpec ==
    /\ BothInit /\ [][BothNext]_allVars
    /\ Fairness /\ WF_localVars(which = "local" /\ CopyWorker)

-----------------------------------------------------------------------------
(* Properties *)

\* Each is a filesystem as IRemoteFileSystem.h promises one: a callback is called
\* once, also when the session is ending, the task is between RunNext's two locks,
\* or the copy waits in a queue that is being given up; "cancelled" answers a
\* request that came before, or the end; and at the end everyone who waits is told.
AskedOf == IF which = "sftp" THEN Asked ELSE {c \in Copies : copy[c] # NotAsked}
Told == [c \in Copies \union Tasks |->
    CASE which = "sftp" /\ c \in Tasks   -> answers[c]
      [] which = "local" /\ c \in Copies -> copy[c].told
      [] OTHER                           -> <<>>]
Port == INSTANCE RemoteFileSystem WITH
    Operations <- Copies \union Tasks, Codes <- Outcomes \ {"none"},
    asked <- AskedOf, told <- Told,
    wanted <- IF which = "sftp" THEN cancelled ELSE {c \in wanted : copy[c].told = <<>>},
    ended <- ~running \/ stopping, lost <- Lost
Contract == Port!Spec

\* A transfer that reports success has done all of it.  To a server: the close
\* has been confirmed, for until then a file may be shorter than what was sent
\* (UploadTask::Finish); a session that is ending breaks this, and only that.  On
\* the disk: the destination holds what the source does.
SuccessMeansDone ==
    [][/\ SuccessMeansClosed'
       /\ \A c \in Copies :
            copy'[c].told = <<"ok">> /\ copy[c].told = <<>> =>
                bytes[at[copy[c].to]] = bytes[at[copy[c].from]]]_allVars

\* Types.
BothTypeOK == TypeOK /\ LocalTypeOK
=============================================================================
