--------------------------- MODULE LocalFileSystem ---------------------------
(***************************************************************************)
(* transport/LocalFileSystem, the port to the disk of the machine naTE     *)
(* runs on: its copies.  Everything else it does, it does before the call  *)
(* returns; copies wait in a queue for one worker thread, which any thread *)
(* may ask to stop one of them, and which the destructor waits for.        *)
(***************************************************************************)
EXTENDS Naturals, FiniteSets, Sequences

CONSTANTS
    Copies,  \* bound: the copies ever asked for
    Paths,   \* how files may be spelt, links and second names included
    Files,   \* bound: the files there ever are
    AtFirst, \* what each path leads to at first: a file, None or Dir
    Size,    \* bound: pieces in a file
    None, Dir

ASSUME LocalAssumption ==
    /\ IsFiniteSet(Copies) /\ IsFiniteSet(Files) /\ {None, Dir} \intersect Files = {}
    /\ None \notin Paths
    /\ AtFirst \in [Paths -> Files \union {None, Dir}] /\ Size \in Nat \ {0}

VARIABLES
    at,       \* what a path leads to, as stat has it
    bytes,    \* what is in a file: how many pieces, and whose
    copy,     \* each copy: where from, where to, what its callback was told
    jobs,     \* queue_
    flags,    \* live_
    wanted,   \* the flags that Cancel has set
    worker,   \* the worker thread: its stage, its job, the job's outcome
    stopping

localVars == <<at, bytes, copy, jobs, flags, wanted, worker, stopping>>

NotAsked == [from |-> None, to |-> None, told |-> <<>>]
Empty == [of |-> None, pieces |-> 0]
Idle == [stage |-> "idle", job |-> None, said |-> None]

InitLocal ==
    /\ at = AtFirst
    /\ bytes = [f \in Files |-> IF \E p \in Paths : AtFirst[p] = f
                                THEN [of |-> f, pieces |-> Size] ELSE Empty]
    /\ copy = [c \in Copies |-> NotAsked]
    /\ jobs = <<>> /\ flags = {} /\ wanted = {} /\ worker = Idle /\ stopping = FALSE

-----------------------------------------------------------------------------
(* Callers *)

\* Download and Upload, which are one operation here.
StartCopy(c, p, q) ==
    /\ copy[c] = NotAsked /\ ~stopping
    /\ copy' = [copy EXCEPT ![c] = [from |-> p, to |-> q, told |-> <<>>]]
    /\ jobs' = Append(jobs, c) /\ flags' = flags \union {c}
    /\ UNCHANGED <<at, bytes, wanted, worker, stopping>>

\* A handle that has finished is not an error.
CancelCopy(c) ==
    /\ c \in flags /\ wanted' = wanted \union {c}
    /\ UNCHANGED <<at, bytes, copy, jobs, flags, worker, stopping>>

\* The destructor sets every flag there is, and waits.
Destroy ==
    /\ ~stopping /\ stopping' = TRUE
    /\ UNCHANGED <<at, bytes, copy, jobs, flags, wanted, worker>>

Flagged(c) == c \in wanted \/ stopping

-----------------------------------------------------------------------------
(* The worker *)

Says(said) == worker' = [worker EXCEPT !.stage = "finish", !.said = said]

\* Mutant: what is still queued when it stops is dropped.
WorkerLoopDropping ==
    /\ worker.stage = "idle"
    /\ IF stopping \/ jobs = <<>>
       THEN stopping /\ worker' = [worker EXCEPT !.stage = "over"] /\ UNCHANGED jobs
       ELSE worker' = [stage |-> "open", job |-> Head(jobs), said |-> None] /\ jobs' = Tail(jobs)
    /\ UNCHANGED <<at, bytes, copy, flags, wanted, stopping>>

\* Stopping does not discard what is queued.
WorkerLoop ==
    /\ worker.stage = "idle"
    /\ IF jobs = <<>>
       THEN stopping /\ worker' = [worker EXCEPT !.stage = "over"] /\ UNCHANGED jobs
       ELSE /\ jobs' = Tail(jobs)
            /\ worker' = IF stopping
                         THEN [stage |-> "finish", job |-> Head(jobs), said |-> "cancelled"]
                         ELSE [stage |-> "open", job |-> Head(jobs), said |-> None]
    /\ UNCHANGED <<at, bytes, copy, flags, wanted, stopping>>

\* A file that is not there yet is made, as one that no path leads to (bound: while
\* there is one).
IsFresh(f) == \A p \in Paths : at[p] # f
Fresh == CHOOSE f \in Files : IsFresh(f)

\* Mutant: two spellings of one file are two files.
SameSpelling(p, q) == p = q

\* The same device and inode.
Same(p, q) == at[p] = at[q]

\* RunCopy, up to the open that truncates the destination.
Open ==
    LET c == worker.job
        p == copy[c].from
        q == copy[c].to
        into == IF at[q] = None THEN Fresh ELSE at[q]
    IN /\ worker.stage = "open"
       /\ \/ Flagged(c) /\ Says("cancelled") /\ UNCHANGED <<at, bytes>>
          \/ ~Flagged(c) /\ Says("failed") /\ UNCHANGED <<at, bytes>>
          \/ /\ ~Flagged(c) /\ at[p] \in Files /\ at[q] # Dir /\ ~Same(p, q)
             /\ at[q] = None => \E f \in Files : IsFresh(f)
             /\ at' = [at EXCEPT ![q] = into]
             /\ bytes' = [bytes EXCEPT ![into] = Empty]
             /\ worker' = [worker EXCEPT !.stage = "copy"]
       /\ UNCHANGED <<copy, jobs, flags, wanted, stopping>>

\* A read and the writes of what it brought, or the close at the end.
CopyPiece ==
    LET c == worker.job
        source == bytes[at[copy[c].from]]
        to == at[copy[c].to]
    IN /\ worker.stage = "copy"
       /\ \/ Flagged(c) /\ Says("cancelled") /\ UNCHANGED bytes
          \/ ~Flagged(c) /\ Says("failed") /\ UNCHANGED bytes
          \/ /\ ~Flagged(c) /\ bytes[to].pieces < source.pieces
             /\ bytes' = [bytes EXCEPT ![to] = [of |-> source.of, pieces |-> @.pieces + 1]]
             /\ UNCHANGED worker
          \/ /\ ~Flagged(c) /\ bytes[to].pieces >= source.pieces
             /\ Says("ok") /\ UNCHANGED bytes
       /\ UNCHANGED <<at, copy, jobs, flags, wanted, stopping>>

\* The flag goes under the lock, the answer is given outside it.
Forget ==
    /\ worker.stage = "finish" /\ worker' = [worker EXCEPT !.stage = "answer"]
    /\ flags' = flags \ {worker.job}
    /\ UNCHANGED <<at, bytes, copy, jobs, wanted, stopping>>

AnswerCopy ==
    /\ worker.stage = "answer" /\ worker' = Idle
    /\ copy' = [copy EXCEPT ![worker.job].told = Append(@, worker.said)]
    /\ UNCHANGED <<at, bytes, jobs, flags, wanted, stopping>>

CopyWorker == WorkerLoop \/ Open \/ CopyPiece \/ Forget \/ AnswerCopy

LocalNext ==
    \/ \E c \in Copies : CancelCopy(c) \/ \E p, q \in Paths : StartCopy(c, p, q)
    \/ Destroy \/ CopyWorker

-----------------------------------------------------------------------------
(* Properties *)

\* Types; a job that waits may be cancelled.
LocalTypeOK ==
    /\ at \in [Paths -> Files \union {None, Dir}]
    /\ \A f \in Files : bytes[f].pieces \in 0..Size
    /\ {jobs[i] : i \in DOMAIN jobs} \subseteq flags /\ flags \subseteq Copies /\ wanted \subseteq Copies
    /\ worker.stage \in {"idle", "open", "copy", "finish", "answer", "over"}

\* What a file held is lost only to a copy from another file: never to one whose
\* source it is itself, by whatever second name (RunCopy's comparison, which comes
\* before the open that truncates).
CopyKeepsItsSource ==
    \A f \in Files : (\E p \in Paths : AtFirst[p] = f) /\ bytes[f] # [of |-> f, pieces |-> Size] =>
        \E c \in Copies : /\ copy[c] # NotAsked /\ at[copy[c].to] = f
                          /\ at[copy[c].from] # f
=============================================================================
