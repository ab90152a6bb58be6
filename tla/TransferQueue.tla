--------------------------- MODULE TransferQueue ---------------------------
(***************************************************************************)
(* fs/TransferQueue: the queue of file copies behind an explorer window.   *)
(*                                                                         *)
(* Every member function and every adapter callback runs on the UI thread  *)
(* (callbacks are posted there by the Dispatcher), so each of them is one  *)
(* step here.  What interleaves is the order in which the user, the        *)
(* endpoints and the two prompts are heard.  The operators on a queue      *)
(* value `s' are the member functions and return the queue they leave; the *)
(* actions below apply them to the variable q.                             *)
(*                                                                         *)
(* The three loops over a snapshot of job ids (CancelAll, CancelBatchFor,  *)
(* CancelJobsUsing) are taken one iteration per step, with everything else *)
(* held off until the loop is over.                                        *)
(***************************************************************************)
EXTENDS Naturals, FiniteSets, FiniteSetsExt

CONSTANTS
    Local,              \* the endpoint that is this machine (LocalFileSystem)
    Remotes,            \* the SFTP endpoints
    Mortal,             \* the remotes whose session may drop and be closed
    NoFs,               \* the null IRemoteFileSystem pointer
    Routes,             \* <<source, destination>> pairs the user copies along
    MaxJobs,            \* bound: jobs ever queued
    MaxDirs,            \* bound: directories ever walked
    MaxLeaves,          \* bound: files and links in one listing
    MaxSubdirs,         \* bound: directories in one listing
    MaxTreeDepth,       \* kMaxTreeDepth
    MaxRenameAttempts,  \* kMaxRenameAttempts
    MaxSpaceProbes,     \* kMaxSpaceProbeAncestors
    RelayRoots          \* what EnsureRelayRoot may answer, a set of booleans

Fs == {Local} \union Remotes

ASSUME QueueAssumption ==
    /\ Local \notin Remotes
    /\ Mortal \subseteq Remotes
    /\ NoFs \notin Fs
    /\ Routes \subseteq Fs \X Fs
    /\ {MaxJobs, MaxDirs, MaxTreeDepth, MaxRenameAttempts, MaxSpaceProbes,
        MaxLeaves, MaxSubdirs} \subseteq Nat
    /\ RelayRoots \subseteq BOOLEAN
    /\ RelayRoots # {}

JobIds == 1..MaxJobs
DirIds == 1..MaxDirs

InFlight == {"Checking", "AwaitingResolution", "Active"}
Terminal == {"Completed", "Failed", "Cancelled", "Skipped"}
JobStates == {"Absent", "Queued"} \union InFlight \union Terminal

\* The continuation a job is waiting for; "lost" is a request accepted by an
\* endpoint whose worker has already stopped, which nothing will ever answer.
Legs == {"firstLeg", "lastLeg"}
CallOps == {"none", "lost", "stat", "probe", "prompt", "readlink", "remove",
            "symlink"} \union Legs

\* What a walk or a selection can contribute: a link is born "Skipped" under
\* SymlinkPolicy::Skip.
LeafKinds == {"file", "link", "skippedLink"}
Policies == {"Ask", "Overwrite", "Skip", "Rename"}

\* A job's weighed field is spaceChecked with the volume whose free space was
\* measured for the verdict; NoFs is spaceChecked = false.
Job == [kind: {"Copy", "Link"}, src: Fs \union {NoFs}, dst: Fs \union {NoFs},
        weighed: Fs \union {NoFs}, existed: BOOLEAN]
NoJob == [kind |-> "Copy", src |-> NoFs, dst |-> NoFs, weighed |-> NoFs,
          existed |-> FALSE]
Dir == [src: Fs, dst: Fs, depth: 0..MaxTreeDepth]
Check == [kind: {"query", "lost", "prompt"}, fs: Fs, climb: 0..MaxSpaceProbes]

Queue == [
    state: [JobIds -> JobStates],      \* jobs_: which exist, and their state
    job: [JobIds -> Job],              \* jobs_: the rest of each job
    call: [JobIds -> CallOps],         \* the callback each job waits for
    attempt: [JobIds -> 0..MaxRenameAttempts],
    asked: SUBSET JobIds,              \* transfers an endpoint was told to stop
    nextId: 1..(MaxJobs + 1),
    activeId: 0..MaxJobs,              \* 0 is kInvalidJobId
    owner: Fs \union {NoFs},           \* activeHandleOwner_
    handle: 0..MaxJobs,                \* activeHandle_: whose transfer it names
    cancelling: BOOLEAN,
    paused: BOOLEAN,
    policy: Policies,
    preflight: {"Pending", "Checking", "Cleared"},
    checks: SUBSET Check,              \* space queries and warnings outstanding
    dir: [DirIds -> Dir],
    nextDir: 1..(MaxDirs + 1),
    toVisit: SUBSET DirIds,            \* toVisit_, first is the least number
    toMake: SUBSET DirIds,             \* dirsToCreate_, likewise
    listings: SUBSET DirIds,           \* List calls outstanding
    lostListings: SUBSET DirIds,       \* List calls nothing will answer
    making: SUBSET DirIds,             \* MakeDirectory calls outstanding
    enumerating: BOOLEAN,
    enumCancelled: BOOLEAN,
    owed: SUBSET DirIds,               \* enumCallbacks_, by the tree's root
    unreadable: SUBSET DirIds,         \* the tally since the last report
    relay: BOOLEAN,                    \* EnsureRelayRoot() succeeds
    alive: SUBSET Fs,                  \* endpoints not yet destroyed
    stopped: SUBSET Fs,                \* endpoints whose worker has exited
    fault: BOOLEAN,                    \* a null or destroyed endpoint was called
    loop: {"none", "all", "batch", "session"},
    volume: Fs \union {NoFs},          \* what "batch" and "session" are about
    todo: SUBSET JobIds]               \* the ids the loop has still to visit

VARIABLE q

vars == <<q>>

-----------------------------------------------------------------------------
(* Queries on a queue *)

Queued(s) == {i \in JobIds : s.state[i] = "Queued"}
Unchecked(s) == {i \in Queued(s) : s.job[i].weighed = NoFs}
Unfinished(s) == {i \in JobIds : s.state[i] \in {"Queued"} \union InFlight}

\* TransferJob::Uses
Uses(s, i, f) == f \in {s.job[i].src, s.job[i].dst}

-----------------------------------------------------------------------------
(* Calls on an endpoint *)

\* Any call through a pointer that is null or whose object is gone.
Fault(s, f) == s.fault \/ f \notin s.alive

\* A job's next asynchronous call.  SftpService::Enqueue accepts the task
\* whether or not a worker is left to run it.
Issue(s, i, f, op) ==
    [s EXCEPT !.call[i] = IF f \in s.stopped THEN "lost" ELSE op,
              !.fault = Fault(s, f)]

-----------------------------------------------------------------------------
(* Scheduling *)

CreateNextDirectory(s) ==
    LET d == Min(s.toMake)
        f == s.dir[d].dst
    IN  [s EXCEPT !.toMake = @ \ {d},
                  !.making = IF f \in s.stopped THEN @ ELSE @ \union {d},
                  !.fault = Fault(s, f)]

QuerySpaceFrom(s, f, climb) ==
    [s EXCEPT !.checks = @ \union
                  {[kind |-> IF f \in s.stopped THEN "lost" ELSE "query",
                    fs |-> f, climb |-> climb]},
              !.fault = Fault(s, f)]

\* Reached with an unchecked job whose endpoints are set: see
\* QueuedIsAddressed.  The code's two other branches answer an empty batch
\* and a null destination.
BeginPreflight(s) ==
    QuerySpaceFrom([s EXCEPT !.preflight = "Checking"],
                   s.job[Min(Unchecked(s))].dst, MaxSpaceProbes)

BeginJob(s, i) ==
    Issue([s EXCEPT !.state[i] = "Checking", !.activeId = i],
          i, s.job[i].dst, "stat")

\* Pump with nothing queued: an empty directory is still to be made, and
\* otherwise the batch is over and its tally with it.
PumpDrained(s) ==
    IF s.activeId # 0 THEN s
    ELSE IF s.toMake # {} /\ ~s.paused THEN CreateNextDirectory(s)
    ELSE [s EXCEPT !.unreadable = {}]

\* Pump past a verdict that covers everything queued.
PumpCleared(s) ==
    IF s.paused \/ s.activeId # 0 THEN s
    ELSE IF s.toMake # {} THEN CreateNextDirectory(s)
    ELSE BeginJob(s, Min(Queued(s)))

\* Mutant: a second batch rides on the first one's verdict.
PumpOnOldVerdict(s) ==
    IF s.enumerating THEN s
    ELSE IF Queued(s) = {} THEN PumpDrained(s)
    ELSE IF s.preflight = "Pending" THEN BeginPreflight(s)
    ELSE IF s.preflight = "Checking" THEN s
    ELSE PumpCleared(s)

\* Mutant: a check under way does not keep another from starting.
PumpRechecks(s) ==
    IF s.enumerating THEN s
    ELSE IF Queued(s) = {} THEN PumpDrained(s)
    ELSE IF Unchecked(s) # {} THEN BeginPreflight(s)
    ELSE PumpCleared(s)

Pump(s) ==
    IF s.enumerating THEN s
    ELSE IF Queued(s) = {} THEN PumpDrained(s)
    ELSE IF s.preflight = "Pending"
            \/ (s.preflight = "Cleared" /\ Unchecked(s) # {})
    THEN BeginPreflight(s)
    ELSE IF s.preflight = "Checking" THEN s
    ELSE PumpCleared(s)

ClearPreflight(s) == Pump([s EXCEPT !.preflight = "Cleared"])

\* Whatever finds its job erased, or a conflict answer that comes too late.
Abandon(s) == Pump([s EXCEPT !.activeId = 0])

\* Mutant: a job cancelled on the spot keeps the active slot.
ReleaseUnlessCancelled(s, i) ==
    IF s.activeId # i \/ s.state[i] = "Cancelled" THEN s
    ELSE [s EXCEPT !.activeId = 0, !.handle = 0, !.owner = NoFs,
                   !.cancelling = FALSE]

\* The fields describing the transfer in flight, reset with the active job.
Release(s, i) ==
    IF s.activeId # i THEN s
    ELSE [s EXCEPT !.activeId = 0, !.handle = 0, !.owner = NoFs,
                   !.cancelling = FALSE]

FinishJob(s, i, st) ==
    LET t == IF s.state[i] = "Absent" THEN s ELSE [s EXCEPT !.state[i] = st]
    IN  Pump(Release(t, i))

-----------------------------------------------------------------------------
(* Running one job *)

\* The endpoint is asked to move the bytes; RecordHandle keeps the handle only
\* for the job that is still the active one.
StartLeg(s, i, f, leg) ==
    Issue([s EXCEPT !.owner = f, !.handle = IF s.activeId = i THEN i ELSE @],
          i, f, leg)

StartTransfer(s, i) ==
    LET t == [s EXCEPT !.state[i] = "Active"]
        src == s.job[i].src
        dst == s.job[i].dst
    IN  IF s.state[i] = "Absent" THEN Abandon(s)
        ELSE IF s.job[i].kind = "Link" THEN Issue(t, i, src, "readlink")
        ELSE IF dst = Local THEN StartLeg(t, i, src, "lastLeg")
        ELSE IF src = Local THEN StartLeg(t, i, dst, "lastLeg")
        ELSE IF ~s.relay THEN FinishJob(t, i, "Failed")
        ELSE StartLeg(t, i, src, "firstLeg")

ResolveFreeName(s, i, attempt) ==
    IF s.state[i] = "Absent" THEN Abandon(s)
    ELSE IF attempt > MaxRenameAttempts THEN FinishJob(s, i, "Failed")
    ELSE Issue([s EXCEPT !.attempt[i] = attempt], i, s.job[i].dst, "probe")

\* The three answers to a collision, as a standing policy or from the prompt.
ApplyResolution(s, i, resolution) ==
    CASE resolution = "Overwrite" -> StartTransfer(s, i)
      [] resolution = "Skip"      -> FinishJob(s, i, "Skipped")
      [] resolution = "Rename"    -> ResolveFreeName(s, i, 1)

OnConflictKnown(s, i, exists) ==
    LET t == [s EXCEPT !.job[i].existed = TRUE]
    IN  IF s.state[i] # "Checking" THEN Abandon(s)
        ELSE IF ~exists THEN StartTransfer(s, i)
        ELSE IF s.policy # "Ask" THEN ApplyResolution(t, i, s.policy)
        ELSE [t EXCEPT !.state[i] = "AwaitingResolution", !.call[i] = "prompt"]

OnLegDone(s, i, result, leg) ==
    IF s.state[i] = "Absent" THEN Abandon(s)
    ELSE IF result = "failed" THEN FinishJob(s, i, "Failed")
    ELSE IF result = "cancelled" THEN FinishJob(s, i, "Cancelled")
    ELSE IF leg = "firstLeg" THEN StartLeg(s, i, s.job[i].dst, "lastLeg")
    ELSE FinishJob(s, i, "Completed")

\* StartLink's continuations: the target was read, the old entry removed.
WriteLink(s, i) ==
    IF s.state[i] = "Absent" THEN Abandon(s)
    ELSE Issue(s, i, s.job[i].dst, "symlink")

OnLinkRead(s, i) ==
    IF s.state[i] # "Absent" /\ s.job[i].existed
    THEN Issue(s, i, s.job[i].dst, "remove")
    ELSE WriteLink(s, i)

-----------------------------------------------------------------------------
(* Enqueueing and walking *)

\* The jobs of one selection or listing; links are copied or recorded as
\* skipped according to the policy in force now.
AddJobs(s, src, dst, n, kinds) ==
    LET new == s.nextId .. (s.nextId + n - 1)
        kind(i) == kinds[i - s.nextId + 1]
    IN  [s EXCEPT
           !.state = [i \in JobIds |->
               IF i \notin new THEN s.state[i]
               ELSE IF kind(i) = "skippedLink" THEN "Skipped" ELSE "Queued"],
           !.job = [i \in JobIds |->
               IF i \notin new THEN s.job[i]
               ELSE [kind |-> IF kind(i) = "file" THEN "Copy" ELSE "Link",
                     src |-> src, dst |-> dst, weighed |-> NoFs,
                     existed |-> FALSE]],
           !.nextId = @ + n]

\* Directories to list, each of which the copy will also have to make.
AddDirs(s, src, dst, depth, n) ==
    LET new == s.nextDir .. (s.nextDir + n - 1)
    IN  [s EXCEPT
           !.dir = [d \in DirIds |->
               IF d \in new THEN [src |-> src, dst |-> dst, depth |-> depth]
               ELSE s.dir[d]],
           !.toVisit = @ \union new,
           !.toMake = @ \union new,
           !.nextDir = @ + n]

FinishEnumeration(s) ==
    Pump([s EXCEPT !.enumerating = FALSE, !.enumCancelled = FALSE,
                   !.owed = {}])

StepEnumeration(s) ==
    LET d == Min(s.toVisit)
        f == s.dir[d].src
    IN  IF s.toVisit = {} THEN FinishEnumeration(s)
        ELSE [s EXCEPT !.toVisit = @ \ {d},
                       !.listings = IF f \in s.stopped THEN @
                                    ELSE @ \union {d},
                       !.lostListings = IF f \in s.stopped THEN @ \union {d}
                                        ELSE @,
                       !.fault = Fault(s, f)]

\* What was read is absorbed even beside an error; an endpoint that is gone
\* ends the whole walk.
AbsorbListing(s, d, n, kinds, subdirs, err) ==
    LET r == s.dir[d]
        t == [s EXCEPT !.toVisit = IF err = "gone" THEN {} ELSE @,
                       !.unreadable = IF err = "none" THEN @
                                      ELSE @ \union {d}]
        u == AddJobs(t, r.src, r.dst, n, kinds)
    IN  IF r.depth + 1 >= MaxTreeDepth THEN u
        ELSE AddDirs(u, r.src, r.dst, r.depth + 1, subdirs)

EnqueueTree(s, src, dst) ==
    LET t == [AddDirs(s, src, dst, 0, 1) EXCEPT !.owed = @ \union {s.nextDir}]
    IN  IF s.enumerating THEN t
        ELSE StepEnumeration([t EXCEPT !.enumerating = TRUE])

-----------------------------------------------------------------------------
(* The space check *)

\* Everything queued for the volume of the first unchecked job is weighed
\* against what was `measured'; `short' is what ForecastSpace concluded.
OnPreflightSpace(s, measured, short) ==
    LET volume == s.job[Min(Unchecked(s))].dst
        t == [s EXCEPT
                !.job = [i \in JobIds |->
                    IF i \in Queued(s) /\ s.job[i].dst = volume
                    THEN [s.job[i] EXCEPT !.weighed = measured]
                    ELSE s.job[i]],
                !.unreadable = {}]
    IN  IF Unchecked(s) = {} THEN ClearPreflight(s)
        ELSE IF ~short /\ s.unreadable = {} THEN ClearPreflight(t)
        ELSE [t EXCEPT !.checks = @ \union
                           {[kind |-> "prompt", fs |-> volume, climb |-> 0]}]

\* Mutant: the jobs are dropped and the directory list left standing.
CancelJobsFor(s, volume) ==
    [s EXCEPT !.loop = "batch",
              !.volume = volume,
              !.todo = {i \in Unfinished(s) : s.job[i].dst = volume}]

\* CancelBatchFor up to its loop.
CancelBatchFor(s, volume) ==
    [s EXCEPT !.toMake = {d \in @ : s.dir[d].dst # volume},
              !.toVisit = {d \in @ : s.dir[d].dst # volume},
              !.loop = "batch",
              !.volume = volume,
              !.todo = {i \in Unfinished(s) : s.job[i].dst = volume}]

-----------------------------------------------------------------------------
(* Control *)

\* The endpoint moving a job's bytes, and with it the only one that knows the
\* handle of that transfer.
Carrier(s, i) ==
    IF s.call[i] = "firstLeg" \/ s.job[i].dst = Local THEN s.job[i].src
    ELSE s.job[i].dst

CancelJob(s, i) ==
    IF i \notin Unfinished(s) THEN s
    ELSE IF s.state[i] = "Active" /\ i = s.activeId /\ s.owner # NoFs
    THEN [s EXCEPT !.cancelling = TRUE,
                   !.asked = @ \union {j \in {s.handle} \ {0} :
                                 s.call[j] \in Legs /\ Carrier(s, j) = s.owner},
                   !.fault = Fault(s, s.owner)]
    ELSE FinishJob(s, i, "Cancelled")

\* One turn of CancelJobsUsing: the endpoint is dropped from the job, which is
\* retired on the spot.
RetireForSession(s, i) ==
    LET drop(f) == IF f = s.volume THEN NoFs ELSE f
    IN  FinishJob([s EXCEPT !.job[i].src = drop(@), !.job[i].dst = drop(@)],
                  i, "Cancelled")

-----------------------------------------------------------------------------
(* Steps *)

Init ==
    \E relay \in RelayRoots :
      q = [state |-> [i \in JobIds |-> "Absent"],
           job |-> [i \in JobIds |-> NoJob],
           call |-> [i \in JobIds |-> "none"],
           attempt |-> [i \in JobIds |-> 0],
           asked |-> {}, nextId |-> 1, activeId |-> 0, owner |-> NoFs,
           handle |-> 0, cancelling |-> FALSE, paused |-> FALSE,
           policy |-> "Ask", preflight |-> "Pending", checks |-> {},
           dir |-> [d \in DirIds |->
                        [src |-> Local, dst |-> Local, depth |-> 0]],
           nextDir |-> 1, toVisit |-> {}, toMake |-> {}, listings |-> {},
           lostListings |-> {}, making |-> {}, enumerating |-> FALSE,
           enumCancelled |-> FALSE, owed |-> {}, unreadable |-> {},
           relay |-> relay, alive |-> Fs, stopped |-> {}, fault |-> FALSE,
           loop |-> "none", volume |-> NoFs, todo |-> {}]

\* The UI thread is between handlers and the process has not crashed.
Ready == q.loop = "none" /\ ~q.fault

UserEnqueue(r, kind) ==
    /\ Ready
    /\ {r[1], r[2]} \subseteq q.alive
    /\ q.nextId <= MaxJobs
    /\ q' = Pump(AddJobs(q, r[1], r[2], 1, [i \in {1} |-> kind]))

\* A directory copied into itself is refused before anything changes, and is
\* not a step here.
UserEnqueueTree(r) ==
    /\ Ready
    /\ {r[1], r[2]} \subseteq q.alive
    /\ q.nextDir <= MaxDirs
    /\ q' = EnqueueTree(q, r[1], r[2])

Pause == Ready /\ q' = [q EXCEPT !.paused = TRUE]

Resume == Ready /\ q.paused /\ q' = Pump([q EXCEPT !.paused = FALSE])

UserCancelJob(i) ==
    /\ Ready
    /\ i \in Unfinished(q)
    /\ q' = CancelJob(q, i)

CancelAll ==
    /\ Ready
    /\ q' = [q EXCEPT !.toVisit = {}, !.toMake = {},
                      !.enumCancelled = @ \/ q.enumerating,
                      !.loop = "all", !.todo = Unfinished(q)]

ClearFinished ==
    LET kept(i) == q.state[i] \notin Terminal
    IN  /\ Ready
        /\ q' = [q EXCEPT
                   !.state = [i \in JobIds |->
                                 IF kept(i) THEN @[i] ELSE "Absent"],
                   !.job = [i \in JobIds |-> IF kept(i) THEN @[i] ELSE NoJob]]

\* The connection fails: the worker answers what it holds with NotConnected
\* and exits, and the endpoint object stays.
DropLink(f) ==
    /\ Ready
    /\ f \in Mortal \ q.stopped
    /\ q' = [q EXCEPT !.stopped = @ \union {f}]

\* Mutant: the transfer under way is left to come to its own end.
EndSessionLeavesActive(f) ==
    /\ Ready
    /\ f \in Mortal \intersect q.alive
    /\ q' = [q EXCEPT !.stopped = @ \union {f}, !.loop = "session",
                      !.volume = f,
                      !.todo = {i \in Unfinished(q) : Uses(q, i, f)} \ {q.activeId}]

\* CloseSession: the transport is stopped, the window told
\* (CancelJobsUsing), and the endpoint destroyed when the loop is over.
EndSession(f) ==
    /\ Ready
    /\ f \in Mortal \intersect q.alive
    /\ q' = [q EXCEPT !.stopped = @ \union {f}, !.loop = "session",
                      !.volume = f,
                      !.todo = {i \in Unfinished(q) : Uses(q, i, f)}]

\* One turn of whichever loop is running.
CancelNext ==
    LET i == Min(q.todo)
        t == [q EXCEPT !.todo = @ \ {i}]
    IN  /\ ~q.fault
        /\ q.todo # {}
        /\ q' = IF q.loop = "session" THEN RetireForSession(t, i)
                ELSE CancelJob(t, i)

\* What follows the loop in its caller.
CancelDone ==
    LET t == [q EXCEPT !.loop = "none", !.volume = NoFs]
    IN  /\ ~q.fault
        /\ q.loop # "none"
        /\ q.todo = {}
        /\ q' = CASE q.loop = "all"     -> t
                  [] q.loop = "batch"   -> ClearPreflight(t)
                  [] q.loop = "session" -> [t EXCEPT !.alive = @ \ {q.volume}]

-----------------------------------------------------------------------------
(* Answers *)

\* The callback a job was waiting for has arrived and is being handled.
Answered(i, op) ==
    /\ Ready
    /\ q.call[i] = op

Consumed(i) == [q EXCEPT !.call[i] = "none"]

\* Only NoSuchFile counts as "not there", so an error says it exists.
StatReply(i, exists) ==
    /\ Answered(i, "stat")
    /\ q' = OnConflictKnown(Consumed(i), i, exists)

\* An answer to a prompt whose job has moved on is dropped.
PromptReply(i, resolution, applyToAll) ==
    LET t == [Consumed(i) EXCEPT
                 !.policy = IF applyToAll THEN resolution ELSE @]
    IN  /\ Answered(i, "prompt")
        /\ q' = IF q.state[i] = "AwaitingResolution"
                THEN ApplyResolution(t, i, resolution)
                ELSE Consumed(i)

ProbeReply(i, taken) ==
    LET t == IF q.state[i] = "Absent" THEN Consumed(i)
             ELSE [Consumed(i) EXCEPT !.job[i].existed = FALSE]
    IN  /\ Answered(i, "probe")
        /\ q' = IF taken THEN ResolveFreeName(Consumed(i), i, q.attempt[i] + 1)
                ELSE StartTransfer(t, i)

\* A transfer reports Cancelled only if its endpoint was told to stop it.
LegReply(i, result) ==
    LET leg == q.call[i]
    IN  /\ Ready
        /\ leg \in Legs
        /\ result = "cancelled" => i \in q.asked
        /\ q' = OnLegDone([Consumed(i) EXCEPT !.asked = @ \ {i}],
                          i, result, leg)

LinkReply(i, ok) ==
    /\ Ready
    /\ q.call[i] \in {"readlink", "remove", "symlink"}
    /\ q' = IF ~ok THEN FinishJob(Consumed(i), i, "Failed")
            ELSE IF q.call[i] = "readlink" THEN OnLinkRead(Consumed(i), i)
            ELSE IF q.call[i] = "remove" THEN WriteLink(Consumed(i), i)
            ELSE FinishJob(Consumed(i), i, "Completed")

\* "climb" is an error with an ancestor left to ask about.
SpaceReply(c, answer) ==
    LET t == [q EXCEPT !.checks = @ \ {c}]
    IN  /\ Ready
        /\ c.kind = "query"
        /\ answer = "climb" => c.climb > 0
        /\ q' = IF answer = "climb" THEN QuerySpaceFrom(t, c.fs, c.climb - 1)
                ELSE OnPreflightSpace(t, c.fs, answer = "short")

WarningReply(c, proceed) ==
    LET t == [q EXCEPT !.checks = @ \ {c}]
    IN  /\ Ready
        /\ c.kind = "prompt"
        /\ q' = IF proceed THEN ClearPreflight(t) ELSE CancelBatchFor(t, c.fs)

\* Mutant: a directory made moves nothing on.
MakeDirectoryReplyIgnored(d) ==
    /\ Ready
    /\ d \in q.making
    /\ q' = [q EXCEPT !.making = @ \ {d}]

MakeDirectoryReply(d) ==
    /\ Ready
    /\ d \in q.making
    /\ q' = Pump([q EXCEPT !.making = @ \ {d}])

ListReply(d, n, kinds, subdirs, err) ==
    LET t == [q EXCEPT !.listings = @ \ {d}]
    IN  /\ Ready
        /\ d \in q.listings
        /\ err = "gone" => q.dir[d].src \in q.stopped
        /\ q.nextId + n <= MaxJobs + 1
        /\ q.nextDir + subdirs <= MaxDirs + 1
        /\ q' = StepEnumeration(IF q.enumCancelled THEN t
                                ELSE AbsorbListing(t, d, n, kinds, subdirs, err))

User ==
    \/ \E r \in Routes, kind \in LeafKinds : UserEnqueue(r, kind)
    \/ \E r \in Routes : UserEnqueueTree(r)
    \/ Pause
    \/ Resume
    \/ \E i \in JobIds : UserCancelJob(i)
    \/ CancelAll
    \/ ClearFinished

SessionEvent == \E f \in Mortal : DropLink(f) \/ EndSession(f)

Reply(i) ==
    \/ \E exists \in BOOLEAN : StatReply(i, exists)
    \/ \E resolution \in Policies \ {"Ask"}, all \in BOOLEAN :
           PromptReply(i, resolution, all)
    \/ \E taken \in BOOLEAN : ProbeReply(i, taken)
    \/ \E result \in {"ok", "failed", "cancelled"} : LegReply(i, result)
    \/ \E ok \in BOOLEAN : LinkReply(i, ok)

CheckReply ==
    \/ \E c \in q.checks, answer \in {"fits", "short", "climb"} :
           SpaceReply(c, answer)
    \/ \E c \in q.checks, proceed \in BOOLEAN : WarningReply(c, proceed)

WalkReply ==
    \E d \in DirIds, n \in 0..MaxLeaves, subdirs \in 0..MaxSubdirs,
       err \in {"none", "failed", "gone"} :
        \E kinds \in [1..n -> LeafKinds] : ListReply(d, n, kinds, subdirs, err)

MakeReply == \E d \in DirIds : MakeDirectoryReply(d)

Loop == CancelNext \/ CancelDone

Next ==
    \/ User
    \/ SessionEvent
    \/ \E i \in JobIds : Reply(i)
    \/ CheckReply
    \/ WalkReply
    \/ MakeReply
    \/ Loop

Spec == Init /\ [][Next]_vars

-----------------------------------------------------------------------------
(* Properties *)

\* The record keeps its shape: every id, call, directory and volume it holds is
\* one that exists (the members of class TransferQueue).
TypeOK == q \in Queue

\* A queued job always names two endpoints, so the branches BeginPreflight and
\* BeginJob keep for a null one are never taken from the queue itself.
QueuedIsAddressed ==
    \A i \in Queued(q) : {q.job[i].src, q.job[i].dst} \subseteq Fs

\* A job that has left the queue for the wire is waiting for exactly the kind
\* of callback that moves it on, and the active job is such a job: nothing is
\* "in flight" that no answer can retire (BeginJob, OnConflictKnown,
\* ResolveFreeName, StartTransfer, StartLink).
InFlightIsAwaited ==
    /\ \A i \in JobIds :
         /\ q.state[i] = "Checking" => q.call[i] \in {"stat", "probe", "lost"}
         /\ q.state[i] = "AwaitingResolution" =>
                q.call[i] \in {"prompt", "probe", "lost"}
         /\ q.state[i] = "Active" =>
                q.call[i] \in Legs \union {"readlink", "remove", "symlink", "lost"}
    /\ q.activeId # 0 => q.state[q.activeId] \in InFlight

\* Whatever order the answers come in, a queue that is neither paused nor
\* empty is waiting for something that will pump it again.
NeverStalled ==
    (q.loop = "none" /\ ~q.paused /\ Queued(q) # {} /\ q.stopped = {}) =>
        \/ q.enumerating
        \/ q.preflight = "Checking"
        \/ q.activeId # 0
        \/ q.making # {}

\* A check that is under way has exactly one query or one warning out, so it
\* can neither be answered twice nor hold the queue with nothing outstanding
\* (BeginPreflight, QuerySpaceFrom, OnPreflightSpace, and the answer's
\* ClearPreflight).
OneCheckOut ==
    Cardinality(q.checks) =
        IF q.preflight = "Checking" /\ q.loop # "batch" THEN 1 ELSE 0

\* One listing is outstanding while a walk runs and none otherwise, and every
\* onExpanded still owed has a walk that will deliver it (EnqueueTree,
\* StepEnumeration, FinishEnumeration).
OneWalk ==
    /\ Cardinality(q.listings \union q.lostListings) =
           IF q.enumerating THEN 1 ELSE 0
    /\ q.owed # {} => q.enumerating

\* No job reaches an endpoint before a space verdict has covered it, even for
\* a second copy started while the first is draining (Pump).
WeighedBeforeStart ==
    \A i \in JobIds :
        q.state[i] \in InFlight \union {"Completed", "Failed"} =>
            q.job[i].weighed # NoFs

\* While work is queued, a directory is made only under a verdict that covers
\* all of it, with no walk running and no job in flight (Pump).
MakeAfterVerdict ==
    [][(q'.toMake # q.toMake /\ q'.making # q.making /\ Queued(q') # {}) =>
          /\ q'.preflight = "Cleared"
          /\ Unchecked(q') = {}
          /\ ~q'.enumerating
          /\ q'.activeId = 0]_vars

\* When the loop behind Cancel All or a declined warning has run, what it was
\* about is gone, although FinishJob pumped the queue at every turn: nothing is
\* queued, no directory is left to make, and a job still unfinished is the one
\* its endpoint has been asked to stop.
CancelLeavesNothing ==
    LET covered(f) == q.loop = "all" \/ f = q.volume
    IN  (q.loop \in {"all", "batch"} /\ q.todo = {}) =>
          /\ \A i \in Unfinished(q) :
                covered(q.job[i].dst) => i = q.activeId /\ q.cancelling
          /\ \A d \in q.toMake : ~covered(q.dir[d].dst)

\* A session that closes takes exactly its own jobs: none of them is left
\* unfinished when the loop is over, and none that does not use the endpoint is
\* retired by it, although FinishJob starts the next job at every turn
\* (CancelJobsUsing).
SessionTakesItsJobs ==
    [][q.loop = "session" =>
          /\ \A i \in JobIds :
                 i \in Unfinished(q) /\ ~Uses(q, i, q.volume) =>
                     q'.state[i] \notin Terminal
          /\ q.todo = {} =>
                 \A i \in Unfinished(q) : ~Uses(q, i, q.volume)]_vars

\* TransferQueue.h: "Jobs run one at a time."
OneAtATime ==
    Cardinality({i \in JobIds : q.state[i] \in InFlight}) <= 1

\* CancelJobsUsing is for "when a single session dies and the rest of the
\* queue is still perfectly valid": nothing calls the endpoint afterwards.
NoCallOnDeadEndpoint == ~q.fault

=============================================================================
