---------------------------- MODULE SftpService ----------------------------
(***************************************************************************)
(* transport/SshSftpService and transport/SftpTaskQueue: one SFTP session  *)
(* shared by every file operation of a connection.                         *)
(*                                                                         *)
(* Any thread enqueues and cancels; the transport's worker thread takes    *)
(* tasks from the queue, advances each by one non-blocking step outside    *)
(* the queue's lock and puts it back.  Taking, stepping and putting back   *)
(* are three actions here, because an enqueue can come between them.       *)
(***************************************************************************)
EXTENDS Naturals, FiniteSets, Sequences, SequencesExt

CONSTANTS
    Tasks,      \* bound: the operations ever asked for
    Kinds,      \* bound: what each of them may be, a set of kinds per task
    NoTask

\* Opening, reading and closing a handle; the slots of one-call operations.
HandleKinds == {"List", "Download", "Upload"}
Transfers == {"Download", "Upload"}
OpSlots == {"Stat", "StatVfs", "Unlink", "Rename", "MkDir", "RmDir", "Symlink"}
Slots == OpSlots \union
    {"Init", "Open", "ReadDir", "Read", "Write", "FStat", "Close"}

ASSUME ServiceAssumption ==
    /\ IsFiniteSet(Tasks)
    /\ NoTask \notin Tasks
    /\ Kinds \in [Tasks -> SUBSET (HandleKinds \union OpSlots)]

\* The slots a task's steps drive, in order.
Program(k) ==
    CASE k = "List"     -> <<"Init", "Open", "ReadDir", "Close">>
      [] k = "Download" -> <<"Init", "Open", "FStat", "Read", "Close">>
      [] k = "Upload"   -> <<"Init", "Open", "Write", "Close">>
      [] OTHER          -> <<"Init", k>>

Outcomes == {"none", "ok", "failed", "cancelled", "gone"}

VARIABLES
    kind,       \* what each task is, "none" before it is asked for
    phase,      \* how far along its program it is
    open,       \* its handle is not null
    outcome,    \* what it will report once its handle is closed
    answers,    \* the outcomes its callback was called with
    queue,      \* SftpTaskQueue::queue_
    held,       \* SftpTask::held, "none" for nullopt
    taken,      \* SftpTaskQueue::held_: the slots marked as held
    stage,      \* where the worker thread is
    stepping,   \* the task RunNext has taken out of the queue
    drained,    \* the tasks Drain handed back and CancelPending has yet to step
    running,    \* SshTransport::running_
    cancelling, \* the latch CancelPending sets
    up,         \* sftp_ is initialised
    live,       \* transfers whose handle may be cancelled
    cancelled,  \* transfers asked to stop
    wire,       \* whose request each libssh2 state machine has out
    mixed,      \* tasks handed the reply to another's request
    landed      \* tasks whose handle the server has confirmed closed

task == <<kind, phase, open, outcome, answers>>
registry == <<live, cancelled>>
session == <<up, wire, mixed, landed>>
vars == <<task, queue, held, taken, stage, stepping, drained, running,
          cancelling, registry, session>>

Slot(t) == Program(kind[t])[phase[t]]
HasHandle(t) == kind[t] \in HandleKinds
Closing(t) == HasHandle(t) /\ Slot(t) = "Close"
Stopped == ~running \/ cancelling

Init ==
    /\ kind = [t \in Tasks |-> "none"]
    /\ phase = [t \in Tasks |-> 1]
    /\ open = [t \in Tasks |-> FALSE]
    /\ outcome = [t \in Tasks |-> "none"]
    /\ answers = [t \in Tasks |-> <<>>]
    /\ queue = <<>> /\ held = [t \in Tasks |-> "none"] /\ taken = {}
    /\ stage = "service" /\ stepping = NoTask /\ drained = <<>>
    /\ running = TRUE /\ cancelling = FALSE
    /\ up = FALSE /\ live = {} /\ cancelled = {}
    /\ wire = [s \in Slots |-> NoTask] /\ mixed = {} /\ landed = {}

-----------------------------------------------------------------------------
(* Callers *)

\* A transfer is registered before it is queued.
Enqueue(t, k) ==
    /\ kind[t] = "none"
    /\ kind' = [kind EXCEPT ![t] = k]
    /\ queue' = Append(queue, t)
    /\ live' = IF k \in Transfers THEN live \union {t} ELSE live
    /\ UNCHANGED <<phase, open, outcome, answers, held, taken, stage, stepping,
                   drained, running, cancelling, cancelled, session>>

\* A handle that has finished is dropped, not recorded.
Cancel(t) ==
    /\ kind[t] \in Transfers
    /\ cancelled' = IF t \in live THEN cancelled \union {t} ELSE cancelled
    /\ UNCHANGED <<task, queue, held, taken, stage, stepping, drained, running,
                   cancelling, live, session>>

\* Stop(), or the loop seeing the link end.
Stop ==
    /\ running
    /\ running' = FALSE
    /\ UNCHANGED <<task, queue, held, taken, stage, stepping, drained,
                   cancelling, registry, session>>

-----------------------------------------------------------------------------
(* The queue *)

Runnable(t) == held[t] # "none" \/ Slot(t) \notin taken

\* RunNext under its first lock: the first task that may run leaves the queue
\* and gives its slot up.  It is at index i.
Take(i) ==
    /\ stage = "service" /\ running
    /\ Runnable(queue[i])
    /\ \A j \in 1..(i - 1) : ~Runnable(queue[j])
    /\ stepping' = queue[i]
    /\ queue' = RemoveAt(queue, i)
    /\ held' = [held EXCEPT ![queue[i]] = "none"]
    /\ taken' = taken \ {held[queue[i]]}
    /\ stage' = "step"
    /\ UNCHANGED <<task, drained, running, cancelling, registry, session>>

\* Mutant: an unfinished task goes to the front.
PutBackInFront ==
    /\ stage = "requeue"
    /\ held' = [held EXCEPT ![stepping] = Slot(stepping)]
    /\ taken' = taken \union {Slot(stepping)}
    /\ queue' = <<stepping>> \o queue
    /\ stage' = "service" /\ stepping' = NoTask
    /\ UNCHANGED <<task, drained, running, cancelling, registry, session>>

\* RunNext under its second lock.  The slot the task has moved to is marked
\* without asking whether another task holds it.
PutBack ==
    /\ stage = "requeue"
    /\ held' = [held EXCEPT ![stepping] = Slot(stepping)]
    /\ taken' = taken \union {Slot(stepping)}
    /\ queue' = Append(queue, stepping)
    /\ stage' = "service" /\ stepping' = NoTask
    /\ UNCHANGED <<task, drained, running, cancelling, registry, session>>

-----------------------------------------------------------------------------
(* One step of a task *)

\* The task whose step runs now: RunNext's, or the next one of a drain.
Current(t) ==
    \/ stage = "step" /\ t = stepping
    \/ stage = "drain" /\ drained # <<>> /\ t = Head(drained)

\* What becomes of the task; CancelPending ignores what a step returns.
Return(again) ==
    /\ IF stage = "drain"
       THEN drained' = Tail(drained) /\ UNCHANGED <<stage, stepping>>
       ELSE /\ stage' = IF again THEN "requeue" ELSE "service"
            /\ stepping' = IF again THEN stepping ELSE NoTask
            /\ UNCHANGED drained
    /\ UNCHANGED <<kind, queue, held, taken, running, cancelling>>

\* onDone, and with it ForgetCancellation.
Answer(t, result) ==
    /\ answers' = [answers EXCEPT ![t] = Append(@, result)]
    /\ live' = live \ {t}
    /\ cancelled' = cancelled \ {t}
    /\ Return(FALSE)

Silent == UNCHANGED <<answers, live, cancelled>>

\* Mutant: a refused close does not turn success into failure.
AdvanceCloseRegardless(t, result) ==
    \/ /\ ~open[t]
       /\ Answer(t, result)
       /\ UNCHANGED <<open, landed>>
    \/ /\ open[t]
       /\ open' = [open EXCEPT ![t] = FALSE]
       /\ Answer(t, result)
       /\ UNCHANGED landed

\* AdvanceClose and StepHandleClose: with the session stopping the handle is
\* abandoned; otherwise the close is pending, confirmed or refused.
AdvanceClose(t, result) ==
    \/ /\ ~open[t]
       /\ Answer(t, result)
       /\ UNCHANGED <<open, landed>>
    \/ /\ open[t] /\ Stopped
       /\ open' = [open EXCEPT ![t] = FALSE]
       /\ Answer(t, result)
       /\ UNCHANGED landed
    \/ /\ open[t] /\ ~Stopped
       /\ Silent /\ Return(TRUE)
       /\ UNCHANGED <<open, landed>>
    \/ /\ open[t] /\ ~Stopped
       /\ open' = [open EXCEPT ![t] = FALSE]
       /\ landed' = landed \union {t}
       /\ Answer(t, result)
    \/ /\ open[t] /\ ~Stopped
       /\ open' = [open EXCEPT ![t] = FALSE]
       /\ Answer(t, IF result = "ok" THEN "failed" ELSE result)
       /\ UNCHANGED landed

\* A task with a handle goes straight on into its close; the others answer.
Finish(t, result) ==
    IF HasHandle(t)
    THEN /\ phase' = [phase EXCEPT ![t] = Len(Program(kind[t]))]
         /\ outcome' = [outcome EXCEPT ![t] = result]
         /\ AdvanceClose(t, result)
    ELSE /\ Answer(t, result)
         /\ UNCHANGED <<phase, open, outcome, landed>>

\* Moves on to the next phase and yields: its slot is another one.
Advance(t) ==
    /\ phase' = [phase EXCEPT ![t] = @ + 1]
    /\ Silent /\ Return(TRUE)
    /\ UNCHANGED <<outcome, landed>>

StepClose(t) ==
    /\ Current(t) /\ Closing(t)
    /\ AdvanceClose(t, outcome[t])
    /\ UNCHANGED <<phase, outcome, up, wire, mixed>>

\* The two checks every other step starts with.
StepStopped(t) ==
    /\ Current(t) /\ ~Closing(t) /\ Stopped
    /\ Finish(t, "gone")
    /\ UNCHANGED <<up, wire, mixed>>

StepCancelled(t) ==
    /\ Current(t) /\ ~Closing(t) /\ ~Stopped /\ t \in cancelled
    /\ Finish(t, "cancelled")
    /\ UNCHANGED <<up, wire, mixed>>

Working(t) == Current(t) /\ ~Closing(t) /\ ~Stopped /\ t \notin cancelled

\* EnsureSftp: up already or now, not yet, or failed; a transfer that cannot
\* open its local file fails here too.
StepInit(t, reply) ==
    /\ Working(t) /\ Slot(t) = "Init"
    /\ CASE reply = "ok"      -> Advance(t) /\ up' = TRUE /\ UNCHANGED open
         [] reply = "pending" -> /\ ~up /\ Silent /\ Return(TRUE)
                                 /\ UNCHANGED <<phase, outcome, open, landed, up>>
         [] reply = "failed"  -> /\ ~up \/ kind[t] \in Transfers
                                 /\ up' \in {up, TRUE}
                                 /\ up' => up \/ kind[t] \in Transfers
                                 /\ Finish(t, "failed")
    /\ UNCHANGED <<wire, mixed>>

\* A call on libssh2's state machine for slot s.  With a request already out
\* it sends nothing and waits for that one's reply, whosever it is.
Request(t, s) ==
    /\ wire' = [wire EXCEPT ![s] = IF @ = NoTask THEN t ELSE @]
    /\ UNCHANGED mixed

Receive(t, s) ==
    /\ wire' = [wire EXCEPT ![s] = NoTask]
    /\ mixed' = IF wire[s] \in {NoTask, t} THEN mixed ELSE mixed \union {t}

\* Every call of a task's program, with the reply it gets.  A refused fstat
\* costs nothing but the size.
StepCall(t, reply) ==
    /\ Working(t) /\ Slot(t) # "Init"
    /\ IF reply = "pending" THEN Request(t, Slot(t)) ELSE Receive(t, Slot(t))
    /\ CASE reply = "pending" -> /\ Silent /\ Return(TRUE)
                                 /\ UNCHANGED <<phase, outcome, open, landed>>
         [] reply = "failed"  -> IF Slot(t) = "FStat"
                                 THEN Advance(t) /\ UNCHANGED open
                                 ELSE Finish(t, "failed")
         [] reply = "ok"      -> IF Slot(t) \in {"Open", "FStat"}
                                 THEN /\ Advance(t)
                                      /\ open' = [open EXCEPT ![t] = TRUE]
                                 ELSE Finish(t, "ok")
    /\ UNCHANGED up

Replies == {"ok", "pending", "failed"}

Step(t) ==
    \/ StepClose(t)
    \/ StepStopped(t)
    \/ StepCancelled(t)
    \/ \E reply \in Replies : StepInit(t, reply) \/ StepCall(t, reply)

-----------------------------------------------------------------------------
(* The end of the session *)

\* The worker's loop has ended.
Latch ==
    /\ stage = "service" /\ ~running
    /\ cancelling' = TRUE
    /\ stage' = "latched"
    /\ UNCHANGED <<task, queue, held, taken, stepping, drained, running,
                   registry, session>>

Drain ==
    /\ stage = "latched"
    /\ drained' = queue
    /\ queue' = <<>>
    /\ taken' = {}
    /\ stage' = "drain"
    /\ UNCHANGED <<task, held, stepping, running, cancelling, registry, session>>

\* The worker thread exits.
Shutdown ==
    /\ stage = "drain" /\ drained = <<>>
    /\ up' = FALSE
    /\ stage' = "gone"
    /\ UNCHANGED <<task, queue, held, taken, stepping, drained, running,
                   cancelling, registry, wire, mixed, landed>>

Callers ==
    \/ \E t \in Tasks : \E k \in Kinds[t] : Enqueue(t, k)
    \/ \E t \in Tasks : Cancel(t)
    \/ Stop

Worker ==
    \/ \E i \in 1..Len(queue) : Take(i)
    \/ \E t \in Tasks : Step(t)
    \/ PutBack
    \/ Latch
    \/ Drain
    \/ Shutdown

Next == Callers \/ Worker

Spec == Init /\ [][Next]_vars

\* The reply a task is waiting for has come, and its step ends that wait.
Progress(t) ==
    \/ StepInit(t, "ok") \/ StepInit(t, "failed")
    \/ /\ Slot(t) \notin {"Read", "Write"}
       /\ StepCall(t, "ok") \/ StepCall(t, "failed")
    \/ StepClose(t) /\ ~open'[t]

\* The worker never rests, and the server answers every request in the end;
\* reading and writing bytes may go on for ever.
Fairness ==
    /\ WF_vars(Worker)
    /\ \A t \in Tasks : SF_vars(Progress(t))

FairSpec == Spec /\ Fairness

-----------------------------------------------------------------------------
(* Properties *)

\* Tasks, queue and libssh2's machines keep their shape, and a task is always
\* at a slot of its own program (SftpTask::slot).
TypeOK ==
    /\ \A t \in Tasks : kind[t] \in Kinds[t] \union {"none"}
    /\ phase \in [Tasks -> 1..5]
    /\ \A t \in Tasks : kind[t] # "none" => phase[t] \in DOMAIN Program(kind[t])
    /\ open \in [Tasks -> BOOLEAN]
    /\ outcome \in [Tasks -> Outcomes]
    /\ answers \in [Tasks -> Seq(Outcomes \ {"none"})]
    /\ queue \in Seq(Tasks) /\ drained \in Seq(Tasks)
    /\ held \in [Tasks -> Slots \union {"none"}] /\ taken \subseteq Slots
    /\ stage \in {"service", "step", "requeue", "latched", "drain", "gone"}
    /\ stepping \in Tasks \union {NoTask}
    /\ {running, cancelling, up} \subseteq BOOLEAN
    /\ live \subseteq Tasks /\ cancelled \subseteq Tasks
    /\ wire \in [Slots -> Tasks \union {NoTask}]
    /\ mixed \subseteq Tasks /\ landed \subseteq Tasks

\* The operations that are somewhere between being asked for and answered.
InHand ==
    ToSet(queue) \union ToSet(drained) \union ({stepping} \ {NoTask})

\* The cancellation registry never outgrows the transfers in hand: a late or
\* repeated Cancel leaves nothing behind (Cancel, ForgetCancellation).
RegistryBounded ==
    /\ live = {t \in InHand : kind[t] \in Transfers}
    /\ cancelled \subseteq live

\* A slot marked as held is held by a queued task, which will free it: no slot
\* stays pinned by an operation that has finished (RunNext).
HeldSlotsHaveHolders ==
    \A s \in taken : \E t \in ToSet(queue) : held[t] = s

\* An operation that has retired leaves neither an entry in the registry nor a
\* marked slot behind, in whatever order it was cancelled, put back, drained
\* and answered (Take, Answer, Cancel).
NothingLeftBehind == RegistryBounded /\ HeldSlotsHaveHolders

\* What was asked for, as callers of the port see it.  What is pushed onto the
\* queue once it has been drained is lost: the worker never looks again.
Asked == {t \in Tasks : kind[t] # "none"}
TooLate == IF stage \in {"drain", "gone"} THEN ToSet(queue) ELSE {}
Lost == {t \in Asked : answers[t] = <<>> /\ t \notin InHand \ TooLate}

\* A listing or a one-call operation overtakes any transfer: it is answered
\* even if the transfer never ends (RunNext's "back of the queue, not the
\* front").
SmallOperationsAnswered ==
    \A t \in Tasks :
        (t \in ToSet(queue) /\ kind[t] \notin Transfers /\ ~cancelling)
            ~> answers[t] # <<>>

\* SftpTaskQueue.h, on tasks being handed each other's answers: "Slots make
\* that impossible."
OwnReplies == mixed = {}

\* UploadTask::Finish: an operation with a handle reports success only when the
\* server has confirmed the close, for until then a file may be shorter than
\* what was sent.  A session that is ending breaks this, and only that.
SuccessMeansClosed ==
    \A t \in Tasks :
        "ok" \in ToSet(answers[t]) /\ HasHandle(t) => t \in landed \/ Stopped
=============================================================================
