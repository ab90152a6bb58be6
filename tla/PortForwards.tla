---------------------------- MODULE PortForwards ----------------------------
(***************************************************************************)
(* The port forwards of one SSH session: transport/SshPortForwardEngine,   *)
(* which the worker of the link drives, session/Session, which remembers   *)
(* what was asked for across reconnects, and ui/PortForwardPanel with      *)
(* ui/AddPortForwardDialog, which ask and show.                            *)
(*                                                                         *)
(* Requests go to the worker through a queue, states come back as          *)
(* snapshots that are posted to the user interface.                        *)
(***************************************************************************)
EXTENDS Link, FiniteSets, Sequences, SequencesExt, FiniteSetsExt

CONSTANTS
    Ids,         \* bound: the forwards ever asked for, 1 upwards
    MaxConns,    \* bound: connections of one forward
    MaxRequests, \* bound: requests on their way to the worker
    MaxPosts     \* bound: snapshots on their way to the user interface

ASSUME PortForwardsAssumption ==
    /\ IsFiniteSet(Ids) /\ Ids = 1..Cardinality(Ids)
    /\ {MaxConns, MaxRequests, MaxPosts} \subseteq Nat \ {0}

VARIABLES
    descs,    \* portForwardDescs_: what the session means to have, in order
    nextId,   \* nextPfwId_
    pending,  \* the requests the worker has not taken over
    batch,    \* those it has, and not yet served
    changed,  \* a request served so far has changed something
    fwd,      \* localFwds_, remoteFwds_ and failed_
    last,     \* lastStatus_
    told,     \* portForwardStatus_ of the session
    wired,    \* how far the user interface is listening
    posts,    \* snapshots posted to it
    cache,    \* the snapshot it shows
    rows,     \* the forwards it lists
    dialog,   \* the dialog that adds a forward
    waiting,  \* pendingResultCbs_
    profile   \* the session's: [jump, auth, forwards, most, remote], by way of a jump
              \* host, how to authenticate, how many forwards are asked for at first
              \* and (a bound) at most, and which of them are -R

engineVars == <<pending, batch, changed, fwd, last>>
panelVars == <<cache, rows, dialog, waiting>>
pfVars == <<descs, nextId, engineVars, told, wired, posts, panelVars>>

Local(id) == id \notin profile.remote
Most == profile.most

\* A forward: "up", "retired" by a server that forbids it, or "failed" before it
\* was set up.
Blank == [state |-> "none", conns |-> 0, warning |-> FALSE]
Up == [Blank EXCEPT !.state = "up"]
Failed == [Blank EXCEPT !.state = "failed"]
Retired == [Blank EXCEPT !.state = "retired"]
Held(fs) == {id \in Ids : fs[id].state # "none"}

Status(f) == [active |-> f.state = "up", conns |-> f.conns, warning |-> f.warning,
              error |-> f.state \in {"retired", "failed"}]
Snapshot(fs) == [id \in Held(fs) |-> Status(fs[id])]
NoStatus == [id \in {} |-> Blank]

Request(op, id) == [op |-> op, id |-> id]
Adds(ids) == [i \in DOMAIN ids |-> Request("add", ids[i])]
Meant == ToSet(descs)
NoDialog == [phase |-> "none", mine |-> {}]

\* The session as it is built: the forwards of its profile are asked for.
InitPortForwards ==
    /\ descs = [i \in 1..profile.forwards |-> i] /\ nextId = profile.forwards + 1
    /\ pending = Adds(descs)
    /\ batch = <<>> /\ changed = FALSE /\ fwd = [id \in Ids |-> Blank]
    /\ last = NoStatus /\ told = NoStatus /\ wired = "no" /\ posts = <<>>
    /\ cache = NoStatus /\ rows = {} /\ dialog = NoDialog /\ waiting = {}

-----------------------------------------------------------------------------
(* The worker *)

\* Bound: the interface keeps up, unless it is waiting for this very worker.
Room == Len(posts) < MaxPosts \/ ui # "free"

\* NotifyStatus, and what the session does with it: nothing is said twice.
NotifyStatus(fs) ==
    LET status == Snapshot(fs) IN
    /\ last' = status
    /\ told' = IF status = last THEN told ELSE status
    /\ posts' = IF status = last \/ wired = "no" THEN posts ELSE Append(posts, status)

\* What may become of an add.  A local forward is listened for first and tried
\* out then; a remote one is forgotten when the transport stops.
Added(id) ==
    CASE ~running -> IF Local(id) THEN {Up, Failed} ELSE {Blank}
      [] Local(id) -> {Up, Failed, Retired, [Up EXCEPT !.warning = TRUE]}
      [] OTHER -> {Up, Failed}

Outcomes(item) == IF item.op = "add" THEN Added(item.id) ELSE {Blank}

ServiceQueue ==
    /\ batch = <<>> /\ pending # <<>>
    /\ batch' = pending /\ pending' = <<>>
    /\ UNCHANGED <<descs, nextId, changed, fwd, last, told, wired, posts, panelVars>>

\* One request of the batch.  A failure is reported at once, all else when the
\* batch is done.
Serve ==
    /\ batch # <<>> /\ Room
    /\ \E f \in Outcomes(Head(batch)) :
        LET item == Head(batch)
            fs == [fwd EXCEPT ![item.id] = f]
            failed == f = Failed
            now == changed \/ (fs # fwd /\ ~failed)
            done == Len(batch) = 1
        IN /\ fwd' = fs /\ batch' = Tail(batch) /\ changed' = (now /\ ~done)
           /\ IF failed \/ (done /\ now) THEN NotifyStatus(fs)
              ELSE UNCHANGED <<last, told, posts>>
    /\ UNCHANGED <<descs, nextId, pending, wired, panelVars>>

\* One turn of the loop for one forward: what becomes of it, and whether that
\* counts as a change.
Same(f) == [to |-> f, counts |-> FALSE]
Counts(f) == [to |-> f, counts |-> TRUE]

\* OpenDirectTcpip for a connection that was accepted.
Opened(f) ==
    IF ~running THEN {Same(f)}
    ELSE {Counts([f EXCEPT !.conns = @ + 1, !.warning = FALSE]), Counts([f EXCEPT !.state = "retired"]),
          [to |-> [f EXCEPT !.warning = TRUE], counts |-> ~f.warning]}

\* A connection from the server's side is taken without saying so.
Accepted(id) ==
    LET f == fwd[id] IN
    IF f.state # "up" \/ f.conns = MaxConns THEN {}
    ELSE IF Local(id) THEN Opened(f) ELSE {Same([f EXCEPT !.conns = @ + 1])}

\* SweepClosedProxies
Swept(id) == IF fwd[id].conns = 0 THEN {} ELSE {Counts([fwd[id] EXCEPT !.conns = @ - 1])}

Turn(id) == {Same(fwd[id])} \union Accepted(id) \union Swept(id)

ServiceConns ==
    /\ batch = <<>> /\ Room
    /\ \E turn \in [Ids -> UNION {Turn(id) : id \in Ids}] :
        LET fs == [id \in Ids |-> turn[id].to] IN
        /\ \A id \in Ids : turn[id] \in Turn(id)
        /\ fs # fwd /\ fwd' = fs
        /\ IF \E id \in Ids : turn[id].counts THEN NotifyStatus(fs)
           ELSE UNCHANGED <<last, told, posts>>
    /\ UNCHANGED <<descs, nextId, pending, batch, changed, wired, panelVars>>

\* Teardown, at the end of the loop: everything is closed, and nobody is told.
Teardown ==
    /\ batch = <<>>
    /\ fwd' = [id \in Ids |-> IF fwd[id] = Failed THEN Failed ELSE Blank]
    /\ UNCHANGED <<descs, nextId, pending, batch, changed, last, told, wired, posts, panelVars>>

-----------------------------------------------------------------------------
(* The session and the user interface *)

\* Mutant: what was asked for once is not asked for again.
ResubmitNothing ==
    /\ pending' = <<>> /\ batch' = <<>> /\ changed' = FALSE
    /\ fwd' = [id \in Ids |-> Blank] /\ last' = NoStatus
    /\ told' = IF descs = <<>> THEN told ELSE NoStatus
    /\ UNCHANGED <<descs, nextId, wired, posts, panelVars>>

\* ReplaceConnection: a new engine is asked for all the session means to have,
\* under the same numbers.
Resubmit ==
    /\ pending' = Adds(descs) /\ batch' = <<>> /\ changed' = FALSE
    /\ fwd' = [id \in Ids |-> Blank] /\ last' = NoStatus
    /\ told' = IF descs = <<>> THEN told ELSE NoStatus
    /\ UNCHANGED <<descs, nextId, wired, posts, panelVars>>

\* CreateSession of the user interface first listens, then reads what it has
\* missed.
Wire ==
    /\ wired = "no" /\ wired' = "set"
    /\ UNCHANGED <<descs, nextId, engineVars, told, posts, panelVars>>

\* Mutant: what was said before it listened is not asked for.
SeedNothing ==
    /\ wired = "set" /\ wired' = "seeded" /\ rows' = Meant
    /\ UNCHANGED <<descs, nextId, engineVars, told, posts, cache, dialog, waiting>>

Seed ==
    /\ wired = "set" /\ wired' = "seeded" /\ cache' = told /\ rows' = Meant
    /\ UNCHANGED <<descs, nextId, engineVars, told, posts, dialog, waiting>>

Asking == wired = "seeded" /\ Len(pending) + Len(batch) < MaxRequests

\* OnAdd of the dialog, at first or after a failure, down to the engine's queue.
AddPortForward ==
    /\ Asking /\ nextId <= Most /\ dialog.phase # "verifying"
    /\ descs' = Append(descs, nextId) /\ nextId' = nextId + 1
    /\ pending' = Append(pending, Request("add", nextId))
    /\ waiting' = waiting \union {nextId}
    /\ dialog' = [phase |-> "verifying", mine |-> dialog.mine \union {nextId}]
    /\ UNCHANGED <<batch, changed, fwd, last, told, wired, posts, cache, rows>>

OnFallbackTimer ==
    /\ dialog.phase = "verifying" /\ dialog' = [dialog EXCEPT !.phase = "given up"]
    /\ UNCHANGED <<descs, nextId, engineVars, told, wired, posts, cache, rows, waiting>>

\* The panel keeps what it promised to call; what that does to a dialog which is
\* gone is left out.
CancelDialog ==
    /\ dialog.phase \in {"failed", "given up"} /\ dialog' = NoDialog
    /\ UNCHANGED <<descs, nextId, engineVars, told, wired, posts, cache, rows, waiting>>

\* No two of descs have one number, so that remove_if takes out one of them.
RemovePortForward ==
    /\ Asking /\ dialog.phase = "none"
    /\ \E id \in rows :
        /\ IF id \in Meant
           THEN \E i \in DOMAIN descs : descs[i] = id /\ descs' = RemoveAt(descs, i)
           ELSE UNCHANGED descs
        /\ pending' = Append(pending, Request("remove", id))
    /\ UNCHANGED <<nextId, batch, changed, fwd, last, told, wired, posts, panelVars>>

\* The forwards a snapshot decides.
Settled(status) == {id \in DOMAIN status : status[id].active \/ status[id].error}

\* A snapshot reaches the panel, and whoever waits for one of its forwards.
UpdateStatus ==
    LET status == Head(posts)
        settled == waiting \intersect Settled(status)
        mine == settled \intersect dialog.mine
    IN /\ wired = "seeded" /\ posts # <<>> /\ posts' = Tail(posts)
       /\ cache' = status /\ rows' = Meant /\ waiting' = waiting \ settled
       /\ dialog' = IF \E id \in mine : ~status[id].error THEN NoDialog
                    ELSE IF mine # {} THEN [dialog EXCEPT !.phase = "failed"] ELSE dialog
       /\ UNCHANGED <<descs, nextId, engineVars, told, wired>>

Interface ==
    \/ Wire \/ Seed \/ UpdateStatus
    \/ AddPortForward \/ OnFallbackTimer \/ CancelDialog \/ RemovePortForward

-----------------------------------------------------------------------------
(* Properties *)

\* Types; a dialog waits for what it submitted.
PortForwardsTypeOK ==
    /\ changed \in BOOLEAN
    /\ Meant \subseteq 1..nextId - 1 /\ rows \subseteq Ids /\ waiting \subseteq Ids
    /\ fwd \in [Ids -> [state : {"none", "up", "retired", "failed"},
                        conns : 0..MaxConns, warning : BOOLEAN]]
    /\ (ui = "free" /\ stage = "loop" => Len(posts) <= MaxPosts) /\ wired \in {"no", "set", "seeded"}
    /\ \A r \in Range(pending) \union Range(batch) : r.op \in {"add", "remove"} /\ r.id \in Ids
    /\ dialog.phase \in {"none", "verifying", "failed", "given up"}

\* The forwards there will be once the requests on their way have been served:
\* the last of them about a forward decides.
WillHold ==
    LET requests == batch \o pending
        about(id) == {i \in DOMAIN requests : requests[i].id = id}
    IN {id \in Ids : IF about(id) = {} THEN id \in Held(fwd)
                     ELSE \E i \in about(id) : /\ requests[i].op = "add"
                                               /\ \A j \in about(id) : j <= i}

\* The worker's last word on a forward is its present state, but for the
\* connections of a remote one, which are taken without a word; once the loop is
\* left nothing is said any more (NotifyStatus and its callers).
StatusIsCurrent ==
    stage = "loop" /\ batch = <<>> =>
        /\ DOMAIN last = Held(fwd)
        /\ \A id \in Held(fwd) :
            LET said == last[id]
                real == Status(fwd[id])
            IN said = IF Local(id) THEN real ELSE [real EXCEPT !.conns = said.conns]

\* What the panel shows, or will once it has been shown what is posted, is the
\* worker's last word (SetPortForwardChangedCallback before GetPortForwardStatus).
PanelHasLatest ==
    wired = "seeded" /\ last # NoStatus => last = IF posts = <<>> THEN cache ELSE Last(posts)
=============================================================================
