------------------------------ MODULE Sessions ------------------------------
(***************************************************************************)
(* session/SessionManager and session/Session with the thread of each      *)
(* session's transport, and what the user interface keeps of a session:    *)
(* ui/UIManager, app/App (windows, moving sessions between them) and       *)
(* input/InputRouter.                                                      *)
(*                                                                         *)
(* Everything of the interface runs on one thread, the handler at hand to  *)
(* its end, except that CloseSession waits there for the session's worker. *)
(* The workers run beside it.  They reach the interface through the        *)
(* session's observer, by posting to the observer's window.                *)
(***************************************************************************)
EXTENDS Naturals, FiniteSets, Sequences, SequencesExt

CONSTANTS
    Ids,        \* bound: the sessions ever launched
    Kinds,      \* bound: what the transport of each may be
    Movable,    \* bound: the sessions the user moves about and adds to a broadcast
    Windows,    \* bound: the windows ever opened
    First,      \* the window the program opens with
    MaxLinks,   \* bound: connections made for one session
    NoSession, NoWindow

ASSUME SessionsAssumption ==
    /\ IsFiniteSet(Ids) /\ NoSession \notin Ids
    /\ First \in Windows /\ NoWindow \notin Windows
    /\ Kinds \in [Ids -> SUBSET {"ssh", "serial", "pty"}] /\ Movable \subseteq Ids
    /\ MaxLinks \in Nat \ {0}

VARIABLES
    life,       \* its record: "none", "made", "open", "closing", "gone"
    kind,       \* its transport, "none" before it is launched
    worker,     \* its transport's thread
    running,    \* the transport's running_
    link,       \* how many transports it has had
    status,     \* Session::status_
    observer,   \* SessionRecord::uiObserver
    router,     \* SessionRecord::router, as the window that owns it
    bar,        \* its reconnect bar is shown
    win,        \* per window: UIManager's sessions_ and activeId_, and its InputRouter
    posted,     \* per window: what CallAfter has queued
    shown,      \* App::m_windows
    doomed,     \* windows that are closing
    dialogs,    \* the prompts open, the last on top
    closing,    \* the sessions the handler at hand is closing, one after another
    missed      \* sessions whose end the interface was never told of

thread == <<kind, worker, running, link, status>>
record == <<life, observer, router>>
windows == <<win, posted, shown, doomed>>
vars == <<thread, record, bar, windows, dialogs, closing, missed>>

Blank == [sessions |-> {}, active |-> NoSession, targets |-> {}, selected |-> {},
          focused |-> NoSession]

Init ==
    /\ kind = [s \in Ids |-> "none"]
    /\ life = [s \in Ids |-> "none"] /\ worker = [s \in Ids |-> "none"]
    /\ running = [s \in Ids |-> FALSE] /\ link = [s \in Ids |-> 0]
    /\ status = [s \in Ids |-> "Connected"]
    /\ observer = [s \in Ids |-> NoWindow] /\ router = [s \in Ids |-> NoWindow]
    /\ bar = [s \in Ids |-> FALSE]
    /\ win = [w \in Windows |-> Blank] /\ posted = [w \in Windows |-> <<>>]
    /\ shown = {First} /\ doomed = {}
    /\ dialogs = <<>> /\ closing = <<>> /\ missed = {}

Note(k, s, r) == [kind |-> k, session |-> s, reason |-> r, link |-> link[s]]
Pending(s, k) == {n \in UNION {Range(posted[w]) : w \in Windows} :
                    n.session = s /\ n.kind = k}

\* The interface thread is between handlers; the user can reach the windows.
Free == closing = <<>> /\ \A s \in Ids : life[s] # "made"
UserFree == Free /\ dialogs = <<>>
Usable == shown \ doomed

-----------------------------------------------------------------------------
(* InputRouter, and the window's own bookkeeping *)

AddTarget(r, s) == [r EXCEPT !.targets = @ \union {s}]

RemoveTarget(r, s) ==
    [r EXCEPT !.targets = @ \ {s}, !.selected = @ \ {s},
              !.focused = IF @ = s THEN NoSession ELSE @]

SetFocused(r, s) == IF s \in r.targets THEN [r EXCEPT !.focused = s] ELSE r
RequestActivate(r, s) == [SetFocused(r, s) EXCEPT !.active = s]

TakeSession(r, s) == RequestActivate([r EXCEPT !.sessions = @ \union {s}], s)

\* Whatever was active, some session that is left becomes so.
TearDown(r, s) ==
    LET rest == [r EXCEPT !.sessions = @ \ {s}]
    IN CASE s \notin r.sessions -> {r}
         [] rest.sessions = {}  -> {[rest EXCEPT !.active = NoSession]}
         [] OTHER               -> {RequestActivate(rest, t) : t \in rest.sessions}

\* A grid left empty asks for its window to close, when it is not the last.
GridEmpty(w, s, after) ==
    IF s \in win[w].sessions /\ after.sessions = {} /\ Cardinality(shown) > 1
    THEN <<[kind |-> "empty", session |-> NoSession, reason |-> "none", link |-> 0]>>
    ELSE <<>>

-----------------------------------------------------------------------------
(* Launching *)

\* A serial line runs its dial script on the interface's thread first, and when
\* that fails it never starts its own.
Start(s, k) ==
    \E dialled \in (IF k = "serial" THEN BOOLEAN ELSE {TRUE}) :
        /\ worker' = [worker EXCEPT ![s] =
             CASE ~dialled -> "none" [] k = "ssh" -> "connecting" [] OTHER -> "looping"]
        /\ running' = [running EXCEPT ![s] = dialled]
        /\ missed' = IF dialled THEN missed ELSE missed \union {s}

\* CreateSession starts the transport; its thread runs from here on, while
\* nobody is observing yet.
CreateSession(s) ==
    /\ UserFree /\ Usable # {} /\ life[s] = "none"
    /\ \E k \in Kinds[s] : kind' = [kind EXCEPT ![s] = k] /\ Start(s, k)
    /\ life' = [life EXCEPT ![s] = "made"] /\ link' = [link EXCEPT ![s] = 1]
    /\ UNCHANGED <<status, observer, router, bar, windows, dialogs, closing>>

\* Mutant: only the first window is ever told.
SetSessionObserverOnce(s, w) ==
    observer' = [observer EXCEPT ![s] = IF @ = NoWindow THEN w ELSE @]

SetSessionObserver(s, w) == observer' = [observer EXCEPT ![s] = w]

\* The rest of CreateSessionInTile: the observer, the router, the tab.
Observe(s, w) ==
    /\ life[s] = "made" /\ w \in Usable
    /\ life' = [life EXCEPT ![s] = "open"]
    /\ SetSessionObserver(s, w) /\ router' = [router EXCEPT ![s] = w]
    /\ win' = [win EXCEPT ![w] = TakeSession(AddTarget(@, s), s)]
    /\ UNCHANGED <<thread, bar, posted, shown, doomed, dialogs, closing, missed>>

-----------------------------------------------------------------------------
(* The transport's thread *)

\* OnDisconnect: the status, and a notice to whoever observes the session now.
Tell(s, reason) ==
    /\ worker' = [worker EXCEPT ![s] = "done"] /\ running' = [running EXCEPT ![s] = FALSE]
    /\ status' = [status EXCEPT ![s] = "Disconnected"]
    /\ IF observer[s] = NoWindow
       THEN missed' = missed \union {s} /\ posted' = posted
       ELSE /\ posted' = [posted EXCEPT ![observer[s]] = Append(@, Note("ended", s, reason))]
            /\ missed' = missed
    /\ UNCHANGED <<kind, link, record, bar, win, shown, doomed, dialogs, closing>>

\* Each step of connecting can fail: the error, then the notice.
ConnectFails(s) == worker[s] = "connecting" /\ Tell(s, "Interrupted")

\* A step that sees Stop() returns without a word.
Abandon(s) ==
    /\ worker[s] = "connecting" /\ ~running[s]
    /\ worker' = [worker EXCEPT ![s] = "done"]
    /\ UNCHANGED <<kind, running, link, status, record, bar, windows, dialogs, closing, missed>>

\* Keyboard-interactive: the thread posts the prompt and waits, whatever
\* running_ says.  Nobody observing means no answers.
OnKbdIntChallenge(s) ==
    /\ worker[s] = "connecting" /\ kind[s] = "ssh" /\ observer[s] # NoWindow
    /\ worker' = [worker EXCEPT ![s] = "prompting"]
    /\ posted' = [posted EXCEPT ![observer[s]] = Append(@, Note("prompt", s, "none"))]
    /\ UNCHANGED <<kind, running, link, status, record, bar, win, shown, doomed, dialogs,
                   closing, missed>>

Connected(s) ==
    /\ worker[s] = "connecting"
    /\ worker' = [worker EXCEPT ![s] = "looping"]
    /\ UNCHANGED <<kind, running, link, status, record, bar, windows, dialogs, closing, missed>>

\* Output: the first of it ends the reconnect.
OnData(s) ==
    /\ worker[s] \in {"connecting", "looping"} /\ status[s] = "Reconnecting"
    /\ status' = [status EXCEPT ![s] = "Connected"]
    /\ UNCHANGED <<kind, worker, running, link, record, bar, windows, dialogs, closing, missed>>

\* The loop ends of itself or because of Stop(); only an SSH connection can
\* still report the one when it has been told the other.
LoopEnds(s) ==
    /\ worker[s] = "looping"
    /\ \/ ~running[s] /\ Tell(s, "Deliberate")
       \/ kind[s] = "ssh" /\ \E r \in {"Clean", "Interrupted"} : Tell(s, r)
       \/ kind[s] = "pty" /\ running[s] /\ Tell(s, "Clean")
       \/ kind[s] = "serial" /\ running[s] /\ Tell(s, "Interrupted")

Thread(s) == ConnectFails(s) \/ Abandon(s) \/ OnKbdIntChallenge(s) \/ Connected(s)
               \/ OnData(s) \/ LoopEnds(s)

-----------------------------------------------------------------------------
(* Closing: CloseSession, one session after another *)

\* The first half, up to the join: transport_->Stop().
CloseSession ==
    /\ closing # <<>>
    /\ LET s == Head(closing) IN
        IF life[s] = "open"
        THEN /\ life' = [life EXCEPT ![s] = "closing"]
             /\ running' = [running EXCEPT ![s] = FALSE]
             /\ UNCHANGED closing
        ELSE life[s] # "closing" /\ closing' = Tail(closing) /\ UNCHANGED <<life, running>>
    /\ UNCHANGED <<kind, worker, link, status, observer, router, bar, windows, dialogs, missed>>

\* sessions_.erase: nothing of the record is left.
Erase(s) ==
    /\ life' = [life EXCEPT ![s] = "gone"] /\ kind' = [kind EXCEPT ![s] = "none"]
    /\ worker' = [worker EXCEPT ![s] = "none"] /\ running' = [running EXCEPT ![s] = FALSE]
    /\ link' = [link EXCEPT ![s] = 0] /\ status' = [status EXCEPT ![s] = "Connected"]
    /\ observer' = [observer EXCEPT ![s] = NoWindow]
    /\ router' = [router EXCEPT ![s] = NoWindow]
    /\ bar' = [bar EXCEPT ![s] = FALSE] /\ missed' = missed \ {s}

\* The second half, once the thread has been joined.
Stopped ==
    /\ closing # <<>>
    /\ LET s == Head(closing)  w == observer[s] IN
        /\ life[s] = "closing" /\ worker[s] \in {"done", "none"}
        /\ LET routed == [win EXCEPT ![router[s]] = RemoveTarget(@, s)] IN
            \E after \in TearDown(routed[w], s) :
                /\ win' = [routed EXCEPT ![w] = after]
                /\ posted' = [posted EXCEPT ![w] = @ \o GridEmpty(w, s, after)]
        /\ Erase(s)
    /\ closing' = Tail(closing)
    /\ UNCHANGED <<shown, doomed, dialogs>>

-----------------------------------------------------------------------------
(* What was posted to a window *)

\* Mutant: whatever can be connected again is kept, however it ended.
EndedKept(w, n) ==
    LET s == n.session IN
    /\ closing' = IF kind[s] = "pty" /\ n.reason # "Deliberate" THEN <<s>> ELSE <<>>
    /\ bar' = [bar EXCEPT ![s] = @ \/ (n.reason = "Interrupted" /\ s \in win[w].sessions)]
    /\ missed' = IF n.reason = "Interrupted" /\ s \notin win[w].sessions /\ life[s] = "open"
                 THEN missed \union {s} ELSE missed
    /\ UNCHANGED <<dialogs, doomed>>

\* A connection that was lost leaves its session, with the bar; anything else
\* that ended closes it.  A window that no longer has the session does nothing.
Ended(w, n) ==
    LET s == n.session IN
    /\ closing' = IF n.reason = "Clean" \/ (n.reason = "Interrupted" /\ kind[s] = "pty")
                  THEN <<s>> ELSE <<>>
    /\ bar' = [bar EXCEPT ![s] = @ \/ (n.reason = "Interrupted" /\ s \in win[w].sessions)]
    /\ missed' = IF n.reason = "Interrupted" /\ s \notin win[w].sessions /\ life[s] = "open"
                 THEN missed \union {s} ELSE missed
    /\ UNCHANGED <<dialogs, doomed>>

Prompt(n) == dialogs' = Append(dialogs, n.session) /\ UNCHANGED <<bar, closing, missed, doomed>>
CloseTab(n) == closing' = <<n.session>> /\ UNCHANGED <<bar, dialogs, missed, doomed>>

\* A move within one window empties it for a moment, hence the second look.
CloseIfEmpty(w) ==
    /\ doomed' = IF win[w].sessions = {} THEN doomed \union {w} ELSE doomed
    /\ UNCHANGED <<bar, dialogs, closing, missed>>

\* The nested loop of an open dialog runs these too.
Handle(w) ==
    /\ Free /\ posted[w] # <<>>
    /\ posted' = [posted EXCEPT ![w] = Tail(@)]
    /\ LET n == Head(posted[w]) IN
        \/ n.kind = "ended" /\ Ended(w, n)
        \/ n.kind = "prompt" /\ Prompt(n)
        \/ n.kind = "close" /\ CloseTab(n)
        \/ n.kind = "empty" /\ CloseIfEmpty(w)
    /\ UNCHANGED <<thread, record, win, shown>>

\* The user answers the dialog on top, or dismisses it.
Answer ==
    /\ Free /\ dialogs # <<>>
    /\ worker' = [worker EXCEPT ![Last(dialogs)] = "connecting"]
    /\ dialogs' = Front(dialogs)
    /\ UNCHANGED <<kind, running, link, status, record, bar, windows, closing, missed>>

-----------------------------------------------------------------------------
(* The user *)

\* A tab's close button posts; the close itself comes later.
RequestClose(w, s) ==
    /\ UserFree /\ w \in Usable /\ s \in win[w].sessions
    /\ \A t \in Ids : Pending(t, "close") = {}     \* bound: one at a time
    /\ posted' = [posted EXCEPT ![w] = Append(@, Note("close", s, "none"))]
    /\ UNCHANGED <<thread, record, bar, win, shown, doomed, dialogs, closing, missed>>

\* The bar's own buttons act at once.
BarClose(s) ==
    /\ UserFree /\ bar[s]
    /\ closing' = <<s>>
    /\ UNCHANGED <<thread, record, bar, windows, dialogs, missed>>

\* Mutant: the bar stays until the connection is up.
ReplaceConnectionUnderBar(s) ==
    /\ UserFree /\ bar[s] /\ life[s] = "open" /\ link[s] < MaxLinks
    /\ link' = [link EXCEPT ![s] = @ + 1]
    /\ status' = [status EXCEPT ![s] = "Reconnecting"]
    /\ Start(s, kind[s])
    /\ UNCHANGED <<kind, bar, record, windows, dialogs, closing>>

\* ReconnectSession: a new transport in the place of the old one.
ReplaceConnection(s) ==
    /\ UserFree /\ bar[s] /\ life[s] = "open" /\ link[s] < MaxLinks
    /\ bar' = [bar EXCEPT ![s] = FALSE]
    /\ link' = [link EXCEPT ![s] = @ + 1]
    /\ status' = [status EXCEPT ![s] = "Reconnecting"]
    /\ Start(s, kind[s])
    /\ UNCHANGED <<kind, record, windows, dialogs, closing>>

\* App::DropSession onto another window, a new one, or another tile of its own:
\* released there, taken here, with a panel that shows no bar.
DropSession(s, src, dst) ==
    /\ UserFree /\ src \in Usable /\ s \in win[src].sessions \cap Movable
    /\ dst \in Usable \/ dst \notin shown \union doomed
    /\ Pending(NoSession, "empty") = {}     \* bound: one emptied window at a time
    /\ SetSessionObserver(s, dst) /\ router' = [router EXCEPT ![s] = dst]
    /\ LET moved == IF src = dst THEN win
                    ELSE [win EXCEPT ![src] = RemoveTarget(@, s), ![dst] = AddTarget(@, s)]
       IN \E left \in TearDown(moved[src], s) :
            LET released == [moved EXCEPT ![src] = left] IN
            /\ win' = [released EXCEPT ![dst] = TakeSession(@, s)]
            /\ posted' = [posted EXCEPT ![src] = @ \o GridEmpty(src, s, left)]
    /\ shown' = shown \union {dst}
    /\ missed' = IF bar[s] THEN missed \union {s} ELSE missed
    /\ bar' = [bar EXCEPT ![s] = FALSE]
    /\ UNCHANGED <<thread, life, doomed, dialogs, closing>>

\* MainFrame::OnClose: every session of the window, then the window.
CloseWindow(w) ==
    /\ UserFree /\ w \in Usable
    /\ closing' \in SetToSeqs(win[w].sessions)
    /\ doomed' = doomed \union {w}
    /\ UNCHANGED <<thread, record, bar, win, posted, shown, dialogs, missed>>

\* wxEVT_DESTROY: at idle, when what was posted to the window has run.
Destroy(w) ==
    /\ Free /\ w \in shown /\ w \in doomed /\ posted[w] = <<>>
    /\ shown' = shown \ {w}
    /\ UNCHANGED <<thread, record, bar, win, posted, doomed, dialogs, closing, missed>>

\* ToggleTileBroadcast: Select or Deselect.
ToggleTileBroadcast(w, s) ==
    /\ UserFree /\ w \in Usable /\ s \in win[w].sessions \cap Movable
    /\ win' = [win EXCEPT ![w].selected = IF s \in @ THEN @ \ {s} ELSE @ \union {s}]
    /\ UNCHANGED <<thread, record, bar, posted, shown, doomed, dialogs, closing, missed>>

Activate(w, s) ==
    /\ UserFree /\ w \in Usable /\ s \in win[w].sessions
    /\ win' = [win EXCEPT ![w] = RequestActivate(@, s)]
    /\ UNCHANGED <<thread, record, bar, posted, shown, doomed, dialogs, closing, missed>>

-----------------------------------------------------------------------------
Launch == \E s \in Ids : CreateSession(s) \/ \E w \in Windows : Observe(s, w)
Threads == \E s \in Ids : Thread(s)
Interface ==
    \/ CloseSession \/ Stopped \/ Answer
    \/ \E w \in Windows : Handle(w) \/ Destroy(w)
User ==
    \/ \E s \in Ids : BarClose(s) \/ ReplaceConnection(s)
    \/ \E w \in Windows : CloseWindow(w)
    \/ \E w \in Windows, s \in Ids :
         RequestClose(w, s) \/ ToggleTileBroadcast(w, s) \/ Activate(w, s)
    \/ \E s \in Ids, src, dst \in Windows : DropSession(s, src, dst)

Next == Launch \/ Threads \/ Interface \/ User
Spec == Init /\ [][Next]_vars

\* Threads are scheduled and look at running_ at every poll, the steps of
\* connecting time out, and the interface runs its handlers.  Connections need
\* not end, and the user need do nothing, not even answer.
Fairness ==
    /\ \A s \in Ids : WF_vars(~running[s] /\ (ConnectFails(s) \/ Abandon(s) \/ Connected(s) \/ LoopEnds(s)))
    /\ WF_vars(CloseSession) /\ WF_vars(Stopped)
    /\ \A s \in Ids : WF_vars(\E w \in Windows : Observe(s, w))
    /\ \A w \in Windows : WF_vars(Handle(w))
FairSpec == Spec /\ Fairness

-----------------------------------------------------------------------------
(* What makes it correct *)

\* Everything has its type, and a session on its way out is at the head of the
\* handler that closes it.
TypeOK ==
    /\ life \in [Ids -> {"none", "made", "open", "closing", "gone"}]
    /\ kind \in [Ids -> {"none", "ssh", "serial", "pty"}]
    /\ worker \in [Ids -> {"none", "connecting", "prompting", "looping", "done"}]
    /\ running \in [Ids -> BOOLEAN] /\ link \in [Ids -> 0..MaxLinks]
    /\ status \in [Ids -> {"Connected", "Reconnecting", "Disconnected"}]
    /\ observer \in [Ids -> Windows \union {NoWindow}]
    /\ router \in [Ids -> Windows \union {NoWindow}]
    /\ bar \in [Ids -> BOOLEAN]
    /\ \A w \in Windows :
        /\ win[w].sessions \union win[w].targets \union win[w].selected \subseteq Ids
        /\ {win[w].active, win[w].focused} \subseteq Ids \union {NoSession}
    /\ shown \union doomed \subseteq Windows
    /\ Range(dialogs) \union Range(closing) \union missed \subseteq Ids
    /\ \A s \in Ids : life[s] = "closing" => closing # <<>> /\ Head(closing) = s

\* A notice that a connection ended is about the connection its session still
\* has: it cannot close, or mark as lost, one made since.  What keeps it so is
\* that the way to a new connection is the bar, and the bar is the notice
\* handled; a bar is never shown over a thread that still runs, so replacing
\* the transport under docMutex_ waits for nothing.
NoticeIsAboutTheLink ==
    /\ \A s \in Ids : Cardinality(Pending(s, "ended")) <= 1
    /\ \A s \in Ids : life[s] # "gone" => \A n \in Pending(s, "ended") :
         n.link = link[s] /\ worker[s] = "done" /\ ~bar[s]
    /\ \A s \in Ids : bar[s] => worker[s] = "done" /\ status[s] = "Disconnected"

\* The pointers a session is reached through agree, and none outlives what it
\* points to: an open session is in the one window that observes and routes to
\* it, which exists; routers hold only sessions of their own window; the keys
\* go to the session the window shows as active.
PointersAgree ==
    /\ \A s \in Ids : life[s] \in {"open", "closing"} =>
         /\ observer[s] \in shown /\ router[s] = observer[s]
         /\ \A w \in Windows : (s \in win[w].sessions) = (w = observer[s])
    /\ \A w \in Windows :
         /\ win[w].targets = win[w].sessions
         /\ win[w].selected \subseteq win[w].sessions
         /\ win[w].focused = win[w].active
         /\ win[w].sessions # {} => win[w].active \in win[w].sessions
         /\ \A s \in win[w].sessions : life[s] \in {"open", "closing"}

\* An open session whose connection is over says so, or is about to: the bar, a
\* notice on its way, or a close.  The exceptions are the three the code has,
\* in missed: an end before SetSessionObserver, an end whose notice or bar was
\* left behind by a move, and a dial script that failed.
EndsAreHeard ==
    \A s \in Ids : life[s] = "open" /\ worker[s] \in {"done", "none"} =>
        s \in missed \/ bar[s] \/ Pending(s, "ended") # {} \/ s \in Range(closing)

\* The wait for a worker ends, unless the worker is itself waiting for the
\* interface to show its prompt.
JoinEnds ==
    \A s \in Ids : life[s] = "closing" ~> (life[s] = "gone" \/ worker[s] = "prompting")
=============================================================================
