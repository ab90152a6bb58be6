-------------------------------- MODULE Link --------------------------------
(***************************************************************************)
(* The connection of one session (session/Session and its Transport): what *)
(* the kinds of transport have in common.  Each has a thread that reads    *)
(* and tells the session what happens; the session lives on the thread of  *)
(* the user interface, which waits for that thread in Stop.                *)
(***************************************************************************)
EXTENDS Naturals

VARIABLES
    kind,     \* of the transport: "ssh", "pty" or "serial"
    running,  \* running_
    stage,    \* how far the thread is
    why,      \* the reason it will give for the end
    heard,    \* what the session was told: "open", "error", or why it ended
    asked,    \* Stop was called
    ui        \* the interface: "free", waiting to "close" or "replace" the
              \* transport, or "gone" when the session is

linkVars == <<kind, running, stage, why, heard, asked, ui>>

Reasons == {"Clean", "Interrupted", "Deliberate"}

InitLink(k) ==
    /\ kind = k /\ running = FALSE /\ stage = "new" /\ why = "Deliberate"
    /\ heard = "open" /\ asked = FALSE /\ ui = "free"

Goto(s) == stage' = s /\ UNCHANGED <<kind, running, why, heard, asked, ui>>

\* NotifyError begins: the session is told of the error, then of the end, and
\* only then the transport counts as stopped.
NotifyError ==
    /\ stage' = "failing" /\ why' = "Interrupted"
    /\ UNCHANGED <<kind, running, heard, asked, ui>>

OnError ==
    /\ stage = "failing" /\ stage' = "telling" /\ heard' = "error"
    /\ UNCHANGED <<kind, running, why, asked, ui>>

OnDisconnect ==
    /\ stage = "telling" /\ stage' = "told" /\ heard' = why
    /\ UNCHANGED <<kind, running, why, asked, ui>>

Return ==
    /\ stage = "told" /\ stage' = "ended" /\ running' = FALSE
    /\ UNCHANGED <<kind, why, heard, asked, ui>>

Ending == OnError \/ OnDisconnect \/ Return

\* Stop, up to the join; the interface is not busy starting the transport.
Stop(then) ==
    /\ ui = "free" /\ stage \notin {"new", "dialing"}
    /\ ui' = then /\ asked' = TRUE /\ running' = FALSE
    /\ UNCHANGED <<kind, stage, why, heard>>

CloseSession == Stop("close")

\* ReplaceConnection is offered for a connection that was interrupted.
ReplaceConnection == heard = "Interrupted" /\ Stop("replace")

\* The thread has been joined, or never ran.
Joined == stage \in {"new", "ended", "dead"}

\* The join is over: the session goes, or has a new transport.
Closed ==
    /\ ui = "close" /\ Joined /\ ui' = "gone"
    /\ UNCHANGED <<kind, running, stage, why, heard, asked>>

Replaced ==
    /\ ui = "replace" /\ Joined
    /\ ui' = "free" /\ stage' = "new" /\ running' = FALSE /\ why' = "Deliberate"
    /\ heard' = "open" /\ asked' = FALSE /\ UNCHANGED kind
=============================================================================
