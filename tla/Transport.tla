----------------------------- MODULE Transport -----------------------------
(***************************************************************************)
(* transport/Transport.hpp and ITransportTarget: what a session relies on, *)
(* whichever kind its transport is.  The thread of a transport tells its   *)
(* target of the end at most once, says nothing afterwards, and does not   *)
(* go without a word unless it was asked to stop.  Who asks it to stop     *)
(* gets it stopped.                                                        *)
(***************************************************************************)
VARIABLES
    worker,  \* its thread: "none", "running" or "over"
    asked,   \* Stop was called
    heard    \* what the target heard last: "open", "error", or why it ended

transport == <<worker, asked, heard>>

Reasons == {"Clean", "Interrupted", "Deliberate"}

Init == worker = "none" /\ ~asked /\ heard = "open"

Start == worker = "none" /\ worker' = "running" /\ UNCHANGED <<asked, heard>>

OnError ==
    /\ heard = "open" /\ worker # "over" /\ heard' = "error"
    /\ UNCHANGED <<worker, asked>>

OnDisconnect ==
    /\ worker = "running" /\ heard \notin Reasons /\ heard' \in Reasons
    /\ heard' = "Deliberate" => asked
    /\ UNCHANGED <<worker, asked>>

Return ==
    /\ worker = "running" /\ (asked \/ heard \in Reasons) /\ worker' = "over"
    /\ UNCHANGED <<asked, heard>>

Stop == asked' = TRUE /\ UNCHANGED <<worker, heard>>

\* ReplaceConnection makes another one once this one has said that it ended.
Replace ==
    /\ worker = "over" /\ heard \in Reasons
    /\ worker' = "none" /\ asked' = FALSE /\ heard' = "open"

Next == Start \/ OnError \/ OnDisconnect \/ Return \/ Stop \/ Replace

Spec == Init /\ [][Next]_transport
=============================================================================
