------------------------- MODULE RemoteFileSystem -------------------------
(***************************************************************************)
(* transport/IRemoteFileSystem: what a filesystem promises to those who    *)
(* call it, whatever it is reached through.  An operation that was asked   *)
(* for is answered once.  It is answered "cancelled" only when that was    *)
(* asked for before or the session has ended, and "gone" only when it has; *)
(* once it has ended, whoever still waits is told.                         *)
(*                                                                         *)
(* The last promise has an exception, which is the code's and not the      *)
(* interface's: an operation asked for after the end may be lost.          *)
(***************************************************************************)
EXTENDS Sequences

CONSTANTS
    Operations, \* bound: the operations ever asked for
    Codes       \* what a callback may be told (FsErrorCode)

VARIABLES
    asked,      \* the operations asked for
    told,       \* what the callback of each was called with
    wanted,     \* the operations whose cancellation was requested in time
    ended,      \* the session has ended
    lost        \* asked for after the end, and never answered

port == <<asked, told, wanted, ended, lost>>

Init ==
    /\ asked = {} /\ wanted = {} /\ lost = {}
    /\ told = [op \in Operations |-> <<>>]
    /\ ended = FALSE

Waiting(op) == op \in asked \ lost /\ told[op] = <<>>

\* List, Stat, Download and the others.
Ask(op) ==
    /\ op \notin asked
    /\ asked' = asked \union {op}
    /\ lost' \in {lost} \union (IF ended THEN {lost \union {op}} ELSE {})
    /\ UNCHANGED <<told, wanted, ended>>

\* The callback: exactly once.
Tell(op, code) ==
    /\ Waiting(op)
    /\ code = "cancelled" => op \in wanted \/ ended
    /\ code = "gone" => ended
    /\ told' = [told EXCEPT ![op] = <<code>>]
    /\ wanted' = wanted \ {op}
    /\ UNCHANGED <<asked, ended, lost>>

\* Cancel, before the operation has been answered; later it has no effect.
Cancel(op) ==
    /\ op \in asked /\ told[op] = <<>>
    /\ wanted' = wanted \union {op}
    /\ UNCHANGED <<asked, told, ended, lost>>

\* The session dies, or is closed.
End ==
    /\ ended' = TRUE
    /\ UNCHANGED <<asked, told, wanted, lost>>

Answer(op) == \E code \in Codes : Tell(op, code)

Next ==
    \/ \E op \in Operations : Ask(op) \/ Answer(op) \/ Cancel(op)
    \/ End

\* Nobody is kept waiting by a session that has ended.
Fairness == \A op \in Operations : WF_port(ended /\ Answer(op))

Safety == Init /\ [][Next]_port

Spec == Safety /\ Fairness
=============================================================================
