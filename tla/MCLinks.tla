------------------------------ MODULE MCLinks ------------------------------
(* Every kind; two forwards, one each way; a connection each; a jump host   *)
(* only for sessions without forwards at first.                             *)
EXTENDS Links, TLC

McIds == 1..2

Profile(jump, auth, forwards, most, remote) ==
    [jump |-> jump, auth |-> auth, forwards |-> forwards, most |-> most, remote |-> remote]

McProfiles == {Profile(FALSE, "agent", 0, 1, {}), Profile(FALSE, "key", 1, 1, {1}),
               Profile(TRUE, "prompt", 0, 0, {})}

\* Both ways at once.
BothWays == {Profile(FALSE, "agent", 1, 2, {1})}
=============================================================================
