----------------------------- MODULE MCSessions -----------------------------
(* Sessions for TLC. *)
EXTENDS Sessions

\* A connection that can be made again beside a local shell, which cannot.
LineAndLocal == [s \in 1..2 |-> <<{"ssh", "serial"}, {"pty"}>>[s]]
=============================================================================
