---------------------------- MODULE MCFileSystems ----------------------------
(* Two operations either way; a file with two names and one that is new. *)
EXTENDS FileSystems

\* Two operations: every pair that shares the open, the write or the close
\* slot, and a one-call operation beside each of the others.
Pairs == [t \in 1..2 |-> <<{"Upload", "Download", "List"},
                           {"List", "Stat", "Upload"}>>[t]]
\* Two operations of one slot.
TwoStats == [t \in 1..2 |-> {"Stat"}]

McAtFirst == [p \in {"a", "alias", "b", "new"} |->
    CASE p = "b" -> "B" [] p = "new" -> None [] OTHER -> "A"]
=============================================================================
