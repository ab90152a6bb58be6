---------------------------- MODULE MCRemoteEdit ----------------------------
(* RemoteEdit for TLC. *)
EXTENDS RemoteEdit

\* One edit saved three times beside one that is only read; one save.
ThreeAndNone == [e \in 1..2 |-> IF e = 1 THEN 3 ELSE 0]
OneSave == [e \in 1..1 |-> 1]
=============================================================================
