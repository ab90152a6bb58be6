---------------------------- MODULE MCInstances ----------------------------
(* Two process numbers, so that one is soon used again, and two slots. *)
EXTENDS Instances, TLC

Alike == Permutations(Pids)

\* No guard and no property reads the scrollback on disk: states that differ in nothing
\* else have the same future.
Seen == <<proc, lock, restore, named, temp, spawned, raced>>
=============================================================================
