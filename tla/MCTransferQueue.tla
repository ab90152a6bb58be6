-------------------------- MODULE MCTransferQueue --------------------------
(* TransferQueue for TLC: this machine and two servers. *)
EXTENDS TransferQueue

CONSTANTS A, B   \* the two servers

\* A copy staged through this machine: a download, then an upload.
Across == {<<A, B>>}
\* Such a copy, an upload, and an upload the first server has no part in.
ThreeWays == Across \union {<<Local, A>>, <<Local, B>>}
\* As the first, with a download.
DownAndAcross == Across \union {<<A, Local>>}
=============================================================================
