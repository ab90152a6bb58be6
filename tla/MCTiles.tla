------------------------------- MODULE MCTiles -------------------------------
(***************************************************************************)
(* Three sessions in two windows, with terminals of two sizes: two tiles   *)
(* fit on top of one another, three do not.  Two sessions are alike, and   *)
(* so are the windows.                                                     *)
(***************************************************************************)
EXTENDS Tiles

CONSTANTS s1, s2, s3, w1, w2, t1, t2, t3, noSession, noTile

Sizes == s1 :> <<1, 2>> @@ s2 :> <<2, 1>> @@ s3 :> <<2, 1>>
Room == <<6, 6>>
Alike == Permutations({s2, s3}) \union Permutations({w1, w2}) \union Permutations({t1, t2, t3})
=============================================================================
