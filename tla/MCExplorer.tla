----------------------------- MODULE MCExplorer -----------------------------
(* Two directories with the same names; the link leads somewhere in one of them. *)
EXTENDS Explorer

MCRows == <<"f", "l">>
MCContent == [a |-> [f |-> "file", l |-> "link"], b |-> [f |-> "file", l |-> "link"]]
MCUnder == [e \in Dirs \X Names |-> IF e = <<"a", "l">> THEN "b" ELSE None]
=============================================================================
