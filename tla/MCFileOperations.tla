-------------------------- MODULE MCFileOperations --------------------------
(* Two levels below the directory shown, the lower one empty, so that others can *)
(* put a link in its place; a link out of it and one to nowhere. *)
EXTENDS FileOperations

MCSorted == <<"d", "f", "l">>
\* The directory itself, those in it by name and by link, and new names in these.
MCDestinations == {<<>>, <<"d">>, <<"l">>, <<"d", "f">>, <<"d", "d">>}
Dir(x) == [kind |-> "dir", to |-> x]
Link(x) == [kind |-> "link", to |-> x]
MCFirstTree == [e \in Entries |->
    CASE e = <<"top", "d">> -> Dir("sub") [] e = <<"top", "f">> -> AFile
      [] e = <<"top", "l">> -> Link("other") [] e = <<"sub", "d">> -> Dir("low")
      [] e = <<"sub", "l">> -> Link("other")
      [] e = <<"other", "f">> -> AFile [] e = <<"other", "l">> -> Link(Nil)
      [] OTHER -> Nothing]
=============================================================================
