--------------------------- MODULE FileOperations ---------------------------
(***************************************************************************)
(* What the explorer does to the files of one machine: the rename of       *)
(* fs/ExplorerController and the deletion of fs/RemoteDeleter, as          *)
(* ui/FileExplorerPane starts them, over a tree that others change too.    *)
(*                                                                         *)
(* Both are chains of calls, one call out at a time each, and both may be  *)
(* under way together.  The listing the user chooses from is as old as the *)
(* last reload.  The machine is a server, reached by SFTP, or the one naTE *)
(* runs on, reached by transport/LocalFileSystem.                          *)
(*                                                                         *)
(* Every call names its file by a path, and the machine follows the path   *)
(* when it gets the call, through whatever links there are by then.  A     *)
(* path is the names it takes from the directory shown; links lead to      *)
(* other directories too.                                                  *)
(***************************************************************************)
EXTENDS Naturals, Sequences, SequencesExt

CONSTANTS
    Folders, Shown,  \* bound: the directories, and the one the pane shows
    Sorted,          \* bound: the names in a directory, in the model's order
    FirstTree,       \* the tree at first: <<directory, name>> -> what is there
    kMaxDeleteDepth, \* how deep a walk descends
    Destinations,    \* bound: the paths a rename is given
    Targets,         \* bound: where the links lead that others make
    MaxOps,          \* bound: renames and deletions begun
    MaxChanges,      \* bound: what others do
    Nil

Leaves == Range(Sorted)
Entries == Folders \X Leaves
Nothing == [kind |-> "none", to |-> Nil]
AFile == [kind |-> "file", to |-> Nil]

\* What may be at an entry: nothing, a file, a directory, or a link that leads to
\* a directory or to nothing.
Things == {Nothing, AFile} \union [kind : {"dir"}, to : Folders]
          \union [kind : {"link"}, to : Folders \union {Nil}]

LeadsTo(x, d) == x = [kind |-> "dir", to |-> d]

\* The tree is one: a directory is in at most one other, and the one shown here
\* in none of these.
ASSUME FileOperationsAssumption ==
    /\ Shown \in Folders /\ Nil \notin Folders \union Leaves
    /\ Sorted \in Seq(Leaves) /\ FirstTree \in [Entries -> Things]
    /\ \A d \in Folders, e, f \in Entries :
          LeadsTo(FirstTree[e], d) => d # Shown /\ (LeadsTo(FirstTree[f], d) => e = f)
    /\ Destinations \subseteq Seq(Leaves) /\ Targets \subseteq Folders \union {Nil}
    /\ kMaxDeleteDepth \in Nat \ {0} /\ {MaxOps, MaxChanges} \subseteq Nat

VARIABLES
    machine, \* "server" or "local"
    there,  \* the tree
    seen,   \* the listing on screen: name -> what it says is there
    rename, \* the rename under way
    del,    \* the deletion under way
    spent   \* how many operations and changes there have been

filesVars == <<machine, there, seen, rename, del, spent>>

\* "since" is history: what has changed on the machine, by others, since the
\* check was answered or the deletion chosen.
NoRename == [phase |-> "none", from |-> Nil, to |-> Nil, rule |-> Nil, since |-> {}]
NoDelete == [phase |-> "none", chosen |-> {}, pending |-> {}, steps |-> {}, since |-> {}]

Listing(d) == [n \in Leaves |-> there[<<d, n>>]]

\* A directory there still is: one that was in another still is.
Exists(d) ==
    d \in Folders /\ \A e \in Entries : LeadsTo(FirstTree[e], d) => LeadsTo(there[e], d)

\* A link that leads to nothing, or to what is gone.
Dangles(e) == there[e].kind = "link" /\ ~Exists(there[e].to)

\* Where an entry of a directory leads on: a directory, or a link to one.
Into(d, n) ==
    IF d # Nil /\ there[<<d, n>>].kind \in {"dir", "link"} /\ Exists(there[<<d, n>>].to)
    THEN there[<<d, n>>].to ELSE Nil

\* The directories a path goes through, the last being the one it leads to; the
\* entries it takes; and the last of these, which a call that names it acts on
\* (the directory shown is in none of these).
Trail(path) ==
    LET at[i \in 0..Len(path)] == IF i = 0 THEN Shown ELSE Into(at[i - 1], path[i])
    IN at
Way(path) == {<<Trail(path)[i - 1], path[i]>> : i \in DOMAIN path}
EntryOf(path) == IF path = <<>> THEN <<Nil, Nil>> ELSE <<Trail(path)[Len(path) - 1], Last(path)>>
Directory(path) == Trail(path)[Len(path)]

\* What a step changes.
Changed == {e \in Entries : there'[e] # there[e]}

InitFiles ==
    /\ machine \in {"server", "local"} /\ there = FirstTree /\ seen = Listing(Shown)
    /\ rename = NoRename /\ del = NoDelete
    /\ spent = [ops |-> 0, changes |-> 0]

-----------------------------------------------------------------------------
(* Rename *)

\* A destination with a slash at its end must be a directory, and none is the
\* entry itself or in it.
RenameEntry(n, to, slash) ==
    /\ rename.phase = "none" /\ spent.ops < MaxOps /\ ~IsPrefix(<<n>>, to)
    /\ seen[n].kind \in {"file", "link"}        \* bound: no directory is renamed
    /\ rename' = [phase |-> "check", from |-> n, to |-> to,
                  rule |-> IF slash THEN "required" ELSE "absorbs", since |-> {}]
    /\ spent' = [spent EXCEPT !.ops = @ + 1]
    /\ UNCHANGED <<there, seen, del>>

\* What a stat, which follows links, says of a path.
Stat(path) == CASE Directory(path) # Nil -> "dir"
                [] Directory(path) = Nil /\ EntryOf(path) \in Entries
                   /\ there[EntryOf(path)].kind = "file" -> "file"
                [] OTHER -> "absent"

\* Mutant: an answer that is not yes is taken for no.
OnCheckedGuessing(x, said) ==
    LET inside == Append(x.to, x.from) IN
    CASE said \in {"absent", "error"} /\ x.rule # "required" -> [x EXCEPT !.phase = "move"]
      [] said = "dir" /\ x.rule # "inTheWay" /\ inside # <<x.from>> ->
           [x EXCEPT !.to = inside, !.rule = "inTheWay"]
      [] OTHER -> NoRename

\* RenameResolved: only a definite "nothing there" clears the way, and a
\* directory takes the entry in under its own name, once.
OnChecked(x, said) ==
    LET inside == Append(x.to, x.from) IN
    CASE said = "absent" /\ x.rule # "required" -> [x EXCEPT !.phase = "move"]
      [] said = "dir" /\ x.rule # "inTheWay" /\ inside # <<x.from>> ->
           [x EXCEPT !.to = inside, !.rule = "inTheWay"]
      [] OTHER -> NoRename

Check ==
    /\ rename.phase = "check"
    /\ \E said \in {Stat(rename.to), "error"} :
         rename' = OnChecked([rename EXCEPT !.since = {}], said)
    /\ UNCHANGED <<there, seen, del, spent>>

\* What lstat says, which sees a link that leads to nothing.
Absent(path) == EntryOf(path) \in Entries => there[EntryOf(path)].kind = "none"

\* LocalFileSystem::Rename refuses outright to replace anything it sees.
Look ==
    /\ machine = "local" /\ rename.phase = "move"
    /\ rename' = IF Absent(rename.to) THEN [rename EXCEPT !.phase = "replace", !.since = {}]
                 ELSE NoRename
    /\ UNCHANGED <<there, seen, del, spent>>

\* The rename itself replaces what is at the destination, unless that is a
\* directory; some machines refuse.
Move ==
    LET x == rename
        from == <<Shown, x.from>>
        to == EntryOf(x.to)
    IN
    /\ x.phase = (IF machine = "local" THEN "replace" ELSE "move") /\ rename' = NoRename
    /\ there' \in {there} \union
         (IF /\ there[from].kind \in {"file", "link"}
             /\ to \in Entries \ {from} /\ there[to].kind # "dir"
          THEN {[there EXCEPT ![to] = there[from], ![from] = Nothing]} ELSE {})
    /\ del' = IF del = NoDelete THEN del ELSE [del EXCEPT !.since = @ \union Changed]
    /\ UNCHANGED <<seen, spent>>

-----------------------------------------------------------------------------
(* Deletion *)

\* Mutant: a link to a directory is walked like one.
WalkedThrough(x) == x.kind \in {"dir", "link"}

\* A symlink is one unlink, whatever it points at.
Walked(x) == x.kind = "dir"

\* "was" is history: what the listing that the step was planned from called it.
Step(path, x, root, depth) ==
    [path |-> path, isDir |-> Walked(x), was |-> x.kind, root |-> root, depth |-> depth]

\* The plan of several rows, which are walked one after the other.
DeleteSelection(names) ==
    LET roots == {Step(<<Sorted[i]>>, seen[Sorted[i]], i, 0) :
                     i \in {i \in DOMAIN Sorted : Sorted[i] \in names}}
    IN /\ del.phase \in {"none", "done"} /\ spent.ops < MaxOps
       /\ names # {} /\ \A n \in names : seen[n].kind # "none"
       /\ del' = [phase |-> "plan", chosen |-> {<<Shown, n>> : n \in names},
                  pending |-> {s \in roots : s.isDir}, steps |-> roots, since |-> {}]
       /\ spent' = [spent EXCEPT !.ops = @ + 1]
       /\ UNCHANGED <<there, seen, rename>>

\* The walk goes tree by tree and level by level; within one the order does not
\* matter.
NextToWalk(s) ==
    \A p \in del.pending : s.root < p.root \/ (s.root = p.root /\ s.depth <= p.depth)

\* What the path leads to by now is listed; what could be read of it joins the
\* plan.
Walk(d) ==
    LET at == Directory(d.path)
        steps(found) == {Step(Append(d.path, n), there[<<at, n>>], d.root, d.depth + 1) :
                           n \in found}
        all == {n \in Leaves : there[<<at, n>>] # Nothing}
    IN /\ del.phase = "plan" /\ NextToWalk(d)
       /\ \E found \in {{}} \union (IF at \in Folders THEN {all} ELSE {}) :
            del' = [del EXCEPT
                !.pending = (@ \ {d}) \union
                    {s \in steps(found) : s.isDir /\ s.depth < kMaxDeleteDepth},
                !.steps = @ \union steps(found)]
       /\ UNCHANGED <<there, seen, rename, spent>>

\* ConfirmDeletion, which the user may also answer with no.
Confirm ==
    /\ del.phase = "plan" /\ del.pending = {}
    /\ del' \in {NoDelete, [del EXCEPT !.phase = "run"]}
    /\ UNCHANGED <<there, seen, rename, spent>>

Empty(d) == \A n \in Leaves : there[<<d, n>>] = Nothing

\* What one unlink or rmdir needs in order to succeed.
Removable(s) ==
    LET e == EntryOf(s.path) IN
    /\ e \in Entries
    /\ IF s.isDir THEN there[e].kind = "dir" /\ Empty(there[e].to)
       ELSE there[e].kind \in {"file", "link"}

\* Mutant: the next step is taken whatever became of this one.
AfterStepAnyway(d, s, ok) ==
    [d EXCEPT !.steps = @ \ {s}, !.phase = IF d.steps = {s} THEN "done" ELSE @]

\* The first failure ends it; the last success completes it.
AfterStep(d, s, ok) ==
    IF ok THEN [d EXCEPT !.steps = @ \ {s}, !.phase = IF d.steps = {s} THEN "done" ELSE @]
    ELSE NoDelete

\* Each chosen tree in turn, deepest first.
NextToRemove(s) ==
    \A t \in del.steps : s.root < t.root \/ (s.root = t.root /\ s.depth >= t.depth)

RemoveNext(s) ==
    /\ del.phase = "run" /\ NextToRemove(s)
    /\ \/ /\ Removable(s) /\ there' = [there EXCEPT ![EntryOf(s.path)] = Nothing]
          /\ del' = AfterStep(del, s, TRUE)
       \/ there' = there /\ del' = AfterStep(del, s, FALSE)
    /\ UNCHANGED <<seen, rename, spent>>

-----------------------------------------------------------------------------
(* Around them *)

\* A reload has arrived: after a write, after a deletion, or for any reason.
Relist ==
    /\ seen # Listing(Shown) /\ seen' = Listing(Shown)
    /\ UNCHANGED <<there, rename, del, spent>>

\* OnSessionEnded: controller and deleter go, with what they had under way.
GoOffline ==
    /\ rename # NoRename \/ del # NoDelete
    /\ rename' = NoRename /\ del' = NoDelete
    /\ UNCHANGED <<there, seen, spent>>

\* Others make files and links, replace one by another, and take away files, links
\* and empty directories, or put something else where an empty directory was.
\* (Bound: they make no directory and move none.)
Others ==
    /\ spent.changes < MaxChanges /\ spent' = [spent EXCEPT !.changes = @ + 1]
    /\ \E e \in Entries, x \in {Nothing, AFile} \union [kind : {"link"}, to : Targets] :
        /\ Exists(e[1]) /\ x # there[e]
        /\ there[e].kind = "dir" => Empty(there[e].to)
        /\ there' = [there EXCEPT ![e] = x]
    /\ rename' = IF rename = NoRename THEN rename
                 ELSE [rename EXCEPT !.since = @ \union Changed]
    /\ del' = IF del = NoDelete THEN del ELSE [del EXCEPT !.since = @ \union Changed]
    /\ UNCHANGED seen

Steps ==
    \/ \E n \in Leaves, to \in Destinations, slash \in BOOLEAN : RenameEntry(n, to, slash)
    \/ \E names \in SUBSET Leaves : DeleteSelection(names)
    \/ Check \/ Look \/ Move
    \/ \E d \in del.pending : Walk(d)
    \/ Confirm
    \/ \E s \in del.steps : RemoveNext(s)
    \/ Relist \/ GoOffline \/ Others

NextFiles == Steps /\ UNCHANGED machine

FilesSpec == InitFiles /\ [][NextFiles]_filesVars

-----------------------------------------------------------------------------
(* Properties *)

\* Types; the step that is out is a step of the plan.
FilesTypeOK ==
    /\ there \in [Entries -> Things] /\ seen \in [Leaves -> Things]
    /\ rename.phase \in {"none", "check", "move", "replace"}
    /\ rename.phase # "none" => rename.from \in Leaves /\ rename.to \in Seq(Leaves)
    /\ del.phase \in {"none", "plan", "run", "done"} /\ del.chosen \subseteq Entries
    /\ del.phase = "run" => del.steps # {} /\ del.pending = {}
    /\ spent.ops <= MaxOps /\ spent.changes <= MaxChanges

\* No rename costs a file: what it lands on, or the way to it, was changed since
\* the destination was checked, or it is, on a server, a link that leads nowhere
\* (RenameResolved, whose check is the only protection there;
\* LocalFileSystem::Rename, which looks again).
LandsOnNothing ==
    LET e == EntryOf(rename.to) IN
    (rename.phase \in {"move", "replace"} /\ rename' = NoRename
       /\ e \in Entries /\ there'[e] # there[e])
    => \/ there[e] = Nothing \/ Way(rename.to) \cap rename.since # {}
       \/ machine = "server" /\ Dangles(e)
NothingReplaced == [][LandsOnNothing]_filesVars

\* A link that has come where the plan has a directory.
Swapped(e, d) ==
    /\ there[e] = [kind |-> "link", to |-> d]
    /\ \E s \in del.steps : s.was = "dir" /\ EntryOf(s.path) = e

\* What the chosen rows are and contain: no set of directories is closed under
\* what the rows and its own entries lead to, without it.
Closed(D) ==
    \A e \in Entries, d \in Folders :
        ((LeadsTo(there[e], d) \/ Swapped(e, d)) /\ (e \in del.chosen \/ e[1] \in D)) => d \in D
Beneath == {e \in Entries : e \in del.chosen \/ \A D \in SUBSET Folders : Closed(D) => e[1] \in D}

\* RemoteDeleter's rule on links, as far as it is kept: a deletion takes only the
\* rows chosen and what lies in them, and never goes through what the listing
\* showed as a link.  Through a link that has come where the listing showed a
\* directory it does go (RemoteDeleter.cpp:77, 88-103, whose paths are followed
\* anew by every call), and takes what the link leads to.
TakesWhatIsUnder ==
    \A e \in Entries :
        (del.phase = "run" /\ del'.steps # del.steps /\ there'[e] # there[e]) => e \in Beneath
LinksAreNotWalked == [][TakesWhatIsUnder]_filesVars

\* A deletion that reports success has left nothing of the rows chosen, except
\* what others have put there since.
DoneMeansGone ==
    del.phase = "done" => \A e \in del.chosen : there[e] = Nothing \/ e \in del.since
=============================================================================
