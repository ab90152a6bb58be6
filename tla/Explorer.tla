------------------------------ MODULE Explorer ------------------------------
(***************************************************************************)
(* One pane of the file explorer: ui/FileExplorerPane over                 *)
(* fs/ExplorerController, fs/LinkResolver and fs/DirModel, and the         *)
(* machines it is pointed at.                                              *)
(*                                                                         *)
(* All of it runs on the interface's thread.  A call to a machine is       *)
(* answered later, and the answers come in any order.  An answer to a      *)
(* controller that is gone is dropped by its guard, so the calls of a      *)
(* controller go with it here.  The free space of the volume is left out.  *)
(***************************************************************************)
EXTENDS Naturals, FiniteSets, Sequences, SequencesExt

CONSTANTS
    Machines,   \* the filesystems the pane may be pointed at
    Remote,     \* those that belong to a session, which may end
    Dirs, Home, \* bound: the directories, and the one a machine opens with
    Raw,        \* a path that needs the server's realpath
    Rows,       \* bound: the names in a directory, in the order of the sort
    Content,    \* a directory's listing: name -> "file", "dir" or "link"
    Under,      \* where <<directory, name>> leads, if to a directory
    MaxNav,     \* bound: navigations of one controller
    MaxBinds,   \* bound: how often the pane is pointed at a machine
    MaxWrites,  \* bound: writes begun
    None

Names == Range(Rows)

ASSUME ExplorerAssumption ==
    /\ Remote \subseteq Machines /\ Home \in Dirs /\ Raw \notin Dirs
    /\ Rows \in Seq(Names) /\ None \notin Machines \union Dirs \union Names \union {Raw}
    /\ Content \in [Dirs -> [Names -> {"none", "file", "dir", "link"}]]
    /\ Under \in [Dirs \X Names -> Dirs \union {None}]
    /\ {MaxBinds, MaxWrites} \subseteq Nat /\ MaxNav \in Nat \ {0}

VARIABLES
    pane,    \* the pane, its controller, and the calls it has made
    dialog,  \* the modal dialog open: the name it holds on to, or None
    up,      \* the machines whose session is alive
    count    \* how many binds and writes there have been

vars == <<pane, dialog, up, count>>

Push == [kind |-> "push", to |-> 0]
Goto(i) == [kind |-> "goto", to |-> i]
Stay == [kind |-> "none", to |-> 0]

\* A batch of link lookups: its turn, the navigation it is about, what is left.
NoBatch == [turn |-> 0, nav |-> 0, todo |-> {}, got |-> {}]

Controller == [path |-> None, entries |-> {}, doors |-> {}, loading |-> FALSE, want |-> None,
               gen |-> 0, history |-> <<>>, pos |-> 0, batch |-> NoBatch]

NoDialog == [kind |-> "none", name |-> None]

Init ==
    /\ pane = [fs |-> None, ctl |-> Controller, row |-> 0, calls |-> {}, focus |-> None]
    /\ dialog = NoDialog /\ up = Machines /\ count = [binds |-> 0, writes |-> 0]

Live == pane.fs # None
UserFree == dialog = NoDialog

Ask(s, op, gen, path, intent, names) ==
    [s EXCEPT !.calls = @ \union {[op |-> op, fs |-> s.fs, gen |-> gen, path |-> path,
                                   intent |-> intent, names |-> names]}]

-----------------------------------------------------------------------------
(* The listing as the model orders it *)

\* Where a name comes in the sort, and the first of several.
Place(n) == CHOOSE i \in DOMAIN Rows : Rows[i] = n
First(names) == CHOOSE n \in names : \A m \in names : Place(n) <= Place(m)

\* Directories first, and with them the links known to lead to one.
Above(c, m, n) ==
    LET top(x) == Content[c.path][x] = "dir" \/ x \in c.doors IN
    IF top(m) = top(n) THEN Place(m) < Place(n) ELSE top(m)

\* The number of the row that a name of the listing has.
Rebuild(c) == [n \in c.entries |-> 1 + Cardinality({m \in c.entries : Above(c, m, n)})]

UnresolvedLinkNames(c) == {n \in c.entries \ c.doors : Content[c.path][n] = "link"}

\* The list control keeps its selection by number.
RefreshRows(s) == [s EXCEPT !.row = IF @ <= Cardinality(s.ctl.entries) THEN @ ELSE 0]

OnExplorerContentsChanged(s) ==
    LET shown == IF s.focus \in s.ctl.entries
                 THEN [s EXCEPT !.row = Rebuild(s.ctl)[s.focus]]
                 ELSE RefreshRows(s)
    IN [shown EXCEPT !.focus = None]

-----------------------------------------------------------------------------
(* Navigation *)

CanBegin(s) == s.ctl.gen < MaxNav

\* A new generation: what was asked before is superseded, the lookups with it.
Begin(s, p, intent) ==
    LET g == s.ctl.gen + 1 IN
    Ask([s EXCEPT !.ctl.gen = g, !.ctl.loading = TRUE, !.ctl.want = p, !.ctl.batch.turn = @ + 1],
        IF p = Raw THEN "RealPath" ELSE "List", g, p, intent, {})

Reload(s) ==
    IF s.ctl.path = None \/ ~CanBegin(s) THEN s ELSE Begin(s, s.ctl.path, Stay)

\* A batch of the links not yet known, asked about one after the other.
ResolveLinks(s) ==
    LET names == UnresolvedLinkNames(s.ctl)
        b == [turn |-> s.ctl.batch.turn + 1, nav |-> s.ctl.gen, todo |-> names, got |-> {}]
    IN IF names = {} THEN [s EXCEPT !.ctl.batch.turn = @ + 1]
       ELSE Ask([s EXCEPT !.ctl.batch = b], "Lookup", b.turn, s.ctl.path, Stay, {First(names)})

\* History moves when a navigation arrives, not when it is asked for.
Commit(c, intent, p) ==
    CASE intent.kind = "push" -> [c EXCEPT !.history = Append(SubSeq(@, 1, c.pos), p),
                                           !.pos = @ + 1]
      [] intent.kind = "goto" -> [c EXCEPT !.pos = intent.to]
      [] OTHER -> c

Arrive(s, call, found) ==
    LET c == [Commit(s.ctl, call.intent, call.path) EXCEPT
                !.path = call.path, !.entries = found, !.doors = {}, !.loading = FALSE]
    IN ResolveLinks(OnExplorerContentsChanged([s EXCEPT !.ctl = c]))

\* Mutant: a listing is shown whatever has been asked for since.
OnListedAlways(s, call, found) == Arrive(s, call, found)

\* What a superseded navigation brings is dropped; one that failed arrives empty.
OnListed(s, call, found) ==
    IF call.gen # s.ctl.gen THEN s ELSE Arrive(s, call, found)

\* Mutant: a path the server cannot resolve is given up.
OnResolvedOrGone(s, call, p) ==
    IF call.gen # s.ctl.gen \/ p = Raw THEN s
    ELSE Ask(s, "List", call.gen, p, call.intent, {})

\* The server's name for it, or the one typed when it has none.
OnResolved(s, call, p) ==
    IF call.gen # s.ctl.gen THEN s ELSE Ask(s, "List", call.gen, p, call.intent, {})

\* LinkResolver: the answer about one link, then the next or the whole batch.
OnLookedUp(s, call, isDir) ==
    LET b == s.ctl.batch
        next == [b EXCEPT !.todo = @ \ call.names, !.got = IF isDir THEN @ \union call.names ELSE @]
        t == [s EXCEPT !.ctl.batch = next]
    IN IF call.gen # b.turn THEN s
       ELSE IF next.todo # {}
            THEN Ask(t, "Lookup", b.turn, call.path, Stay, {First(next.todo)})
            ELSE Ask(t, "Batch", b.nav, call.path, Stay, next.got)

\* Mutant: what a batch brings is applied to any listing.
OnBatchAnytime(s, call) ==
    OnExplorerContentsChanged([s EXCEPT !.ctl.doors = (@ \union call.names) \intersect s.ctl.entries])

\* The whole batch, unless a navigation has begun since it was sent on.
OnBatch(s, call) ==
    IF call.gen # s.ctl.gen THEN s
    ELSE OnExplorerContentsChanged(
           [s EXCEPT !.ctl.doors = (@ \union call.names) \intersect s.ctl.entries])

-----------------------------------------------------------------------------
(* The user *)

BindEndpoint(m) ==
    /\ UserFree /\ m \in up /\ pane.fs # m /\ count.binds < MaxBinds
    /\ pane' = Begin([pane EXCEPT !.fs = m, !.ctl = Controller, !.calls = {}], Home, Push)
    /\ count' = [count EXCEPT !.binds = @ + 1]
    /\ UNCHANGED <<dialog, up>>

\* A path typed, a directory's row, the way up, and the history: its buttons are
\* disabled while a listing is out, its keys are not.
Navigate ==
    /\ UserFree /\ Live /\ CanBegin(pane)
    /\ LET c == pane.ctl IN
        \/ \E p \in Dirs \union {Raw} : pane' = Begin(pane, p, Push)
        \/ c.pos > 1 /\ pane' = Begin(pane, c.history[c.pos - 1], Goto(c.pos - 1))
        \/ c.pos < Len(c.history) /\ pane' = Begin(pane, c.history[c.pos + 1], Goto(c.pos + 1))
    /\ UNCHANGED <<dialog, up, count>>

\* F5, and from elsewhere at any time: the transfer queue has drained, or a file
\* edited on this machine was saved.
Refresh ==
    /\ Live /\ CanBegin(pane) /\ pane' = Reload(pane)
    /\ UNCHANGED <<dialog, up, count>>

\* The name under the selection.
OnRow ==
    LET on == {n \in pane.ctl.entries : Rebuild(pane.ctl)[n] = pane.row}
    IN IF on = {} THEN None ELSE CHOOSE n \in on : TRUE

Select ==
    /\ UserFree /\ Live
    /\ \E n \in pane.ctl.entries : LET i == Rebuild(pane.ctl)[n] IN
          i # pane.row /\ pane' = [pane EXCEPT !.row = i]
    /\ UNCHANGED <<dialog, up, count>>

\* A link is asked about before it is followed.
Activate ==
    /\ UserFree /\ Live /\ OnRow # None /\ Content[pane.ctl.path][OnRow] = "link"
    /\ pane' = Ask(pane, "Activate", pane.ctl.gen, pane.ctl.path, Stay, {OnRow})
    /\ UNCHANGED <<dialog, up, count>>

\* RenameRow and ShowPropertiesFor hold on to a name, NewFolder to nothing.
OpenDialog ==
    /\ UserFree /\ Live /\ count.writes < MaxWrites
    /\ \/ OnRow # None /\ dialog' = [kind |-> "entry", name |-> OnRow]
       \/ ~pane.ctl.loading /\ dialog' = [kind |-> "folder", name |-> None]
    /\ count' = [count EXCEPT !.writes = @ + 1]
    /\ UNCHANGED <<pane, up>>

\* RequireLive: the session may have ended under the dialog.  The name is put in
\* the directory that the controller shows by now.
AnswerDialog ==
    /\ dialog # NoDialog /\ dialog' = NoDialog
    /\ \/ UNCHANGED pane
       \/ /\ Live
          /\ \E n \in (IF dialog.kind = "entry" THEN {dialog.name} ELSE Names) :
               pane' = Ask(pane, "Write", 0, pane.ctl.path, Stay, {n})
    /\ UNCHANGED <<up, count>>

-----------------------------------------------------------------------------
(* The machines *)

Answer(c) ==
    LET s == [pane EXCEPT !.calls = @ \ {c}]
        there == IF c.path \in Dirs THEN {n \in Names : Content[c.path][n] # "none"} ELSE {}
        leads == c.path \in Dirs /\ \E n \in c.names : Under[<<c.path, n>>] # None
    IN /\ c \in pane.calls
       /\ \/ c.op = "RealPath" /\ \E p \in Dirs \union {Raw} : pane' = OnResolved(s, c, p)
          \/ c.op = "List" /\ \E found \in {{}, there} : pane' = OnListed(s, c, found)
          \/ c.op = "Lookup" /\ \E isDir \in {FALSE, leads} : pane' = OnLookedUp(s, c, isDir)
          \/ c.op = "Batch" /\ pane' = OnBatch(s, c)
          \/ c.op = "Activate" /\ pane' = s                \* a file, or an error
          \/ /\ c.op = "Activate" /\ leads /\ CanBegin(s)
             /\ \E n \in c.names : pane' = Begin(s, Under[<<c.path, n>>], Push)
          \/ c.op = "Write" /\ pane' = s                   \* it failed
          \/ c.op = "Write" /\ \E n \in c.names : pane' = Reload([s EXCEPT !.focus = n])
       /\ UNCHANGED <<dialog, up, count>>

\* OnSessionEnded: a pane that shows the machine goes offline.
EndSession(m) ==
    /\ m \in up \intersect Remote /\ up' = up \ {m}
    /\ pane' = IF pane.fs # m THEN pane
               ELSE [pane EXCEPT !.fs = None, !.ctl = Controller, !.row = 0, !.calls = {}]
    /\ UNCHANGED <<dialog, count>>

Next ==
    \/ \E m \in Machines : BindEndpoint(m) \/ EndSession(m)
    \/ Navigate \/ Refresh \/ Select \/ Activate \/ OpenDialog \/ AnswerDialog
    \/ \E c \in pane.calls : Answer(c)

\* A machine, or the service that gives up on it, answers every call in the end.
Answered == \E c \in pane.calls : c.op \in {"RealPath", "List"} /\ Answer(c)

Spec == Init /\ [][Next]_vars
FairSpec == Spec /\ WF_vars(Answered)

-----------------------------------------------------------------------------
(* Properties *)

\* Types.  The history's position is always on an entry of the history.
TypeOK ==
    LET c == pane.ctl IN
    /\ pane.fs \in Machines \union {None} /\ dialog.name \in Names \union {None}
    /\ pane.row \in 0..Len(Rows) /\ pane.focus \in Names \union {None}
    /\ c.path \in Dirs \union {None, Raw} /\ c.gen \in 0..MaxNav
    /\ c.entries \subseteq Names /\ c.doors \subseteq c.entries
    /\ c.history \in Seq(Dirs \union {Raw}) /\ c.pos \in 0..Len(c.history)
    /\ c.history # <<>> => c.pos > 0
    /\ up \subseteq Machines /\ count.binds <= MaxBinds /\ count.writes <= MaxWrites

\* A pane at rest shows the directory asked for last, whatever order the answers
\* came in, and its history stands on that directory, or on a path that was only
\* resolved by a later reload (the controller's generation; history on arrival).
RestsWhereAsked ==
    LET c == pane.ctl IN
    (Live /\ ~c.loading) =>
        /\ c.want = Raw \/ c.path = c.want
        /\ c.history[c.pos] \in {c.path, Raw}

\* A row offered as the way into a directory is one: no answer about the links of
\* one listing is ever applied to the rows of another (LinkResolver's batches,
\* and the second check in ResolveLinks).
DoorsLeadSomewhere ==
    \A n \in pane.ctl.doors : Under[<<pane.ctl.path, n>>] # None

\* Nothing is asked of a machine that the pane no longer has: a session may end
\* under an open dialog (RequireLive; the pane's and the controller's guards).
CallsHaveAMachine == \A c \in pane.calls : c.fs # None /\ c.fs \in up

\* "Loading..." ends: superseded, resolved or not, every navigation comes to an
\* arrival, or the pane to a message that it is offline.
LoadingEnds == pane.ctl.loading ~> (~pane.ctl.loading)
=============================================================================
