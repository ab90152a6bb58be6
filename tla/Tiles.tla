-------------------------------- MODULE Tiles --------------------------------
(***************************************************************************)
(* The windows' tiles and tabs: ui/TerminalTile, ui/TabStrip,              *)
(* ui/TerminalGrid, and the part of ui/UIManager and input/InputRouter     *)
(* that decides which tab is shown, who is typed to and how that looks.    *)
(*                                                                         *)
(* All of it runs on the interface's thread, a handler at a time.  Between *)
(* a press of the mouse and the drag it becomes, and between a menu and    *)
(* what it posts, other handlers run: sessions end, output is noted,       *)
(* posted moves are made.                                                  *)
(***************************************************************************)
EXTENDS Naturals, FiniteSets, Sequences, SequencesExt, FiniteSetsExt

CONSTANTS
    Ids,        \* bound: the sessions
    Windows,    \* bound: the windows, an empty one standing for one not yet made
    Tiles,      \* bound: the tiles, by their addresses
    Size,       \* bound: what each session's terminal asks of its tile, <<w, h>>
    MaxSize,    \* the room the display has for a window, <<w, h>>
    Gap,        \* TerminalGrid::kGap
    Noisy,      \* bound: the sessions that have output
    Chosen,     \* bound: the sessions the user adds to the broadcast by name
    Movable,    \* bound: the sessions the user moves by their menu
    NoSession, NoTile

ASSUME TilesAssumption ==
    /\ IsFiniteSet(Ids) /\ IsFiniteSet(Tiles) /\ NoSession \notin Ids
    /\ Cardinality(Tiles) >= Cardinality(Ids) /\ NoTile \notin Tiles
    /\ Size \in [Ids -> (Nat \ {0}) \X (Nat \ {0})]
    /\ Noisy \union Chosen \union Movable \subseteq Ids
    /\ MaxSize \in (Nat \ {0}) \X (Nat \ {0}) /\ Gap \in Nat

VARIABLES
    desk,       \* grids, tiles, tab entries and routers: what handlers work on
    refreshing, \* per window: pendingRefresh_
    posted,     \* per window: what CallAfter has queued
    pressed,    \* the button is down: TabStrip's dragPending_ and dragTabIdx_
    drag        \* UIManager::dragState_

tilesVars == <<desk, refreshing, posted, pressed, drag>>

BlankTile == [tabs |-> <<>>, active |-> 0, focused |-> FALSE, mode |-> FALSE,
          cast |-> FALSE, size |-> <<0, 0>>]
Entry == [cast |-> FALSE, unread |-> FALSE]
Router == [focused |-> NoSession, selected |-> {}, mode |-> "Focused", active |-> NoSession]

NotPressed == [tile |-> NoTile, tab |-> 0]
NotDragged == [ids |-> <<>>, intent |-> "Tabs", source |-> NoTile, from |-> "none"]

InitTiles ==
    /\ desk = [grid |-> [w \in Windows |-> <<>>], tile |-> [t \in Tiles |-> BlankTile],
               entry |-> [s \in Ids |-> Entry], win |-> [w \in Windows |-> Router],
               fresh |-> {}]
    /\ refreshing = [w \in Windows |-> {}] /\ posted = [w \in Windows |-> <<>>]
    /\ pressed = NotPressed /\ drag = NotDragged

-----------------------------------------------------------------------------
(* Where things are *)

Tabs(d, w) == UNION {ToSet(d.tile[t].tabs) : t \in ToSet(d.grid[w])}
Open(d) == UNION {Tabs(d, w) : w \in Windows}
Home(d, s) == CHOOSE t \in Tiles : s \in ToSet(d.tile[t].tabs)
WindowOf(d, t) == CHOOSE w \in Windows : t \in ToSet(d.grid[w])
Placed(d) == UNION {ToSet(d.grid[w]) : w \in Windows}
At(tabs, s) == CHOOSE i \in DOMAIN tabs : tabs[i] = s

\* GetActiveSessionId
Shown(d, t) == IF d.tile[t].active \in DOMAIN d.tile[t].tabs
               THEN d.tile[t].tabs[d.tile[t].active] ELSE NoSession

\* Whom InputRouter::Send and Paste reach.
Recipients(d, w) ==
    IF d.win[w].mode = "Broadcast" THEN d.win[w].selected
    ELSE {d.win[w].focused} \ {NoSession}

-----------------------------------------------------------------------------
(* TerminalTile *)

\* The tab's mark for unread output goes with it being shown.
ActivateTab(d, t, i) ==
    IF i \notin DOMAIN d.tile[t].tabs \/ d.tile[t].active = i THEN d
    ELSE LET s == d.tile[t].tabs[i] IN
         [d EXCEPT !.tile[t].active = i, !.tile[t].cast = d.entry[s].cast,
                   !.entry[s].unread = FALSE, !.fresh = @ \ {s}]

\* The first tab's terminal sets the size of the tile.
AddTab(d, t, s) ==
    LET added == [d EXCEPT !.tile[t].tabs = Append(@, s), !.entry[s] = Entry] IN
    IF d.tile[t].tabs = <<>>
    THEN ActivateTab([added EXCEPT !.tile[t].size = Size[s]], t, 1) ELSE added

\* Mutant: the index of the shown tab is not moved down with it.
RemoveTabBelow(d, t, s) ==
    LET i == At(d.tile[t].tabs, s)
        gone == [d EXCEPT !.tile[t].tabs = RemoveAt(@, i), !.entry[s] = Entry,
                               !.fresh = @ \ {s}]
    IN IF d.tile[t].active = i /\ Len(d.tile[t].tabs) > 1
       THEN ActivateTab([gone EXCEPT !.tile[t].active = 0], t,
                        Min({i, Len(d.tile[t].tabs) - 1}))
       ELSE gone

\* A neighbour of the shown tab takes its place; otherwise what is shown stays.
RemoveTab(d, t, s) ==
    LET i == At(d.tile[t].tabs, s)
        gone == [d EXCEPT !.tile[t].tabs = RemoveAt(@, i), !.entry[s] = Entry,
                               !.fresh = @ \ {s}]
        left == Len(d.tile[t].tabs) - 1
    IN CASE left = 0 -> [gone EXCEPT !.tile[t].active = 0]
         [] left > 0 /\ d.tile[t].active = i ->
              ActivateTab([gone EXCEPT !.tile[t].active = 0], t, IF i <= left THEN i ELSE left)
         [] left > 0 /\ d.tile[t].active > i -> [gone EXCEPT !.tile[t].active = @ - 1]
         [] OTHER -> gone

\* std::rotate: tab i goes before the tab that was tab before + 1.
Rotated(tabs, i, before) ==
    IF before < i
    THEN SubSeq(tabs, 1, before) \o <<tabs[i]>> \o SubSeq(tabs, before + 1, i - 1)
           \o SubSeq(tabs, i + 1, Len(tabs))
    ELSE SubSeq(tabs, 1, i - 1) \o SubSeq(tabs, i + 1, before) \o <<tabs[i]>>
           \o SubSeq(tabs, before + 1, Len(tabs))

\* The shown tab's index follows it, whichever tab was moved.
MoveTabToIndex(d, t, s, before) ==
    LET tabs == d.tile[t].tabs  a == d.tile[t].active  i == At(tabs, s) IN
    IF before \in {i - 1, i} THEN d
    ELSE [d EXCEPT !.tile[t].tabs = Rotated(tabs, i, before),
                   !.tile[t].active =
                     CASE a = i /\ before < i -> before + 1
                       [] a = i /\ before > i -> before
                       [] a \in before + 1..i - 1 -> a + 1
                       [] a \in i + 1..before -> a - 1
                       [] OTHER -> a]

-----------------------------------------------------------------------------
(* The window: UIManager, its grid and its router *)

\* RefreshBroadcastVisuals: every tab, then the tiles they are in.
RefreshVisuals(d, w) ==
    LET on == d.win[w].mode = "Broadcast"
        cast(s) == on /\ s \in d.win[w].selected
    IN [d EXCEPT
          !.entry = [s \in Ids |-> IF s \in Tabs(d, w)
                                   THEN [d.entry[s] EXCEPT !.cast = cast(s)] ELSE d.entry[s]],
          !.tile = [t \in Tiles |-> IF t \in ToSet(d.grid[w])
                      THEN [d.tile[t] EXCEPT !.mode = on,
                              !.cast = \E s \in ToSet(d.tile[t].tabs) : cast(s)]
                      ELSE d.tile[t]]]

SetActiveTile(d, w, t) ==
    [d EXCEPT !.tile = [u \in Tiles |-> IF u \in ToSet(d.grid[w])
                                        THEN [d.tile[u] EXCEPT !.focused = (u = t)]
                                        ELSE d.tile[u]]]

\* The keys, the window's active session, its tile and its tab.
RequestActivate(d, w, s) ==
    LET t == Home(d, s)
        named == [d EXCEPT !.win[w].focused = s, !.win[w].active = s]
    IN RefreshVisuals(ActivateTab(SetActiveTile(named, w, t), t,
                                  At(d.tile[t].tabs, s)), w)

\* A session's tab is taken away, and its tile with the last.
TakeOut(d, w, s) ==
    LET t == Home(d, s)  out == RemoveTab(d, t, s) IN
    IF out.tile[t].tabs # <<>> THEN out
    ELSE [out EXCEPT !.tile[t] = BlankTile, !.grid[w] = RemoveAt(@, At(@, t))]

\* Some session that is left is made active, whichever was before.
TearDown(d, w, s) ==
    LET rest == TakeOut(d, w, s)
        forgotten == [rest EXCEPT !.win[w].active = IF @ = s THEN NoSession ELSE @]
    IN IF Tabs(rest, w) = {} THEN {forgotten}
       ELSE {RequestActivate(forgotten, w, u) : u \in Tabs(rest, w)}

\* Mutant: a session that leaves stays chosen.
RouterRemoveOnlyFocus(d, w, s) ==
    [d EXCEPT !.win[w].focused = IF @ = s THEN NoSession ELSE @]

\* RemoveTarget; the mode is left as it is, whoever is left.
RouterRemove(d, w, s) ==
    [d EXCEPT !.win[w].selected = @ \ {s},
              !.win[w].focused = IF @ = s THEN NoSession ELSE @]

\* TakeSession into a tile, or into a new one at the end of the grid.
TakeSession(d, w, s, t) ==
    IF t # NoTile THEN RequestActivate(AddTab(d, t, s), w, s)
    ELSE LET new == CHOOSE u \in Tiles : u \notin Placed(d) IN
         RequestActivate(AddTab([d EXCEPT !.grid[w] = Append(@, new)], new, s), w, s)

\* One session of App::DropSession, with its router when the window changes.
MoveSession(d, s, w, t) ==
    LET from == WindowOf(d, Home(d, s))
        routed == IF from = w THEN d ELSE RouterRemove(d, from, s)
    IN {TakeSession(left, w, s, t) : left \in TearDown(routed, from, s)}

\* The next of several, unless it has ended; the tile made for the first takes the
\* others too.
DropNext(x, s, w) ==
    IF s \notin Open(x.desk) THEN {x}
    ELSE {[desk |-> e, tile |-> IF x.tile # NoTile THEN x.tile ELSE Home(e, e.win[w].active)] :
            e \in MoveSession(x.desk, s, w, x.tile)}

\* One after another: what may be after the first k.
Dropping(d, ids, w, t) ==
    LET after[k \in 0..Len(ids)] ==
          IF k = 0 THEN {[desk |-> d, tile |-> t]}
          ELSE UNION {DropNext(x, ids[k], w) : x \in after[k - 1]}
    IN after
DropSessions(d, ids, w, t) == {x.desk : x \in Dropping(d, ids, w, t)[Len(ids)]}

\* TerminalGrid::MoveTileNear: nothing when either tile has gone.
MoveTileNear(d, w, source, t, before) ==
    IF {source, t} \subseteq ToSet(d.grid[w])
    THEN LET others == RemoveAt(d.grid[w], At(d.grid[w], source))
             i == At(others, t)
         IN [d EXCEPT !.grid[w] = InsertAt(others, IF before THEN i ELSE i + 1, source)]
    ELSE d

\* A window left without sessions closes, unless it is the last.
Emptied(d) == {w \in Windows : d.grid[w] = <<>> /\ Open(d) # {}}
Become(d, queue) ==
    /\ desk' = [d EXCEPT !.win = [w \in Windows |-> IF w \in Emptied(d) THEN Router
                                                    ELSE d.win[w]]]
    /\ refreshing' = [w \in Windows |-> IF w \in Emptied(d) THEN {} ELSE refreshing[w]]
    /\ posted' = [w \in Windows |-> IF w \in Emptied(d) THEN <<>> ELSE queue[w]]
    \* A tile that is destroyed takes a button held on it along.
    /\ pressed' = IF pressed.tile \in Placed(d) THEN pressed ELSE NotPressed

-----------------------------------------------------------------------------
(* TerminalGrid: the size a window is given for its tiles, and their places *)

Extent(d, t, k) == d.tile[t].size[k]

\* A turn of RelayoutTiles, and of the simulation of it for columns.
NextPlace(a, size, room) ==
    LET wraps == a.at > Gap /\ a.at + size + Gap > room
        from == IF wraps THEN Gap ELSE a.at
        line == IF wraps THEN a.line + 1 ELSE a.line
    IN [line |-> line, lines |-> Append(a.lines, line), at |-> from + size + Gap,
        longest |-> Max({a.longest, from + size + Gap})]

\* k is the direction the tiles run in, room what there is of it; lines are
\* columns or rows.
Laid(d, ts, k, room) ==
    LET after[i \in 0..Len(ts)] ==
          IF i = 0 THEN [line |-> 1, lines |-> <<>>, at |-> Gap, longest |-> 0]
          ELSE NextPlace(after[i - 1], Extent(d, ts[i], k), room)
    IN after[Len(ts)]

\* What the first i of the weights come to.
Prefix(weights) ==
    LET prefix[i \in 0..Len(weights)] == IF i = 0 THEN 0 ELSE prefix[i - 1] + weights[i]
    IN prefix

\* The widest of the groups, when the last of them is what follows m up to i.
Widest(prefix, row, m, i) == Max({row[m], prefix[i] - prefix[m]})

\* A row of dp, from the one before it.
NextRow(prefix, n, row, j) ==
    [i \in 0..n |-> IF i < j THEN prefix[n] + 1
                    ELSE Min({Widest(prefix, row, m, i) : m \in j - 1..i - 1})]

\* Of equal cuts the first.
Cut(prefix, row, next, j, i) ==
    Min({m \in j - 1..i - 1 : Widest(prefix, row, m, i) = next[i]})

\* LinearPartition: where each of the k groups ends, the widest as small as may be.
LinearPartition(weights, k) ==
    LET n == Len(weights)
        prefix == Prefix(weights)
        dp[j \in 1..k] == IF j = 1 THEN prefix ELSE NextRow(prefix, n, dp[j - 1], j)
        back[g \in 0..k - 1] ==
          IF g = 0 THEN n ELSE Cut(prefix, dp[k - g], dp[k - g + 1], k - g + 1, back[g - 1])
    IN [j \in 0..k |-> IF j = 0 THEN 0 ELSE back[k - j]]

GridRows(n) ==
    LET columns == CHOOSE c \in 1..n : c * c >= n /\ (c - 1) * (c - 1) < n
    IN (n + columns - 1) \div columns

IdealWidth(d, ts) ==
    LET weights == [i \in DOMAIN ts |-> Extent(d, ts[i], 1) + Gap]
        rows == GridRows(Len(ts))
        prefix == Prefix(weights)
        ends == LinearPartition(weights, rows)
    IN Max({Gap + (prefix[ends[j]] - prefix[ends[j - 1]]) : j \in 1..rows})

\* Mutant: the last column is forgotten.
IdealHeightOfFull(d, ts) ==
    LET laid == Laid(d, ts, 2, MaxSize[2])
        full == SelectSeq([i \in DOMAIN ts |-> <<ts[i], laid.lines[i]>>],
                          LAMBDA x : x[2] < laid.line)
    IN Laid(d, [i \in DOMAIN full |-> full[i][1]], 2, MaxSize[2]).longest

IdealHeight(d, ts) == Laid(d, ts, 2, MaxSize[2]).longest

-----------------------------------------------------------------------------
(* What goes on while the user does nothing *)

\* SessionManager::CloseSession, whoever asked for it.
End(s) ==
    /\ s \in Open(desk)
    /\ LET w == WindowOf(desk, Home(desk, s)) IN
        \E d \in TearDown(RouterRemove(desk, w, s), w, s) : Become(d, posted)
    /\ UNCHANGED drag

\* SessionNotifier::OnDocumentChanged, on the session's thread: one notice at a
\* time is under way.
Output(s) ==
    /\ s \in Noisy \cap Open(desk)
    /\ LET t == Home(desk, s)  w == WindowOf(desk, t) IN
        /\ desk' = IF Shown(desk, t) = s THEN desk ELSE [desk EXCEPT !.fresh = @ \union {s}]
        /\ IF s \in refreshing[w] THEN UNCHANGED <<refreshing, posted>>
           ELSE /\ refreshing' = [refreshing EXCEPT ![w] = @ \union {s}]
                /\ posted' = [posted EXCEPT ![w] =
                                Append(@, [kind |-> "refresh", ids |-> <<s>>])]
    /\ UNCHANGED <<pressed, drag>>

\* Mutant: the early return comes before the notice is taken off.
RefreshAfter(w, s) ==
    /\ refreshing' = [refreshing EXCEPT ![w] = IF s \in Tabs(desk, w) THEN @ \ {s} ELSE @]
    /\ desk' = IF s \in Tabs(desk, w) /\ Shown(desk, Home(desk, s)) # s
               THEN [desk EXCEPT !.entry[s].unread = TRUE] ELSE desk

\* The posted notice: a tab that is not shown is marked.
Refresh(w, s) ==
    /\ refreshing' = [refreshing EXCEPT ![w] = @ \ {s}]
    /\ desk' = IF s \in Tabs(desk, w) /\ Shown(desk, Home(desk, s)) # s
               THEN [desk EXCEPT !.entry[s].unread = TRUE] ELSE desk

\* bound: the windows there may be beside this one.
Empty(w) == {v \in Windows \ {w} : desk.grid[v] = <<>>}

\* UIManager's CallAfter lambdas, in order: a notice of output ...
HandleRefresh(w) ==
    /\ posted[w] # <<>> /\ Head(posted[w]).kind = "refresh"
    /\ posted' = [posted EXCEPT ![w] = Tail(@)]
    /\ Refresh(w, Head(posted[w]).ids[1])
    /\ UNCHANGED <<pressed, drag>>

\* ... or sessions to be moved, to a new tile or a new window.
HandleMove(w) ==
    /\ posted[w] # <<>> /\ Head(posted[w]).kind # "refresh"
    /\ LET n == Head(posted[w])
           to == IF n.kind = "tile" THEN {w} ELSE Empty(w)
           moved == UNION {DropSessions(desk, n.ids, v, NoTile) : v \in to}
       IN \E d \in IF to = {} THEN {desk} ELSE moved :
            Become(d, [posted EXCEPT ![w] = Tail(@)])
    /\ UNCHANGED drag

-----------------------------------------------------------------------------
(* The user *)

\* bound: the user is slower than what is posted, a menu's move or a notice of output;
\* while the button is held or something is dragged, both go on.
UserFree ==
    /\ pressed = NotPressed /\ drag = NotDragged
    /\ \A w \in Windows : posted[w] = <<>>

\* CreateSessionInTile: in a tile of its own, or in the one whose "+" asked for it.
Connect(w, s, t) ==
    /\ UserFree /\ t \in ToSet(desk.grid[w]) \union {NoTile} /\ s \notin Open(desk)
    /\ desk' = TakeSession(desk, w, s, t)
    /\ UNCHANGED <<refreshing, posted, pressed, drag>>

\* TabStrip::OnLeftDown on a tab, which is activated, or beside the tabs.
Press(t, i) ==
    /\ UserFree /\ t \in Placed(desk) /\ i \in {0} \union DOMAIN desk.tile[t].tabs
    /\ LET s == IF i = 0 THEN Shown(desk, t) ELSE desk.tile[t].tabs[i] IN
        /\ desk' = RequestActivate(desk, WindowOf(desk, t), s)
        /\ pressed' = [tile |-> t, tab |-> i]
    /\ UNCHANGED <<refreshing, posted, drag>>

Release ==
    /\ pressed # NotPressed
    /\ pressed' = NotPressed
    /\ UNCHANGED <<desk, refreshing, posted, drag>>

\* OnMotion beyond the threshold: OnTabDragStart for the tab that has the index
\* by now, OnTileDragStart for all of them.
StartDrag ==
    /\ pressed # NotPressed
    /\ LET t == pressed.tile  i == pressed.tab  tabs == desk.tile[t].tabs IN
        drag' = IF i = 0
                THEN [ids |-> tabs, intent |-> "Tile", source |-> t, from |-> WindowOf(desk, t)]
                ELSE IF i \in DOMAIN tabs
                THEN [ids |-> <<tabs[i]>>, intent |-> "Tabs", source |-> NoTile,
                      from |-> WindowOf(desk, t)]
                ELSE drag
    /\ pressed' = NotPressed
    /\ UNCHANGED <<desk, refreshing, posted>>

\* TerminalTile::DropSession: its own tab is moved, its own tile stays, and
\* others come in, as tabs or as a tile beside it.
DropOnTile(t, before) ==
    LET w == WindowOf(desk, t)
        own == ToSet(drag.ids) \cap ToSet(desk.tile[t].tabs) # {}
    IN CASE own /\ drag.intent = "Tabs" -> {MoveTabToIndex(desk, t, drag.ids[1], before)}
         [] own /\ drag.intent = "Tile" -> {desk}
         [] OTHER -> DropSessions(desk, drag.ids, w,
                                  IF drag.intent = "Tile" THEN NoTile ELSE t)

\* OnDragRelease over a tile: a tile of the same window is moved beside it.
DropAt(t, before) ==
    /\ drag # NotDragged /\ t \in Placed(desk) /\ before \in 0..Len(desk.tile[t].tabs)
    /\ IF drag.intent = "Tile" /\ drag.source # t /\ WindowOf(desk, t) = drag.from
       THEN \E first \in BOOLEAN :
              Become(MoveTileNear(desk, drag.from, drag.source, t, first), posted)
       ELSE \E d \in DropOnTile(t, before) : Become(d, posted)
    /\ drag' = NotDragged

\* OnDragRelease over a window beside its tiles, or over nothing of naTE's.
DropOnWindow(w) ==
    /\ drag # NotDragged /\ desk.grid[w] # <<>>
    /\ \E d \in DropSessions(desk, drag.ids, w, NoTile) : Become(d, posted)
    /\ drag' = NotDragged

DropNowhere ==
    /\ drag # NotDragged
    /\ drag' = NotDragged
    /\ UNCHANGED <<desk, refreshing, posted, pressed>>

\* A tab's menu posts its move; a tile's menu that of all its tabs.
AskMove(w, ids, to) ==
    /\ ids # <<>>
    /\ posted' = [posted EXCEPT ![w] = Append(@, [kind |-> to, ids |-> ids])]
    /\ UNCHANGED <<desk, refreshing, pressed, drag>>

AskTabMove(s, to) ==
    /\ s \in Movable /\ UserFree /\ s \in Open(desk)
    /\ AskMove(WindowOf(desk, Home(desk, s)), <<s>>, to)

AskTileMove(t) ==
    /\ UserFree /\ ToSet(desk.tile[t].tabs) \cap Movable # {}
    /\ AskMove(WindowOf(desk, t), desk.tile[t].tabs, "window")

\* InputRouter::Select and Deselect, by a tab's or a tile's "Add to Broadcast".
ToggleTileBroadcast(s) ==
    /\ UserFree /\ s \in Chosen \cap Open(desk)
    /\ LET w == WindowOf(desk, Home(desk, s))
           selected == desk.win[w].selected
           next == IF s \in selected
                   THEN [desk EXCEPT !.win[w].selected = @ \ {s},
                           !.win[w].mode = IF selected = {s} THEN "Focused" ELSE @]
                   ELSE [desk EXCEPT !.win[w].selected = @ \union {s},
                                     !.win[w].mode = "Broadcast"]
       IN desk' = RefreshVisuals(next, w)
    /\ UNCHANGED <<refreshing, posted, pressed, drag>>

\* The menu's switch: with nobody chosen it starts from the active session.
ToggleBroadcastMode(w) ==
    /\ UserFree /\ desk.grid[w] # <<>>
    /\ LET on == desk.win[w].mode # "Broadcast"
           next == [desk EXCEPT
                      !.win[w].selected =
                        IF on /\ @ = {} THEN {desk.win[w].active} \ {NoSession} ELSE @,
                      !.win[w].mode = IF on THEN "Broadcast" ELSE "Focused"]
       IN desk' = RefreshVisuals(next, w)
    /\ UNCHANGED <<refreshing, posted, pressed, drag>>

-----------------------------------------------------------------------------
Others == \/ \E s \in Ids : End(s) \/ Output(s)
          \/ \E w \in Windows : HandleRefresh(w) \/ HandleMove(w)

User ==
    \/ Release \/ StartDrag \/ DropNowhere
    \/ \E w \in Windows : DropOnWindow(w) \/ ToggleBroadcastMode(w)
    \/ \E w \in Windows, s \in Ids, t \in Tiles \union {NoTile} : Connect(w, s, t)
    \/ \E s \in Ids : ToggleTileBroadcast(s)
    \/ \E s \in Ids, to \in {"tile", "window"} : AskTabMove(s, to)
    \/ \E t \in Tiles : AskTileMove(t)
    \/ \E t \in Tiles, i \in 0..Cardinality(Ids) : Press(t, i) \/ DropAt(t, i)

NextTiles == Others \/ User
TilesSpec == InitTiles /\ [][NextTiles]_tilesVars

-----------------------------------------------------------------------------
(* What makes it correct *)

\* Everything has its type; every tile of a grid has tabs, and a session one tab.
TilesTypeOK ==
    /\ \A w \in Windows :
         /\ desk.grid[w] \in Seq(Tiles) /\ refreshing[w] \subseteq Ids
         /\ desk.win[w].selected \subseteq Ids /\ desk.win[w].mode \in {"Focused", "Broadcast"}
         /\ {desk.win[w].focused, desk.win[w].active} \subseteq Ids \union {NoSession}
    /\ \A t \in Tiles :
         /\ desk.tile[t].tabs \in Seq(Ids) /\ IsInjective(desk.tile[t].tabs)
         /\ (desk.tile[t].tabs # <<>>) = (t \in Placed(desk))
         /\ t \in Placed(desk) => Shown(desk, t) # NoSession
    /\ \A t, u \in Tiles : t # u => ToSet(desk.tile[t].tabs) \cap ToSet(desk.tile[u].tabs) = {}
    /\ pressed.tile \in Tiles \union {NoTile} /\ drag.ids \in Seq(Ids)

\* UpdateTitleBarColor, and what OnPaint makes of it for the tab.
LooksTypedTo(s) ==
    LET t == Home(desk, s)  tile == desk.tile[t] IN
    desk.entry[s].cast \/ (tile.focused /\ ~tile.mode /\ ~tile.cast /\ Shown(desk, t) = s)

\* "Tabs that receive input are coloured; tabs that don't are explicitly gray so
\* the user always knows where input will go": whatever was opened, ended, moved
\* or chosen, in one window or another, a key typed in a window reaches just the
\* sessions whose tabs there look it.
InputIsShown ==
    \A w \in Windows, s \in Ids :
        s \in Recipients(desk, w) <=> s \in Tabs(desk, w) /\ LooksTypedTo(s)

\* Output that came while its tab was not shown is marked on the tab, or the
\* notice that will mark it is on its way to the window the session is in; it is
\* not lost by the session's going to another window and coming back.
UnreadIsKept ==
    \A s \in desk.fresh : s \in Open(desk) =>
        \/ desk.entry[s].unread
        \/ LET w == WindowOf(desk, Home(desk, s)) IN
             \E i \in DOMAIN posted[w] : posted[w][i].kind = "refresh" /\ posted[w][i].ids = <<s>>

\* A tab that is closed or moved leaves what its tile shows alone, unless it was
\* shown itself and is closed; a tab dropped before another comes to stand
\* there, and the others keep their order.
TabsKeepTheirPlace ==
    \A t \in Placed(desk) : LET tabs == desk.tile[t].tabs IN \A s \in ToSet(tabs) :
        /\ LET d == RemoveTab(desk, t, s) IN
            IF Shown(desk, t) # s THEN Shown(d, t) = Shown(desk, t)
            ELSE Len(tabs) > 1 => Shown(d, t) \in ToSet(tabs) \ {s}
        /\ \A before \in 0..Len(tabs) :
            LET d == MoveTabToIndex(desk, t, s, before)  now == d.tile[t].tabs IN
            /\ Shown(d, t) = Shown(desk, t)
            /\ \A u, v \in ToSet(tabs) \ {s} :
                  (At(now, u) < At(now, v)) = (At(tabs, u) < At(tabs, v))
            /\ \A u \in ToSet(tabs) \ {s} : (At(now, u) < At(now, s)) = (At(tabs, u) <= before)

\* A window that is given the size computed for its tiles shows them as they
\* were computed: in columns each tile in its column ("the size returned here
\* matches what RelayoutTiles will actually produce"), in rows no more rows.
FitIsLayout ==
    \A w \in Windows : LET ts == desk.grid[w] IN ts # <<>> =>
        /\ Laid(desk, ts, 2, Min({IdealHeight(desk, ts), MaxSize[2]})).lines
             = Laid(desk, ts, 2, MaxSize[2]).lines
        /\ IdealWidth(desk, ts) <= MaxSize[1] =>
             Laid(desk, ts, 1, IdealWidth(desk, ts)).line <= GridRows(Len(ts))

-----------------------------------------------------------------------------
(* What the code does not keep *)

\* Who is added to the broadcast is in it: not so, when the session is still
\* chosen from before the broadcast was switched off.
AddingAdds ==
    \A s \in Open(desk) : LET w == WindowOf(desk, Home(desk, s)) IN
        ~desk.entry[s].cast => s \notin desk.win[w].selected

\* The keys stay where they are while their session lives: not so, whenever
\* another session of the window ends.
FocusStays ==
    [][(\E s \in Ids : End(s)) => \A w \in Windows :
         LET a == desk.win[w].active IN a \in Tabs(desk', w) => desk'.win[w].active = a]_tilesVars
=============================================================================
