------------------------------ MODULE AltScreen ------------------------------
(***************************************************************************)
(* The alternate screen of document/Document.cpp, a fixed grid a program   *)
(* addresses freely, and its place in session/Session.cpp: how the session *)
(* switches to it and back, which size the grid, the viewport and the      *)
(* remote's terminal have, and who listens to which document.              *)
(*                                                                         *)
(* The parser, on the transport's thread, and the user, on the interface   *)
(* thread, both hold Session::docMutex_ for a whole operation, so each is  *)
(* one step.  The panel, ui/TerminalPanel, resizes the layout at once, but *)
(* tells the session of its size only when it has been still for a while;  *)
(* the program may switch screens meanwhile.  Rows and columns are         *)
(* numbered from 1 here, from 0 there.  Of a line's text only how many     *)
(* cells it has is kept.                                                   *)
(***************************************************************************)
EXTENDS Naturals, Sequences, SequencesExt

CONSTANTS
    Sizes,         \* bound: the sizes the viewport takes, records of rows and cols
    First,         \* the one it has at first
    ptyLineWidth_, \* the width the remote is given when lines do not wrap
    Wraps,         \* bound: whether lines may wrap
    MaxCount,      \* bound: the parameter of a control sequence
    MaxHeard       \* bound: how often a listener is registered

Rows == {s.rows : s \in Sizes}
Cols == {s.cols : s \in Sizes}

ASSUME AltScreenAssumption ==
    /\ Wraps \subseteq BOOLEAN
    /\ Sizes \subseteq [rows : Nat \ {0}, cols : Nat \ {0}] /\ First \in Sizes
    /\ {ptyLineWidth_, MaxCount, MaxHeard} \subseteq Nat \ {0}

VARIABLES
    layout,   \* DocLayout: cols_ and rows_, as large as the panel
    resize,   \* TerminalPanel: "new" (a panel that has had no size event), "due"
              \* (resizeTimer_ runs) or "told" (the session knows the size)
    view,     \* Session: lastRows_, lastCols_
    wrap,     \* DocLayout: wrapMode_
    active,   \* Session: altScreenActive_
    pty,      \* the size the transport was last given
    mainCols, \* MainScreenDocument: cols_
    heard,    \* how often the scrollback writer is registered with each document
    grid      \* the AltScreenDocument

panel == <<layout, resize>>
session == <<panel, view, wrap, active, pty, mainCols, heard>>
vars == <<session, grid>>

\* A grid of size s, blank, with its margins at its edges.
Blank(n) == [r \in 1..n |-> 0]
NewGrid(s) == [rows |-> s.rows, cols |-> s.cols, lines |-> Blank(s.rows),
               line |-> 1, col |-> 1, savedLine |-> 1, savedCol |-> 1,
               top |-> 1, bot |-> s.rows, pending |-> FALSE, insert |-> FALSE]

Lesser(a, b) == IF a < b THEN a ELSE b
Greater(a, b) == IF a < b THEN b ELSE a

-----------------------------------------------------------------------------
(* The grid *)

\* To (l, c), or as near as the grid goes.
Moved(g, l, c) ==
    [g EXCEPT !.line = Lesser(l, g.rows), !.col = Lesser(c, g.cols), !.pending = FALSE]

Back(x, n) == IF n < x THEN x - n ELSE 1

\* Down a line, which scrolls the lines between the margins at the lower one.
ScrolledUp(g) == [g EXCEPT !.lines = InsertAt(RemoveAt(@, g.top), g.bot, 0)]

\* Mutant: the blank line goes in below the lower margin.
NewLineBelow(g) ==
    Moved(IF g.line = g.bot
            THEN [g EXCEPT !.lines = InsertAt(RemoveAt(@, g.top), Lesser(g.bot + 1, g.rows), 0)]
            ELSE g,
          IF g.line = g.bot THEN g.line ELSE g.line + 1, 1)

NewLine(g) == Moved(IF g.line = g.bot THEN ScrolledUp(g) ELSE g,
                    IF g.line = g.bot THEN g.line ELSE g.line + 1, 1)

\* A character w cells wide, after the wrap that the last one left pending.
WriteAt(g, n, c) == IF g.insert /\ c <= n THEN n + 1 ELSE Greater(n, c)
Write(g, w) ==
    LET first == WriteAt(g, g.lines[g.line], g.col)
        both == IF w = 2 /\ g.col < g.cols THEN WriteAt(g, first, g.col + 1) ELSE first
        fits == g.col + w <= g.cols
    IN [g EXCEPT !.lines[g.line] = both, !.col = IF fits THEN @ + w ELSE @,
                 !.pending = ~fits]
AppendInsertChar(g, w) == Write(IF g.pending THEN NewLine(g) ELSE g, w)

\* Up a line.  At the upper margin, or above it, the lines between the margins
\* move down instead.
ReverseIndex(g) ==
    IF g.line > g.top THEN [g EXCEPT !.line = @ - 1]
    ELSE [g EXCEPT !.lines = RemoveAt(InsertAt(@, g.top, 0), g.bot + 1)]

\* Margins of 0 are the edges.
SetScrollRegion(g, top, bot) ==
    LET b == IF bot = 0 \/ bot > g.rows THEN g.rows ELSE bot
        t == IF top = 0 \/ top > g.rows THEN 1 ELSE top
    IN [g EXCEPT !.top = t, !.bot = IF b < t THEN g.rows ELSE b,
                 !.line = t, !.col = 1, !.pending = FALSE]

InRegion(g) == g.line \in g.top..g.bot

\* n blank lines at the cursor; those below move down to the lower margin.
InsertLines(g, n) ==
    IF ~InRegion(g) THEN g
    ELSE LET k == Lesser(n, g.bot - g.line + 1) IN
         [g EXCEPT !.lines = [r \in 1..g.rows |->
            IF r \notin g.line..g.bot THEN @[r] ELSE IF r < g.line + k THEN 0 ELSE @[r - k]]]

DeleteLines(g, n) ==
    IF ~InRegion(g) THEN g
    ELSE LET k == Lesser(n, g.bot - g.line + 1) IN
         [g EXCEPT !.lines = [r \in 1..g.rows |->
            IF r \notin g.line..g.bot THEN @[r] ELSE IF r + k <= g.bot THEN @[r + k] ELSE 0]]

EraseInLine(g, mode) ==
    [g EXCEPT !.lines[g.line] = CASE mode = 0 -> Lesser(@, g.col - 1)
                                  [] mode = 2 -> 0
                                  [] OTHER -> @]

EraseInDisplay(g, mode) ==
    CASE mode = 0 -> [g EXCEPT !.lines = [r \in 1..g.rows |->
                        IF r > g.line THEN 0
                        ELSE IF r = g.line THEN Lesser(@[r], g.col - 1) ELSE @[r]]]
      [] mode = 1 -> [g EXCEPT !.lines = [r \in 1..g.rows |-> IF r < g.line THEN 0 ELSE @[r]]]
      [] OTHER -> [Moved(g, 1, 1) EXCEPT !.lines = Blank(g.rows)]

EraseChar(g, n) ==
    [g EXCEPT !.lines[g.line] = Greater(@, Lesser(g.col - 1 + n, g.cols))]

DeleteChar(g, n) ==
    [g EXCEPT !.lines[g.line] = IF @ < g.col THEN @ ELSE @ - Lesser(n, @ - g.col + 1)]

InsertChar(g, n) ==
    [g EXCEPT !.lines[g.line] = Lesser(Greater(@, g.col - 1) + n, g.cols)]

FullReset(g) == NewGrid([rows |-> g.rows, cols |-> g.cols])

\* The saved cursor is left alone, and so is the insert mode.
Resize(g, s) ==
    [NewGrid(s) EXCEPT !.line = Lesser(g.line, s.rows), !.col = Lesser(g.col, s.cols),
                       !.savedLine = g.savedLine, !.savedCol = g.savedCol,
                       !.insert = g.insert]

-----------------------------------------------------------------------------
(* The session *)

\* What the remote's terminal is told outside the alternate screen.
MainCols(v, w) == IF w THEN v.cols ELSE ptyLineWidth_

Init ==
    /\ layout \in Sizes /\ resize = "new"
    /\ view = First /\ wrap \in Wraps /\ active = FALSE
    /\ mainCols = MainCols(First, wrap) /\ pty = [rows |-> First.rows, cols |-> mainCols]
    /\ heard = [main |-> 1, alt |-> 0]
    /\ grid = NewGrid(First)

\* Everyone registered with one document is registered with the other, once more
\* if they already are.
Listen(doc) ==
    IF doc = "alt" THEN [main |-> 0, alt |-> heard.alt + 1]
    ELSE [main |-> heard.main + 1, alt |-> 0]

\* Mutant: the grid keeps its size.
OnEnterAltScreenAsIs ==
    /\ heard.alt < MaxHeard
    /\ active' = TRUE /\ heard' = Listen("alt") /\ UNCHANGED grid
    /\ pty' = IF wrap THEN pty ELSE view
    /\ UNCHANGED <<panel, view, wrap, mainCols>>

\* What a program may send at any time, in it or not.
OnEnterAltScreen ==
    /\ heard.alt < MaxHeard                                         \* bound
    /\ active' = TRUE /\ heard' = Listen("alt") /\ grid' = Resize(grid, view)
    /\ pty' = IF wrap THEN pty ELSE view
    /\ UNCHANGED <<panel, view, wrap, mainCols>>

Leave == /\ heard.main < MaxHeard                                   \* bound
         /\ active' = FALSE /\ heard' = Listen("main")

OnExitAltScreen ==
    /\ Leave
    /\ pty' = IF wrap THEN pty ELSE [view EXCEPT !.cols = ptyLineWidth_]
    /\ UNCHANGED <<panel, view, wrap, mainCols, grid>>

\* The program resets the terminal; the remote is told its size again.
OnResetTerminal ==
    /\ IF active THEN Leave ELSE UNCHANGED <<active, heard>>
    /\ grid' = FullReset(grid) /\ pty' = [view EXCEPT !.cols = MainCols(view, wrap)]
    /\ UNCHANGED <<panel, view, wrap, mainCols>>

\* The user does; the remote's size changes only with the screen.
ResetTerminal ==
    /\ IF active THEN Leave ELSE UNCHANGED <<active, heard>>
    /\ grid' = FullReset(grid)
    /\ pty' = IF active /\ ~wrap THEN [view EXCEPT !.cols = ptyLineWidth_] ELSE pty
    /\ UNCHANGED <<panel, view, wrap, mainCols>>

ForceAltScreen == IF active THEN OnExitAltScreen ELSE OnEnterAltScreen

\* Of a size it has the session does nothing.
SetViewportSize(v) ==
    /\ view' = v
    /\ CASE v = view -> UNCHANGED <<pty, mainCols, grid>>
         [] v # view /\ active -> grid' = Resize(grid, v) /\ pty' = v /\ UNCHANGED mainCols
         [] v # view /\ ~active ->
              /\ mainCols' = MainCols(v, wrap) /\ pty' = [v EXCEPT !.cols = mainCols']
              /\ UNCHANGED grid
    /\ UNCHANGED <<wrap, active, heard>>

\* The panel has a size: the layout has it at once, the session not before the
\* timer, which begins anew.
OnSize(v) ==
    /\ v # layout \/ resize = "new"
    /\ layout' = v /\ resize' = "due"
    /\ UNCHANGED <<view, wrap, active, pty, mainCols, heard, grid>>

OnResizeTimer ==
    /\ resize = "due" /\ resize' = "told" /\ UNCHANGED layout
    /\ SetViewportSize(layout)

\* The session moves to another tile: a new panel, which gives the layout the size
\* it begins with; the old one is gone with its timer.
SetDocLayout(v) ==
    /\ layout' = v /\ resize' = "new"
    /\ UNCHANGED <<view, wrap, active, pty, mainCols, heard, grid>>

\* Which says nothing to the remote while the alternate screen is on.
SetWrapMode(w) ==
    /\ wrap' = w
    /\ IF active THEN UNCHANGED <<pty, mainCols>>
       ELSE mainCols' = MainCols(view, w) /\ pty' = [view EXCEPT !.cols = mainCols']
    /\ UNCHANGED <<panel, view, active, heard, grid>>

\* A new transport, told the width of the main screen whichever is on.
ReplaceConnection ==
    /\ pty' = [view EXCEPT !.cols = MainCols(view, wrap)]
    /\ UNCHANGED <<panel, view, wrap, active, mainCols, heard, grid>>

-----------------------------------------------------------------------------
(* What a program does to the grid *)

Do(g) == active /\ grid' = g /\ UNCHANGED session

\* Bound: no line outgrows the grid, though in insert mode the code lets one.
Show(w) ==
    LET g == AppendInsertChar(grid, w) IN
    g.lines[g.line] <= g.cols /\ Do(g)
LineFeed == Do(NewLine(grid))
LineUp == Do(ReverseIndex(grid))

Move(n) ==
    \/ Do(Moved(grid, grid.line, 1))               \* CarriageReturn, MoveCursorToLineStart
    \/ Do(Moved(grid, grid.line, grid.cols))       \* MoveCursorToLineEnd
    \/ Do(Moved(grid, grid.line, Back(grid.col, n)))
    \/ Do(Moved(grid, grid.line, grid.col + n))
    \/ Do(Moved(grid, Back(grid.line, n), grid.col))
    \/ Do(Moved(grid, grid.line + n, grid.col))
    \/ Do(Moved(grid, grid.line, n))               \* MoveCursorToColumn
    \/ Do(Moved(grid, n, grid.col))                \* MoveCursorToRow

SaveCursor == Do([grid EXCEPT !.savedLine = grid.line, !.savedCol = grid.col])
RestoreCursor == Do(Moved(grid, grid.savedLine, grid.savedCol))

Edit(n) ==
    \/ Do(InsertLines(grid, n)) \/ Do(DeleteLines(grid, n))
    \/ Do(EraseChar(grid, n)) \/ Do(DeleteChar(grid, n)) \/ Do(InsertChar(grid, n))
Erase(mode) == Do(EraseInLine(grid, mode)) \/ Do(EraseInDisplay(grid, mode))

Program ==
    \/ \E w \in 0..2 : Show(w)
    \/ LineFeed \/ LineUp \/ SaveCursor \/ RestoreCursor
    \/ \E n \in 1..MaxCount : Move(n) \/ Edit(n)
    \/ \E l, c \in 1..MaxCount : Do(Moved(grid, l, c))              \* MoveCursorToPosition
    \/ \E t, b \in 0..MaxCount : Do(SetScrollRegion(grid, t, b))
    \/ \E mode \in 0..2 : Erase(mode)
    \/ \E on \in BOOLEAN : Do([grid EXCEPT !.insert = on])          \* SetInsertMode

Next ==
    \/ Program
    \/ OnEnterAltScreen \/ OnExitAltScreen \/ OnResetTerminal
    \/ ForceAltScreen \/ ResetTerminal \/ ReplaceConnection
    \/ \E v \in Sizes : OnSize(v) \/ SetDocLayout(v)
    \/ OnResizeTimer
    \/ \E w \in Wraps : SetWrapMode(w)

Spec == Init /\ [][Next]_vars

-----------------------------------------------------------------------------
(* Properties *)

Grids == [rows : Rows, cols : Cols, lines : Seq(Nat),
          line : Nat, col : Nat, savedLine : Nat \ {0}, savedCol : Nat \ {0},
          top : Nat, bot : Nat, pending : BOOLEAN, insert : BOOLEAN]

\* Document.h: "always exactly rows_ entries".  The cursor is on one of them and
\* the margins are in order.
WellFormed(g) ==
    /\ g \in Grids /\ g.lines \in [1..g.rows -> Nat]
    /\ g.line \in 1..g.rows /\ g.col \in 1..g.cols
    /\ g.top \in 1..g.rows /\ g.bot \in g.top..g.rows

\* The grid stays well formed and the session's own state typed, whatever was sent.
TypeOK ==
    /\ layout \in Sizes /\ resize \in {"new", "due", "told"}
    /\ view \in Sizes /\ wrap \in BOOLEAN /\ active \in BOOLEAN
    /\ pty \in [rows : Nat, cols : Nat] /\ mainCols \in Nat
    /\ heard \in [main : Nat, alt : Nat]
    /\ WellFormed(grid)

\* While it is on, the grid is as large as what is seen of it, from when the
\* session has been told (OnEnterAltScreen, SetViewportSize): also if the panel had
\* another size, and the session still another, when the program switched to it.
\* Until then it is as large as the session was last told (TerminalPanel.cpp:414-429).
GridFillsView ==
    active /\ resize = "told" => grid.rows = layout.rows /\ grid.cols = layout.cols

\* A pending wrap is undone by whatever moves the cursor sideways: the next
\* character wraps only from the right margin (AppendInsertChar: "wrap deferred
\* until next printable char"), a cell before it after a wide one.
AtMargin(g) == g.pending => g.col + 2 > g.cols
WrapsAtMargin == AtMargin(grid)

\* What scrolls moves between the margins alone: lines outside them stay as they
\* are (NewLine, ReverseIndex, InsertLines, DeleteLines).
Scroll ==
    \/ LineFeed \/ LineUp
    \/ \E n \in 1..MaxCount : Do(InsertLines(grid, n)) \/ Do(DeleteLines(grid, n))
OutsideStays ==
    \A r \in 1..grid.rows \ (grid.top..grid.bot) : grid'.lines[r] = grid.lines[r]
MarginsHold == [][Scroll => OutsideStays]_vars

\* The writer's header: "Responds to InsertLine(N) by writing the now-stable line
\* N-1 to disk".  To write each line the main screen ends, once, it must be
\* registered with it once, and with the alternate screen not at all.
SavedOnce == heard.main <= 1 /\ heard.alt = 0

=============================================================================
