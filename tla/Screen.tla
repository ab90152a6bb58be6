-------------------------------- MODULE Screen --------------------------------
(***************************************************************************)
(* The main screen: the document a session's output is written into, the   *)
(* viewport onto it, and how what changed gets painted.                    *)
(*                                                                         *)
(*   document/Document.cpp   MainScreenDocument: the lines, the cursor and *)
(*                           the canvas; what each control does to them,   *)
(*                           and what it announces;                        *)
(*   layout/DocLayout.cpp    which row of which line is at the top, which  *)
(*                           column is at the left, whether the view       *)
(*                           follows the output, which rows are dirty;     *)
(*   ui/UIManager.cpp and ui/TerminalPanel.cpp                             *)
(*                           one posted refresh at a time, a timer of one  *)
(*                           frame, the rows invalidated and painted.      *)
(*                                                                         *)
(* The transport's thread changes the document under linesMutex_ and lets  *)
(* go of it before it announces the change, so the interface thread, which *)
(* scrolls and paints, sees the document between the two.  An operation is *)
(* therefore a sequence of stages: a change, and what is announced of it.  *)
(* Of a line's text only its length and which of two texts it is are kept; *)
(* lines are numbered from 1, columns and the rows of a line from 0.       *)
(***************************************************************************)
EXTENDS Integers, FiniteSets, Sequences, SequencesExt

CONSTANTS
    maxLines_,     \* how many lines a new one may make it
    ptyLineWidth_, \* the remote's columns when lines do not wrap
    Cols,          \* the viewport's columns, and the remote's when they wrap
    Rows,          \* the viewport's rows
    marginRight,   \* how many columns a view that moves sideways keeps right of the
                   \* cursor: 8, or as many as suit a viewport of a few columns
    Wraps,         \* bound: whether lines may wrap
    Restored,      \* bound: how many saved lines a session starts with
    Widths,        \* bound: how many cells a character takes
    MaxCells,      \* bound: how long a line gets, and how far right a cursor
    MaxLength,     \* bound: how many lines there are
    MaxCount,      \* bound: the parameter of a control
    MaxOps,        \* bound: how many operations there are
    MaxLooks       \* bound: how often the user scrolls or presses a key

ASSUME ScreenAssumption ==
    /\ {maxLines_, ptyLineWidth_, Cols, Rows, MaxCells, MaxLength, MaxCount} \subseteq Nat \ {0}
    /\ {MaxOps, MaxLooks, marginRight} \subseteq Nat
    /\ Wraps \subseteq BOOLEAN /\ Restored \subseteq Nat /\ Widths \subseteq 0..2

VARIABLES
    wrap,    \* DocLayout: wrapMode_
    doc,     \* the MainScreenDocument
    stages,  \* what is left of the operation under way
    notes,   \* what the stage just made is still to announce
    layout,  \* the DocLayout: topAnchor_, autoScroll_, leftCol_, leftClamped_ and
             \* what is dirty; `slid' is whether an update moved the view sideways
             \* since all of it was last marked
    pendingRefresh, \* UIManager: the session is in pendingRefresh_
    timer,   \* TerminalPanel: m_renderTimer_ runs
    damage,  \* the panel's rows that are to be painted again
    painted, \* what each row of the panel shows
    reading, \* the line a user who does not follow the output has at the top,
             \* wherever it is now; 0 when there is none
    ops,     \* how many operations there were
    looks    \* how often the user scrolled or pressed a key

output == <<doc, stages, notes>>
panel == <<pendingRefresh, timer, damage, painted>>
screenVars == <<wrap, output, layout, panel, reading, ops, looks>>

Lesser(a, b) == IF a < b THEN a ELSE b
Greater(a, b) == IF a < b THEN b ELSE a
Back(x, n) == IF n < x THEN x - n ELSE 0

cols_ == IF wrap THEN Cols ELSE ptyLineWidth_

-----------------------------------------------------------------------------
(* Lines *)

NewLineText == [cells |-> 0, text |-> 0]
Written(l, n) == [cells |-> n, text |-> 1 - l.text]

\* A character at column c of a line of n cells.
WriteAt(ins, n, c) == IF ins /\ c < n THEN n + 1 ELSE Greater(n, c + 1)
WriteCells(ins, n, c, w) ==
    IF w = 2 THEN WriteAt(ins, WriteAt(ins, n, c), c + 1) ELSE WriteAt(ins, n, c)

TruncateFrom(l, c) == IF c < l.cells THEN Written(l, c) ELSE l
Blanked(l) == IF l.cells > 0 THEN Written(l, l.cells) ELSE l

\* How many of the remote's rows a line fills, and the last of them.
PtyRows(d, l) == Greater(1, (d.lines[l].cells + cols_ - 1) \div cols_)
LastSubRow(d) == PtyRows(d, d.line) - 1

\* The lines there are once line l is.
Reaching(lines, l) == lines \o [k \in 1..Back(l, Len(lines)) |-> NewLineText]

-----------------------------------------------------------------------------
(* What is announced, and the stages of an operation *)

Notice(type, at) == [type |-> type, at |-> at]

\* A change that moves no line, and what is announced of it.
Nowhere == [way |-> "none", at |-> 0]
Change(d, says) == [doc |-> d, says |-> says, moves |-> Nowhere]
Told(d, type) == <<Change(d, <<Notice(type, d.line)>>)>>
Silent(d) == <<Change(d, <<>>)>>

\* A line in at, or out of, place `at', announced as place `as'.
Grown(d, at, as) == [doc |-> d, says |-> <<Notice("InsertLine", as)>>,
                     moves |-> [way |-> "in", at |-> at]]
Shrunk(d, at, as) == [doc |-> d, says |-> <<Notice("DeleteLine", as)>>,
                      moves |-> [way |-> "out", at |-> at]]

-----------------------------------------------------------------------------
(* The operations of the document *)

NewDocument == [lines |-> <<NewLineText>>, line |-> 1, col |-> 0, start |-> 1,
                saved |-> [line |-> 0, col |-> 0], insert |-> FALSE, cr |-> FALSE,
                phantom |-> FALSE, clearing |-> FALSE]

AppendRun(d, w) ==
    LET n == Written(d.lines[d.line], WriteCells(d.insert, d.lines[d.line].cells, d.col, w))
    IN Told([d EXCEPT !.lines[d.line] = n, !.col = @ + w, !.phantom = FALSE], "UpdateLine")

\* Within a line that fills several rows it is the next of them.  Otherwise a
\* line is added at the end, and the first one goes when there are too many.
NewLine(d) ==
    LET at == d.col \div cols_
        next == [d EXCEPT !.lines = Append(@, NewLineText), !.line = @ + 1, !.col = 0,
                          !.phantom = at > LastSubRow(d) /\ ~d.cr, !.cr = FALSE]
        pruned == [next EXCEPT !.lines = Tail(@), !.line = @ - 1, !.start = Greater(1, @ - 1)]
    IN IF at < LastSubRow(d)
         THEN Told([d EXCEPT !.col = (at + 1) * cols_, !.cr = FALSE], "CursorMove")
       ELSE <<Grown(next, Len(next.lines), next.line)>>
            \o IF Len(next.lines) > maxLines_ THEN <<Shrunk(pruned, 1, 1)>> ELSE <<>>

CarriageReturn(d) ==
    Told([d EXCEPT !.col = (@ \div cols_) * cols_, !.cr = TRUE], "CursorMove")

MoveCursorTo(d, c) == Told([d EXCEPT !.col = c], "CursorMove")
MoveCursorLeft(d, n) == MoveCursorTo(d, Back(d.col, n))
MoveCursorRight(d, n) == MoveCursorTo(d, d.col + n)
MoveCursorDown(d, n) == MoveCursorTo(d, d.col + n * cols_)
MoveCursorToColumn(d, c) == MoveCursorTo(d, (d.col \div cols_) * cols_ + c - 1)
MoveCursorToLineStart(d) == MoveCursorTo(d, 0)
MoveCursorToLineEnd(d) == MoveCursorTo(d, d.lines[d.line].cells)

\* The last line goes, and the cursor to the end of the one before it.
PopLine(d) ==
    LET up == d.line - 1 IN
    Shrunk([d EXCEPT !.lines = Front(@), !.line = up, !.col = d.lines[up].cells,
                     !.phantom = FALSE],
           Len(d.lines), d.line)

\* An empty last line that the cursor is in goes first.
MoveCursorUp(d, n) ==
    LET empty == d.col = 0 /\ d.line > d.start /\ d.line = Len(d.lines)
                 /\ d.lines[d.line].cells = 0
        popped == PopLine(d)
        from == IF empty THEN popped.doc ELSE d
    IN (IF empty THEN <<popped>> ELSE <<>>)
       \o MoveCursorTo(from, Back(from.col, n * cols_))

\* `blanks' is how many spaces the text that is left ends with.
EraseInLine(d, mode, blanks) ==
    LET kept == TruncateFrom(d.lines[d.line], d.col)
        trims == d.clearing /\ d.col > 0 /\ d.col % cols_ = 0
        end == Back(kept.cells, blanks)
        done == [d EXCEPT !.clearing = FALSE]
    IN CASE mode = 0 /\ d.col = 0 /\ d.lines[d.line].cells = 0 /\ d.line > 1 /\ d.phantom
              -> <<PopLine(done)>>
         [] mode = 0 /\ trims
              -> Told([done EXCEPT !.lines[d.line] = TruncateFrom(kept, end), !.col = end],
                      "UpdateLine")
         [] mode = 0 -> Told([done EXCEPT !.lines[d.line] = kept], "UpdateLine")
         [] mode = 1 -> Told([d EXCEPT !.lines[d.line] = Blanked(@)], "UpdateLine")
         [] OTHER -> Told([d EXCEPT !.lines[d.line] = TruncateFrom(@, 0)], "UpdateLine")

\* The remote's row after p: another of the line's own, or the first of the next.
RowBelow(d, p) ==
    IF p.line \in DOMAIN d.lines /\ p.row + 1 < PtyRows(d, p.line)
      THEN [p EXCEPT !.row = @ + 1]
    ELSE [line |-> p.line + 1, row |-> 0]

\* Where the remote's row r of the canvas is: the line, and which of its rows.
PtyToDoc(d, r) ==
    LET at[k \in 0..Back(r, 1)] ==
            IF k = 0 THEN [line |-> d.start, row |-> 0] ELSE RowBelow(d, at[k - 1])
    IN at[Back(r, 1)]

MoveCursorToPosition(d, r, c) ==
    LET p == PtyToDoc(d, r) IN
    Told([d EXCEPT !.lines = Reaching(@, p.line), !.line = p.line,
                   !.col = p.row * cols_ + c - 1], "CursorMove")
MoveCursorToRow(d, r) == MoveCursorToPosition(d, r, (d.col % cols_) + 1)

\* Relative to the canvas, which may start below the cursor.
SaveCursor(d) == Silent([d EXCEPT !.saved = [line |-> d.line - d.start, col |-> d.col]])
RestoreCursor(d) ==
    LET l == d.start + d.saved.line IN
    Told([d EXCEPT !.lines = Reaching(@, l), !.line = l, !.col = d.saved.col], "CursorMove")

SetInsertMode(d, on) == Silent([d EXCEPT !.insert = on])

EraseChar(d, n) ==
    Told([d EXCEPT !.lines[d.line] = IF d.col < @.cells THEN Blanked(@) ELSE @], "UpdateLine")

\* On a line of several rows no more than the rest of the cursor's row goes, and
\* what follows that row stays where it is.
DeleteChar(d, n) ==
    LET l == d.lines[d.line]
        end == (d.col \div cols_ + 1) * cols_
        long == l.cells > cols_
        gone == Lesser(n, Back(IF long THEN Lesser(end, l.cells) ELSE l.cells, d.col))
        left == IF long /\ l.cells > end THEN l.cells ELSE l.cells - gone
    IN Told([d EXCEPT !.lines[d.line] = IF gone > 0 THEN Written(@, left) ELSE @,
                      !.clearing = @ \/ long], "UpdateLine")

InsertChar(d, n) ==
    Told([d EXCEPT !.lines[d.line] = Written(@, Greater(@.cells, d.col) + n)], "UpdateLine")

\* A blank line at the cursor, n times over; or the line there gone.
InsertLines(d, n) ==
    [k \in 1..n |->
        Grown([d EXCEPT !.lines = SubSeq(@, 1, d.line - 1) \o [j \in 1..k |-> NewLineText]
                                  \o SubSeq(@, d.line, Len(@))], d.line, d.line)]
DeleteLines(d, n) ==
    [k \in 1..Lesser(n, Back(Len(d.lines) + 1, d.line)) |->
        Shrunk([d EXCEPT !.lines = SubSeq(@, 1, d.line - 1) \o SubSeq(@, d.line + k, Len(@))],
               d.line, d.line)]

\* A canvas of its own below everything there is.
AdvanceCanvas(d) ==
    LET last == Len(d.lines) + 1 IN
    <<Change([d EXCEPT !.lines = Append(@, NewLineText), !.start = last, !.line = last,
                       !.col = 0], <<Notice("CanvasReset", last)>>)>>

SoftReset(d) == Told([d EXCEPT !.insert = FALSE, !.clearing = FALSE], "CursorMove")

\* The lines of S are announced once all of them are cleared.
ClearedLines(d, S) == [d EXCEPT !.lines = [l \in DOMAIN @ |->
                      IF l \in S THEN TruncateFrom(@[l], 0) ELSE @[l]]]
Updates(a, b) == [k \in 1..Back(b + 1, a) |-> Notice("UpdateLine", a + k - 1)]

AsksForCanvas(d, mode) == mode = 2 \/ (mode = 0 /\ d.line = d.start /\ d.col = 0)
EraseInDisplay(d, mode) ==
    LET kept == [d EXCEPT !.lines[d.line] = TruncateFrom(@, d.col)]
        below == Len(d.lines)
        above == ClearedLines(d, d.start..(d.line - 1))
    IN CASE mode = 0 /\ ~AsksForCanvas(d, mode)
              -> Told(kept, "UpdateLine")
                 \o <<Change(ClearedLines(kept, (d.line + 1)..below), Updates(d.line + 1, below))>>
         [] mode = 1
              -> <<Change(above, Updates(d.start, d.line - 1))>>
                 \o Told([above EXCEPT !.lines[d.line] = Blanked(@)], "UpdateLine")
         [] OTHER -> AdvanceCanvas(d)

FullReset(d, clear) ==
    LET reset == [d EXCEPT !.insert = FALSE, !.clearing = FALSE]
    IN IF clear THEN <<Change([reset EXCEPT !.lines = <<NewLineText>>, !.line = 1, !.col = 0,
                                            !.start = 1], <<Notice("CanvasReset", 1)>>)>>
       ELSE AdvanceCanvas(reset)

\* n lines saved earlier come before everything, and a separator after them.
LoadScrollback(d, n) ==
    LET more == [k \in 1..(n + 1) |-> [cells |-> 1, text |-> 0]]
    IN <<Change([d EXCEPT !.lines = more \o @, !.start = @ + n + 1, !.line = @ + n + 1],
                <<Notice("CanvasReset", d.start + n + 1)>>)>>

-----------------------------------------------------------------------------
(* The viewport *)

\* How many rows line l takes.  A cursor at the end of a full row takes another.
VisualCount(d, l) ==
    IF wrap THEN Greater(1, (d.lines[l].cells + Cols - 1) \div Cols) ELSE 1
EffectiveCount(d, l) ==
    LET n == d.lines[l].cells
        pending == wrap /\ n > 0 /\ n % Cols = 0 /\ d.line = l /\ d.col = n
    IN VisualCount(d, l) + IF pending THEN 1 ELSE 0

Anchor(l, r) == [line |-> l, row |-> r]

\* The rows of a document from its first, and one past its end.
RowsOf(d) ==
    FlattenSeq([l \in DOMAIN d.lines |->
        [r \in 1..EffectiveCount(d, l) |-> Anchor(l, r - 1)]])
    \o <<Anchor(Len(d.lines) + 1, 0)>>
RowNumber(d, a) ==
    IF a.line \in DOMAIN d.lines
      THEN SelectInSeq(RowsOf(d), LAMBDA b: b = Anchor(a.line, 0)) + a.row
    ELSE Len(RowsOf(d)) + a.row

\* n rows down, and n rows up, from a.  Neither leaves the document by more than
\* the row past its end.
WalkDown(d, a, n) ==
    IF n = 0 THEN a ELSE RowsOf(d)[Lesser(RowNumber(d, a) + n, Len(RowsOf(d)))]
WalkUp(d, a, n) ==
    IF a.row >= n THEN Anchor(a.line, a.row - n)
    ELSE RowsOf(d)[Greater(1, Back(RowNumber(d, a), n))]

\* Where the view follows the output: the last row is at the bottom, but nothing
\* above the canvas is in view.
TheEnd(d) ==
    LET last == Len(d.lines)
        a == WalkUp(d, Anchor(last, EffectiveCount(d, last) - 1), Rows - 1)
    IN IF d.lines = <<>> THEN Anchor(1, 0)
       ELSE IF a.line < d.start THEN Anchor(d.start, 0) ELSE a
IsAtEnd(d, a) == a.line >= Back(Len(d.lines), Rows) + 1

At(v, a) == [v EXCEPT !.line = a.line, !.row = a.row]
Top(v) == Anchor(v.line, v.row)
ScrollToEnd(d, v) == [At(v, TheEnd(d)) EXCEPT !.auto = TRUE]
Followed(d, v) == IF v.auto THEN ScrollToEnd(d, v) ELSE v

\* Where lines do not wrap the view keeps the cursor's column in it, with a margin
\* on either side but no further right than what there is to see, unless the user
\* has moved it sideways.
marginLeft == Cols \div 4
LeftFor(d, left) ==
    LET n == IF d.line \in DOMAIN d.lines THEN d.lines[d.line].cells ELSE 0
        maxLeft == Back(Greater(n, d.col) + 1, Cols)
        near == IF d.col + marginRight >= left + Cols THEN Back(d.col + marginRight + 1, Cols)
                ELSE IF d.col < left + marginLeft THEN Back(d.col, marginLeft) ELSE left
    IN Lesser(near, maxLeft)
EnsureCursorVisibleHorizontally(d, v) ==
    IF wrap \/ ~v.clamped THEN v ELSE [v EXCEPT !.left = LeftFor(d, @)]
Tracked(d, v) ==
    IF v.auto THEN EnsureCursorVisibleHorizontally(d, ScrollToEnd(d, v)) ELSE v

\* The widest line in view.
MaxVisibleWidth(d, v) ==
    FoldLeft(Greater, Cols, [r \in 1..Rows |->
        LET l == WalkDown(d, Top(v), r - 1).line
        IN IF l \in DOMAIN d.lines THEN d.lines[l].cells ELSE 0])

\* The user moves the view sideways: it no longer keeps the cursor in it.
SetLeftCol(d, v, col) ==
    LET left == Lesser(col, Back(MaxVisibleWidth(d, v), Cols))
    IN [v EXCEPT !.left = left, !.clamped = (left = 0)]

\* A row of the document counts from 0 here.
SetTopVisualRow(d, v, row) ==
    LET total == FoldLeft(LAMBDA n, l: n + VisualCount(d, l), 0, [l \in DOMAIN d.lines |-> l])
        a == WalkDown(d, Anchor(1, 0), Lesser(row, Back(total, Rows)))
    IN [At(v, a) EXCEPT !.auto = IsAtEnd(d, a)]

EnsureCursorVisibleVertically(d, v) ==
    LET cur == Anchor(d.line, IF wrap THEN d.col \div Cols ELSE 0)
        above == cur.line < v.line \/ (cur.line = v.line /\ cur.row < v.row)
        seen == \E r \in 0..(Rows - 1): WalkDown(d, Top(v), r) = cur
    IN IF above THEN At(v, cur) ELSE IF seen THEN v ELSE At(v, WalkUp(d, cur, Rows - 1))

\* A move sideways is eased, over ticks of a timer that each paint the view again,
\* and gets no further than the widest line lets it (SetLeftColRaw).
EnsureCursorVisible(d, v) ==
    LET up == EnsureCursorVisibleVertically(d, [v EXCEPT !.clamped = TRUE])
        to == EnsureCursorVisibleHorizontally(d, up)
    IN IF to.left = v.left THEN to
       ELSE [to EXCEPT !.left = Lesser(@, Back(MaxVisibleWidth(d, up), Cols))]

MarkAll(v) == [v EXCEPT !.all = TRUE, !.slid = FALSE]

\* The rows of the viewport that line l is on.
RowsFor(d, v, l) == {r \in 1..Rows: l <= Len(d.lines) /\ WalkDown(d, Top(v), r - 1).line = l}

\* Mutant: the line is marked even though the view moved.
UpdatedInPlace(d, v, at) ==
    LET to == Tracked(d, v) IN [to EXCEPT !.dirty = @ \cup RowsFor(d, to, at)]

\* An update that leaves the top of the view where it is marks the rows of its
\* line alone, even where it moves the view sideways.
LineUpdated(d, v, at) ==
    LET to == Tracked(d, v) IN
    IF Top(to) # Top(v) THEN MarkAll(to)
    ELSE [to EXCEPT !.dirty = @ \cup RowsFor(d, to, at),
                    !.slid = @ \/ (to.left # v.left /\ ~v.all)]

\* Mutant: a line that comes in at the top of the view is taken to be below it.
InsertedBelow(d, v, at) == Followed(d, IF at < v.line THEN [v EXCEPT !.line = @ + 1] ELSE v)

LineInserted(d, v, at) == Followed(d, IF at <= v.line THEN [v EXCEPT !.line = @ + 1] ELSE v)
LineDeleted(d, v, at) ==
    Followed(d, IF at < v.line THEN [v EXCEPT !.line = @ - 1]
                ELSE IF at = v.line THEN At(v, Anchor(Lesser(at, Greater(1, Len(d.lines))), 0)) ELSE v)

OnDocumentChanged(d, v, note) ==
    IF note.type = "UpdateLine" THEN LineUpdated(d, v, note.at)
    ELSE MarkAll(CASE note.type = "CursorMove" -> Tracked(d, v)
                   [] note.type = "InsertLine" -> LineInserted(d, v, note.at)
                   [] note.type = "DeleteLine" -> LineDeleted(d, v, note.at)
                   [] OTHER -> [At(v, Anchor(note.at, 0)) EXCEPT !.auto = TRUE])

\* What a row shows: the part of its line from a column on that the viewport is
\* wide enough for.  Past the end of the document it is blank.
NoCursor == MaxCells + 1
BlankRow(from) == [from |-> from, cells |-> 0, text |-> 0, cursor |-> NoCursor]
BuildRenderedLine(d, a, left) ==
    LET from == IF wrap THEN a.row * Cols ELSE left IN
    IF a.line \notin DOMAIN d.lines THEN BlankRow(from)
    ELSE LET n == Back(d.lines[a.line].cells, from)
             here == d.line = a.line /\ from <= d.col /\ d.col < from + Cols
         IN [from |-> from, cells |-> Lesser(Cols, n),
             text |-> IF n > 0 THEN d.lines[a.line].text ELSE 0,
             cursor |-> IF here THEN d.col - from ELSE NoCursor]

\* Row r of a view whose left column is `left', and all of them.
RenderedRow(d, v, r, left) == BuildRenderedLine(d, WalkDown(d, Top(v), r - 1), left)
Rendered(d, v) == [r \in 1..Rows |-> RenderedRow(d, v, r, v.left)]

-----------------------------------------------------------------------------
(* What the remote writes *)

Idle == stages = <<>> /\ notes = <<>>

\* Where the line the user reads is after a stage.  A line added or taken at the
\* end but announced as another is a bound: the view it moves is not followed.
Follow(r, s) ==
    LET m == s.moves
        misplaced == m.way # "none" /\ s.says[1].at # m.at
    IN IF r = 0 \/ misplaced \/ (m.way = "out" /\ m.at = r) THEN 0
       ELSE IF m.way = "in" /\ m.at <= r THEN r + 1
       ELSE IF m.way = "out" /\ m.at < r THEN r - 1 ELSE r

\* Bound: how large a document gets.
Fits(d) == /\ Len(d.lines) <= MaxLength /\ d.col <= MaxCells
           /\ \A l \in DOMAIN d.lines: d.lines[l].cells <= MaxCells

Stage(s, rest) ==
    /\ doc' = s.doc /\ notes' = s.says /\ stages' = rest
    /\ reading' = Follow(reading, s)
    /\ UNCHANGED <<wrap, layout, panel, looks>>

\* The parser calls an operation of the document.
Runs(all) ==
    /\ Idle /\ ops < MaxOps /\ all # <<>> /\ \A k \in DOMAIN all: Fits(all[k].doc)
    /\ ops' = ops + 1
    /\ Stage(Head(all), Tail(all))

Continue ==
    /\ notes = <<>> /\ stages # <<>>
    /\ Stage(Head(stages), Tail(stages))
    /\ UNCHANGED ops

\* The layout hears of a change, and after it the session's notifier.
Announce ==
    /\ notes # <<>>
    /\ layout' = OnDocumentChanged(doc, layout, Head(notes))
    /\ notes' = Tail(notes) /\ pendingRefresh' = TRUE
    /\ reading' = IF layout'.auto THEN 0 ELSE reading
    /\ UNCHANGED <<wrap, doc, stages, timer, damage, painted, ops, looks>>

Counts == 1..MaxCount

\* Lines can be deleted, or popped, until the cursor is on none, or the canvas
\* starts past the last.  Bound: what then reads a line that is not there, which
\* is undefined, or adds lines up to one before the first, is not followed.
HasLine(d) == d.line \in DOMAIN d.lines
HasCanvas(d) == d.start <= Len(d.lines) + 1
HasSaved(d) == d.start + d.saved.line > 0

Writes ==
    \/ \E w \in Widths: HasLine(doc) /\ Runs(AppendRun(doc, w))
    \/ HasLine(doc) /\ Runs(NewLine(doc))
    \/ \E n \in Counts: HasLine(doc) /\ Runs(InsertChar(doc, n))
    \/ \E on \in BOOLEAN: Runs(SetInsertMode(doc, on))

MovesTheCursor ==
    \/ Runs(CarriageReturn(doc))
    \/ \E n \in Counts: Runs(MoveCursorLeft(doc, n))
    \/ \E n \in Counts: Runs(MoveCursorRight(doc, n))
    \/ \E n \in Counts: Runs(MoveCursorUp(doc, n))
    \/ \E n \in Counts: Runs(MoveCursorDown(doc, n))
    \/ \E c \in Counts: Runs(MoveCursorToColumn(doc, c))
    \/ Runs(MoveCursorToLineStart(doc))
    \/ HasLine(doc) /\ Runs(MoveCursorToLineEnd(doc))
    \/ \E r \in Counts, c \in Counts: HasCanvas(doc) /\ Runs(MoveCursorToPosition(doc, r, c))
    \/ \E r \in Counts: HasCanvas(doc) /\ Runs(MoveCursorToRow(doc, r))
    \/ Runs(SaveCursor(doc))
    \/ HasSaved(doc) /\ Runs(RestoreCursor(doc))

Erases ==
    \/ \E mode \in 0..2, b \in 0..1: HasLine(doc) /\ Runs(EraseInLine(doc, mode, b))
    \/ \E mode \in 0..2:
          (HasLine(doc) \/ AsksForCanvas(doc, mode)) /\ Runs(EraseInDisplay(doc, mode))
    \/ \E n \in Counts: HasLine(doc) /\ Runs(EraseChar(doc, n))
    \/ \E n \in Counts: HasLine(doc) /\ Runs(DeleteChar(doc, n))
    \/ \E n \in Counts: Runs(InsertLines(doc, n))
    \/ \E n \in Counts: Runs(DeleteLines(doc, n))
    \/ Runs(FullReset(doc, FALSE))

-----------------------------------------------------------------------------
(* The interface *)

\* The interface thread changes the document, with the parser kept out.
OnInterface(all) ==
    LET s == Head(all) IN
    /\ Idle /\ ops < MaxOps /\ Fits(s.doc)
    /\ doc' = s.doc /\ ops' = ops + 1
    /\ layout' = OnDocumentChanged(s.doc, layout, Head(s.says)) /\ pendingRefresh' = TRUE
    /\ reading' = IF layout'.auto THEN 0 ELSE Follow(reading, s)
    /\ UNCHANGED <<wrap, stages, notes, timer, damage, painted, looks>>

ResetTerminal == \/ OnInterface(FullReset(doc, TRUE))
                 \/ OnInterface(SoftReset(doc))
OnLoadScrollback == \E n \in Counts: OnInterface(LoadScrollback(doc, n))

\* The user moves the view.  A view moved while a change is still to be announced
\* is moved by the announcement too, and is not followed (bound).
Looks(v) ==
    /\ looks < MaxLooks /\ looks' = looks + 1
    /\ layout' = [v EXCEPT !.slid = FALSE] /\ damage' = 1..Rows
    /\ reading' = IF v.auto \/ notes # <<>> THEN 0 ELSE v.line
    /\ UNCHANGED <<wrap, output, pendingRefresh, timer, painted, ops>>

OnScroll == \E row \in 0..Len(RowsOf(doc)): Looks(SetTopVisualRow(doc, layout, row))
OnHScroll == ~wrap /\ \E col \in 0..MaxCells: Looks(SetLeftCol(doc, layout, col))
OnKey == Looks(EnsureCursorVisible(doc, ScrollToEnd(doc, layout)))
CloseSearchBar == Looks(EnsureCursorVisible(doc, layout))

OnDocumentUpdate ==
    /\ pendingRefresh
    /\ pendingRefresh' = FALSE /\ timer' = TRUE
    /\ UNCHANGED <<wrap, output, layout, damage, painted, reading, ops, looks>>

\* The frame is over: what is dirty is damaged.
OnRenderTimer ==
    /\ timer
    /\ timer' = FALSE
    /\ damage' = IF layout.all THEN 1..Rows ELSE damage \cup layout.dirty
    /\ layout' = [layout EXCEPT !.all = FALSE, !.dirty = {}]
    /\ UNCHANGED <<wrap, output, pendingRefresh, painted, reading, ops, looks>>

\* All rows from the first damaged one to the last are painted.
OnPaint ==
    LET damaged == {r \in 1..Rows: (\E a \in damage: a <= r) /\ (\E b \in damage: r <= b)} IN
    /\ damage # {}
    /\ painted' = [r \in 1..Rows |->
                      IF r \in damaged THEN Rendered(doc, layout)[r] ELSE painted[r]]
    /\ damage' = {}
    /\ UNCHANGED <<wrap, output, layout, pendingRefresh, timer, reading, ops, looks>>

-----------------------------------------------------------------------------

InitScreen ==
    /\ wrap \in Wraps /\ stages = <<>> /\ notes = <<>>
    /\ \E n \in Restored:
          doc = IF n = 0 THEN NewDocument ELSE Head(LoadScrollback(NewDocument, n)).doc
    /\ layout = [line |-> doc.start, row |-> 0, auto |-> TRUE, left |-> 0, clamped |-> TRUE,
                 all |-> FALSE, dirty |-> {}, slid |-> FALSE]
    /\ pendingRefresh = FALSE /\ timer = FALSE /\ damage = {}
    /\ painted = Rendered(doc, layout)
    /\ reading = 0 /\ ops = 0 /\ looks = 0

NextScreen ==
    \/ Writes \/ MovesTheCursor \/ Erases \/ Continue \/ Announce
    \/ ResetTerminal \/ OnLoadScrollback
    \/ OnScroll \/ OnHScroll \/ OnKey \/ CloseSearchBar
    \/ OnDocumentUpdate \/ OnRenderTimer \/ OnPaint

ScreenSpec == InitScreen /\ [][NextScreen]_screenVars

-----------------------------------------------------------------------------
(* What the screen promises *)

\* The cursor is on a line there is or on the one after the last.
ScreenTypeOK ==
    /\ Fits(doc) /\ doc.line \in 1..(Len(doc.lines) + 1) /\ doc.start > 0
    /\ layout.row \in Nat /\ layout.left \in Nat /\ layout.dirty \subseteq 1..Rows
    /\ {layout.auto, layout.clamped, layout.all, layout.slid} \subseteq BOOLEAN
    /\ reading # 0 => ~layout.auto
    /\ {pendingRefresh, timer} \subseteq BOOLEAN /\ damage \subseteq 1..Rows

AtRest == Idle /\ ~pendingRefresh /\ ~timer /\ damage = {}

\* Row r shows its line as it is, from the column it was painted at, and that is
\* the view's own unless an update moved the view sideways since.
ShowsItsLine(r) ==
    /\ painted[r] = RenderedRow(doc, layout, r, painted[r].from)
    /\ layout.slid \/ wrap \/ painted[r].from = layout.left

\* Once nothing is under way any more, every row shows the document as it is.
Shown == AtRest => \A r \in 1..Rows: ShowsItsLine(r)

\* Where lines do not wrap, marking the rows of the line that changed, coalescing
\* the refreshes and painting a frame late loses no change of a line, and only an
\* update that moves the view sideways leaves rows at the column it had (DocLayout::
\* MarkDocLineDirtyLocked, SessionNotifier::OnDocumentChanged, OnRenderTimer).
ShownIsCurrent == ~wrap => Shown

\* "Anchor unchanged - only the row(s) for this docLine changed": the same where
\* lines wrap (DocLayout::OnDocumentChanged).
WrappedIsCurrent == Shown

\* "Anchor unchanged - only the row(s) for this docLine changed": every row shows
\* the column the view has (DocLayout::OnDocumentChanged).
NoColumnIsStale == ~wrap /\ AtRest => \A r \in 1..Rows: painted[r].from = layout.left

\* Output that arrives, lines that are pruned and lines put in between leave the
\* line a user has scrolled back to at the top of the view, unless it is gone
\* itself (DocLayout::OnDocumentChanged).
ReadingStays == reading # 0 /\ notes = <<>> => layout.line = reading

InView(l) == \E r \in 1..Rows: WalkDown(doc, Top(layout), r - 1).line = l
\* A view that follows the output shows the last line or the cursor, where lines
\* do not wrap (DocLayout::ScrollToEndLocked, IsAtEndLocked, EnsureCursorVisible).
FollowsOutput ==
    ~wrap /\ layout.auto /\ notes = <<>> => InView(Len(doc.lines)) \/ InView(doc.line)
=============================================================================
