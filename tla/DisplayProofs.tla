---------------------------- MODULE DisplayProofs ----------------------------
(***************************************************************************)
(* What is on the display.                                                 *)
(*                                                                         *)
(* Of AltScreen: the grid of the alternate screen stays well formed, while *)
(* it is on as large as the panel the session knows of, and wraps at its   *)
(* margin only, for panels of any sizes and control sequences with any     *)
(* parameters.                                                             *)
(*                                                                         *)
(* Of Tiles: whatever sessions, windows and tiles there are, a session has *)
(* one tab and a tile one window, every window looks as its router sends,  *)
(* no notice of output is lost on the way, and a window of the size that   *)
(* was computed for its tiles has them as they were computed.              *)
(***************************************************************************)
EXTENDS AltScreen, Tiles, SequenceTheorems, FiniteSetTheorems, WellFoundedInduction, TLAPS

\* What AltScreenAssumption says of one size.
LEMMA SizesArePositive ==
    /\ Rows \subseteq Nat \ {0} /\ Cols \subseteq Nat \ {0}
    /\ \A s \in Sizes : s \in [rows : Rows, cols : Cols]
BY AltScreenAssumption DEF Rows, Cols

\* A line taken out of n: the ones below move up.
LEMMA Removed ==
    ASSUME NEW n \in Nat \ {0}, NEW s \in [1..n -> Nat], NEW i \in 1..n
    PROVE  /\ RemoveAt(s, i) \in [1..(n - 1) -> Nat]
           /\ \A j \in 1..(n - 1) : RemoveAt(s, i)[j] = IF j < i THEN s[j] ELSE s[j + 1]
<1> DEFINE a == SubSeq(s, 1, i - 1)
           b == SubSeq(s, i + 1, n)
<1>1. s \in Seq(Nat) /\ Len(s) = n
  OBVIOUS
<1>2. a \in Seq(Nat) /\ Len(a) = i - 1 /\ \A j \in 1..(i - 1) : a[j] = s[j]
  BY <1>1
<1>3. b \in Seq(Nat) /\ Len(b) = n - i /\ \A j \in 1..(n - i) : b[j] = s[j + i]
  BY <1>1
<1>4. a \o b \in Seq(Nat) /\ Len(a \o b) = n - 1
  BY <1>2, <1>3
<1>5. ASSUME NEW j \in 1..(n - 1)
      PROVE  (a \o b)[j] = IF j < i THEN s[j] ELSE s[j + 1]
  <2>1. CASE j < i
    BY <1>2, <1>3, <2>1
  <2>2. CASE ~(j < i)
    <3>1. (a \o b)[j] = b[j - (i - 1)]
      BY <1>2, <1>3, <2>2
    <3>2. j - (i - 1) \in 1..(n - i) /\ (j - (i - 1)) + i = j + 1
      BY <2>2
    <3> QED
      BY <1>3, <2>2, <3>1, <3>2
  <2> QED
    BY <2>1, <2>2
<1>6. RemoveAt(s, i) = a \o b
  BY <1>1 DEF RemoveAt
<1> HIDE DEF a, b
<1>7. a \o b \in [1..(n - 1) -> Nat]
  BY <1>4, LenProperties
<1> QED
  BY <1>5, <1>6, <1>7

\* What putting e in among the n of s gives.
Inserts(n, s, i, e) ==
    /\ InsertAt(s, i, e) \in [1..(n + 1) -> Nat]
    /\ \A j \in 1..(n + 1) :
         InsertAt(s, i, e)[j] = IF j < i THEN s[j] ELSE IF j = i THEN e ELSE s[j - 1]

\* A line put in among n: the ones from there on move down.
LEMMA Inserted ==
    ASSUME NEW n \in Nat, NEW s \in [1..n -> Nat], NEW i \in 1..(n + 1), NEW e \in Nat
    PROVE  Inserts(n, s, i, e)
<1> DEFINE a == SubSeq(s, 1, i - 1)
           b == SubSeq(s, i, n)
           c == a \o <<e>>
<1>1. s \in Seq(Nat) /\ Len(s) = n
  OBVIOUS
<1>2. a \in Seq(Nat) /\ Len(a) = i - 1 /\ \A j \in 1..(i - 1) : a[j] = s[j]
  BY <1>1
<1>3. b \in Seq(Nat) /\ Len(b) = n + 1 - i /\ \A j \in 1..(n + 1 - i) : b[j] = s[j + i - 1]
  BY <1>1
<1>4. c \in Seq(Nat) /\ Len(c) = i /\ c[i] = e /\ \A j \in 1..(i - 1) : c[j] = s[j]
  BY <1>2
<1>5. c \o b \in Seq(Nat) /\ Len(c \o b) = n + 1
  BY <1>3, <1>4
<1>6. ASSUME NEW j \in 1..(n + 1)
      PROVE  (c \o b)[j] = IF j < i THEN s[j] ELSE IF j = i THEN e ELSE s[j - 1]
  <2>1. CASE j <= i
    BY <1>3, <1>4, <2>1
  <2>2. CASE ~(j <= i)
    <3>1. (c \o b)[j] = b[j - i]
      BY <1>3, <1>4, <2>2
    <3>2. j - i \in 1..(n + 1 - i) /\ (j - i) + i - 1 = j - 1
      BY <2>2
    <3> QED
      BY <1>3, <2>2, <3>1, <3>2
  <2> QED
    BY <2>1, <2>2
<1>7. InsertAt(s, i, e) = c \o b
  BY <1>1 DEF InsertAt
<1> HIDE DEF a, b, c
<1>8. c \o b \in [1..(n + 1) -> Nat]
  BY <1>5, LenProperties
<1> QED
  BY <1>6, <1>7, <1>8 DEF Inserts

\* What is kept when the lines between tp and bt of s scroll to become z.
Scrolls(n, s, tp, bt, z) ==
    z \in [1..n -> Nat] /\ \A r \in 1..n \ (tp..bt) : z[r] = s[r]

\* One out and a blank one in, between lines tp and bt: the lines outside stay.
LEMMA UpByOne ==
    ASSUME NEW n \in Nat \ {0}, NEW s \in [1..n -> Nat], NEW tp \in 1..n, NEW bt \in tp..n
    PROVE  Scrolls(n, s, tp, bt, InsertAt(RemoveAt(s, tp), bt, 0))
<1> DEFINE short == RemoveAt(s, tp)
           full == InsertAt(short, bt, 0)
           m == n - 1
<1>1. /\ short \in [1..m -> Nat]
      /\ \A j \in 1..m : short[j] = IF j < tp THEN s[j] ELSE s[j + 1]
  BY Removed
<1>2. m \in Nat /\ bt \in 1..(m + 1) /\ m + 1 = n /\ 0 \in Nat
  OBVIOUS
<1> HIDE DEF short, m
<1>3. Inserts(m, short, bt, 0)
  BY <1>1, <1>2, Inserted, Zenon
<1>4. /\ full \in [1..(m + 1) -> Nat]
      /\ \A j \in 1..(m + 1) :
            full[j] = IF j < bt THEN short[j] ELSE IF j = bt THEN 0 ELSE short[j - 1]
  BY <1>3 DEF Inserts
<1> HIDE DEF full
<1>5. ASSUME NEW r \in 1..n \ (tp..bt)
      PROVE  full[r] = s[r]
  <2>1. CASE r < tp
    <3>1. r \in 1..(m + 1) /\ r < bt /\ r \in 1..m
      BY <1>2, <2>1
    <3> QED
      BY <1>1, <1>4, <2>1, <3>1
  <2>2. CASE r > bt
    <3>1. r \in 1..(m + 1) /\ r - 1 \in 1..m /\ ~(r - 1 < tp) /\ (r - 1) + 1 = r
      BY <1>2, <2>2
    <3>2. full[r] = short[r - 1]
      BY <1>4, <2>2, <3>1
    <3> QED
      BY <1>1, <3>1, <3>2
  <2> QED
    BY <2>1, <2>2
<1>6. full \in [1..n -> Nat]
  BY <1>2, <1>4
<1> QED
  BY <1>5, <1>6 DEF full, short, Scrolls

\* A blank one in and one out.
LEMMA DownByOne ==
    ASSUME NEW n \in Nat \ {0}, NEW s \in [1..n -> Nat], NEW tp \in 1..n, NEW bt \in tp..n
    PROVE  Scrolls(n, s, tp, bt, RemoveAt(InsertAt(s, tp, 0), bt + 1))
<1> DEFINE long == InsertAt(s, tp, 0)
           full == RemoveAt(long, bt + 1)
           m == n + 1
<1>1. n \in Nat /\ tp \in 1..(n + 1) /\ 0 \in Nat
  OBVIOUS
<1>2. Inserts(n, s, tp, 0)
  BY <1>1, Inserted, Zenon
<1>3. /\ long \in [1..m -> Nat]
      /\ \A j \in 1..m : long[j] = IF j < tp THEN s[j] ELSE IF j = tp THEN 0 ELSE s[j - 1]
  BY <1>2 DEF Inserts
<1>4. m \in Nat \ {0} /\ bt + 1 \in 1..m /\ m - 1 = n
  OBVIOUS
<1> HIDE DEF long, m
<1>5. /\ full \in [1..(m - 1) -> Nat]
      /\ \A j \in 1..(m - 1) : full[j] = IF j < bt + 1 THEN long[j] ELSE long[j + 1]
  BY <1>3, <1>4, Removed, Zenon
<1> HIDE DEF full
<1>6. ASSUME NEW r \in 1..n \ (tp..bt)
      PROVE  full[r] = s[r]
  <2>1. CASE r < tp
    <3>1. r \in 1..(m - 1) /\ r < bt + 1 /\ r \in 1..m
      BY <1>4, <2>1
    <3> QED
      BY <1>3, <1>5, <2>1, <3>1
  <2>2. CASE r > bt
    <3>1. r \in 1..(m - 1) /\ ~(r < bt + 1) /\ r + 1 \in 1..m
      BY <1>4, <2>2
    <3>2. ~(r + 1 < tp) /\ r + 1 # tp /\ (r + 1) - 1 = r
      BY <2>2
    <3> QED
      BY <1>3, <1>5, <3>1, <3>2
  <2> QED
    BY <2>1, <2>2
<1>7. full \in [1..n -> Nat]
  BY <1>4, <1>5
<1> QED
  BY <1>6, <1>7 DEF full, long, Scrolls

-----------------------------------------------------------------------------
(* The operations on a grid *)

\* A grid that is as it should be, and one of the same size that is too.
Good(g) == WellFormed(g) /\ AtMargin(g)
After(g, h) == Good(h) /\ h.rows = g.rows /\ h.cols = g.cols

Set(g, l, c, sl, sc, t, b, p, ins) ==
    [g EXCEPT !.line = l, !.col = c, !.savedLine = sl, !.savedCol = sc,
              !.top = t, !.bot = b, !.pending = p, !.insert = ins]

\* Everything of a grid but its lines may be set, within its bounds.
LEMMA SetGood ==
    ASSUME NEW g, WellFormed(g), NEW l \in 1..g.rows, NEW c \in 1..g.cols,
           NEW sl \in Nat \ {0}, NEW sc \in Nat \ {0},
           NEW t \in 1..g.rows, NEW b \in t..g.rows,
           NEW p \in BOOLEAN, NEW ins \in BOOLEAN, p => c + 2 > g.cols
    PROVE  After(g, Set(g, l, c, sl, sc, t, b, p, ins))
<1> DEFINE h == Set(g, l, c, sl, sc, t, b, p, ins)
<1>1. g \in Grids /\ g.rows \in Nat /\ g.cols \in Nat
  BY SizesArePositive DEF WellFormed, Grids
<1>2. l \in Nat /\ c \in Nat /\ t \in Nat /\ b \in Nat
  BY <1>1
<1>3. h \in Grids
  BY <1>1, <1>2 DEF Grids, Set
<1>4. /\ h.lines = g.lines /\ h.rows = g.rows /\ h.cols = g.cols /\ h.line = l
      /\ h.col = c /\ h.top = t /\ h.bot = b /\ h.pending = p
  BY <1>1 DEF Grids, Set
<1> QED
  BY <1>3, <1>4 DEF Good, WellFormed, After, AtMargin

\* The cursor goes nowhere but onto the grid.
LEMMA MovedGood ==
    ASSUME NEW g, WellFormed(g), NEW l \in Nat \ {0}, NEW c \in Nat \ {0}
    PROVE  After(g, Moved(g, l, c))
<1>1. g \in Grids /\ g.rows \in Nat \ {0} /\ g.cols \in Nat \ {0}
  BY SizesArePositive DEF WellFormed, Grids
<1>2. Lesser(l, g.rows) \in 1..g.rows /\ Lesser(c, g.cols) \in 1..g.cols
  BY <1>1 DEF Lesser
<1>3. Moved(g, l, c) = Set(g, Lesser(l, g.rows), Lesser(c, g.cols), g.savedLine,
                            g.savedCol, g.top, g.bot, FALSE, g.insert)
  BY <1>1 DEF Moved, Grids, Set
<1>4. /\ g.savedLine \in Nat \ {0} /\ g.savedCol \in Nat \ {0} /\ g.insert \in BOOLEAN
      /\ FALSE \in BOOLEAN
  BY <1>1 DEF Grids
<1>5. g.top \in 1..g.rows /\ g.bot \in g.top..g.rows
  BY DEF WellFormed
<1>6. After(g, Set(g, Lesser(l, g.rows), Lesser(c, g.cols), g.savedLine,
                   g.savedCol, g.top, g.bot, FALSE, g.insert))
  BY <1>2, <1>4, <1>5, SetGood, Zenon
<1> QED
  BY <1>3, <1>6

\* New lines for old leave the rest as it was.
LEMMA LinesGood ==
    ASSUME NEW g, Good(g), NEW ls \in [1..g.rows -> Nat]
    PROVE  After(g, [g EXCEPT !.lines = ls])
<1> DEFINE h == [g EXCEPT !.lines = ls]
<1>1. g.rows \in Nat
  BY SizesArePositive DEF Good, WellFormed, Grids
<1>2. ls \in Seq(Nat)
  BY <1>1
<1>3. g \in Grids
  BY DEF Good, WellFormed
<1>4. h \in Grids
  BY <1>2, <1>3 DEF Grids
<1>5. /\ h.lines = ls /\ h.rows = g.rows /\ h.cols = g.cols /\ h.line = g.line
      /\ h.col = g.col /\ h.top = g.top /\ h.bot = g.bot /\ h.pending = g.pending
  BY <1>3 DEF Grids
<1> QED
  BY <1>4, <1>5 DEF Good, WellFormed, After, AtMargin

\* What a well-formed grid's fields are.
LEMMA Fields ==
    ASSUME NEW g, WellFormed(g)
    PROVE  /\ g \in Grids /\ g.rows \in Nat \ {0} /\ g.cols \in Nat \ {0}
           /\ g.lines \in [1..g.rows -> Nat]
           /\ g.line \in 1..g.rows /\ g.col \in 1..g.cols
           /\ g.top \in 1..g.rows /\ g.bot \in g.top..g.rows
           /\ g.savedLine \in Nat \ {0} /\ g.savedCol \in Nat \ {0}
           /\ g.pending \in BOOLEAN /\ g.insert \in BOOLEAN
<1>1. g \in Grids
  BY DEF WellFormed
<1>2. g.rows \in Nat \ {0} /\ g.cols \in Nat \ {0}
  BY <1>1, SizesArePositive DEF Grids
<1>3. /\ g.savedLine \in Nat \ {0} /\ g.savedCol \in Nat \ {0}
      /\ g.pending \in BOOLEAN /\ g.insert \in BOOLEAN
  BY <1>1 DEF Grids
<1> QED
  BY <1>1, <1>2, <1>3 DEF WellFormed

\* The cursor may move to another row of its own.
LEMMA LineGood ==
    ASSUME NEW g, Good(g), NEW l \in 1..g.rows
    PROVE  After(g, [g EXCEPT !.line = l])
<1> DEFINE h == [g EXCEPT !.line = l]
<1>1. g \in Grids /\ g.rows \in Nat \ {0}
  BY Fields DEF Good
<1>2. l \in Nat
  BY <1>1
<1>3. h \in Grids
  BY <1>1, <1>2 DEF Grids
<1>4. /\ h.lines = g.lines /\ h.rows = g.rows /\ h.cols = g.cols /\ h.line = l
      /\ h.col = g.col /\ h.top = g.top /\ h.bot = g.bot /\ h.pending = g.pending
  BY <1>1 DEF Grids
<1> QED
  BY <1>3, <1>4 DEF Good, WellFormed, After, AtMargin

\* The lines between the margins move up by one; the others stay.
LEMMA ScrolledUpGood ==
    ASSUME NEW g, Good(g)
    PROVE  /\ After(g, ScrolledUp(g))
           /\ \A r \in 1..g.rows \ (g.top..g.bot) : ScrolledUp(g).lines[r] = g.lines[r]
<1> DEFINE ls == InsertAt(RemoveAt(g.lines, g.top), g.bot, 0)
<1>1. /\ g \in Grids /\ g.rows \in Nat \ {0} /\ g.lines \in [1..g.rows -> Nat]
      /\ g.top \in 1..g.rows /\ g.bot \in g.top..g.rows
  BY Fields DEF Good
<1>2. Scrolls(g.rows, g.lines, g.top, g.bot, ls)
  BY <1>1, UpByOne, Zenon
<1> HIDE DEF ls
<1>3. /\ ls \in [1..g.rows -> Nat]
      /\ \A r \in 1..g.rows \ (g.top..g.bot) : ls[r] = g.lines[r]
  BY <1>2 DEF Scrolls
<1>4. ScrolledUp(g) = [g EXCEPT !.lines = ls] /\ ScrolledUp(g).lines = ls
  BY <1>1 DEF ScrolledUp, Grids, ls
<1>5. After(g, [g EXCEPT !.lines = ls])
  BY <1>3, LinesGood, Zenon
<1> QED
  BY <1>3, <1>4, <1>5

\* They move down by one; above the upper margin the cursor stays too.
LEMMA ReverseIndexGood ==
    ASSUME NEW g, Good(g)
    PROVE  /\ After(g, ReverseIndex(g))
           /\ \A r \in 1..g.rows \ (g.top..g.bot) : ReverseIndex(g).lines[r] = g.lines[r]
<1>1. /\ g \in Grids /\ g.rows \in Nat \ {0} /\ g.lines \in [1..g.rows -> Nat]
      /\ g.top \in 1..g.rows /\ g.bot \in g.top..g.rows
      /\ g.line \in 1..g.rows
  BY Fields DEF Good
<1>2. CASE g.line > g.top
  <2>1. g.line - 1 \in 1..g.rows
    BY <1>1, <1>2
  <2>2. /\ ReverseIndex(g).lines = g.lines
        /\ ReverseIndex(g) = [g EXCEPT !.line = g.line - 1]
    BY <1>1, <1>2 DEF ReverseIndex, Grids
  <2>3. After(g, [g EXCEPT !.line = g.line - 1])
    BY <2>1, LineGood, Zenon
  <2> QED
    BY <2>2, <2>3
<1>3. CASE ~(g.line > g.top)
  <2> DEFINE ls == RemoveAt(InsertAt(g.lines, g.top, 0), g.bot + 1)
  <2>1. Scrolls(g.rows, g.lines, g.top, g.bot, ls)
    BY <1>1, DownByOne, Zenon
  <2> HIDE DEF ls
  <2>2. /\ ls \in [1..g.rows -> Nat]
        /\ \A r \in 1..g.rows \ (g.top..g.bot) : ls[r] = g.lines[r]
    BY <2>1 DEF Scrolls
  <2>3. ReverseIndex(g) = [g EXCEPT !.lines = ls] /\ ReverseIndex(g).lines = ls
    BY <1>1, <1>3 DEF ReverseIndex, Grids, ls
  <2>4. After(g, [g EXCEPT !.lines = ls])
    BY <2>2, LinesGood, Zenon
  <2> QED
    BY <2>2, <2>3, <2>4
<1> QED
  BY <1>2, <1>3

\* A line feed: the cursor goes down a line or the lines above it go up.
LEMMA NewLineGood ==
    ASSUME NEW g, Good(g)
    PROVE  /\ After(g, NewLine(g))
           /\ \A r \in 1..g.rows \ (g.top..g.bot) : NewLine(g).lines[r] = g.lines[r]
<1>1. /\ g \in Grids /\ g.rows \in Nat \ {0} /\ g.line \in 1..g.rows
      /\ g.top \in 1..g.rows /\ g.bot \in g.top..g.rows
  BY Fields DEF Good
<1>2. CASE g.line = g.bot
  <2> DEFINE h == ScrolledUp(g)
  <2>1. After(g, h) /\ \A r \in 1..g.rows \ (g.top..g.bot) : h.lines[r] = g.lines[r]
    BY ScrolledUpGood
  <2>2. WellFormed(h) /\ g.line \in Nat \ {0} /\ 1 \in Nat \ {0}
    BY <1>1, <2>1 DEF After, Good
  <2> HIDE DEF h
  <2>3. After(h, Moved(h, g.line, 1))
    BY <2>2, MovedGood, Zenon
  <2>4. Moved(h, g.line, 1).lines = h.lines
    BY <2>2 DEF Moved, WellFormed, Grids
  <2>5. NewLine(g) = Moved(h, g.line, 1)
    BY <1>2 DEF NewLine, h
  <2> QED
    BY <2>1, <2>3, <2>4, <2>5 DEF After
<1>3. CASE g.line # g.bot
  <2>1. WellFormed(g) /\ g.line + 1 \in Nat \ {0} /\ 1 \in Nat \ {0}
    BY <1>1 DEF Good
  <2>2. After(g, Moved(g, g.line + 1, 1))
    BY <2>1, MovedGood, Zenon
  <2>3. Moved(g, g.line + 1, 1).lines = g.lines
    BY <1>1 DEF Moved, Grids
  <2>4. NewLine(g) = Moved(g, g.line + 1, 1)
    BY <1>3 DEF NewLine
  <2> QED
    BY <2>2, <2>3, <2>4
<1> QED
  BY <1>2, <1>3

WithCells(g, x) == [g EXCEPT !.lines[g.line] = x]

\* The cursor's line may get any number of cells.
LEMMA CellsGood ==
    ASSUME NEW g, Good(g), NEW x \in Nat
    PROVE  After(g, WithCells(g, x))
<1> DEFINE ls == [g.lines EXCEPT ![g.line] = x]
<1>1. g \in Grids /\ g.rows \in Nat \ {0} /\ g.lines \in [1..g.rows -> Nat]
  BY Fields DEF Good
<1>2. ls \in [1..g.rows -> Nat]
  BY <1>1
<1>3. WithCells(g, x) = [g EXCEPT !.lines = ls]
  BY <1>1 DEF WithCells, Grids
<1> HIDE DEF ls
<1>4. After(g, [g EXCEPT !.lines = ls])
  BY <1>2, LinesGood, Zenon
<1> QED
  BY <1>3, <1>4

\* A character is written at the cursor, which stops at the right margin.
LEMMA WriteGood ==
    ASSUME NEW g, Good(g), NEW w \in 0..2
    PROVE  After(g, Write(g, w))
<1> DEFINE first == WriteAt(g, g.lines[g.line], g.col)
           both == IF w = 2 /\ g.col < g.cols THEN WriteAt(g, first, g.col + 1) ELSE first
           fits == g.col + w <= g.cols
           h == WithCells(g, both)
           c == IF fits THEN g.col + w ELSE g.col
<1>1. /\ g \in Grids /\ g.rows \in Nat \ {0} /\ g.cols \in Nat \ {0}
      /\ g.lines \in [1..g.rows -> Nat] /\ g.line \in 1..g.rows /\ g.col \in 1..g.cols
      /\ g.insert \in BOOLEAN
  BY Fields DEF Good
<1>2. first \in Nat
  BY <1>1 DEF WriteAt, Greater
<1>3. WriteAt(g, first, g.col + 1) \in Nat
  <2> HIDE DEF first
  <2> QED
    BY <1>1, <1>2 DEF WriteAt, Greater
<1>4. both \in Nat
  BY <1>2, <1>3
<1>5. c \in 1..g.cols /\ (~fits => c + 2 > g.cols)
  BY <1>1
<1> HIDE DEF both
<1>6. After(g, h)
  BY <1>4, CellsGood, Zenon
<1>7. /\ WellFormed(h) /\ h.cols = g.cols /\ h.rows = g.rows
      /\ h.savedLine \in Nat \ {0} /\ h.savedCol \in Nat \ {0}
      /\ h.top \in 1..h.rows /\ h.bot \in h.top..h.rows /\ h.insert \in BOOLEAN
  <2> HIDE DEF h
  <2> QED
    BY <1>6, Fields DEF After, Good
<1>8. TRUE \in BOOLEAN /\ FALSE \in BOOLEAN
  OBVIOUS
<1>9. CASE fits
  <2>1. Write(g, w) = Set(h, g.line, c, h.savedLine, h.savedCol, h.top, h.bot, FALSE, h.insert)
    BY <1>1, <1>9 DEF Write, Set, WithCells, Grids, both
  <2> HIDE DEF c, fits, h
  <2>2. After(h, Set(h, g.line, c, h.savedLine, h.savedCol, h.top, h.bot, FALSE, h.insert))
    BY <1>1, <1>5, <1>7, <1>8, SetGood, Zenon
  <2> QED
    BY <1>6, <2>1, <2>2 DEF After
<1>10. CASE ~fits
  <2>1. Write(g, w) = Set(h, g.line, c, h.savedLine, h.savedCol, h.top, h.bot, TRUE, h.insert)
    BY <1>1, <1>10 DEF Write, Set, WithCells, Grids, both
  <2> HIDE DEF c, fits, h
  <2>2. After(h, Set(h, g.line, c, h.savedLine, h.savedCol, h.top, h.bot, TRUE, h.insert))
    BY <1>1, <1>5, <1>7, <1>8, <1>10, SetGood, Zenon
  <2> QED
    BY <1>6, <2>1, <2>2 DEF After
<1> QED
  BY <1>9, <1>10

\* After the wrap that was pending, if one was.
LEMMA AppendGood ==
    ASSUME NEW g, Good(g), NEW w \in 0..2
    PROVE  After(g, AppendInsertChar(g, w))
<1>1. CASE g.pending
  <2>1. After(g, NewLine(g))
    BY NewLineGood
  <2>2. Good(NewLine(g))
    BY <2>1 DEF After
  <2>3. After(NewLine(g), Write(NewLine(g), w))
    BY <2>2, WriteGood, Zenon
  <2> QED
    BY <1>1, <2>1, <2>3 DEF AppendInsertChar, After
<1>2. CASE ~g.pending
  BY <1>2, WriteGood DEF AppendInsertChar
<1> QED
  BY <1>1, <1>2

\* The margins are set, in order, and the cursor goes to the upper one.
LEMMA RegionGood ==
    ASSUME NEW g, Good(g), NEW top \in Nat, NEW bot \in Nat
    PROVE  After(g, SetScrollRegion(g, top, bot))
<1> DEFINE b0 == IF bot = 0 \/ bot > g.rows THEN g.rows ELSE bot
           t == IF top = 0 \/ top > g.rows THEN 1 ELSE top
           b == IF b0 < t THEN g.rows ELSE b0
<1>1. /\ WellFormed(g) /\ g \in Grids /\ g.rows \in Nat \ {0} /\ g.cols \in Nat \ {0}
      /\ g.savedLine \in Nat \ {0} /\ g.savedCol \in Nat \ {0} /\ g.insert \in BOOLEAN
  BY Fields DEF Good
<1>2. t \in 1..g.rows /\ b \in t..g.rows /\ 1 \in 1..g.cols /\ FALSE \in BOOLEAN
  BY <1>1
<1>3. SetScrollRegion(g, top, bot)
        = Set(g, t, 1, g.savedLine, g.savedCol, t, b, FALSE, g.insert)
  BY <1>1 DEF SetScrollRegion, Set, Grids
<1> HIDE DEF t, b
<1>4. After(g, Set(g, t, 1, g.savedLine, g.savedCol, t, b, FALSE, g.insert))
  BY <1>1, <1>2, SetGood, Zenon
<1> QED
  BY <1>3, <1>4

WithLines(g, f) == [g EXCEPT !.lines = f]

\* LinesGood, by name.
LEMMA WithGood ==
    ASSUME NEW g, Good(g), NEW ls \in [1..g.rows -> Nat]
    PROVE  /\ After(g, WithLines(g, ls))
           /\ WithLines(g, ls).lines = ls
<1>1. After(g, WithLines(g, ls))
  BY LinesGood DEF WithLines
<1>2. g \in Grids
  BY Fields DEF Good
<1> QED
  BY <1>1, <1>2 DEF WithLines, Grids

\* Lines put in at the cursor move only those down to the lower margin.
LEMMA InsertLinesGood ==
    ASSUME NEW g, Good(g), NEW n \in Nat \ {0}
    PROVE  /\ After(g, InsertLines(g, n))
           /\ \A r \in 1..g.rows \ (g.top..g.bot) : InsertLines(g, n).lines[r] = g.lines[r]
<1> DEFINE k == Lesser(n, g.bot - g.line + 1)
           f == [r \in 1..g.rows |->
                   IF r \notin g.line..g.bot THEN g.lines[r]
                   ELSE IF r < g.line + k THEN 0 ELSE g.lines[r - k]]
<1>1. /\ g \in Grids /\ g.rows \in Nat \ {0} /\ g.lines \in [1..g.rows -> Nat]
      /\ g.line \in 1..g.rows /\ g.top \in 1..g.rows /\ g.bot \in g.top..g.rows
  BY Fields DEF Good
<1>2. CASE ~InRegion(g)
  <2>1. InsertLines(g, n) = g
    BY <1>2 DEF InsertLines
  <2> QED
    BY <2>1 DEF After
<1>3. CASE InRegion(g)
  <2>1. k \in 1..(g.bot - g.line + 1)
    BY <1>1, <1>3 DEF Lesser, InRegion
  <2>2. InsertLines(g, n) = WithLines(g, f)
    BY <1>1, <1>3 DEF InsertLines, WithLines, Grids
  <2> HIDE DEF k
  <2>3. f \in [1..g.rows -> Nat]
    <3>1. ASSUME NEW r \in 1..g.rows, r \in g.line..g.bot, ~(r < g.line + k)
          PROVE  g.lines[r - k] \in Nat
      <4>1. k \in Nat /\ r \in Nat /\ g.line \in Nat /\ g.rows \in Nat
        BY <1>1, <2>1
      <4>2. r - k \in 1..g.rows
        BY <1>1, <3>1, <4>1
      <4> QED
        BY <1>1, <4>2
    <3> QED
      BY <1>1, <3>1
  <2>4. \A r \in 1..g.rows \ (g.top..g.bot) : f[r] = g.lines[r]
    BY <1>1, <1>3 DEF InRegion
  <2> HIDE DEF f
  <2>5. After(g, WithLines(g, f)) /\ WithLines(g, f).lines = f
    BY <2>3, WithGood, Zenon
  <2> QED
    BY <2>2, <2>4, <2>5
<1> QED
  BY <1>2, <1>3

\* Lines taken out at the cursor move only those up to the lower margin.
LEMMA DeleteLinesGood ==
    ASSUME NEW g, Good(g), NEW n \in Nat \ {0}
    PROVE  /\ After(g, DeleteLines(g, n))
           /\ \A r \in 1..g.rows \ (g.top..g.bot) : DeleteLines(g, n).lines[r] = g.lines[r]
<1> DEFINE k == Lesser(n, g.bot - g.line + 1)
           f == [r \in 1..g.rows |->
                   IF r \notin g.line..g.bot THEN g.lines[r]
                   ELSE IF r + k <= g.bot THEN g.lines[r + k] ELSE 0]
<1>1. /\ g \in Grids /\ g.rows \in Nat \ {0} /\ g.lines \in [1..g.rows -> Nat]
      /\ g.line \in 1..g.rows /\ g.top \in 1..g.rows /\ g.bot \in g.top..g.rows
  BY Fields DEF Good
<1>2. CASE ~InRegion(g)
  <2>1. DeleteLines(g, n) = g
    BY <1>2 DEF DeleteLines
  <2> QED
    BY <2>1 DEF After
<1>3. CASE InRegion(g)
  <2>1. k \in 1..(g.bot - g.line + 1)
    BY <1>1, <1>3 DEF Lesser, InRegion
  <2>2. DeleteLines(g, n) = WithLines(g, f)
    BY <1>1, <1>3 DEF DeleteLines, WithLines, Grids
  <2> HIDE DEF k
  <2>3. f \in [1..g.rows -> Nat]
    <3>1. ASSUME NEW r \in 1..g.rows, r + k <= g.bot
          PROVE  g.lines[r + k] \in Nat
      <4>1. k \in Nat /\ r \in Nat /\ g.bot \in Nat /\ g.rows \in Nat /\ g.bot <= g.rows
        BY <1>1, <2>1
      <4>2. r + k \in 1..g.rows
        BY <3>1, <4>1
      <4> QED
        BY <1>1, <4>2
    <3> QED
      BY <1>1, <3>1
  <2>4. \A r \in 1..g.rows \ (g.top..g.bot) : f[r] = g.lines[r]
    BY <1>1, <1>3 DEF InRegion
  <2> HIDE DEF f
  <2>5. After(g, WithLines(g, f)) /\ WithLines(g, f).lines = f
    BY <2>3, WithGood, Zenon
  <2> QED
    BY <2>2, <2>4, <2>5
<1> QED
  BY <1>2, <1>3

\* What changes the cells of the cursor's line only.
LEMMA CellEditsGood ==
    ASSUME NEW g, Good(g), NEW n \in Nat \ {0}, NEW mode
    PROVE  /\ After(g, EraseChar(g, n)) /\ After(g, DeleteChar(g, n))
           /\ After(g, InsertChar(g, n)) /\ After(g, EraseInLine(g, mode))
<1> DEFINE x == g.lines[g.line]
           e == Greater(x, Lesser(g.col - 1 + n, g.cols))
           d == IF x < g.col THEN x ELSE x - Lesser(n, x - g.col + 1)
           i == Lesser(Greater(x, g.col - 1) + n, g.cols)
           c == CASE mode = 0 -> Lesser(x, g.col - 1) [] mode = 2 -> 0 [] OTHER -> x
<1>1. /\ g \in Grids /\ g.rows \in Nat \ {0} /\ g.cols \in Nat \ {0}
      /\ g.lines \in [1..g.rows -> Nat] /\ g.line \in 1..g.rows /\ g.col \in 1..g.cols
  BY Fields DEF Good
<1>2. x \in Nat
  BY <1>1
<1>3. /\ EraseChar(g, n) = WithCells(g, e)
      /\ DeleteChar(g, n) = WithCells(g, d)
      /\ InsertChar(g, n) = WithCells(g, i)
  BY <1>1 DEF EraseChar, DeleteChar, InsertChar, WithCells, Grids
<1>4. EraseInLine(g, mode) = WithCells(g, c)
  BY <1>1 DEF EraseInLine, WithCells, Grids
<1> HIDE DEF x
<1>5. e \in Nat /\ d \in Nat /\ i \in Nat /\ c \in Nat
  <2>1. g.col \in Nat \ {0} /\ g.cols \in Nat
    BY <1>1
  <2>2. e \in Nat /\ i \in Nat
    BY <1>2, <2>1 DEF Lesser, Greater
  <2>3. d \in Nat
    BY <1>2, <2>1 DEF Lesser
  <2>4. c \in Nat
    BY <1>2, <2>1 DEF Lesser
  <2> QED
    BY <2>2, <2>3, <2>4
<1> HIDE DEF e, d, i, c
<1> QED
  BY <1>3, <1>4, <1>5, CellsGood

\* What is erased of the display is erased in place, or the cursor goes home.
LEMMA DisplayGood ==
    ASSUME NEW g, Good(g), NEW mode
    PROVE  After(g, EraseInDisplay(g, mode))
<1> DEFINE below == [r \in 1..g.rows |->
                       IF r > g.line THEN 0
                       ELSE IF r = g.line THEN Lesser(g.lines[r], g.col - 1) ELSE g.lines[r]]
           above == [r \in 1..g.rows |-> IF r < g.line THEN 0 ELSE g.lines[r]]
           home == Moved(g, 1, 1)
<1>1. /\ g \in Grids /\ g.rows \in Nat \ {0} /\ g.cols \in Nat \ {0}
      /\ g.lines \in [1..g.rows -> Nat] /\ g.line \in 1..g.rows /\ g.col \in 1..g.cols
      /\ WellFormed(g)
  BY Fields DEF Good
<1>2. CASE mode = 0
  <2>1. EraseInDisplay(g, mode) = WithLines(g, below)
    BY <1>1, <1>2 DEF EraseInDisplay, WithLines, Grids
  <2>2. below \in [1..g.rows -> Nat]
    BY <1>1 DEF Lesser
  <2> HIDE DEF below
  <2> QED
    BY <2>1, <2>2, WithGood
<1>3. CASE mode = 1
  <2>1. EraseInDisplay(g, mode) = WithLines(g, above)
    BY <1>1, <1>3 DEF EraseInDisplay, WithLines, Grids
  <2>2. above \in [1..g.rows -> Nat]
    BY <1>1
  <2> HIDE DEF above
  <2> QED
    BY <2>1, <2>2, WithGood
<1>4. CASE mode # 0 /\ mode # 1
  <2>1. 1 \in Nat \ {0} /\ Blank(g.rows) \in [1..g.rows -> Nat]
    BY <1>1 DEF Blank
  <2>2. After(g, home)
    BY <1>1, <2>1, MovedGood
  <2>3. EraseInDisplay(g, mode) = WithLines(home, Blank(g.rows))
    BY <1>4 DEF EraseInDisplay, WithLines
  <2> HIDE DEF home
  <2>4. Good(home) /\ Blank(g.rows) \in [1..home.rows -> Nat]
    BY <2>1, <2>2 DEF After
  <2>5. After(home, WithLines(home, Blank(g.rows)))
    BY <2>4, WithGood
  <2> QED
    BY <2>2, <2>3, <2>5 DEF After
<1> QED
  BY <1>2, <1>3, <1>4

\* A grid of any size is made good, whether new or kept from one that was.
LEMMA NewGridGood ==
    ASSUME NEW s \in [rows : Rows, cols : Cols]
    PROVE  /\ Good(NewGrid(s))
           /\ NewGrid(s).rows = s.rows /\ NewGrid(s).cols = s.cols
<1> DEFINE h == NewGrid(s)
<1>1. s.rows \in Nat \ {0} /\ s.cols \in Nat \ {0} /\ s.rows \in Rows /\ s.cols \in Cols
  BY SizesArePositive
<1>2. Blank(s.rows) \in [1..s.rows -> Nat] /\ Blank(s.rows) \in Seq(Nat)
  BY <1>1 DEF Blank
<1>3. h \in Grids
  BY <1>1, <1>2 DEF NewGrid, Grids
<1>4. /\ h.rows = s.rows /\ h.cols = s.cols /\ h.lines = Blank(s.rows) /\ h.line = 1
      /\ h.col = 1 /\ h.top = 1 /\ h.bot = s.rows /\ h.pending = FALSE
  BY DEF NewGrid
<1> HIDE DEF h
<1>5. WellFormed(h)
  BY <1>1, <1>2, <1>3, <1>4 DEF WellFormed
<1>6. AtMargin(h)
  BY <1>4 DEF AtMargin
<1> QED
  BY <1>4, <1>5, <1>6 DEF Good, h

\* The grid takes the viewport's size and keeps its cursor, as far as it goes.
LEMMA ResizeGood ==
    ASSUME NEW g, Good(g), NEW s \in [rows : Rows, cols : Cols]
    PROVE  /\ Good(Resize(g, s))
           /\ Resize(g, s).rows = s.rows /\ Resize(g, s).cols = s.cols
<1> DEFINE h == NewGrid(s)
           l == Lesser(g.line, s.rows)
           c == Lesser(g.col, s.cols)
<1>1. /\ g.rows \in Nat \ {0} /\ g.cols \in Nat \ {0}
      /\ g.line \in 1..g.rows /\ g.col \in 1..g.cols
      /\ g.savedLine \in Nat \ {0} /\ g.savedCol \in Nat \ {0} /\ g.insert \in BOOLEAN
  BY Fields DEF Good
<1>2. /\ Good(h) /\ WellFormed(h) /\ h.rows = s.rows /\ h.cols = s.cols
  BY NewGridGood DEF Good
<1>3. s.rows \in Nat \ {0} /\ s.cols \in Nat \ {0}
  BY SizesArePositive
<1>4. l \in 1..h.rows /\ c \in 1..h.cols
  BY <1>1, <1>2, <1>3 DEF Lesser
<1>5. Resize(g, s) = Set(h, l, c, g.savedLine, g.savedCol, 1, s.rows, FALSE, g.insert)
  <2>1. /\ h.top = 1 /\ h.bot = s.rows /\ h.pending = FALSE
        /\ Resize(g, s) = [h EXCEPT !.line = l, !.col = c, !.savedLine = g.savedLine,
                                    !.savedCol = g.savedCol, !.insert = g.insert]
    BY DEF Resize, NewGrid
  <2>2. h \in Grids
    BY <1>2 DEF WellFormed
  <2> HIDE DEF h, l, c
  <2> QED
    BY <2>1, <2>2 DEF Set, Grids
<1>6. 1 \in 1..h.rows /\ s.rows \in 1..h.rows /\ FALSE \in BOOLEAN
  BY <1>2, <1>3
<1> HIDE DEF h, l, c
<1>7. After(h, Set(h, l, c, g.savedLine, g.savedCol, 1, s.rows, FALSE, g.insert))
  BY <1>1, <1>2, <1>4, <1>6, SetGood, Zenon
<1> QED
  BY <1>2, <1>5, <1>7 DEF After

\* A reset grid has the size it had.
LEMMA ResetGood ==
    ASSUME NEW g, Good(g)
    PROVE  After(g, FullReset(g))
<1> DEFINE s == [rows |-> g.rows, cols |-> g.cols]
<1>1. s \in [rows : Rows, cols : Cols]
  BY DEF Good, WellFormed, Grids
<1>2. s.rows = g.rows /\ s.cols = g.cols
  OBVIOUS
<1> HIDE DEF s
<1>3. /\ Good(NewGrid(s)) /\ NewGrid(s).rows = s.rows /\ NewGrid(s).cols = s.cols
  BY <1>1, NewGridGood, Zenon
<1> QED
  BY <1>2, <1>3 DEF FullReset, After, s

-----------------------------------------------------------------------------
(* The invariant *)

\* A grid that is on has the size the session has for the viewport, and that is the
\* panel's when the session has been told: the two are not the same in between.
GridIsViews == active => grid.rows = view.rows /\ grid.cols = view.cols
ViewIsPanels == resize = "told" => view = layout

\* The invariants at once: none is inductive alone, since a grid is only as large as
\* the viewport if every operation keeps its size.
IInv == TypeOK /\ GridIsViews /\ ViewIsPanels /\ WrapsAtMargin

\* What IInv says of the grid.
LEMMA GridGood ==
    IInv => Good(grid)
BY DEF IInv, TypeOK, WrapsAtMargin, Good

\* A step of the program: a grid of the same size, the session as it was.
LEMMA ProgramKeeps ==
    ASSUME IInv, NEW h, After(grid, h), Do(h)
    PROVE  IInv'
<1>1. grid' = h /\ view' = view /\ wrap' = wrap /\ active' = active
      /\ pty' = pty /\ mainCols' = mainCols /\ heard' = heard
      /\ layout' = layout /\ resize' = resize
  BY DEF Do, session, panel
<1>2. WellFormed(grid)' /\ AtMargin(grid)' /\ (grid.rows)' = grid.rows /\ (grid.cols)' = grid.cols
  BY <1>1 DEF After, Good
<1>3. TypeOK'
  BY <1>1, <1>2 DEF IInv, TypeOK
<1>4. GridIsViews' /\ ViewIsPanels'
  BY <1>1, <1>2 DEF IInv, GridIsViews, ViewIsPanels
<1> QED
  BY <1>2, <1>3, <1>4 DEF IInv, WrapsAtMargin

\* It holds at first.
LEMMA InitIInv ==
    Init => IInv
<1> SUFFICES ASSUME Init
             PROVE  IInv
  OBVIOUS
<1>1. First \in Sizes /\ First \in [rows : Rows, cols : Cols]
  BY AltScreenAssumption, SizesArePositive
<1>2. Good(grid)
  BY <1>1, NewGridGood DEF Init
<1>3. First.rows \in Nat /\ First.cols \in Nat /\ ptyLineWidth_ \in Nat
  BY <1>1, SizesArePositive, AltScreenAssumption
<1>4. mainCols \in Nat
  BY <1>3 DEF Init, MainCols
<1>5. wrap \in BOOLEAN
  BY AltScreenAssumption DEF Init
<1>6. /\ layout \in Sizes /\ resize = "new"
      /\ view \in Sizes /\ active = FALSE /\ heard \in [main : Nat, alt : Nat]
      /\ pty \in [rows : Nat, cols : Nat]
  BY <1>1, <1>3, <1>4 DEF Init
<1> QED
  BY <1>2, <1>4, <1>5, <1>6 DEF IInv, TypeOK, GridIsViews, ViewIsPanels, WrapsAtMargin, Good

\* The grid is changed by a program in ways that keep it good and of its size.
LEMMA ProgramStep ==
    IInv /\ Program => IInv'
<1> SUFFICES ASSUME IInv, Program
             PROVE  IInv'
  OBVIOUS
<1>1. /\ Good(grid) /\ WellFormed(grid) /\ grid \in Grids
      /\ grid.rows \in Nat \ {0} /\ grid.cols \in Nat \ {0}
      /\ grid.line \in 1..grid.rows /\ grid.col \in 1..grid.cols
      /\ grid.top \in 1..grid.rows /\ grid.bot \in grid.top..grid.rows
      /\ grid.savedLine \in Nat \ {0} /\ grid.savedCol \in Nat \ {0}
      /\ grid.insert \in BOOLEAN /\ grid.pending \in BOOLEAN
  BY GridGood, Fields DEF Good
<1>2. /\ \A n \in 1..MaxCount : n \in Nat \ {0}
      /\ grid.line \in Nat \ {0} /\ grid.col \in Nat \ {0}
  BY <1>1, AltScreenAssumption
<1>3. ASSUME NEW l \in Nat \ {0}, NEW c \in Nat \ {0}, Do(Moved(grid, l, c))
      PROVE  IInv'
  <2>1. After(grid, Moved(grid, l, c))
    BY <1>1, MovedGood
  <2> QED
    BY <1>3, <2>1, ProgramKeeps, Zenon
<1>4. CASE \E w \in 0..2 : Show(w)
  <2> PICK w \in 0..2 : Do(AppendInsertChar(grid, w))
    BY <1>4 DEF Show
  <2>1. After(grid, AppendInsertChar(grid, w))
    BY <1>1, AppendGood
  <2> QED
    BY <2>1, ProgramKeeps, Zenon
<1>5. CASE LineFeed
  <2>1. After(grid, NewLine(grid))
    BY <1>1, NewLineGood
  <2> QED
    BY <1>5, <2>1, ProgramKeeps, Zenon DEF LineFeed
<1>6. CASE LineUp
  <2>1. After(grid, ReverseIndex(grid))
    BY <1>1, ReverseIndexGood
  <2> QED
    BY <1>6, <2>1, ProgramKeeps, Zenon DEF LineUp
<1>7. CASE SaveCursor
  <2> DEFINE h == [grid EXCEPT !.savedLine = grid.line, !.savedCol = grid.col]
  <2>1. h = Set(grid, grid.line, grid.col, grid.line, grid.col, grid.top, grid.bot,
                grid.pending, grid.insert)
    BY <1>1 DEF Set, Grids
  <2>2. grid.pending => grid.col + 2 > grid.cols
    BY <1>1 DEF Good, AtMargin
  <2>3. After(grid, Set(grid, grid.line, grid.col, grid.line, grid.col, grid.top, grid.bot,
                        grid.pending, grid.insert))
    BY <1>1, <1>2, <2>2, SetGood, Zenon
  <2>4. Do(h)
    BY <1>7 DEF SaveCursor
  <2> HIDE DEF h
  <2>5. After(grid, h)
    BY <2>1, <2>3
  <2> QED
    BY <2>4, <2>5, ProgramKeeps, Zenon
<1>8. CASE RestoreCursor
  BY <1>1, <1>3, <1>8 DEF RestoreCursor
<1>9. CASE \E n \in 1..MaxCount : Move(n)
  <2> PICK n \in 1..MaxCount : Move(n)
    BY <1>9
  <2>1. /\ n \in Nat \ {0} /\ grid.col + n \in Nat \ {0} /\ grid.line + n \in Nat \ {0}
        /\ 1 \in Nat \ {0}
    BY <1>2
  <2>2. Back(grid.col, n) \in Nat \ {0} /\ Back(grid.line, n) \in Nat \ {0}
    BY <1>2, <2>1 DEF Back
  <2> QED
    BY <1>1, <1>2, <1>3, <2>1, <2>2, Zenon DEF Move
<1>10. CASE \E n \in 1..MaxCount : Edit(n)
  <2> PICK n \in 1..MaxCount : Edit(n)
    BY <1>10
  <2>1. n \in Nat \ {0}
    BY <1>2
  <2>2. /\ After(grid, InsertLines(grid, n)) /\ After(grid, DeleteLines(grid, n))
        /\ After(grid, EraseChar(grid, n)) /\ After(grid, DeleteChar(grid, n))
        /\ After(grid, InsertChar(grid, n))
    BY <1>1, <2>1, InsertLinesGood, DeleteLinesGood, CellEditsGood
  <2> QED
    BY <2>2, ProgramKeeps, Zenon DEF Edit
<1>11. CASE \E l, c \in 1..MaxCount : Do(Moved(grid, l, c))
  BY <1>2, <1>3, <1>11
<1>12. CASE \E t, b \in 0..MaxCount : Do(SetScrollRegion(grid, t, b))
  <2> PICK t \in 0..MaxCount, b \in 0..MaxCount : Do(SetScrollRegion(grid, t, b))
    BY <1>12
  <2>1. t \in Nat /\ b \in Nat
    BY AltScreenAssumption
  <2>2. After(grid, SetScrollRegion(grid, t, b))
    BY <1>1, <2>1, RegionGood
  <2> QED
    BY <2>2, ProgramKeeps, Zenon
<1>13. CASE \E mode \in 0..2 : Erase(mode)
  <2> PICK mode \in 0..2 : Erase(mode)
    BY <1>13
  <2>1. 1 \in Nat \ {0}
    OBVIOUS
  <2>2. After(grid, EraseInLine(grid, mode)) /\ After(grid, EraseInDisplay(grid, mode))
    BY <1>1, <2>1, CellEditsGood, DisplayGood, Zenon
  <2> QED
    BY <2>2, ProgramKeeps, Zenon DEF Erase
<1>14. CASE \E on \in BOOLEAN : Do([grid EXCEPT !.insert = on])
  <2> PICK on \in BOOLEAN : Do([grid EXCEPT !.insert = on])
    BY <1>14
  <2> DEFINE h == [grid EXCEPT !.insert = on]
  <2>1. h = Set(grid, grid.line, grid.col, grid.savedLine, grid.savedCol, grid.top, grid.bot,
                grid.pending, on)
    BY <1>1 DEF Set, Grids
  <2>2. grid.pending => grid.col + 2 > grid.cols
    BY <1>1 DEF Good, AtMargin
  <2>3. After(grid, Set(grid, grid.line, grid.col, grid.savedLine, grid.savedCol, grid.top,
                        grid.bot, grid.pending, on))
    BY <1>1, <2>2, SetGood, Zenon
  <2>4. Do(h)
    OBVIOUS
  <2> HIDE DEF h
  <2>5. After(grid, h)
    BY <2>1, <2>3
  <2> QED
    BY <2>4, <2>5, ProgramKeeps, Zenon
<1> QED
  BY <1>4, <1>5, <1>6, <1>7, <1>8, <1>9, <1>10, <1>11, <1>12, <1>13, <1>14, Zenon DEF Program

\* Entering takes the viewport's size, leaving keeps the grid for the next time.
LEMMA SwitchStep ==
    IInv /\ (OnEnterAltScreen \/ OnExitAltScreen) => IInv'
<1> SUFFICES ASSUME IInv
             PROVE  OnEnterAltScreen \/ OnExitAltScreen => IInv'
  OBVIOUS
<1>1. /\ Good(grid) /\ layout \in Sizes /\ view \in Sizes /\ view \in [rows : Rows, cols : Cols]
      /\ view.rows \in Nat /\ view.cols \in Nat /\ ptyLineWidth_ \in Nat
      /\ wrap \in BOOLEAN /\ pty \in [rows : Nat, cols : Nat] /\ mainCols \in Nat
      /\ heard.main \in Nat /\ heard.alt \in Nat
  BY GridGood, SizesArePositive, AltScreenAssumption DEF IInv, TypeOK
<1>2. /\ Listen("alt") \in [main : Nat, alt : Nat]
      /\ Listen("main") \in [main : Nat, alt : Nat]
  BY <1>1 DEF Listen
<1>3. ASSUME OnEnterAltScreen
      PROVE  IInv'
  <2>1. /\ Good(Resize(grid, view)) /\ Resize(grid, view).rows = view.rows
        /\ Resize(grid, view).cols = view.cols
    BY <1>1, ResizeGood
  <2>2. /\ grid' = Resize(grid, view) /\ view' = view /\ wrap' = wrap /\ active' = TRUE
        /\ mainCols' = mainCols /\ heard' = Listen("alt")
        /\ pty' = IF wrap THEN pty ELSE view
        /\ layout' = layout /\ resize' = resize
    BY <1>3 DEF OnEnterAltScreen, panel
  <2>3. view \in [rows : Nat, cols : Nat] /\ pty' \in [rows : Nat, cols : Nat]
    BY <1>1, <2>2, SizesArePositive
  <2> QED
    BY <1>1, <1>2, <2>1, <2>2, <2>3
       DEF IInv, TypeOK, GridIsViews, ViewIsPanels, WrapsAtMargin, Good
<1>4. ASSUME OnExitAltScreen
      PROVE  IInv'
  <2>1. /\ grid' = grid /\ view' = view /\ wrap' = wrap /\ active' = FALSE
        /\ mainCols' = mainCols /\ heard' = Listen("main")
        /\ pty' = IF wrap THEN pty ELSE [view EXCEPT !.cols = ptyLineWidth_]
        /\ layout' = layout /\ resize' = resize
    BY <1>4 DEF OnExitAltScreen, Leave, panel
  <2>2. pty' \in [rows : Nat, cols : Nat]
    BY <1>1, <2>1
  <2> QED
    BY <1>1, <1>2, <2>1, <2>2 DEF IInv, TypeOK, GridIsViews, ViewIsPanels, WrapsAtMargin, Good
<1> QED
  BY <1>3, <1>4

\* A reset leaves the alternate screen and keeps the grid's size.
LEMMA ResetStep ==
    IInv /\ (OnResetTerminal \/ ResetTerminal) => IInv'
<1> SUFFICES ASSUME IInv, OnResetTerminal \/ ResetTerminal
             PROVE  IInv'
  OBVIOUS
<1>1. /\ Good(grid) /\ layout \in Sizes /\ view \in Sizes /\ view \in [rows : Rows, cols : Cols]
      /\ view.rows \in Nat /\ view.cols \in Nat /\ ptyLineWidth_ \in Nat
      /\ wrap \in BOOLEAN /\ pty \in [rows : Nat, cols : Nat] /\ mainCols \in Nat
      /\ heard.main \in Nat /\ heard \in [main : Nat, alt : Nat] /\ active \in BOOLEAN
  BY GridGood, SizesArePositive, AltScreenAssumption DEF IInv, TypeOK
<1>2. After(grid, FullReset(grid))
  BY <1>1, ResetGood
<1>3. active' = FALSE /\ heard' \in [main : Nat, alt : Nat]
  BY <1>1 DEF OnResetTerminal, ResetTerminal, Leave, Listen
<1>4. MainCols(view, wrap) \in Nat
  BY <1>1 DEF MainCols
<1>5. pty' \in [rows : Nat, cols : Nat]
  <2>1. CASE OnResetTerminal
    BY <1>1, <1>4, <2>1 DEF OnResetTerminal
  <2>2. CASE ResetTerminal
    BY <1>1, <2>2 DEF ResetTerminal
  <2> QED
    BY <2>1, <2>2
<1>6. grid' = FullReset(grid) /\ view' = view /\ wrap' = wrap /\ mainCols' = mainCols
      /\ layout' = layout /\ resize' = resize
  BY DEF OnResetTerminal, ResetTerminal, panel
<1> QED
  BY <1>1, <1>2, <1>3, <1>5, <1>6
     DEF IInv, TypeOK, GridIsViews, ViewIsPanels, WrapsAtMargin, Good, After

\* The panel's size reaches the session, and its grid if that is on; the rest leaves
\* the grid alone.
LEMMA SizeStep ==
    /\ IInv
    /\ OnResizeTimer \/ \E v \in Sizes : OnSize(v) \/ SetDocLayout(v)
    => IInv'
<1> SUFFICES ASSUME IInv
             PROVE  (OnResizeTimer \/ \E v \in Sizes : OnSize(v) \/ SetDocLayout(v)) => IInv'
  OBVIOUS
<1>1. /\ Good(grid) /\ layout \in Sizes /\ view \in Sizes /\ ptyLineWidth_ \in Nat
      /\ wrap \in BOOLEAN /\ pty \in [rows : Nat, cols : Nat] /\ mainCols \in Nat
      /\ heard \in [main : Nat, alt : Nat] /\ active \in BOOLEAN
  BY GridGood, AltScreenAssumption DEF IInv, TypeOK
<1>2. \A v \in Sizes : /\ v \in [rows : Rows, cols : Cols] /\ v \in [rows : Nat, cols : Nat]
                       /\ v.rows \in Nat /\ v.cols \in Nat
  BY SizesArePositive
<1>3. MainCols(layout, wrap) \in Nat
      /\ [layout EXCEPT !.cols = MainCols(layout, wrap)] \in [rows : Nat, cols : Nat]
  BY <1>1, <1>2 DEF MainCols
<1>4. ASSUME OnResizeTimer
      PROVE  IInv'
  <2>1. /\ SetViewportSize(layout) /\ layout' = layout /\ resize' = "told" /\ view' = layout
        /\ wrap' = wrap /\ active' = active /\ heard' = heard
    BY <1>4 DEF OnResizeTimer, SetViewportSize
  <2>2. CASE layout = view
    <3>1. grid' = grid /\ pty' = pty /\ mainCols' = mainCols
      BY <2>1, <2>2 DEF SetViewportSize
    <3> QED
      BY <1>1, <2>1, <2>2, <3>1 DEF IInv, TypeOK, GridIsViews, ViewIsPanels, WrapsAtMargin, Good
  <2>3. CASE layout # view /\ active
    <3>1. /\ Good(Resize(grid, layout)) /\ Resize(grid, layout).rows = layout.rows
          /\ Resize(grid, layout).cols = layout.cols
      BY <1>1, <1>2, ResizeGood
    <3>2. grid' = Resize(grid, layout) /\ pty' = layout /\ mainCols' = mainCols
      BY <2>1, <2>3 DEF SetViewportSize
    <3> QED
      BY <1>1, <1>2, <2>1, <3>1, <3>2
         DEF IInv, TypeOK, GridIsViews, ViewIsPanels, WrapsAtMargin, Good
  <2>4. CASE layout # view /\ ~active
    <3>1. /\ grid' = grid /\ mainCols' = MainCols(layout, wrap)
          /\ pty' = [layout EXCEPT !.cols = MainCols(layout, wrap)]
      BY <2>1, <2>4 DEF SetViewportSize
    <3> QED
      BY <1>1, <1>3, <2>1, <2>4, <3>1
         DEF IInv, TypeOK, GridIsViews, ViewIsPanels, WrapsAtMargin, Good
  <2> QED
    BY <1>1, <2>2, <2>3, <2>4
<1>5. ASSUME NEW v \in Sizes, OnSize(v) \/ SetDocLayout(v)
      PROVE  IInv'
  <2>1. /\ layout' = v /\ resize' \in {"new", "due"}
        /\ UNCHANGED <<view, wrap, active, pty, mainCols, heard, grid>>
    BY <1>5 DEF OnSize, SetDocLayout
  <2> QED
    BY <2>1 DEF IInv, TypeOK, GridIsViews, ViewIsPanels, WrapsAtMargin
<1> QED
  BY <1>4, <1>5

\* What else the user does leaves the grid alone.
LEMMA SessionStep ==
    IInv /\ (ReplaceConnection \/ \E w \in Wraps : SetWrapMode(w)) => IInv'
<1> SUFFICES ASSUME IInv
             PROVE  (ReplaceConnection \/ \E w \in Wraps : SetWrapMode(w)) => IInv'
  OBVIOUS
<1>1. /\ view \in Sizes /\ ptyLineWidth_ \in Nat /\ pty \in [rows : Nat, cols : Nat]
      /\ mainCols \in Nat /\ wrap \in BOOLEAN /\ active \in BOOLEAN
  BY AltScreenAssumption DEF IInv, TypeOK
<1>2. view \in [rows : Nat, cols : Nat] /\ view.cols \in Nat
  BY <1>1, SizesArePositive
<1>3. \A w \in BOOLEAN :
        /\ MainCols(view, w) \in Nat
        /\ [view EXCEPT !.cols = MainCols(view, w)] \in [rows : Nat, cols : Nat]
  BY <1>1, <1>2 DEF MainCols
<1>4. ASSUME ReplaceConnection
      PROVE  IInv'
  <2>1. pty' \in [rows : Nat, cols : Nat]
    BY <1>1, <1>3, <1>4 DEF ReplaceConnection
  <2>2. UNCHANGED <<layout, resize, view, wrap, active, mainCols, heard, grid>>
    BY <1>4 DEF ReplaceConnection, panel
  <2> QED
    BY <2>1, <2>2 DEF IInv, TypeOK, GridIsViews, ViewIsPanels, WrapsAtMargin
<1>5. ASSUME NEW w \in Wraps, SetWrapMode(w)
      PROVE  IInv'
  <2>1. w \in BOOLEAN
    BY AltScreenAssumption
  <2>2. pty' \in [rows : Nat, cols : Nat] /\ mainCols' \in Nat
    <3>1. CASE active
      BY <1>1, <1>5, <3>1 DEF SetWrapMode
    <3>2. CASE ~active
      <4>1. mainCols' = MainCols(view, w) /\ pty' = [view EXCEPT !.cols = MainCols(view, w)]
        BY <1>5, <3>2 DEF SetWrapMode
      <4> QED
        BY <1>3, <2>1, <4>1
    <3> QED
      BY <3>1, <3>2
  <2>3. wrap' = w /\ UNCHANGED <<layout, resize, view, active, heard, grid>>
    BY <1>5 DEF SetWrapMode, panel
  <2> QED
    BY <2>1, <2>2, <2>3 DEF IInv, TypeOK, GridIsViews, ViewIsPanels, WrapsAtMargin
<1> QED
  BY <1>4, <1>5

\* Every step keeps it.
LEMMA StepIInv ==
    IInv /\ [Next]_vars => IInv'
<1> SUFFICES ASSUME IInv, [Next]_vars
             PROVE  IInv'
  OBVIOUS
<1>1. CASE ForceAltScreen
  BY <1>1, SwitchStep DEF ForceAltScreen
<1>2. CASE UNCHANGED vars
  BY <1>2 DEF vars, session, panel, IInv, TypeOK, GridIsViews, ViewIsPanels, WrapsAtMargin
<1> QED
  BY <1>1, <1>2, ProgramStep, SwitchStep, ResetStep, SizeStep, SessionStep DEF Next

\* In every behaviour the grid is well formed and the session's state typed: the
\* cursor is on the grid and the margins are in order, whatever a program sends.
THEOREM AlwaysTypeOK ==
    Spec => []TypeOK
<1>1. IInv => TypeOK
  BY DEF IInv
<1> QED
  BY <1>1, InitIInv, StepIInv, PTL DEF Spec

\* While the alternate screen is on, its grid has the panel's size once the session
\* has been told of it, whatever sizes the panel, the session and the grid had before
\* (OnSize, OnResizeTimer, OnEnterAltScreen, SetViewportSize).
THEOREM AlwaysFillsView ==
    Spec => []GridFillsView
<1>1. IInv => GridFillsView
  BY DEF IInv, GridIsViews, ViewIsPanels, GridFillsView
<1> QED
  BY <1>1, InitIInv, StepIInv, PTL DEF Spec

\* A character wraps only from the right margin (AppendInsertChar and everything
\* that moves the cursor).
THEOREM AlwaysWrapsAtMargin ==
    Spec => []WrapsAtMargin
<1>1. IInv => WrapsAtMargin
  BY DEF IInv
<1> QED
  BY <1>1, InitIInv, StepIInv, PTL DEF Spec

\* What scrolls leaves the lines outside the margins as they are (NewLine,
\* ReverseIndex, InsertLines, DeleteLines), whatever the margins and the cursor.
THEOREM AlwaysMarginsHold ==
    Spec => MarginsHold
<1>1. IInv /\ Scroll => OutsideStays
  <2> SUFFICES ASSUME IInv, Scroll
               PROVE  OutsideStays
    OBVIOUS
  <2>1. Good(grid)
    BY GridGood
  <2>2. CASE LineFeed
    BY <2>1, <2>2, NewLineGood DEF LineFeed, Do, OutsideStays
  <2>3. CASE LineUp
    BY <2>1, <2>3, ReverseIndexGood DEF LineUp, Do, OutsideStays
  <2>4. CASE \E n \in 1..MaxCount : Do(InsertLines(grid, n)) \/ Do(DeleteLines(grid, n))
    <3> PICK n \in 1..MaxCount : Do(InsertLines(grid, n)) \/ Do(DeleteLines(grid, n))
      BY <2>4
    <3>1. n \in Nat \ {0}
      BY AltScreenAssumption
    <3> QED
      BY <2>1, <3>1, InsertLinesGood, DeleteLinesGood DEF Do, OutsideStays
  <2> QED
    BY <2>2, <2>3, <2>4 DEF Scroll
<1>2. IInv /\ [Next]_vars => [Scroll => OutsideStays]_vars
  BY <1>1
<1> QED
  BY <1>2, InitIInv, StepIInv, PTL DEF Spec, MarginsHold

-----------------------------------------------------------------------------
(* What the lists of tabs and of tiles are *)

\* A member of a list without repetitions is found at its place.
LEMMA AtItsPlace ==
    ASSUME NEW S, NEW l \in Seq(S), NEW s \in ToSet(l)
    PROVE  At(l, s) \in DOMAIN l /\ l[At(l, s)] = s
BY DEF At, ToSet

\* There is no other place.
LEMMA AtNoOther ==
    ASSUME NEW S, NEW l \in Seq(S), IsInjective(l), NEW i \in DOMAIN l
    PROVE  At(l, l[i]) = i
BY DEF At, IsInjective

\* What is taken out of a list leaves the others, in their order.
LEMMA TabTakenOut ==
    ASSUME NEW S, NEW l \in Seq(S), IsInjective(l), NEW i \in 1..Len(l)
    PROVE  /\ RemoveAt(l, i) \in Seq(S) /\ Len(RemoveAt(l, i)) = Len(l) - 1
           /\ \A j \in 1..(Len(l) - 1) : RemoveAt(l, i)[j] = IF j < i THEN l[j] ELSE l[j + 1]
           /\ IsInjective(RemoveAt(l, i)) /\ ToSet(RemoveAt(l, i)) = ToSet(l) \ {l[i]}
<1> DEFINE n == Len(l)
           a == SubSeq(l, 1, i - 1)
           b == SubSeq(l, i + 1, n)
           c == RemoveAt(l, i)
<1>1. n \in Nat /\ i \in 1..n /\ DOMAIN l = 1..n /\ \A j \in 1..n : l[j] \in S
  OBVIOUS
<1>2. a \in Seq(S) /\ Len(a) = i - 1 /\ \A j \in 1..(i - 1) : a[j] = l[j]
  BY <1>1
<1>3. b \in Seq(S) /\ Len(b) = n - i /\ \A j \in 1..(n - i) : b[j] = l[j + i]
  <2>1. \A j \in (i + 1)..n : l[j] \in S
    BY <1>1
  <2>2. /\ b \in Seq(S) /\ Len(b) = IF i + 1 <= n THEN n - (i + 1) + 1 ELSE 0
        /\ \A j \in 1..(n - (i + 1) + 1) : b[j] = l[i + 1 + j - 1]
    BY <2>1, <1>1, SubSeqProperties
  <2> HIDE DEF b, n
  <2>3. Len(b) = n - i
    BY <2>2, <1>1
  <2>4. \A j \in 1..(n - i) : j \in 1..(n - (i + 1) + 1) /\ i + 1 + j - 1 = j + i
    BY <1>1
  <2> QED
    BY <2>2, <2>3, <2>4
<1>4. c = a \o b
  BY DEF RemoveAt
<1>7. /\ c \in Seq(S) /\ Len(c) = n - 1
      /\ \A j \in 1..(n - 1) : c[j] = IF j < i THEN l[j] ELSE l[j + 1]
  <2> HIDE DEF a, b, c, n
  <2>1. /\ c \in Seq(S) /\ Len(c) = Len(a) + Len(b)
        /\ \A j \in 1..(Len(a) + Len(b)) : c[j] = IF j <= Len(a) THEN a[j] ELSE b[j - Len(a)]
    BY <1>2, <1>3, <1>4, ConcatProperties
  <2> QED
    BY <1>1, <1>2, <1>3, <2>1
<1> HIDE DEF a, b, c
<1>8. DOMAIN c = 1..(n - 1)
  BY <1>7, LenProperties
<1>5. \A j, k \in 1..n : l[j] = l[k] => j = k
  BY <1>1 DEF IsInjective
<1> HIDE DEF n
<1>9. IsInjective(c)
  <2> SUFFICES ASSUME NEW j \in 1..(n - 1), NEW k \in 1..(n - 1), c[j] = c[k] PROVE j = k
    BY <1>8 DEF IsInjective
  <2> DEFINE J == IF j < i THEN j ELSE j + 1
             K == IF k < i THEN k ELSE k + 1
  <2>1. J \in 1..n /\ K \in 1..n /\ c[j] = l[J] /\ c[k] = l[K]
    BY <1>1, <1>7
  <2>2. J = K
    BY <2>1, <1>5
  <2> QED
    BY <2>2, <1>1
<1>10. ToSet(c) \subseteq ToSet(l) \ {l[i]}
  <2> SUFFICES ASSUME NEW j \in 1..(n - 1) PROVE c[j] \in ToSet(l) \ {l[i]}
    BY <1>8 DEF ToSet
  <2> DEFINE J == IF j < i THEN j ELSE j + 1
  <2>1. J \in 1..n /\ c[j] = l[J] /\ J # i
    BY <1>1, <1>7
  <2> HIDE DEF J
  <2>2. l[J] # l[i]
    BY <2>1, <1>5, <1>1
  <2> QED
    BY <2>1, <2>2, <1>1 DEF ToSet
<1>11. ToSet(l) \ {l[i]} \subseteq ToSet(c)
  <2> SUFFICES ASSUME NEW j \in 1..n, l[j] # l[i]
               PROVE  l[j] \in ToSet(c)
    BY <1>1 DEF ToSet
  <2>1. CASE j < i
    BY <1>1, <1>7, <1>8, <2>1 DEF ToSet
  <2>2. CASE j > i
    <3>1. j - 1 \in 1..(n - 1) /\ ~(j - 1 < i) /\ (j - 1) + 1 = j
      BY <1>1, <2>2
    <3> QED
      BY <1>7, <1>8, <3>1 DEF ToSet
  <2> QED
    BY <1>1, <2>1, <2>2
<1> QED
  BY <1>7, <1>9, <1>10, <1>11 DEF c, n

\* What is put at the end of a list.
LEMMA PutAtTheEnd ==
    ASSUME NEW S, NEW l \in Seq(S), IsInjective(l), NEW s \in S, s \notin ToSet(l)
    PROVE  /\ Append(l, s) \in Seq(S) /\ Len(Append(l, s)) = Len(l) + 1
           /\ Append(l, s) # <<>>
           /\ \A j \in 1..Len(l) : Append(l, s)[j] = l[j]
           /\ Append(l, s)[Len(l) + 1] = s
           /\ IsInjective(Append(l, s)) /\ ToSet(Append(l, s)) = ToSet(l) \union {s}
<1> DEFINE c == Append(l, s)
<1>1. /\ c \in Seq(S) /\ Len(c) = Len(l) + 1 /\ c[Len(l) + 1] = s
      /\ \A j \in 1..Len(l) : c[j] = l[j]
  OBVIOUS
<1> HIDE DEF c
<1>2. /\ DOMAIN c = 1..(Len(l) + 1) /\ DOMAIN l = 1..Len(l) /\ Len(l) \in Nat
      /\ \A j \in 1..(Len(l) + 1) : j \in 1..Len(l) \/ j = Len(l) + 1
      /\ Len(l) + 1 \in 1..(Len(l) + 1)
  BY <1>1
<1>3. c # <<>>
  BY <1>1, <1>2
<1>4. IsInjective(c)
  BY <1>1, <1>2 DEF IsInjective, ToSet
<1>5. ToSet(c) = ToSet(l) \union {s}
  BY <1>1, <1>2 DEF ToSet
<1> QED
  BY <1>1, <1>3, <1>4, <1>5 DEF c

-----------------------------------------------------------------------------
(* What holds of the windows *)

TileTypes == [tabs : Seq(Ids), active : Nat, focused : BOOLEAN, mode : BOOLEAN,
              cast : BOOLEAN, size : Nat \X Nat]
Desks == [grid : [Windows -> Seq(Tiles)],
          tile : [Tiles -> TileTypes],
          entry : [Ids -> [cast : BOOLEAN, unread : BOOLEAN]],
          win : [Windows -> [focused : Ids \union {NoSession}, selected : SUBSET Ids,
                             mode : {"Focused", "Broadcast"},
                             active : Ids \union {NoSession}]],
          fresh : SUBSET Ids]

TabSet(d, t) == ToSet(d.tile[t].tabs)
GridSet(d, w) == ToSet(d.grid[w])

\* A session has one tab, a tile one window.
Apart(d) ==
    /\ \A t \in Tiles : IsInjective(d.tile[t].tabs)
    /\ \A t, u \in Tiles : t # u => TabSet(d, t) \cap TabSet(d, u) = {}
    /\ \A w \in Windows : IsInjective(d.grid[w])
    /\ \A v, w \in Windows : v # w => GridSet(d, v) \cap GridSet(d, w) = {}

\* A tile of a window shows one of its tabs, any other is as it was made.
Standing(d) ==
    /\ \A w \in Windows : \A t \in GridSet(d, w) : d.tile[t].active \in DOMAIN d.tile[t].tabs
    /\ \A t \in Tiles : (\A w \in Windows : t \notin GridSet(d, w)) => d.tile[t] = BlankTile

\* What is not marked yet has a tab that is not shown.
Hidden(d) == /\ d.fresh \subseteq Open(d)
             /\ \A t \in Tiles : Shown(d, t) \notin d.fresh

Sound(d) == d \in Desks /\ Apart(d) /\ Standing(d) /\ Hidden(d)

\* The tabs and tiles of a window look as its router is.
Painted(d, w) ==
    LET cast(s) == d.win[w].mode = "Broadcast" /\ s \in d.win[w].selected IN
    /\ \A s \in Tabs(d, w) : d.entry[s].cast = cast(s)
    /\ \A t \in GridSet(d, w) :
         /\ d.tile[t].mode = (d.win[w].mode = "Broadcast")
         /\ d.tile[t].cast = \E s \in TabSet(d, t) : cast(s)

\* The keys go to the tab that its tile shows, and that is the active one.
Keyed(d, w) ==
    /\ d.win[w].focused = d.win[w].active
    /\ IF Tabs(d, w) = {} THEN d.win[w].focused = NoSession
       ELSE d.win[w].focused \in Tabs(d, w)
    /\ \A t \in GridSet(d, w) :
         /\ d.tile[t].focused = (d.win[w].focused \in TabSet(d, t))
         /\ d.tile[t].focused => Shown(d, t) = d.win[w].focused

Lit(d, w) == Painted(d, w) /\ Keyed(d, w) /\ d.win[w].selected \subseteq Tabs(d, w)

\* From d to e nothing that the window v shows has changed.
Leaves(d, e, v) ==
    /\ e.grid[v] = d.grid[v] /\ e.win[v] = d.win[v]
    /\ \A t \in GridSet(d, v) : e.tile[t] = d.tile[t]
    /\ \A s \in Tabs(d, v) : e.entry[s].cast = d.entry[s].cast

\* What is not marked in e was not in d, in the same window.
Keeps(d, e) ==
    /\ e.fresh \subseteq d.fresh
    /\ \A s \in e.fresh : e.entry[s].unread = d.entry[s].unread
    /\ \A s \in e.fresh, w \in Windows : s \in Tabs(e, w) => s \in Tabs(d, w)

\* The parts of a record of Desks.
LEMMA DeskParts ==
    ASSUME NEW d \in Desks
    PROVE  /\ \A w \in Windows : d.grid[w] \in Seq(Tiles) /\ GridSet(d, w) \subseteq Tiles
           /\ \A t \in Tiles : d.tile[t].tabs \in Seq(Ids) /\ TabSet(d, t) \subseteq Ids
           /\ \A t \in Tiles : d.tile[t].active \in Nat
           /\ \A w \in Windows : Tabs(d, w) \subseteq Ids
           /\ d.fresh \subseteq Ids
<1>1. \A w \in Windows : d.grid[w] \in Seq(Tiles)
  BY DEF Desks
<1>2. \A t \in Tiles : d.tile[t].tabs \in Seq(Ids) /\ d.tile[t].active \in Nat
  BY DEF Desks, TileTypes
<1>3. \A w \in Windows : GridSet(d, w) \subseteq Tiles
  BY <1>1 DEF GridSet, ToSet
<1>4. \A t \in Tiles : TabSet(d, t) \subseteq Ids
  BY <1>2 DEF TabSet, ToSet
<1>5. \A w \in Windows : Tabs(d, w) \subseteq Ids
  BY <1>3, <1>4 DEF Tabs, TabSet, GridSet
<1> QED
  BY <1>1, <1>2, <1>3, <1>4, <1>5 DEF Desks

\* A tab is in the tile, and a tile in the window, where it is found.
LEMMA Found ==
    ASSUME NEW d, Sound(d), NEW t \in Tiles, NEW s \in TabSet(d, t)
    PROVE  Home(d, s) = t /\ s \in Ids /\ \E w \in Windows : t \in GridSet(d, w)
<1>1. Home(d, s) = t
  BY DEF Home, Sound, Apart, TabSet
<1>2. s \in Ids
  BY DeskParts DEF Sound
<1>3. d.tile[t].tabs # <<>>
  BY DEF TabSet, ToSet
<1> QED
  BY <1>1, <1>2, <1>3 DEF Sound, Standing, BlankTile

\* The same, of the window.
LEMMA FoundTile ==
    ASSUME NEW d, Sound(d), NEW w \in Windows, NEW t \in GridSet(d, w)
    PROVE  t \in Tiles /\ WindowOf(d, t) = w /\ t \in Placed(d)
<1>1. t \in Tiles
  BY DeskParts DEF Sound
<1>2. WindowOf(d, t) = w
  BY DEF WindowOf, Sound, Apart, GridSet
<1> QED
  BY <1>1, <1>2 DEF Placed, GridSet

\* A session of a window is in no other.
LEMMA FoundTab ==
    ASSUME NEW d, Sound(d), NEW w \in Windows, NEW s \in Tabs(d, w)
    PROVE  /\ s \in Ids /\ s \in Open(d)
           /\ Home(d, s) \in Tiles /\ s \in TabSet(d, Home(d, s))
           /\ Home(d, s) \in GridSet(d, w) /\ WindowOf(d, Home(d, s)) = w
           /\ \A v \in Windows : s \in Tabs(d, v) => v = w
<1>1. PICK t \in GridSet(d, w) : s \in TabSet(d, t)
  BY DEF Tabs, TabSet, GridSet
<1>2. t \in Tiles /\ WindowOf(d, t) = w
  BY FoundTile
<1>3. Home(d, s) = t /\ s \in Ids
  BY <1>1, <1>2, Found
<1>4. ASSUME NEW v \in Windows, s \in Tabs(d, v) PROVE v = w
  <2>1. PICK u \in GridSet(d, v) : s \in TabSet(d, u)
    BY <1>4 DEF Tabs, TabSet, GridSet
  <2>2. u \in Tiles /\ WindowOf(d, u) = v
    BY FoundTile
  <2>3. Home(d, s) = u
    BY <2>1, <2>2, Found
  <2> QED
    BY <1>2, <1>3, <2>2, <2>3
<1> QED
  BY <1>1, <1>2, <1>3, <1>4 DEF Open

\* Who is open is in a window.
LEMMA FoundOpen ==
    ASSUME NEW d, Sound(d), NEW s \in Open(d)
    PROVE  /\ s \in Ids /\ Home(d, s) \in Tiles /\ s \in TabSet(d, Home(d, s))
           /\ WindowOf(d, Home(d, s)) \in Windows
           /\ s \in Tabs(d, WindowOf(d, Home(d, s)))
<1>1. PICK w \in Windows : s \in Tabs(d, w)
  BY DEF Open
<1> QED
  BY <1>1, FoundTab

\* Who has a tab in a tile of a window is in the window.
LEMMA TabInWindow ==
    ASSUME NEW d, NEW w \in Windows, NEW t \in GridSet(d, w), NEW s \in TabSet(d, t)
    PROVE  s \in Tabs(d, w) /\ s \in Open(d)
BY DEF Tabs, Open, GridSet, TabSet

\* What a window shows is as it should be as long as nothing changes it.
LEMMA LeftLit ==
    ASSUME NEW d, NEW e, NEW v \in Windows, Leaves(d, e, v)
    PROVE  /\ GridSet(e, v) = GridSet(d, v) /\ Tabs(e, v) = Tabs(d, v)
           /\ Painted(d, v) => Painted(e, v)
           /\ Keyed(d, v) => Keyed(e, v)
           /\ Lit(d, v) => Lit(e, v)
<1>1. /\ e.grid[v] = d.grid[v] /\ e.win[v] = d.win[v] /\ GridSet(e, v) = GridSet(d, v)
      /\ \A t \in GridSet(d, v) : e.tile[t] = d.tile[t] /\ TabSet(e, t) = TabSet(d, t)
                                  /\ Shown(e, t) = Shown(d, t)
      /\ \A s \in Tabs(d, v) : e.entry[s].cast = d.entry[s].cast
  BY DEF Leaves, GridSet, TabSet, Shown
<1>2. Tabs(e, v) = Tabs(d, v)
  BY <1>1 DEF Tabs, TabSet, GridSet
<1>3. Painted(d, v) => Painted(e, v)
  BY <1>1, <1>2 DEF Painted
<1>4. Keyed(d, v) => Keyed(e, v)
  BY <1>1, <1>2 DEF Keyed
<1> QED
  BY <1>1, <1>2, <1>3, <1>4 DEF Lit

-----------------------------------------------------------------------------
(* TerminalTile *)

\* ActivateTab: the tile's index and colour, and the mark of the tab.
LEMMA ActivateTabDoes ==
    ASSUME NEW d \in Desks, NEW t \in Tiles, NEW i \in DOMAIN d.tile[t].tabs,
           d.tile[t].active # i, NEW s, s = d.tile[t].tabs[i],
           NEW e, e = ActivateTab(d, t, i)
    PROVE  /\ e \in Desks /\ e.grid = d.grid /\ e.win = d.win
           /\ \A u \in Tiles \ {t} : e.tile[u] = d.tile[u]
           /\ e.tile[t].tabs = d.tile[t].tabs /\ e.tile[t].active = i
           /\ e.tile[t].focused = d.tile[t].focused
           /\ e.fresh = d.fresh \ {s}
           /\ \A u \in Ids \ {s} : e.entry[u] = d.entry[u]
           /\ s \in Ids /\ e.entry[s].cast = d.entry[s].cast
<1> DEFINE r == [d.tile[t] EXCEPT !.active = i, !.cast = d.entry[s].cast]
           m == [d.entry[s] EXCEPT !.unread = FALSE]
           T == [d.tile EXCEPT ![t] = r]
           E == [d.entry EXCEPT ![s] = m]
           F == d.fresh \ {s}
<1>1. /\ s \in Ids /\ i \in Nat /\ d.tile[t] \in TileTypes
      /\ d.entry[s] \in [cast : BOOLEAN, unread : BOOLEAN]
  BY DEF Desks, TileTypes
<1>2. e = [d EXCEPT !.grid = d.grid, !.tile = T, !.entry = E, !.fresh = F]
  BY <1>1 DEF ActivateTab, Desks
<1>3. r \in TileTypes /\ m \in [cast : BOOLEAN, unread : BOOLEAN]
  BY <1>1 DEF TileTypes
<1> HIDE DEF r, m
<1>4. /\ T \in [Tiles -> TileTypes] /\ E \in [Ids -> [cast : BOOLEAN, unread : BOOLEAN]]
      /\ F \in SUBSET Ids /\ d.grid \in [Windows -> Seq(Tiles)]
      /\ T[t] = r /\ \A u \in Tiles \ {t} : T[u] = d.tile[u]
      /\ E[s] = m /\ \A u \in Ids \ {s} : E[u] = d.entry[u]
  BY <1>1, <1>3 DEF Desks
<1> HIDE DEF T, E
<1>5. e \in Desks /\ e.grid = d.grid /\ e.tile = T /\ e.entry = E /\ e.fresh = F /\ e.win = d.win
  BY <1>2, <1>4 DEF Desks
<1>6. /\ r.tabs = d.tile[t].tabs /\ r.active = i /\ m.cast = d.entry[s].cast
      /\ r.focused = d.tile[t].focused
  BY <1>1 DEF r, m, TileTypes
<1> QED
  BY <1>1, <1>4, <1>5, <1>6

\* AddTab: the tab comes to the end, and is shown if it is the first.
LEMMA AddTabDoes ==
    ASSUME NEW d \in Desks, NEW t \in Tiles, NEW s \in Ids \ d.fresh,
           d.tile[t].tabs = <<>> => d.tile[t].active = 0,
           NEW e, e = AddTab(d, t, s)
    PROVE  /\ e \in Desks /\ e.grid = d.grid /\ e.win = d.win /\ e.fresh = d.fresh
           /\ \A u \in Tiles \ {t} : e.tile[u] = d.tile[u]
           /\ e.tile[t].tabs = Append(d.tile[t].tabs, s)
           /\ e.tile[t].active = IF d.tile[t].tabs = <<>> THEN 1 ELSE d.tile[t].active
           /\ \A u \in Ids \ {s} : e.entry[u] = d.entry[u]
<1> DEFINE more == [d EXCEPT !.tile[t].tabs = Append(@, s), !.entry[s] = Entry]
           r == [d.tile[t] EXCEPT !.tabs = Append(d.tile[t].tabs, s)]
           T == [d.tile EXCEPT ![t] = r]
           E == [d.entry EXCEPT ![s] = Entry]
<1>1. /\ d.tile[t] \in TileTypes /\ d.tile[t].tabs \in Seq(Ids)
      /\ Append(d.tile[t].tabs, s) \in Seq(Ids) /\ Size[s] \in Nat \X Nat
      /\ Entry \in [cast : BOOLEAN, unread : BOOLEAN]
      /\ d.grid \in [Windows -> Seq(Tiles)] /\ d.fresh \in SUBSET Ids
  BY TilesAssumption DEF Desks, TileTypes, Entry
<1>2. more = [d EXCEPT !.grid = d.grid, !.tile = T, !.entry = E, !.fresh = d.fresh]
  BY DEF Desks
<1>3. /\ r \in TileTypes /\ r.tabs = Append(d.tile[t].tabs, s) /\ r.active = d.tile[t].active
  BY <1>1 DEF TileTypes
<1> HIDE DEF r
<1>4. /\ T \in [Tiles -> TileTypes] /\ E \in [Ids -> [cast : BOOLEAN, unread : BOOLEAN]]
      /\ T[t] = r /\ \A u \in Tiles \ {t} : T[u] = d.tile[u]
      /\ \A u \in Ids \ {s} : E[u] = d.entry[u]
  BY <1>1, <1>3 DEF Desks
<1> HIDE DEF T, E, more
<1>5. /\ more \in Desks /\ more.grid = d.grid /\ more.tile = T /\ more.entry = E
      /\ more.fresh = d.fresh /\ more.win = d.win
  BY <1>1, <1>2, <1>4 DEF Desks
<1>6. CASE d.tile[t].tabs # <<>>
  <2>1. e = more
    BY <1>6 DEF AddTab, more
  <2> QED
    BY <1>3, <1>4, <1>5, <1>6, <2>1
<1>7. CASE d.tile[t].tabs = <<>>
  <2> DEFINE first == [more EXCEPT !.tile[t].size = Size[s]]
             q == [r EXCEPT !.size = Size[s]]
             Q == [T EXCEPT ![t] = q]
  <2>1. e = ActivateTab(first, t, 1)
    BY <1>7 DEF AddTab, more
  <2>2. first = [more EXCEPT !.grid = d.grid, !.tile = Q, !.entry = E, !.fresh = d.fresh]
    BY <1>4, <1>5 DEF Desks
  <2>3. q \in TileTypes /\ q.tabs = r.tabs /\ q.active = r.active
    BY <1>1, <1>3 DEF TileTypes
  <2> HIDE DEF q
  <2>4. Q \in [Tiles -> TileTypes] /\ Q[t] = q /\ \A u \in Tiles \ {t} : Q[u] = T[u]
    BY <1>4, <2>3
  <2> HIDE DEF Q, first
  <2>5. /\ first \in Desks /\ first.grid = d.grid /\ first.tile = Q /\ first.entry = E
        /\ first.fresh = d.fresh /\ first.win = d.win
    BY <1>1, <1>4, <1>5, <2>2, <2>4 DEF Desks
  <2>6. /\ first.tile[t].tabs = Append(d.tile[t].tabs, s) /\ first.tile[t].active = 0
        /\ 1 \in DOMAIN first.tile[t].tabs /\ first.tile[t].tabs[1] = s
    BY <1>3, <1>7, <2>3, <2>4, <2>5
  <2>7. /\ e \in Desks /\ e.grid = first.grid /\ e.win = first.win
        /\ \A u \in Tiles \ {t} : e.tile[u] = first.tile[u]
        /\ e.tile[t].tabs = first.tile[t].tabs /\ e.tile[t].active = 1
        /\ e.fresh = first.fresh \ {s}
        /\ \A u \in Ids \ {s} : e.entry[u] = first.entry[u]
    <3> DEFINE i == 1
    <3>1. i \in DOMAIN first.tile[t].tabs /\ first.tile[t].active # i
      BY <2>6
    <3>2. e = ActivateTab(first, t, i) /\ s = first.tile[t].tabs[i]
      BY <2>1, <2>6
    <3> HIDE DEF i
    <3>3. /\ e \in Desks /\ e.grid = first.grid /\ e.win = first.win
          /\ \A u \in Tiles \ {t} : e.tile[u] = first.tile[u]
          /\ e.tile[t].tabs = first.tile[t].tabs /\ e.tile[t].active = i
          /\ e.fresh = first.fresh \ {s}
          /\ \A u \in Ids \ {s} : e.entry[u] = first.entry[u]
      BY <2>5, <3>1, <3>2, ActivateTabDoes
    <3> QED
      BY <3>3 DEF i
  <2> QED
    BY <1>4, <1>7, <2>4, <2>5, <2>6, <2>7
<1> QED
  BY <1>6, <1>7

\* RemoveTab: the others keep their order, and what was shown stays shown unless it
\* is what goes; then another is shown.
LEMMA RemoveTabDoes ==
    ASSUME NEW d \in Desks, NEW t \in Tiles, NEW s \in TabSet(d, t),
           IsInjective(d.tile[t].tabs), d.tile[t].active \in DOMAIN d.tile[t].tabs,
           Shown(d, t) \notin d.fresh, NEW e, e = RemoveTab(d, t, s)
    PROVE  /\ e \in Desks /\ e.grid = d.grid /\ e.win = d.win
           /\ \A u \in Tiles \ {t} : e.tile[u] = d.tile[u]
           /\ Len(e.tile[t].tabs) = Len(d.tile[t].tabs) - 1
           /\ IsInjective(e.tile[t].tabs) /\ TabSet(e, t) = TabSet(d, t) \ {s}
           /\ e.tile[t].tabs # <<>> =>
                /\ e.tile[t].active \in DOMAIN e.tile[t].tabs
                /\ Shown(e, t) \in TabSet(e, t) \ e.fresh
                /\ Shown(d, t) # s => Shown(e, t) = Shown(d, t)
           /\ e.fresh \subseteq d.fresh \ {s}
           /\ \A u \in Ids \ {s} : e.entry[u].cast = d.entry[u].cast
           /\ \A u \in e.fresh : e.entry[u] = d.entry[u]
<1> DEFINE tabs == d.tile[t].tabs
           i == At(tabs, s)
           a == d.tile[t].active
           n == Len(tabs)
           less == RemoveAt(tabs, i)
           gone == [d EXCEPT !.tile[t].tabs = RemoveAt(@, i), !.entry[s] = Entry,
                             !.fresh = @ \ {s}]
           r == [d.tile[t] EXCEPT !.tabs = less]
           T == [d.tile EXCEPT ![t] = r]
           E == [d.entry EXCEPT ![s] = Entry]
           F == d.fresh \ {s}
           With(k) == [gone EXCEPT !.tile[t].active = k]
<1>1. /\ tabs \in Seq(Ids) /\ s \in Ids /\ d.tile[t] \in TileTypes /\ n \in Nat
      /\ s \in ToSet(tabs) /\ DOMAIN tabs = 1..n
      /\ Entry \in [cast : BOOLEAN, unread : BOOLEAN]
      /\ d.grid \in [Windows -> Seq(Tiles)] /\ F \in SUBSET Ids
  <2>1. s \in Ids /\ s \in ToSet(tabs)
    BY DeskParts DEF TabSet
  <2> QED
    BY <2>1 DEF Desks, TileTypes, Entry
<1>2. i \in 1..n /\ tabs[i] = s
  BY <1>1, AtItsPlace
<1>3. /\ less \in Seq(Ids) /\ Len(less) = n - 1
      /\ \A j \in 1..(n - 1) : less[j] = IF j < i THEN tabs[j] ELSE tabs[j + 1]
      /\ IsInjective(less) /\ ToSet(less) = ToSet(tabs) \ {s}
  <2> HIDE DEF i
  <2>1. IsInjective(tabs)
    OBVIOUS
  <2>2. tabs \in Seq(Ids) /\ i \in 1..Len(tabs)
    BY <1>1, <1>2
  <2> HIDE DEF tabs
  <2>3. /\ RemoveAt(tabs, i) \in Seq(Ids) /\ Len(RemoveAt(tabs, i)) = Len(tabs) - 1
        /\ \A j \in 1..(Len(tabs) - 1) :
              RemoveAt(tabs, i)[j] = IF j < i THEN tabs[j] ELSE tabs[j + 1]
        /\ IsInjective(RemoveAt(tabs, i)) /\ ToSet(RemoveAt(tabs, i)) = ToSet(tabs) \ {tabs[i]}
    BY <2>1, <2>2, TabTakenOut
  <2> QED
    BY <1>2, <2>3
<1>4. a \in 1..n /\ Shown(d, t) = tabs[a] /\ (Shown(d, t) = s <=> a = i)
  BY <1>1, <1>2 DEF Shown, IsInjective
<1>5. gone = [d EXCEPT !.grid = d.grid, !.tile = T, !.entry = E, !.fresh = F]
  BY DEF Desks
<1>6. e = CASE n - 1 = 0 -> With(0)
            [] n - 1 > 0 /\ a = i -> ActivateTab(With(0), t, IF i <= n - 1 THEN i ELSE n - 1)
            [] n - 1 > 0 /\ a > i -> [gone EXCEPT !.tile[t].active = @ - 1]
            [] OTHER -> gone
  BY DEF RemoveTab
<1> HIDE DEF gone, less, i, a, n, tabs
<1>7. r \in TileTypes /\ r.tabs = less /\ r.active = a
  BY <1>1, <1>3 DEF TileTypes, a
<1> HIDE DEF r
<1>8. /\ T \in [Tiles -> TileTypes] /\ E \in [Ids -> [cast : BOOLEAN, unread : BOOLEAN]]
      /\ T[t] = r /\ \A u \in Tiles \ {t} : T[u] = d.tile[u]
      /\ \A u \in Ids \ {s} : E[u] = d.entry[u]
  BY <1>1, <1>7 DEF Desks
<1> HIDE DEF T, E, F
<1>9. /\ gone \in Desks /\ gone.grid = d.grid /\ gone.tile = T /\ gone.entry = E
      /\ gone.fresh = F /\ gone.win = d.win
  BY <1>1, <1>5, <1>8 DEF Desks
\* The index alone is changed.
<1>10. ASSUME NEW k \in Nat
       PROVE  LET f == With(k) IN
              /\ f \in Desks /\ f.grid = d.grid /\ f.win = d.win /\ f.fresh = F
              /\ \A u \in Tiles \ {t} : f.tile[u] = d.tile[u]
              /\ f.tile[t].tabs = less /\ f.tile[t].active = k /\ f.entry = E
  <2> DEFINE q == [r EXCEPT !.active = k]
             Q == [T EXCEPT ![t] = q]
             f == With(k)
  <2>1. f = [gone EXCEPT !.grid = d.grid, !.tile = Q, !.entry = E, !.fresh = F]
    BY <1>8, <1>9 DEF Desks
  <2>2. q \in TileTypes /\ q.tabs = less /\ q.active = k
    BY <1>7 DEF TileTypes
  <2> HIDE DEF q
  <2>3. Q \in [Tiles -> TileTypes] /\ Q[t] = q /\ \A u \in Tiles \ {t} : Q[u] = T[u]
    BY <1>8, <2>2
  <2> HIDE DEF Q, f
  <2>4. /\ f \in Desks /\ f.grid = d.grid /\ f.tile = Q /\ f.entry = E
        /\ f.fresh = F /\ f.win = d.win
    BY <1>1, <1>8, <1>9, <2>1, <2>3 DEF Desks
  <2>5. f \in Desks /\ f.grid = d.grid /\ f.win = d.win /\ f.fresh = F
        /\ (\A u \in Tiles \ {t} : f.tile[u] = d.tile[u])
        /\ f.tile[t].tabs = less /\ f.tile[t].active = k /\ f.entry = E
    BY <1>8, <2>2, <2>3, <2>4
  <2> QED
    BY <2>5 DEF f
<1>11. \A u \in F : u \in Ids \ {s}
  BY <1>1 DEF F
<1> HIDE DEF With
\* What is common to all ways to go on.
<1>12. /\ Len(less) = Len(d.tile[t].tabs) - 1 /\ IsInjective(less)
       /\ ToSet(less) = TabSet(d, t) \ {s} /\ F = d.fresh \ {s} /\ DOMAIN less = 1..(n - 1)
  BY <1>1, <1>3 DEF tabs, n, TabSet, F
<1>13. CASE n - 1 = 0
  <2>1. e = With(0)
    BY <1>6, <1>13
  <2>2. /\ e \in Desks /\ e.grid = d.grid /\ e.win = d.win /\ e.fresh = F
        /\ \A u \in Tiles \ {t} : e.tile[u] = d.tile[u]
        /\ e.tile[t].tabs = less /\ e.tile[t].active = 0 /\ e.entry = E
    BY <1>10, <2>1
  <2>3. less = <<>>
    BY <1>3, <1>13
  <2> QED
    BY <1>8, <1>11, <1>12, <2>2, <2>3 DEF TabSet
<1>14. CASE n - 1 > 0 /\ a = i
  <2> DEFINE k == IF i <= n - 1 THEN i ELSE n - 1
             f == With(0)
  <2>1. e = ActivateTab(f, t, k)
    BY <1>1, <1>2, <1>4, <1>6, <1>14
  <2>2. /\ f \in Desks /\ f.grid = d.grid /\ f.win = d.win /\ f.fresh = F
        /\ \A u \in Tiles \ {t} : f.tile[u] = d.tile[u]
        /\ f.tile[t].tabs = less /\ f.tile[t].active = 0 /\ f.entry = E
    BY <1>10
  <2>3. k \in 1..(n - 1) /\ k # 0
    BY <1>1, <1>2, <1>14
  <2> HIDE DEF f, k
  <2>4. k \in DOMAIN less /\ less[k] \in ToSet(less)
    BY <1>12, <2>3 DEF ToSet
  <2>5. /\ e \in Desks /\ e.grid = f.grid /\ e.win = f.win
        /\ \A u \in Tiles \ {t} : e.tile[u] = f.tile[u]
        /\ e.tile[t].tabs = f.tile[t].tabs /\ e.tile[t].active = k
        /\ e.fresh = f.fresh \ {less[k]}
        /\ \A u \in Ids \ {less[k]} : e.entry[u] = f.entry[u]
        /\ less[k] \in Ids /\ e.entry[less[k]].cast = f.entry[less[k]].cast
    BY <2>1, <2>2, <2>3, <2>4, ActivateTabDoes
  <2>6. e.tile[t].tabs = less /\ e.tile[t].active = k
    BY <2>2, <2>5
  <2>7. Shown(e, t) = less[k]
    BY <2>4, <2>6 DEF Shown
  <2>9. \A u \in Ids \ {s} : e.entry[u].cast = d.entry[u].cast
    BY <1>8, <2>2, <2>5
  <2>10. \A u \in e.fresh : e.entry[u] = d.entry[u]
    <3>1. \A u \in e.fresh : u \in Ids \ {s} /\ u # less[k]
      BY <1>11, <2>2, <2>5
    <3> QED
      BY <1>8, <2>2, <2>5, <3>1
  <2>11. e.fresh \subseteq F /\ less[k] \notin e.fresh
    BY <2>2, <2>5
  <2>12. Shown(d, t) = s
    BY <1>4, <1>14
  <2> QED
    BY <1>12, <2>2, <2>4, <2>5, <2>6, <2>7, <2>9, <2>10, <2>11, <2>12 DEF TabSet
<1>15. CASE n - 1 > 0 /\ a > i
  <2>1. e = With(a - 1)
    <3>1. e = [gone EXCEPT !.tile[t].active = @ - 1]
      BY <1>6, <1>15, <1>1, <1>2, <1>4
    <3> QED
      BY <1>7, <1>8, <1>9, <3>1 DEF With
  <2>2. /\ e \in Desks /\ e.grid = d.grid /\ e.win = d.win /\ e.fresh = F
        /\ \A u \in Tiles \ {t} : e.tile[u] = d.tile[u]
        /\ e.tile[t].tabs = less /\ e.tile[t].active = a - 1 /\ e.entry = E
    <3>1. a - 1 \in Nat
      BY <1>2, <1>4, <1>15
    <3> QED
      BY <1>10, <2>1, <3>1
  <2>3. /\ a - 1 \in DOMAIN less /\ less[a - 1] = tabs[a] /\ less[a - 1] \in ToSet(less)
    <3>1. a - 1 \in 1..(n - 1) /\ ~(a - 1 < i) /\ (a - 1) + 1 = a
      BY <1>2, <1>4, <1>15, <1>1
    <3> QED
      BY <1>3, <1>12, <3>1 DEF ToSet
  <2>4. Shown(e, t) = Shown(d, t)
    BY <1>4, <2>2, <2>3 DEF Shown
  <2> QED
    BY <1>4, <1>8, <1>11, <1>12, <2>2, <2>3, <2>4 DEF TabSet
<1>16. CASE n - 1 > 0 /\ a < i
  <2>1. e = gone
    BY <1>6, <1>16, <1>1, <1>2, <1>4
  <2>2. a \in DOMAIN less /\ less[a] = tabs[a] /\ less[a] \in ToSet(less)
    <3>1. a \in 1..(n - 1)
      BY <1>2, <1>4, <1>16, <1>1
    <3> QED
      BY <1>3, <1>12, <1>16, <3>1 DEF ToSet
  <2>3. Shown(e, t) = Shown(d, t)
    BY <1>4, <1>7, <1>8, <1>9, <2>1, <2>2 DEF Shown
  <2>4. e.tile[t].tabs = less /\ e.tile[t].active = a
    BY <1>7, <1>8, <1>9, <2>1
  <2> QED
    BY <1>4, <1>8, <1>9, <1>11, <1>12, <2>1, <2>2, <2>3, <2>4 DEF TabSet
<1> QED
  BY <1>1, <1>2, <1>4, <1>13, <1>14, <1>15, <1>16

\* A part of a list.
LEMMA Part ==
    ASSUME NEW S, NEW l \in Seq(S), NEW m \in 1..(Len(l) + 1), NEW k \in (m - 1)..Len(l)
    PROVE  /\ SubSeq(l, m, k) \in Seq(S) /\ Len(SubSeq(l, m, k)) = k - m + 1
           /\ \A j \in 1..(k - m + 1) : SubSeq(l, m, k)[j] = l[j + m - 1]
<1>1. Len(l) \in Nat /\ m \in 1..(Len(l) + 1) /\ k \in (m - 1)..Len(l) /\ m \in Nat /\ k \in Nat
  OBVIOUS
<1>2. \A j \in m..k : l[j] \in S
  BY <1>1
<1>3. /\ SubSeq(l, m, k) \in Seq(S)
      /\ Len(SubSeq(l, m, k)) = IF m <= k THEN k - m + 1 ELSE 0
      /\ \A j \in 1..(k - m + 1) : SubSeq(l, m, k)[j] = l[m + j - 1]
  BY <1>1, <1>2, SubSeqProperties
<1> QED
  BY <1>1, <1>3

\* Two lists, one after the other.
LEMMA Joined ==
    ASSUME NEW S, NEW a \in Seq(S), NEW b \in Seq(S), NEW c, c = a \o b
    PROVE  /\ c \in Seq(S) /\ Len(c) = Len(a) + Len(b)
           /\ \A j \in 1..Len(a) : c[j] = a[j]
           /\ \A j \in 1..Len(b) : c[Len(a) + j] = b[j]
<1>1. Len(a) \in Nat /\ Len(b) \in Nat
  OBVIOUS
<1>2. /\ c \in Seq(S) /\ Len(c) = Len(a) + Len(b)
      /\ \A j \in 1..(Len(a) + Len(b)) : c[j] = IF j <= Len(a) THEN a[j] ELSE b[j - Len(a)]
  BY ConcatProperties
<1>3. ASSUME NEW j \in 1..Len(b) PROVE c[Len(a) + j] = b[j]
  <2>1. Len(a) + j \in 1..(Len(a) + Len(b)) /\ ~(Len(a) + j <= Len(a)) /\ (Len(a) + j) - Len(a) = j
    BY <1>1
  <2> QED
    BY <1>2, <2>1
<1>4. ASSUME NEW j \in 1..Len(a) PROVE c[j] = a[j]
  <2>1. j \in 1..(Len(a) + Len(b)) /\ j <= Len(a)
    BY <1>1
  <2> QED
    BY <1>2, <2>1
<1> QED
  BY <1>2, <1>3, <1>4

\* Four lists.
LEMMA JoinedFour ==
    ASSUME NEW S, NEW a \in Seq(S), NEW b \in Seq(S), NEW c \in Seq(S), NEW d \in Seq(S),
           NEW r, r = ((a \o b) \o c) \o d
    PROVE  /\ r \in Seq(S) /\ Len(r) = Len(a) + Len(b) + Len(c) + Len(d)
           /\ \A j \in 1..Len(a) : r[j] = a[j]
           /\ \A j \in 1..Len(b) : r[Len(a) + j] = b[j]
           /\ \A j \in 1..Len(c) : r[Len(a) + Len(b) + j] = c[j]
           /\ \A j \in 1..Len(d) : r[Len(a) + Len(b) + Len(c) + j] = d[j]
<1> DEFINE p == a \o b
           q == p \o c
           x == Len(a) + Len(b)
           y == Len(a) + Len(b) + Len(c)
<1>1. /\ Len(a) \in Nat /\ Len(b) \in Nat /\ Len(c) \in Nat /\ Len(d) \in Nat
      /\ x = Len(a) + Len(b) /\ y = x + Len(c)
  OBVIOUS
<1>2. /\ p \in Seq(S) /\ Len(p) = x
      /\ \A j \in 1..Len(a) : p[j] = a[j]
      /\ \A j \in 1..Len(b) : p[Len(a) + j] = b[j]
  BY Joined
<1> HIDE DEF x, y
<1>3. r = q \o d
  OBVIOUS
<1> HIDE DEF p
<1>4. /\ q \in Seq(S) /\ Len(q) = y
      /\ \A j \in 1..x : q[j] = p[j]
      /\ \A j \in 1..Len(c) : q[x + j] = c[j]
  <2>1. p \in Seq(S) /\ q = p \o c
    BY <1>2
  <2> HIDE DEF q
  <2>2. /\ q \in Seq(S) /\ Len(q) = Len(p) + Len(c)
        /\ \A j \in 1..Len(p) : q[j] = p[j]
        /\ \A j \in 1..Len(c) : q[Len(p) + j] = c[j]
    BY <2>1, Joined
  <2> QED
    BY <1>1, <1>2, <2>2
<1> HIDE DEF q
<1>5. /\ r \in Seq(S) /\ Len(r) = y + Len(d)
      /\ \A j \in 1..y : r[j] = q[j]
      /\ \A j \in 1..Len(d) : r[y + j] = d[j]
  <2>1. q \in Seq(S) /\ r = q \o d
    BY <1>3, <1>4
  <2>2. /\ r \in Seq(S) /\ Len(r) = Len(q) + Len(d)
        /\ \A j \in 1..Len(q) : r[j] = q[j]
        /\ \A j \in 1..Len(d) : r[Len(q) + j] = d[j]
    BY <2>1, Joined
  <2> QED
    BY <1>4, <2>2
<1>6. ASSUME NEW j \in 1..Len(a) PROVE r[j] = a[j]
  <2>1. j \in 1..x /\ j \in 1..y
    BY <1>1
  <2> QED
    BY <1>2, <1>4, <1>5, <2>1
<1>7. ASSUME NEW j \in 1..Len(b) PROVE r[Len(a) + j] = b[j]
  <2>1. Len(a) + j \in 1..x /\ Len(a) + j \in 1..y
    BY <1>1
  <2> QED
    BY <1>2, <1>4, <1>5, <2>1
<1>8. ASSUME NEW j \in 1..Len(c) PROVE r[x + j] = c[j]
  <2>1. x + j \in 1..y
    BY <1>1
  <2> QED
    BY <1>4, <1>5, <2>1
<1> QED
  BY <1>5, <1>6, <1>7, <1>8 DEF x, y

\* Where the k-th of a list is once the i-th was put behind the first b.
Lands(i, b, k) ==
    IF k = i THEN IF b < i THEN b + 1 ELSE b
    ELSE IF b < k /\ k < i THEN k + 1
    ELSE IF i < k /\ k <= b THEN k - 1 ELSE k

\* Rotated puts every tab there, and each of them once.
LEMMA RotatedDoes ==
    ASSUME NEW S, NEW l \in Seq(S), IsInjective(l), NEW i \in 1..Len(l), NEW b \in 0..Len(l),
           b \notin {i - 1, i}, NEW r, r = Rotated(l, i, b)
    PROVE  /\ r \in Seq(S) /\ Len(r) = Len(l) /\ IsInjective(r) /\ ToSet(r) = ToSet(l)
           /\ \A k \in 1..Len(l) : Lands(i, b, k) \in 1..Len(l) /\ r[Lands(i, b, k)] = l[k]
<1> DEFINE n == Len(l)
           To(k) == Lands(i, b, k)
           Of(j) == IF b < i THEN (IF j <= b THEN j ELSE IF j = b + 1 THEN i
                                   ELSE IF j <= i THEN j - 1 ELSE j)
                    ELSE (IF j < i THEN j ELSE IF j < b THEN j + 1
                          ELSE IF j = b THEN i ELSE j)
           B == <<l[i]>>
<1>1. /\ n \in Nat /\ i \in 1..n /\ b \in 0..n /\ DOMAIN l = 1..n /\ l[i] \in S
      /\ B \in Seq(S) /\ Len(B) = 1 /\ B[1] = l[i]
  OBVIOUS
<1>2. r \in Seq(S) /\ Len(r) = n /\ \A k \in 1..n : r[To(k)] = l[k]
  <2>1. CASE b < i
    <3> DEFINE A == SubSeq(l, 1, b)
               C == SubSeq(l, b + 1, i - 1)
               D == SubSeq(l, i + 1, n)
    <3>1. r = ((A \o B) \o C) \o D
      BY <2>1 DEF Rotated
    <3>2. A \in Seq(S) /\ Len(A) = b /\ \A j \in 1..b : A[j] = l[j]
      <4>1. 1 \in 1..(Len(l) + 1) /\ b \in (1 - 1)..Len(l)
        BY <1>1
      <4> QED
        BY <4>1, Part
    <3>4. C \in Seq(S) /\ Len(C) = i - 1 - b /\ \A j \in 1..(i - 1 - b) : C[j] = l[j + b]
      <4>1. b + 1 \in 1..(Len(l) + 1) /\ i - 1 \in ((b + 1) - 1)..Len(l)
        BY <1>1, <2>1
      <4> QED
        BY <4>1, Part
    <3>5. D \in Seq(S) /\ Len(D) = n - i /\ \A j \in 1..(n - i) : D[j] = l[j + i]
      <4>1. i + 1 \in 1..(Len(l) + 1) /\ n \in ((i + 1) - 1)..Len(l)
        BY <1>1, <2>1
      <4> QED
        BY <4>1, Part
    <3> HIDE DEF A, B, C, D, n
    <3>6. b + 1 \in Nat /\ i \in Nat /\ b + 1 = Len(A) + Len(B) /\ i = (b + 1) + Len(C)
      BY <1>1, <2>1, <3>2, <3>4
    <3>7. /\ r \in Seq(S) /\ Len(r) = i + Len(D)
          /\ \A j \in 1..Len(A) : r[j] = A[j]
          /\ \A j \in 1..Len(B) : r[Len(A) + j] = B[j]
          /\ \A j \in 1..Len(C) : r[(b + 1) + j] = C[j]
          /\ \A j \in 1..Len(D) : r[i + j] = D[j]
      <4> DEFINE x == b + 1
      <4>1. x \in Nat /\ x = Len(A) + Len(B) /\ i = x + Len(C)
        BY <3>6
      <4> HIDE DEF x
      <4>2. /\ r \in Seq(S) /\ Len(r) = i + Len(D)
            /\ \A j \in 1..Len(A) : r[j] = A[j]
            /\ \A j \in 1..Len(B) : r[Len(A) + j] = B[j]
            /\ \A j \in 1..Len(C) : r[x + j] = C[j]
            /\ \A j \in 1..Len(D) : r[i + j] = D[j]
        <5> HIDE DEF B
        <5>1. A \in Seq(S) /\ B \in Seq(S) /\ C \in Seq(S) /\ D \in Seq(S)
          BY <1>1, <3>2, <3>4, <3>5
        <5>2. /\ r \in Seq(S) /\ Len(r) = Len(A) + Len(B) + Len(C) + Len(D)
              /\ \A j \in 1..Len(A) : r[j] = A[j]
              /\ \A j \in 1..Len(B) : r[Len(A) + j] = B[j]
              /\ \A j \in 1..Len(C) : r[Len(A) + Len(B) + j] = C[j]
              /\ \A j \in 1..Len(D) : r[Len(A) + Len(B) + Len(C) + j] = D[j]
          BY <3>1, <5>1, JoinedFour
        <5>3. x = Len(A) + Len(B) /\ i = Len(A) + Len(B) + Len(C)
          BY <3>6, <4>1
        <5> QED
          BY <5>2, <5>3
      <4> QED
        BY <4>2 DEF x
    <3>8. ASSUME NEW k \in 1..n PROVE r[To(k)] = l[k]
      <4>1. CASE k <= b
        <5>1. To(k) = k /\ k \in 1..b
          BY <1>1, <2>1, <4>1 DEF Lands
        <5> QED
          BY <3>2, <3>7, <5>1
      <4>2. CASE k = i
        <5>1. To(k) = b + 1 /\ 1 \in 1..1
          BY <1>1, <2>1, <4>2 DEF Lands
        <5> QED
          BY <1>1, <3>2, <3>7, <4>2, <5>1
      <4>3. CASE b < k /\ k < i
        <5>1. To(k) = (b + 1) + (k - b) /\ k - b \in 1..(i - 1 - b) /\ (k - b) + b = k
          BY <1>1, <2>1, <4>3 DEF Lands
        <5>2. r[(b + 1) + (k - b)] = C[k - b] /\ C[k - b] = l[(k - b) + b]
          BY <3>4, <3>7, <5>1
        <5> QED
          BY <5>1, <5>2
      <4>4. CASE k > i
        <5>1. To(k) = i + (k - i) /\ k - i \in 1..(n - i) /\ (k - i) + i = k
          BY <1>1, <2>1, <4>4 DEF Lands
        <5> QED
          BY <3>5, <3>7, <5>1
      <4> QED
        BY <1>1, <4>1, <4>2, <4>3, <4>4
    <3> QED
      BY <1>1, <3>5, <3>7, <3>8
  <2>2. CASE b > i
    <3> DEFINE A == SubSeq(l, 1, i - 1)
               C == SubSeq(l, i + 1, b)
               D == SubSeq(l, b + 1, n)
    <3>1. r = ((A \o C) \o B) \o D
      <4>1. ~(b < i)
        BY <1>1, <2>2
      <4> QED
        BY <4>1 DEF Rotated
    <3>2. A \in Seq(S) /\ Len(A) = i - 1 /\ \A j \in 1..(i - 1) : A[j] = l[j]
      <4>1. 1 \in 1..(Len(l) + 1) /\ i - 1 \in (1 - 1)..Len(l)
        BY <1>1
      <4> QED
        BY <4>1, Part
    <3>4. C \in Seq(S) /\ Len(C) = b - i /\ \A j \in 1..(b - i) : C[j] = l[j + i]
      <4>1. i + 1 \in 1..(Len(l) + 1) /\ b \in ((i + 1) - 1)..Len(l)
        BY <1>1, <2>2
      <4> QED
        BY <4>1, Part
    <3>5. D \in Seq(S) /\ Len(D) = n - b /\ \A j \in 1..(n - b) : D[j] = l[j + b]
      <4>1. b + 1 \in 1..(Len(l) + 1) /\ n \in ((b + 1) - 1)..Len(l)
        BY <1>1, <2>2
      <4> QED
        BY <4>1, Part
    <3> HIDE DEF A, B, C, D, n
    <3>7. /\ r \in Seq(S) /\ Len(r) = b + Len(D)
          /\ \A j \in 1..Len(A) : r[j] = A[j]
          /\ \A j \in 1..Len(C) : r[Len(A) + j] = C[j]
          /\ \A j \in 1..Len(B) : r[(b - 1) + j] = B[j]
          /\ \A j \in 1..Len(D) : r[b + j] = D[j]
      <4> DEFINE x == b - 1
      <4>1. x \in Nat /\ x = Len(A) + Len(C) /\ b = x + Len(B) /\ b \in Nat
        BY <1>1, <2>2, <3>2, <3>4
      <4> HIDE DEF x
      <4>2. /\ r \in Seq(S) /\ Len(r) = b + Len(D)
            /\ \A j \in 1..Len(A) : r[j] = A[j]
            /\ \A j \in 1..Len(C) : r[Len(A) + j] = C[j]
            /\ \A j \in 1..Len(B) : r[x + j] = B[j]
            /\ \A j \in 1..Len(D) : r[b + j] = D[j]
        <5> HIDE DEF B
        <5>1. A \in Seq(S) /\ B \in Seq(S) /\ C \in Seq(S) /\ D \in Seq(S)
          BY <1>1, <3>2, <3>4, <3>5
        <5>2. /\ r \in Seq(S) /\ Len(r) = Len(A) + Len(C) + Len(B) + Len(D)
              /\ \A j \in 1..Len(A) : r[j] = A[j]
              /\ \A j \in 1..Len(C) : r[Len(A) + j] = C[j]
              /\ \A j \in 1..Len(B) : r[Len(A) + Len(C) + j] = B[j]
              /\ \A j \in 1..Len(D) : r[Len(A) + Len(C) + Len(B) + j] = D[j]
          BY <3>1, <5>1, JoinedFour
        <5>3. x = Len(A) + Len(C) /\ b = Len(A) + Len(C) + Len(B)
          BY <4>1
        <5> QED
          BY <5>2, <5>3
      <4> QED
        BY <4>2 DEF x
    <3>8. ASSUME NEW k \in 1..n PROVE r[To(k)] = l[k]
      <4>1. CASE k < i
        <5>1. To(k) = k /\ k \in 1..(i - 1)
          BY <1>1, <2>2, <4>1 DEF Lands
        <5> QED
          BY <3>2, <3>7, <5>1
      <4>2. CASE k = i
        <5>1. To(k) = (b - 1) + 1 /\ 1 \in 1..1
          BY <1>1, <2>2, <4>2 DEF Lands
        <5> QED
          BY <1>1, <3>7, <4>2, <5>1
      <4>3. CASE i < k /\ k <= b
        <5>1. To(k) = (i - 1) + (k - i) /\ k - i \in 1..(b - i) /\ (k - i) + i = k
          BY <1>1, <2>2, <4>3 DEF Lands
        <5>2. r[(i - 1) + (k - i)] = C[k - i] /\ C[k - i] = l[(k - i) + i]
          BY <3>2, <3>4, <3>7, <5>1
        <5> QED
          BY <5>1, <5>2
      <4>4. CASE k > b
        <5>1. To(k) = b + (k - b) /\ k - b \in 1..(n - b) /\ (k - b) + b = k
          BY <1>1, <2>2, <4>4 DEF Lands
        <5> QED
          BY <3>5, <3>7, <5>1
      <4> QED
        BY <1>1, <4>1, <4>2, <4>3, <4>4
    <3> QED
      BY <1>1, <3>5, <3>7, <3>8
  <2> QED
    BY <1>1, <2>1, <2>2
<1>3. \A j \in 1..n : Of(j) \in 1..n /\ To(Of(j)) = j
  BY <1>1 DEF Lands
<1>4. \A k \in 1..n : To(k) \in 1..n
  BY <1>1 DEF Lands
<1>5. \A j, k \in 1..n : l[j] = l[k] => j = k
  BY <1>1 DEF IsInjective
<1> HIDE DEF Of, To, n
<1>6. DOMAIN r = 1..n /\ DOMAIN l = 1..n
  BY <1>1, <1>2, LenProperties
<1>7. \A j \in 1..n : r[j] = l[Of(j)]
  BY <1>2, <1>3
<1>8. IsInjective(r)
  <2> SUFFICES ASSUME NEW j \in 1..n, NEW k \in 1..n, r[j] = r[k] PROVE j = k
    BY <1>6 DEF IsInjective
  <2>1. Of(j) = Of(k)
    BY <1>3, <1>5, <1>7
  <2> QED
    BY <1>3, <2>1
<1>9. ToSet(r) \subseteq ToSet(l)
  <2> SUFFICES ASSUME NEW j \in 1..n PROVE r[j] \in ToSet(l)
    BY <1>6 DEF ToSet
  <2> QED
    BY <1>3, <1>6, <1>7 DEF ToSet
<1>10. ToSet(l) \subseteq ToSet(r)
  <2> SUFFICES ASSUME NEW k \in 1..n PROVE l[k] \in ToSet(r)
    BY <1>6 DEF ToSet
  <2> QED
    BY <1>2, <1>4, <1>6 DEF ToSet
<1> QED
  BY <1>2, <1>4, <1>8, <1>9, <1>10 DEF To, n

\* MoveTabToIndex: the tab stands where it was dropped, the others keep their order,
\* and what is shown stays shown.
LEMMA MoveTabDoes ==
    ASSUME NEW d \in Desks, NEW t \in Tiles, NEW s \in TabSet(d, t),
           IsInjective(d.tile[t].tabs), d.tile[t].active \in DOMAIN d.tile[t].tabs,
           NEW before \in 0..Len(d.tile[t].tabs),
           NEW e, e = MoveTabToIndex(d, t, s, before)
    PROVE  /\ e \in Desks /\ e.grid = d.grid /\ e.win = d.win
           /\ e.entry = d.entry /\ e.fresh = d.fresh
           /\ \A u \in Tiles \ {t} : e.tile[u] = d.tile[u]
           /\ e.tile[t].focused = d.tile[t].focused /\ e.tile[t].mode = d.tile[t].mode
           /\ e.tile[t].cast = d.tile[t].cast
           /\ IsInjective(e.tile[t].tabs) /\ TabSet(e, t) = TabSet(d, t)
           /\ e.tile[t].active \in DOMAIN e.tile[t].tabs /\ Shown(e, t) = Shown(d, t)
           /\ \A u, v \in TabSet(d, t) \ {s} :
                (At(e.tile[t].tabs, u) < At(e.tile[t].tabs, v))
                  = (At(d.tile[t].tabs, u) < At(d.tile[t].tabs, v))
           /\ \A u \in TabSet(d, t) \ {s} :
                (At(e.tile[t].tabs, u) < At(e.tile[t].tabs, s)) = (At(d.tile[t].tabs, u) <= before)
<1> DEFINE tabs == d.tile[t].tabs
           a == d.tile[t].active
           i == At(tabs, s)
           n == Len(tabs)
<1>1. /\ tabs \in Seq(Ids) /\ s \in ToSet(tabs) /\ d.tile[t] \in TileTypes /\ n \in Nat
      /\ DOMAIN tabs = 1..n /\ a \in 1..n /\ IsInjective(tabs)
  <2>1. s \in ToSet(tabs)
    BY DeskParts DEF TabSet
  <2> QED
    BY <2>1 DEF Desks, TileTypes
<1>2. i \in 1..n /\ tabs[i] = s
  BY <1>1, AtItsPlace
<1>3. \A u \in ToSet(tabs) : At(tabs, u) \in 1..n /\ tabs[At(tabs, u)] = u
  BY <1>1, AtItsPlace
<1>4. CASE before \in {i - 1, i}
  <2>1. e = d
    BY <1>4 DEF MoveTabToIndex
  <2>2. \A u \in ToSet(tabs) \ {s} : At(tabs, u) # i
    BY <1>2, <1>3
  <2> HIDE DEF i, n, tabs, a
  <2>3. \A u \in ToSet(tabs) \ {s} : (At(tabs, u) < At(tabs, s)) = (At(tabs, u) <= before)
    <3> SUFFICES ASSUME NEW u \in ToSet(tabs) \ {s}
                 PROVE  (At(tabs, u) < i) = (At(tabs, u) <= before)
      BY DEF i
    <3>1. At(tabs, u) \in 1..n /\ At(tabs, u) # i
      BY <1>3, <2>2
    <3> HIDE DEF i
    <3> QED
      BY <1>1, <1>2, <1>4, <3>1
  <2> QED
    BY <1>1, <2>1, <2>3 DEF TabSet, tabs, a
<1>5. CASE before \notin {i - 1, i}
  <2> DEFINE now == Rotated(tabs, i, before)
             b == CASE a = i /\ before < i -> before + 1
                    [] a = i /\ before > i -> before
                    [] a \in before + 1..i - 1 -> a + 1
                    [] a \in i + 1..before -> a - 1
                    [] OTHER -> a
             r == [d.tile[t] EXCEPT !.tabs = now, !.active = b]
             T == [d.tile EXCEPT ![t] = r]
  <2>1. e = [d EXCEPT !.tile[t].tabs = now, !.tile[t].active = b]
    BY <1>5 DEF MoveTabToIndex
  <2>2. e = [d EXCEPT !.grid = d.grid, !.tile = T, !.entry = d.entry, !.fresh = d.fresh]
    <3> HIDE DEF now, b
    <3> HIDE DEF i, tabs, n, a
    <3>1. [d EXCEPT !.tile[t].tabs = now, !.tile[t].active = b] = [d EXCEPT !.tile = T]
      BY Zenon DEF Desks
    <3>2. [d EXCEPT !.tile = T]
            = [d EXCEPT !.grid = d.grid, !.tile = T, !.entry = d.entry, !.fresh = d.fresh]
      BY Zenon DEF Desks
    <3> QED
      BY <2>1, <3>1, <3>2, Zenon
  <2> HIDE DEF now, i
  <2>3. before \in 0..n
    OBVIOUS
  <2> HIDE DEF tabs, n, a
  <2>4. b = Lands(i, before, a)
    BY <1>1, <1>2, <1>5, <2>3 DEF Lands
  <2> HIDE DEF b
  <2>5. /\ now \in Seq(Ids) /\ Len(now) = n /\ IsInjective(now) /\ ToSet(now) = ToSet(tabs)
        /\ \A k \in 1..n : Lands(i, before, k) \in 1..n /\ now[Lands(i, before, k)] = tabs[k]
    <3>1. i \in 1..Len(tabs) /\ before \in 0..Len(tabs) /\ now = Rotated(tabs, i, before)
      BY <1>2, <2>3 DEF n, now
    <3>2. /\ now \in Seq(Ids) /\ Len(now) = Len(tabs) /\ IsInjective(now) /\ ToSet(now) = ToSet(tabs)
          /\ \A k \in 1..Len(tabs) : /\ Lands(i, before, k) \in 1..Len(tabs)
                                     /\ now[Lands(i, before, k)] = tabs[k]
      BY <1>1, <1>5, <3>1, RotatedDoes
    <3> QED
      BY <3>2 DEF n
  <2>6. r \in TileTypes /\ r.tabs = now /\ r.active = b
        /\ r.focused = d.tile[t].focused /\ r.mode = d.tile[t].mode /\ r.cast = d.tile[t].cast
    <3>1. b \in Nat
      BY <1>1, <2>4, <2>5
    <3> HIDE DEF now
    <3> QED
      BY <1>1, <2>5, <3>1 DEF TileTypes
  <2> HIDE DEF r
  <2>7. /\ T \in [Tiles -> TileTypes] /\ T[t] = r /\ \A u \in Tiles \ {t} : T[u] = d.tile[u]
        /\ d.grid \in [Windows -> Seq(Tiles)]
    BY <2>6 DEF Desks
  <2> HIDE DEF T
  <2>8. /\ e \in Desks /\ e.grid = d.grid /\ e.tile = T /\ e.entry = d.entry
        /\ e.fresh = d.fresh /\ e.win = d.win
    BY <2>2, <2>7 DEF Desks
  <2>9. DOMAIN now = 1..n
    BY <1>1, <2>5, LenProperties
  <2>10. \A k \in 1..n : At(now, tabs[k]) = Lands(i, before, k)
    BY <2>5, <2>9, AtNoOther
  <2>11. b \in 1..n /\ now[b] = tabs[a]
    BY <1>1, <2>4, <2>5
  <2>12. Shown(e, t) = Shown(d, t)
    BY <1>1, <2>6, <2>7, <2>8, <2>9, <2>11 DEF Shown, tabs, a
  <2>13. \A u \in ToSet(tabs) : At(now, u) = Lands(i, before, At(tabs, u))
    BY <1>3, <2>10
  <2>14. \A u \in ToSet(tabs) \ {s} : At(tabs, u) # i /\ At(tabs, u) \in 1..n
    BY <1>2, <1>3
  <2>15. \A u, v \in ToSet(tabs) \ {s} :
           (At(now, u) < At(now, v)) = (At(tabs, u) < At(tabs, v))
    <3> SUFFICES ASSUME NEW u \in ToSet(tabs) \ {s}, NEW v \in ToSet(tabs) \ {s}
                 PROVE  (At(now, u) < At(now, v)) = (At(tabs, u) < At(tabs, v))
      OBVIOUS
    <3> DEFINE j == At(tabs, u)
               k == At(tabs, v)
    <3>1. At(now, u) = Lands(i, before, j) /\ At(now, v) = Lands(i, before, k)
      BY <2>13
    <3>2. j # i /\ j \in 1..n /\ k # i /\ k \in 1..n
      BY <2>14
    <3> HIDE DEF j, k
    <3>3. (Lands(i, before, j) < Lands(i, before, k)) = (j < k)
      BY <1>1, <1>2, <2>3, <3>2 DEF Lands
    <3> QED
      BY <3>1, <3>3 DEF j, k
  <2>16. \A u \in ToSet(tabs) \ {s} : (At(now, u) < At(now, s)) = (At(tabs, u) <= before)
    <3> SUFFICES ASSUME NEW u \in ToSet(tabs) \ {s}
                 PROVE  (At(now, u) < At(now, s)) = (At(tabs, u) <= before)
      OBVIOUS
    <3> DEFINE j == At(tabs, u)
    <3>1. At(now, u) = Lands(i, before, j) /\ At(now, s) = Lands(i, before, i)
      BY <1>1, <2>13 DEF i
    <3>2. j # i /\ j \in 1..n
      BY <2>14
    <3> HIDE DEF j
    <3>3. (Lands(i, before, j) < Lands(i, before, i)) = (j <= before)
      BY <1>1, <1>2, <1>5, <2>3, <3>2 DEF Lands
    <3> QED
      BY <3>1, <3>3 DEF j
  <2> QED
    BY <2>5, <2>6, <2>7, <2>8, <2>9, <2>11, <2>12, <2>15, <2>16 DEF TabSet, tabs
<1> QED
  BY <1>4, <1>5

\* TabsKeepTheirPlace, whatever the windows are.
LEMMA PlacesKept ==
    ASSUME Sound(desk)
    PROVE  TabsKeepTheirPlace
<1> SUFFICES ASSUME NEW t \in Placed(desk), NEW s \in ToSet(desk.tile[t].tabs)
    PROVE /\ LET d == RemoveTab(desk, t, s) IN
               IF Shown(desk, t) # s THEN Shown(d, t) = Shown(desk, t)
               ELSE Len(desk.tile[t].tabs) > 1 => Shown(d, t) \in ToSet(desk.tile[t].tabs) \ {s}
          /\ \A before \in 0..Len(desk.tile[t].tabs) :
               LET d == MoveTabToIndex(desk, t, s, before)  now == d.tile[t].tabs IN
               /\ Shown(d, t) = Shown(desk, t)
               /\ \A u, v \in ToSet(desk.tile[t].tabs) \ {s} :
                    (At(now, u) < At(now, v))
                      = (At(desk.tile[t].tabs, u) < At(desk.tile[t].tabs, v))
               /\ \A u \in ToSet(desk.tile[t].tabs) \ {s} :
                    (At(now, u) < At(now, s)) = (At(desk.tile[t].tabs, u) <= before)
  BY Zenon DEF TabsKeepTheirPlace
<1>1. PICK w \in Windows : t \in GridSet(desk, w)
  BY DEF Placed, GridSet
<1>2. t \in Tiles /\ desk \in Desks /\ s \in TabSet(desk, t)
  BY <1>1, FoundTile DEF Sound, TabSet
<1>3. /\ IsInjective(desk.tile[t].tabs) /\ desk.tile[t].active \in DOMAIN desk.tile[t].tabs
      /\ Shown(desk, t) \notin desk.fresh /\ desk.tile[t].tabs \in Seq(Ids)
  BY <1>1, <1>2, DeskParts DEF Sound, Apart, Standing, Hidden
<1>4. ASSUME NEW d, d = RemoveTab(desk, t, s)
      PROVE  IF Shown(desk, t) # s THEN Shown(d, t) = Shown(desk, t)
             ELSE Len(desk.tile[t].tabs) > 1 => Shown(d, t) \in ToSet(desk.tile[t].tabs) \ {s}
  <2>1. /\ Len(d.tile[t].tabs) = Len(desk.tile[t].tabs) - 1
        /\ TabSet(d, t) = TabSet(desk, t) \ {s}
        /\ d.tile[t].tabs # <<>> => /\ Shown(d, t) \in TabSet(d, t) \ d.fresh
                                    /\ Shown(desk, t) # s => Shown(d, t) = Shown(desk, t)
    BY <1>2, <1>3, <1>4, RemoveTabDoes
  <2>2. Shown(desk, t) # s => d.tile[t].tabs # <<>>
    <3>1. Shown(desk, t) \in TabSet(desk, t)
      BY <1>3 DEF Shown, TabSet, ToSet
    <3> QED
      BY <2>1, <3>1 DEF TabSet, ToSet
  <2>3. Len(desk.tile[t].tabs) > 1 => d.tile[t].tabs # <<>>
    BY <1>3, <2>1
  <2> QED
    BY <2>1, <2>2, <2>3 DEF TabSet
<1>5. ASSUME NEW before \in 0..Len(desk.tile[t].tabs),
             NEW d, d = MoveTabToIndex(desk, t, s, before)
      PROVE  /\ Shown(d, t) = Shown(desk, t)
             /\ \A u, v \in ToSet(desk.tile[t].tabs) \ {s} :
                  (At(d.tile[t].tabs, u) < At(d.tile[t].tabs, v))
                    = (At(desk.tile[t].tabs, u) < At(desk.tile[t].tabs, v))
             /\ \A u \in ToSet(desk.tile[t].tabs) \ {s} :
                  (At(d.tile[t].tabs, u) < At(d.tile[t].tabs, s))
                    = (At(desk.tile[t].tabs, u) <= before)
  <2>1. /\ Shown(d, t) = Shown(desk, t)
        /\ \A u, v \in TabSet(desk, t) \ {s} :
             (At(d.tile[t].tabs, u) < At(d.tile[t].tabs, v))
               = (At(desk.tile[t].tabs, u) < At(desk.tile[t].tabs, v))
        /\ \A u \in TabSet(desk, t) \ {s} :
             (At(d.tile[t].tabs, u) < At(d.tile[t].tabs, s))
               = (At(desk.tile[t].tabs, u) <= before)
    BY <1>2, <1>3, <1>5, MoveTabDoes
  <2> QED
    BY <2>1 DEF TabSet
<1> QED
  BY <1>4, <1>5, Zenon

-----------------------------------------------------------------------------
(* The window *)

\* As long as tabs stay where they are and tiles show one of theirs, all is sound.
LEMMA StaysSound ==
    ASSUME NEW d, Sound(d), NEW e \in Desks, e.grid = d.grid,
           \A u \in Tiles : e.tile[u].tabs = d.tile[u].tabs,
           \A w \in Windows : \A u \in GridSet(d, w) : e.tile[u].active \in DOMAIN d.tile[u].tabs,
           \A u \in Tiles : (\A w \in Windows : u \notin GridSet(d, w)) => e.tile[u] = d.tile[u],
           e.fresh \subseteq d.fresh,
           \A w \in Windows : \A u \in GridSet(d, w) : Shown(e, u) \notin e.fresh
    PROVE  /\ Sound(e)
           /\ \A w \in Windows : GridSet(e, w) = GridSet(d, w) /\ Tabs(e, w) = Tabs(d, w)
           /\ \A u \in Tiles : TabSet(e, u) = TabSet(d, u)
<1>1. /\ \A w \in Windows : GridSet(e, w) = GridSet(d, w)
      /\ \A u \in Tiles : TabSet(e, u) = TabSet(d, u)
  BY DEF GridSet, TabSet
<1>2. \A w \in Windows : Tabs(e, w) = Tabs(d, w)
  <2> SUFFICES ASSUME NEW w \in Windows PROVE Tabs(e, w) = Tabs(d, w)
    OBVIOUS
  <2>1. \A u \in GridSet(d, w) : u \in Tiles
    BY FoundTile
  <2>2. Tabs(d, w) = UNION {TabSet(d, u) : u \in GridSet(d, w)}
    BY DEF Tabs, TabSet, GridSet
  <2>3. Tabs(e, w) = UNION {TabSet(e, u) : u \in GridSet(e, w)}
    BY DEF Tabs, TabSet, GridSet
  <2> QED
    BY <1>1, <2>1, <2>2, <2>3
<1>3. Apart(e)
  BY <1>1 DEF Sound, Apart
<1>4. Standing(e)
  BY <1>1, FoundTile DEF Sound, Standing
<1>5. e.fresh \subseteq Open(e)
  BY <1>2 DEF Sound, Hidden, Open
<1>6. ASSUME NEW u \in Tiles PROVE Shown(e, u) \notin e.fresh
  <2>1. CASE \E w \in Windows : u \in GridSet(d, w)
    BY <2>1
  <2>2. CASE \A w \in Windows : u \notin GridSet(d, w)
    <3>1. Shown(e, u) = Shown(d, u)
      BY <2>2 DEF Shown
    <3> QED
      BY <3>1 DEF Sound, Hidden
  <2> QED
    BY <2>1, <2>2
<1> QED
  BY <1>1, <1>2, <1>3, <1>4, <1>5, <1>6 DEF Sound, Hidden

\* SetActiveTile: one of the window's tiles looks active.
LEMMA SetActiveTileDoes ==
    ASSUME NEW d \in Desks, NEW w \in Windows, NEW t, NEW e, e = SetActiveTile(d, w, t)
    PROVE  /\ e \in Desks /\ e.grid = d.grid /\ e.win = d.win
           /\ e.entry = d.entry /\ e.fresh = d.fresh
           /\ \A u \in Tiles : /\ e.tile[u].tabs = d.tile[u].tabs
                               /\ e.tile[u].active = d.tile[u].active
           /\ \A u \in Tiles \ GridSet(d, w) : e.tile[u] = d.tile[u]
           /\ \A u \in Tiles \cap GridSet(d, w) : e.tile[u].focused = (u = t)
<1> DEFINE T == [u \in Tiles |-> IF u \in ToSet(d.grid[w])
                                 THEN [d.tile[u] EXCEPT !.focused = (u = t)] ELSE d.tile[u]]
<1>1. e = [d EXCEPT !.tile = T]
  BY DEF SetActiveTile
<1>2. \A u \in Tiles : d.tile[u] \in TileTypes
  BY DEF Desks
<1>3. \A u \in Tiles : /\ T[u] \in TileTypes /\ T[u].tabs = d.tile[u].tabs
                       /\ T[u].active = d.tile[u].active
                       /\ u \notin GridSet(d, w) => T[u] = d.tile[u]
                       /\ u \in GridSet(d, w) => T[u].focused = (u = t)
  BY <1>2 DEF TileTypes, GridSet
<1>4. T \in [Tiles -> TileTypes]
  BY <1>3
<1> HIDE DEF T
<1>5. /\ e \in Desks /\ e.grid = d.grid /\ e.win = d.win /\ e.tile = T
      /\ e.entry = d.entry /\ e.fresh = d.fresh
  BY <1>1, <1>4 DEF Desks
<1> QED
  BY <1>3, <1>5

\* RefreshBroadcastVisuals: the window looks as its router is.
LEMMA RefreshVisualsDoes ==
    ASSUME NEW d \in Desks, NEW w \in Windows, NEW e, e = RefreshVisuals(d, w)
    PROVE  /\ e \in Desks /\ e.grid = d.grid /\ e.win = d.win /\ e.fresh = d.fresh
           /\ \A u \in Tiles : /\ e.tile[u].tabs = d.tile[u].tabs
                               /\ e.tile[u].active = d.tile[u].active
                               /\ e.tile[u].focused = d.tile[u].focused
           /\ \A u \in Tiles \ GridSet(d, w) : e.tile[u] = d.tile[u]
           /\ \A s \in Ids : e.entry[s].unread = d.entry[s].unread
           /\ \A s \in Ids \ Tabs(d, w) : e.entry[s] = d.entry[s]
           /\ Painted(e, w)
<1> DEFINE on == d.win[w].mode = "Broadcast"
           cast(s) == on /\ s \in d.win[w].selected
           E == [s \in Ids |-> IF s \in Tabs(d, w)
                               THEN [d.entry[s] EXCEPT !.cast = cast(s)] ELSE d.entry[s]]
           T == [t \in Tiles |-> IF t \in ToSet(d.grid[w])
                   THEN [d.tile[t] EXCEPT !.mode = on,
                           !.cast = \E s \in ToSet(d.tile[t].tabs) : cast(s)]
                   ELSE d.tile[t]]
<1>1. e = [d EXCEPT !.entry = E, !.tile = T]
  BY DEF RefreshVisuals
<1>2. /\ \A u \in Tiles : d.tile[u] \in TileTypes
      /\ \A s \in Ids : d.entry[s] \in [cast : BOOLEAN, unread : BOOLEAN]
      /\ on \in BOOLEAN /\ \A s \in Ids : cast(s) \in BOOLEAN
  BY DEF Desks
<1>3. \A u \in Tiles : /\ T[u] \in TileTypes /\ T[u].tabs = d.tile[u].tabs
                       /\ T[u].active = d.tile[u].active
                       /\ T[u].focused = d.tile[u].focused
                       /\ u \notin GridSet(d, w) => T[u] = d.tile[u]
                       /\ u \in GridSet(d, w) =>
                            /\ T[u].mode = on
                            /\ T[u].cast = \E s \in TabSet(d, u) : cast(s)
  <2> HIDE DEF on, cast
  <2> SUFFICES ASSUME NEW u \in Tiles
               PROVE  /\ T[u] \in TileTypes /\ T[u].tabs = d.tile[u].tabs
                      /\ T[u].active = d.tile[u].active
                      /\ T[u].focused = d.tile[u].focused
                      /\ u \notin GridSet(d, w) => T[u] = d.tile[u]
                      /\ u \in GridSet(d, w) =>
                            /\ T[u].mode = on
                            /\ T[u].cast = \E s \in TabSet(d, u) : cast(s)
    OBVIOUS
  <2> DEFINE c == \E s \in TabSet(d, u) : cast(s)
  <2>1. T[u] = IF u \in GridSet(d, w) THEN [d.tile[u] EXCEPT !.mode = on, !.cast = c]
               ELSE d.tile[u]
    BY DEF TabSet, GridSet
  <2>2. c \in BOOLEAN
    OBVIOUS
  <2> HIDE DEF c, T
  <2>3. /\ T[u] \in TileTypes /\ T[u].tabs = d.tile[u].tabs
        /\ T[u].active = d.tile[u].active
        /\ T[u].focused = d.tile[u].focused
        /\ u \notin GridSet(d, w) => T[u] = d.tile[u]
        /\ u \in GridSet(d, w) => T[u].mode = on /\ T[u].cast = c
    BY <1>2, <2>1, <2>2 DEF TileTypes
  <2> QED
    BY <2>3 DEF c
<1>4. \A s \in Ids : /\ E[s] \in [cast : BOOLEAN, unread : BOOLEAN]
                     /\ E[s].unread = d.entry[s].unread
                     /\ s \in Tabs(d, w) => E[s].cast = cast(s)
                     /\ s \notin Tabs(d, w) => E[s] = d.entry[s]
  <2> HIDE DEF cast
  <2> QED
    BY <1>2
<1>5. T \in [Tiles -> TileTypes] /\ E \in [Ids -> [cast : BOOLEAN, unread : BOOLEAN]]
  BY <1>3, <1>4
<1> HIDE DEF T, E, on, cast
<1>6. /\ e \in Desks /\ e.grid = d.grid /\ e.win = d.win /\ e.tile = T
      /\ e.entry = E /\ e.fresh = d.fresh
  BY <1>1, <1>5 DEF Desks
<1>7. /\ GridSet(e, w) = GridSet(d, w) /\ GridSet(d, w) \subseteq Tiles
      /\ \A u \in Tiles : TabSet(e, u) = TabSet(d, u)
      /\ Tabs(d, w) \subseteq Ids
  BY <1>3, <1>6, DeskParts DEF GridSet, TabSet
<1>8. Tabs(e, w) = Tabs(d, w)
  BY <1>7 DEF Tabs, TabSet, GridSet
<1>9. Painted(e, w)
  <2>1. \A s \in Tabs(e, w) : e.entry[s].cast = (e.win[w].mode = "Broadcast" /\ s \in e.win[w].selected)
    BY <1>4, <1>6, <1>7, <1>8 DEF on, cast
  <2>2. ASSUME NEW t \in GridSet(e, w)
        PROVE  /\ e.tile[t].mode = (e.win[w].mode = "Broadcast")
               /\ e.tile[t].cast = \E s \in TabSet(e, t) :
                    (e.win[w].mode = "Broadcast" /\ s \in e.win[w].selected)
    <3>1. t \in Tiles /\ t \in GridSet(d, w) /\ TabSet(e, t) = TabSet(d, t)
      BY <1>7
    <3>2. e.tile[t].mode = on /\ e.tile[t].cast = \E s \in TabSet(e, t) : cast(s)
      BY <1>3, <1>6, <3>1
    <3> QED
      BY <1>6, <3>2 DEF on, cast
  <2> QED
    BY <2>1, <2>2 DEF Painted
<1> QED
  BY <1>3, <1>4, <1>6, <1>9

\* ActivateTab, as windows are: the tab is shown, and nothing else changes.
LEMMA ActivateDoes ==
    ASSUME NEW d, Sound(d), NEW t \in Tiles, NEW s \in TabSet(d, t),
           NEW e, e = ActivateTab(d, t, At(d.tile[t].tabs, s))
    PROVE  /\ e \in Desks /\ e.grid = d.grid /\ e.win = d.win
           /\ \A u \in Tiles \ {t} : e.tile[u] = d.tile[u]
           /\ e.tile[t].tabs = d.tile[t].tabs /\ e.tile[t].focused = d.tile[t].focused
           /\ e.tile[t].active \in DOMAIN d.tile[t].tabs /\ Shown(e, t) = s
           /\ e.fresh \subseteq d.fresh \ {s}
           /\ \A u \in Ids : e.entry[u].cast = d.entry[u].cast
           /\ \A u \in e.fresh : e.entry[u] = d.entry[u]
<1> DEFINE i == At(d.tile[t].tabs, s)
<1>1. d \in Desks /\ d.tile[t].tabs \in Seq(Ids) /\ s \in ToSet(d.tile[t].tabs) /\ d.fresh \subseteq Ids
  BY DeskParts DEF Sound, TabSet
<1>2. i \in DOMAIN d.tile[t].tabs /\ d.tile[t].tabs[i] = s
  BY <1>1, AtItsPlace
<1> HIDE DEF i
<1>3. CASE d.tile[t].active = i
  <2>1. e = d
    BY <1>3 DEF ActivateTab, i
  <2>2. Shown(d, t) = s /\ s \notin d.fresh
    BY <1>2, <1>3 DEF Shown, Sound, Hidden
  <2> QED
    BY <1>1, <1>2, <1>3, <2>1, <2>2
<1>4. CASE d.tile[t].active # i
  <2>1. e = ActivateTab(d, t, i)
    BY DEF i
  <2>2. /\ e \in Desks /\ e.grid = d.grid /\ e.win = d.win
        /\ \A u \in Tiles \ {t} : e.tile[u] = d.tile[u]
        /\ e.tile[t].tabs = d.tile[t].tabs /\ e.tile[t].active = i
        /\ e.tile[t].focused = d.tile[t].focused
        /\ e.fresh = d.fresh \ {s}
        /\ \A u \in Ids \ {s} : e.entry[u] = d.entry[u]
        /\ s \in Ids /\ e.entry[s].cast = d.entry[s].cast
    BY <1>1, <1>2, <1>4, <2>1, ActivateTabDoes
  <2>3. Shown(e, t) = s
    BY <1>2, <2>2 DEF Shown
  <2>4. \A u \in e.fresh : u \in Ids \ {s}
    BY <1>1, <2>2
  <2> QED
    BY <1>1, <1>2, <2>2, <2>3, <2>4
<1> QED
  BY <1>3, <1>4

\* RequestActivate: the window is lit for the session, the others are as they were.
LEMMA RequestActivateDoes ==
    ASSUME NEW d, Sound(d), NEW w \in Windows, NEW s \in Tabs(d, w),
           NEW e, e = RequestActivate(d, w, s)
    PROVE  /\ Sound(e) /\ e.grid = d.grid
           /\ \A u \in Tiles : e.tile[u].tabs = d.tile[u].tabs
           /\ \A v \in Windows : GridSet(e, v) = GridSet(d, v) /\ Tabs(e, v) = Tabs(d, v)
           /\ e.win[w].selected = d.win[w].selected /\ e.win[w].active = s
           /\ Painted(e, w) /\ Keyed(e, w)
           /\ \A v \in Windows \ {w} : Leaves(d, e, v)
           /\ Keeps(d, e)
<1> DEFINE t == Home(d, s)
           named == [d EXCEPT !.win[w].focused = s, !.win[w].active = s]
           a == SetActiveTile(named, w, t)
           b == ActivateTab(a, t, At(d.tile[t].tabs, s))
<1>1. /\ t \in Tiles /\ s \in TabSet(d, t) /\ t \in GridSet(d, w) /\ s \in Ids
      /\ d \in Desks /\ d.win[w] \in [focused : Ids \union {NoSession}, selected : SUBSET Ids,
                             mode : {"Focused", "Broadcast"}, active : Ids \union {NoSession}]
  BY FoundTab DEF Sound, Desks
<1>2. e = RefreshVisuals(b, w)
  BY DEF RequestActivate
<1>3. /\ named \in Desks /\ named.grid = d.grid /\ named.tile = d.tile
      /\ named.entry = d.entry /\ named.fresh = d.fresh
      /\ named.win[w].focused = s /\ named.win[w].active = s
      /\ named.win[w].selected = d.win[w].selected
      /\ \A v \in Windows \ {w} : named.win[v] = d.win[v]
  <2> DEFINE r == [d.win[w] EXCEPT !.focused = s, !.active = s]
             W == [d.win EXCEPT ![w] = r]
  <2>1. named = [d EXCEPT !.win = W]
    BY DEF Desks
  <2>2. /\ r \in [focused : Ids \union {NoSession}, selected : SUBSET Ids,
                  mode : {"Focused", "Broadcast"}, active : Ids \union {NoSession}]
        /\ r.focused = s /\ r.active = s /\ r.selected = d.win[w].selected
    BY <1>1
  <2> HIDE DEF r
  <2>3. /\ W \in [Windows -> [focused : Ids \union {NoSession}, selected : SUBSET Ids,
                              mode : {"Focused", "Broadcast"}, active : Ids \union {NoSession}]]
        /\ W[w] = r /\ \A v \in Windows \ {w} : W[v] = d.win[v]
    BY <1>1, <2>2 DEF Desks
  <2> HIDE DEF W, named
  <2>4. /\ named \in Desks /\ named.grid = d.grid /\ named.tile = d.tile
        /\ named.entry = d.entry /\ named.fresh = d.fresh /\ named.win = W
    BY <1>1, <2>1, <2>3 DEF Desks
  <2> QED
    BY <2>2, <2>3, <2>4
<1> HIDE DEF named
<1>4. GridSet(named, w) = GridSet(d, w)
  BY <1>3 DEF GridSet
<1>5. /\ a \in Desks /\ a.grid = d.grid /\ a.win = named.win
      /\ a.entry = d.entry /\ a.fresh = d.fresh
      /\ \A u \in Tiles : /\ a.tile[u].tabs = d.tile[u].tabs
                          /\ a.tile[u].active = d.tile[u].active
      /\ \A u \in Tiles \ GridSet(d, w) : a.tile[u] = d.tile[u]
      /\ \A u \in Tiles \cap GridSet(d, w) : a.tile[u].focused = (u = t)
  <2> HIDE DEF t
  <2> QED
    BY <1>3, <1>4, SetActiveTileDoes
<1> HIDE DEF a, t
<1>6. /\ Sound(a)
      /\ \A u \in Tiles : TabSet(a, u) = TabSet(d, u)
  <2>1. \A v \in Windows : \A u \in GridSet(d, v) : /\ u \in Tiles
                                                    /\ d.tile[u].active \in DOMAIN d.tile[u].tabs
                                                    /\ Shown(a, u) = Shown(d, u)
    BY <1>5, FoundTile DEF Sound, Standing, Shown
  <2>2. \A v \in Windows : \A u \in GridSet(d, v) : Shown(a, u) \notin a.fresh
    BY <1>5, <2>1, FoundTile DEF Sound, Hidden
  <2>3. \A v \in Windows : \A u \in GridSet(d, v) : a.tile[u].active \in DOMAIN d.tile[u].tabs
    BY <1>5, <2>1
  <2> QED
    BY <1>1, <1>5, <2>2, <2>3, StaysSound
<1>7. /\ b \in Desks /\ b.grid = d.grid /\ b.win = named.win
      /\ \A u \in Tiles \ {t} : b.tile[u] = a.tile[u]
      /\ b.tile[t].tabs = d.tile[t].tabs /\ b.tile[t].focused = a.tile[t].focused
      /\ b.tile[t].active \in DOMAIN d.tile[t].tabs /\ Shown(b, t) = s
      /\ b.fresh \subseteq d.fresh \ {s}
      /\ \A u \in Ids : b.entry[u].cast = d.entry[u].cast
      /\ \A u \in b.fresh : b.entry[u] = d.entry[u]
  <2>1. b = ActivateTab(a, t, At(a.tile[t].tabs, s)) /\ s \in TabSet(a, t)
    BY <1>1, <1>5, <1>6
  <2> HIDE DEF b
  <2> QED
    <3>1. /\ b \in Desks /\ b.grid = a.grid /\ b.win = a.win
          /\ \A u \in Tiles \ {t} : b.tile[u] = a.tile[u]
          /\ b.tile[t].tabs = a.tile[t].tabs /\ b.tile[t].focused = a.tile[t].focused
          /\ b.tile[t].active \in DOMAIN a.tile[t].tabs /\ Shown(b, t) = s
          /\ b.fresh \subseteq a.fresh \ {s}
          /\ \A u \in Ids : b.entry[u].cast = a.entry[u].cast
          /\ \A u \in b.fresh : b.entry[u] = a.entry[u]
      <4>1. Sound(a) /\ t \in Tiles
        BY <1>1, <1>6
      <4> QED
        BY <2>1, <4>1, ActivateDoes, SMTT(30)
    <3> QED
      BY <1>1, <1>5, <3>1
<1> HIDE DEF b
<1>8. GridSet(b, w) = GridSet(d, w) /\ \A u \in Tiles : b.tile[u].tabs = d.tile[u].tabs
  BY <1>1, <1>5, <1>7 DEF GridSet
<1>9. /\ e \in Desks /\ e.grid = d.grid /\ e.win = named.win /\ e.fresh = b.fresh
      /\ \A u \in Tiles : /\ e.tile[u].tabs = d.tile[u].tabs
                          /\ e.tile[u].active = b.tile[u].active
                          /\ e.tile[u].focused = b.tile[u].focused
      /\ \A u \in Tiles \ GridSet(d, w) : e.tile[u] = b.tile[u]
      /\ \A u \in Ids : e.entry[u].unread = b.entry[u].unread
      /\ \A u \in Ids \ Tabs(b, w) : e.entry[u] = b.entry[u]
      /\ Painted(e, w)
  BY <1>2, <1>7, <1>8, RefreshVisualsDoes
<1>10. \A u \in Tiles : Shown(e, u) = IF u = t THEN s ELSE Shown(d, u)
  BY <1>5, <1>7, <1>9 DEF Shown
<1>11. \A v \in Windows : \A u \in GridSet(d, v) : /\ u \in Tiles
                                                   /\ d.tile[u].active \in DOMAIN d.tile[u].tabs
  BY FoundTile DEF Sound, Standing
<1>12. /\ Sound(e)
       /\ \A v \in Windows : GridSet(e, v) = GridSet(d, v) /\ Tabs(e, v) = Tabs(d, v)
       /\ \A u \in Tiles : TabSet(e, u) = TabSet(d, u)
  <2>1. \A v \in Windows : \A u \in GridSet(d, v) : e.tile[u].active \in DOMAIN d.tile[u].tabs
    BY <1>5, <1>7, <1>9, <1>11
  <2>2. \A u \in Tiles : Shown(d, u) \notin d.fresh
    BY DEF Sound, Hidden
  <2>3. \A v \in Windows : \A u \in GridSet(d, v) : Shown(e, u) \notin e.fresh
    BY <1>7, <1>9, <1>10, <1>11, <2>2
  <2>4. \A u \in Tiles : (\A v \in Windows : u \notin GridSet(d, v)) => e.tile[u] = d.tile[u]
    BY <1>1, <1>5, <1>7, <1>9
  <2>5. e.fresh \subseteq d.fresh
    BY <1>7, <1>9
  <2> QED
    BY <1>1, <1>9, <2>1, <2>3, <2>4, <2>5, StaysSound
<1>13. Keyed(e, w)
  <2>1. e.win[w].focused = s /\ e.win[w].active = s /\ s \in Tabs(e, w)
    BY <1>3, <1>9, <1>12
  <2>2. ASSUME NEW u \in GridSet(e, w)
        PROVE  /\ e.tile[u].focused = (s \in TabSet(e, u))
               /\ e.tile[u].focused => Shown(e, u) = s
    <3>1. u \in Tiles /\ u \in GridSet(d, w) /\ TabSet(e, u) = TabSet(d, u)
      BY <1>11, <1>12
    <3>2. e.tile[u].focused = (u = t)
      BY <1>1, <1>5, <1>7, <1>9, <3>1
    <3>3. (u = t) = (s \in TabSet(d, u))
      BY <1>1, <3>1, Found DEF t
    <3> QED
      BY <1>10, <3>1, <3>2, <3>3
  <2> QED
    BY <2>1, <2>2 DEF Keyed
<1>14. ASSUME NEW v \in Windows \ {w} PROVE Leaves(d, e, v)
  <2>1. e.grid[v] = d.grid[v] /\ e.win[v] = d.win[v]
    BY <1>3, <1>9
  <2>2. ASSUME NEW u \in GridSet(d, v) PROVE e.tile[u] = d.tile[u]
    <3>1. u \in Tiles \ GridSet(d, w) /\ u # t
      BY <1>1, <1>11 DEF Sound, Apart
    <3> QED
      BY <1>5, <1>7, <1>9, <3>1
  <2>3. ASSUME NEW u \in Tabs(d, v) PROVE e.entry[u].cast = d.entry[u].cast
    <3>1. u \in Ids /\ u \notin Tabs(d, w)
      BY FoundTab
    <3>2. Tabs(b, w) = Tabs(d, w)
      <4>1. Tabs(d, w) = UNION {TabSet(d, x) : x \in GridSet(d, w)}
        BY DEF Tabs, TabSet, GridSet
      <4>2. Tabs(b, w) = UNION {TabSet(b, x) : x \in GridSet(b, w)}
        BY DEF Tabs, TabSet, GridSet
      <4>3. \A x \in GridSet(d, w) : TabSet(b, x) = TabSet(d, x)
        BY <1>8, <1>11 DEF TabSet
      <4> QED
        BY <1>8, <4>1, <4>2, <4>3
    <3> QED
      BY <1>7, <1>9, <3>1, <3>2
  <2> QED
    BY <2>1, <2>2, <2>3 DEF Leaves
<1>15. Keeps(d, e)
  <2>1. e.fresh \subseteq d.fresh /\ e.fresh \subseteq Ids
    BY <1>7, <1>9, DeskParts
  <2>2. \A u \in e.fresh : e.entry[u].unread = d.entry[u].unread
    BY <1>7, <1>9, <2>1
  <2> QED
    BY <1>12, <2>1, <2>2 DEF Keeps
<1>16. e.win[w].selected = d.win[w].selected /\ e.win[w].active = s
  BY <1>3, <1>9
<1> QED
  BY <1>9, <1>12, <1>13, <1>14, <1>15, <1>16

\* What does not touch tiles, tabs and marks leaves all but the routers alone.
LEMMA OnlyRouters ==
    ASSUME NEW d, Sound(d), NEW e \in Desks, e.grid = d.grid, e.tile = d.tile,
           e.entry = d.entry, e.fresh = d.fresh
    PROVE  /\ Sound(e) /\ Keeps(d, e) /\ Open(e) = Open(d)
           /\ \A v \in Windows : GridSet(e, v) = GridSet(d, v) /\ Tabs(e, v) = Tabs(d, v)
           /\ \A u \in Tiles : TabSet(e, u) = TabSet(d, u)
           /\ \A v \in Windows : e.win[v] = d.win[v] => Leaves(d, e, v)
<1>1. \A v \in Windows : \A u \in GridSet(d, v) :
        /\ u \in Tiles /\ e.tile[u].active \in DOMAIN d.tile[u].tabs
        /\ Shown(e, u) = Shown(d, u)
  BY FoundTile DEF Sound, Standing, Shown
<1>2. \A v \in Windows : \A u \in GridSet(d, v) : Shown(e, u) \notin e.fresh
  BY <1>1 DEF Sound, Hidden
<1>3. /\ Sound(e)
      /\ \A v \in Windows : GridSet(e, v) = GridSet(d, v) /\ Tabs(e, v) = Tabs(d, v)
      /\ \A u \in Tiles : TabSet(e, u) = TabSet(d, u)
  BY <1>1, <1>2, StaysSound
<1>4. Keeps(d, e)
  BY <1>3 DEF Keeps
<1>5. \A v \in Windows : e.win[v] = d.win[v] => Leaves(d, e, v)
  BY DEF Leaves
<1> QED
  BY <1>3, <1>4, <1>5 DEF Open

\* One thing after another leaves a window alone when both do.
LEMMA LeavesTwice ==
    ASSUME NEW d, NEW e, NEW f, NEW v \in Windows, Leaves(d, e, v), Leaves(e, f, v)
    PROVE  Leaves(d, f, v)
<1>1. GridSet(e, v) = GridSet(d, v) /\ Tabs(e, v) = Tabs(d, v)
  BY LeftLit
<1> QED
  BY <1>1 DEF Leaves

\* And so with what is kept.
LEMMA KeepsTwice ==
    ASSUME NEW d, NEW e, NEW f, Keeps(d, e), Keeps(e, f)
    PROVE  Keeps(d, f)
BY DEF Keeps

\* RemoveTarget: the router forgets the session.
LEMMA RouterRemoveDoes ==
    ASSUME NEW d, Sound(d), NEW w \in Windows, NEW s, NEW e, e = RouterRemove(d, w, s)
    PROVE  /\ e \in Desks /\ e.grid = d.grid /\ e.tile = d.tile
           /\ e.entry = d.entry /\ e.fresh = d.fresh
           /\ \A v \in Windows \ {w} : e.win[v] = d.win[v]
           /\ e.win[w].selected = d.win[w].selected \ {s}
           /\ e.win[w].active = d.win[w].active
           /\ e.win[w].focused = IF d.win[w].focused = s THEN NoSession ELSE d.win[w].focused
<1> DEFINE Routers == [focused : Ids \union {NoSession}, selected : SUBSET Ids,
                       mode : {"Focused", "Broadcast"}, active : Ids \union {NoSession}]
           x == d.win[w].selected \ {s}
           y == IF d.win[w].focused = s THEN NoSession ELSE d.win[w].focused
           r == [d.win[w] EXCEPT !.selected = x, !.focused = y]
           W == [d.win EXCEPT ![w] = r]
<1>1. d \in Desks /\ d.win[w] \in Routers
  BY DEF Desks, Sound
<1>2. x \in SUBSET Ids /\ y \in Ids \union {NoSession}
  BY <1>1
<1>3. e = [d EXCEPT !.win[w].selected = x, !.win[w].focused = y]
  BY <1>1 DEF RouterRemove, Desks
<1> HIDE DEF x, y
<1>4. e = [d EXCEPT !.win = W]
  BY <1>1, <1>3 DEF Desks
<1>5. /\ r \in Routers /\ r.selected = x /\ r.focused = y /\ r.active = d.win[w].active
  BY <1>1, <1>2
<1> HIDE DEF r
<1>6. W \in [Windows -> Routers] /\ W[w] = r /\ \A v \in Windows \ {w} : W[v] = d.win[v]
  BY <1>1, <1>5 DEF Desks
<1> HIDE DEF W
<1>7. /\ e \in Desks /\ e.grid = d.grid /\ e.tile = d.tile
      /\ e.entry = d.entry /\ e.fresh = d.fresh /\ e.win = W
  BY <1>1, <1>4, <1>6 DEF Desks
<1> QED
  BY <1>5, <1>6, <1>7 DEF x, y

\* A session's tab is taken away, and its tile with the last: the others stay.
LEMMA TakeOutDoes ==
    ASSUME NEW d, Sound(d), NEW w \in Windows, NEW s \in Tabs(d, w),
           NEW e, e = TakeOut(d, w, s)
    PROVE  /\ Sound(e) /\ e.win = d.win /\ Keeps(d, e)
           /\ Tabs(e, w) = Tabs(d, w) \ {s} /\ s \notin Open(e)
           /\ \A v \in Windows \ {w} : Leaves(d, e, v)
           /\ \A u \in GridSet(d, w) \ {Home(d, s)} :
                u \in GridSet(e, w) /\ e.tile[u].tabs = d.tile[u].tabs
<1> DEFINE t == Home(d, s)
           out == RemoveTab(d, t, s)
<1>1. /\ t \in Tiles /\ s \in TabSet(d, t) /\ t \in GridSet(d, w) /\ s \in Ids
      /\ d \in Desks /\ \A v \in Windows : s \in Tabs(d, v) => v = w
  BY FoundTab DEF Sound
<1>2. e = IF out.tile[t].tabs # <<>> THEN out
          ELSE [out EXCEPT !.tile[t] = BlankTile,
                           !.grid[w] = RemoveAt(@, At(@, t))]
  BY DEF TakeOut
<1> HIDE DEF t
<1>3. /\ out \in Desks /\ out.grid = d.grid /\ out.win = d.win
      /\ \A u \in Tiles \ {t} : out.tile[u] = d.tile[u]
      /\ IsInjective(out.tile[t].tabs) /\ TabSet(out, t) = TabSet(d, t) \ {s}
      /\ out.tile[t].tabs # <<>> => /\ out.tile[t].active \in DOMAIN out.tile[t].tabs
                                    /\ Shown(out, t) \in TabSet(out, t) \ out.fresh
      /\ out.fresh \subseteq d.fresh \ {s}
      /\ \A u \in Ids \ {s} : out.entry[u].cast = d.entry[u].cast
      /\ \A u \in out.fresh : out.entry[u] = d.entry[u]
  <2>1. /\ IsInjective(d.tile[t].tabs) /\ d.tile[t].active \in DOMAIN d.tile[t].tabs
        /\ Shown(d, t) \notin d.fresh
    BY <1>1 DEF Sound, Apart, Standing, Hidden
  <2>2. out = RemoveTab(d, t, s)
    OBVIOUS
  <2> HIDE DEF out
  <2> QED
    BY <1>1, <2>1, <2>2, RemoveTabDoes
<1> HIDE DEF out
\* What is common to both ways.
<1>4. ASSUME e \in Desks, e.win = d.win, e.fresh = out.fresh, e.entry = out.entry,
             \A u \in Tiles : TabSet(e, u) = IF u = t THEN TabSet(d, t) \ {s} ELSE TabSet(d, u),
             \A u \in Tiles : IsInjective(e.tile[u].tabs),
             \A v \in Windows : IsInjective(e.grid[v]),
             \A v \in Windows \ {w} : e.grid[v] = d.grid[v],
             GridSet(e, w) \subseteq GridSet(d, w), GridSet(d, w) \ GridSet(e, w) \subseteq {t},
             t \notin GridSet(e, w) => TabSet(e, t) = {},
             \A u \in Tiles \ {t} : e.tile[u] = d.tile[u],
             IF t \in GridSet(e, w)
             THEN e.tile[t].active \in DOMAIN e.tile[t].tabs /\ Shown(e, t) \notin e.fresh
             ELSE e.tile[t] = BlankTile
      PROVE  /\ Sound(e) /\ Keeps(d, e)
             /\ Tabs(e, w) = Tabs(d, w) \ {s} /\ s \notin Open(e)
             /\ \A v \in Windows \ {w} : Leaves(d, e, v)
             /\ \A u \in GridSet(d, w) \ {t} :
                  u \in GridSet(e, w) /\ e.tile[u].tabs = d.tile[u].tabs
  <2>1. \A v \in Windows : GridSet(d, v) \subseteq Tiles
    BY FoundTile
  <2>2. \A v \in Windows \ {w} : GridSet(e, v) = GridSet(d, v) /\ t \notin GridSet(d, v)
    BY <1>1, <1>4 DEF GridSet, Sound, Apart
  <2>3. \A v \in Windows : Tabs(d, v) = UNION {TabSet(d, x) : x \in GridSet(d, v)}
    BY DEF Tabs, TabSet, GridSet
  <2>4. \A v \in Windows : Tabs(e, v) = UNION {TabSet(e, x) : x \in GridSet(e, v)}
    BY DEF Tabs, TabSet, GridSet
  <2>5. \A x \in Tiles \ {t} : s \notin TabSet(d, x)
    BY <1>1 DEF Sound, Apart
  <2>6. Tabs(e, w) = Tabs(d, w) \ {s}
    <3>1. ASSUME NEW x \in Tabs(e, w) PROVE x \in Tabs(d, w) \ {s}
      <4>1. PICK u \in GridSet(e, w) : x \in TabSet(e, u)
        BY <2>4, <3>1
      <4>2. u \in GridSet(d, w) /\ u \in Tiles
        BY <1>4, <2>1, <4>1
      <4>3. x \in TabSet(d, u) /\ x # s
        BY <1>4, <2>5, <4>1, <4>2
      <4> QED
        BY <2>3, <4>2, <4>3
    <3>2. ASSUME NEW x \in Tabs(d, w), x # s PROVE x \in Tabs(e, w)
      <4>1. PICK u \in GridSet(d, w) : x \in TabSet(d, u)
        BY <2>3, <3>2
      <4>2. u \in Tiles /\ x \in TabSet(e, u)
        BY <1>4, <2>1, <3>2, <4>1
      <4>3. u \in GridSet(e, w)
        BY <1>4, <4>1, <4>2
      <4> QED
        BY <2>4, <4>2, <4>3
    <3> QED
      BY <3>1, <3>2
  <2>7. \A v \in Windows \ {w} : Tabs(e, v) = Tabs(d, v)
    <3> SUFFICES ASSUME NEW v \in Windows \ {w} PROVE Tabs(e, v) = Tabs(d, v)
      OBVIOUS
    <3>1. \A x \in GridSet(d, v) : TabSet(e, x) = TabSet(d, x)
      BY <1>4, <2>1, <2>2
    <3>2. /\ Tabs(d, v) = UNION {TabSet(d, x) : x \in GridSet(d, v)}
          /\ Tabs(e, v) = UNION {TabSet(e, x) : x \in GridSet(d, v)}
      BY <2>2, <2>3, <2>4
    <3> QED
      BY <3>1, <3>2
  <2>8. s \notin Open(e)
    BY <1>1, <2>6, <2>7 DEF Open
  <2>9. Apart(e)
    <3>1. \A x, y \in Tiles : x # y => TabSet(e, x) \cap TabSet(e, y) = {}
      BY <1>4 DEF Sound, Apart
    <3>2. \A x, v \in Windows : x # v => GridSet(e, x) \cap GridSet(e, v) = {}
      <4>1. \A v \in Windows : GridSet(e, v) \subseteq GridSet(d, v)
        BY <1>4, <2>2
      <4> QED
        BY <4>1 DEF Sound, Apart
    <3> QED
      BY <1>4, <3>1, <3>2 DEF Apart
  <2>10. Standing(e)
    <3>1. ASSUME NEW v \in Windows, NEW u \in GridSet(e, v)
          PROVE  e.tile[u].active \in DOMAIN e.tile[u].tabs
      <4>1. CASE u = t
        BY <1>4, <2>2, <3>1, <4>1
      <4>2. CASE u # t
        <5>1. u \in GridSet(d, v) /\ u \in Tiles
          BY <1>4, <2>1, <2>2, <3>1
        <5> QED
          BY <1>4, <4>2, <5>1 DEF Sound, Standing
      <4> QED
        BY <4>1, <4>2
    <3>2. ASSUME NEW u \in Tiles, \A v \in Windows : u \notin GridSet(e, v)
          PROVE  e.tile[u] = BlankTile
      <4>1. CASE u = t
        BY <1>4, <3>2, <4>1
      <4>2. CASE u # t
        <5>1. \A v \in Windows : u \notin GridSet(d, v)
          BY <1>4, <2>2, <3>2, <4>2
        <5> QED
          BY <1>4, <4>2, <5>1 DEF Sound, Standing
      <4> QED
        BY <4>1, <4>2
    <3> QED
      BY <3>1, <3>2 DEF Standing
  <2>11. Hidden(e)
    <3>1. e.fresh \subseteq Open(e)
      <4>1. \A x \in Open(d) : x = s \/ x \in Open(e)
        BY <2>6, <2>7 DEF Open
      <4> QED
        BY <1>3, <1>4, <4>1 DEF Sound, Hidden
    <3>2. ASSUME NEW u \in Tiles PROVE Shown(e, u) \notin e.fresh
      <4>1. CASE u = t /\ t \in GridSet(e, w)
        BY <1>4, <4>1
      <4>2. CASE u = t /\ t \notin GridSet(e, w)
        <5>1. Shown(e, u) = NoSession
          BY <1>4, <4>2 DEF Shown, BlankTile
        <5>2. NoSession \notin e.fresh
          BY <1>4, TilesAssumption, DeskParts
        <5> QED
          BY <5>1, <5>2
      <4>3. CASE u # t
        <5>1. Shown(e, u) = Shown(d, u)
          BY <1>4, <4>3 DEF Shown
        <5> QED
          BY <1>3, <1>4, <5>1 DEF Sound, Hidden
      <4> QED
        BY <4>1, <4>2, <4>3
    <3> QED
      BY <3>1, <3>2 DEF Hidden
  <2>12. Keeps(d, e)
    BY <1>3, <1>4, <2>6, <2>7 DEF Keeps
  <2>13. ASSUME NEW v \in Windows \ {w} PROVE Leaves(d, e, v)
    <3>1. \A u \in GridSet(d, v) : e.tile[u] = d.tile[u]
      BY <1>4, <2>1, <2>2
    <3>2. \A u \in Tabs(d, v) : e.entry[u].cast = d.entry[u].cast
      BY <1>1, <1>3, <1>4, FoundTab
    <3> QED
      BY <1>4, <3>1, <3>2 DEF Leaves
  <2>14. \A u \in GridSet(d, w) \ {t} :
           u \in GridSet(e, w) /\ e.tile[u].tabs = d.tile[u].tabs
    BY <1>4, <2>1
  <2> QED
    BY <1>4, <2>6, <2>8, <2>9, <2>10, <2>11, <2>12, <2>13, <2>14 DEF Sound
<1>5. /\ \A v \in Windows : IsInjective(d.grid[v]) /\ d.grid[v] \in Seq(Tiles)
      /\ \A u \in Tiles : IsInjective(d.tile[u].tabs)
  BY <1>1, DeskParts DEF Sound, Apart
<1>6. CASE out.tile[t].tabs # <<>>
  <2>1. e = out
    BY <1>2, <1>6
  <2>2. GridSet(e, w) = GridSet(d, w)
    BY <1>3, <2>1 DEF GridSet
  <2>3. \A u \in Tiles : TabSet(e, u) = IF u = t THEN TabSet(d, t) \ {s} ELSE TabSet(d, u)
    BY <1>3, <2>1 DEF TabSet
  <2> QED
    BY <1>1, <1>3, <1>4, <1>5, <1>6, <2>1, <2>2, <2>3 DEF t
<1>7. CASE out.tile[t].tabs = <<>>
  <2> DEFINE g == RemoveAt(d.grid[w], At(d.grid[w], t))
             G == [d.grid EXCEPT ![w] = g]
             T == [out.tile EXCEPT ![t] = BlankTile]
  <2>1. e = [out EXCEPT !.tile[t] = BlankTile, !.grid[w] = g]
    BY <1>2, <1>3, <1>7
  <2>2. /\ At(d.grid[w], t) \in 1..Len(d.grid[w])
        /\ d.grid[w][At(d.grid[w], t)] = t
    <3>1. t \in ToSet(d.grid[w]) /\ d.grid[w] \in Seq(Tiles)
      BY <1>1, <1>5 DEF GridSet
    <3>2. At(d.grid[w], t) \in DOMAIN d.grid[w] /\ d.grid[w][At(d.grid[w], t)] = t
      BY <3>1, AtItsPlace
    <3> QED
      BY <3>1, <3>2
  <2>3. g \in Seq(Tiles) /\ IsInjective(g) /\ ToSet(g) = ToSet(d.grid[w]) \ {t}
    <3> DEFINE l == d.grid[w]
               i == At(d.grid[w], t)
    <3>1. l \in Seq(Tiles) /\ IsInjective(l) /\ i \in 1..Len(l) /\ l[i] = t /\ g = RemoveAt(l, i)
      BY <1>5, <2>2
    <3> HIDE DEF l, i, g
    <3>2. g \in Seq(Tiles) /\ IsInjective(g) /\ ToSet(g) = ToSet(l) \ {l[i]}
      BY <3>1, TabTakenOut
    <3> QED
      BY <3>1, <3>2 DEF l
  <2> HIDE DEF g
  <2>4. e = [out EXCEPT !.grid = G, !.tile = T]
    BY <1>1, <1>3, <2>1 DEF Desks
  <2>5. /\ G \in [Windows -> Seq(Tiles)] /\ G[w] = g /\ \A v \in Windows \ {w} : G[v] = d.grid[v]
    BY <1>1, <2>3 DEF Desks
  <2>6. BlankTile \in TileTypes
    BY DEF BlankTile, TileTypes
  <2>7. /\ T \in [Tiles -> TileTypes] /\ T[t] = BlankTile
        /\ \A u \in Tiles \ {t} : T[u] = d.tile[u]
    BY <1>1, <1>3, <2>6 DEF Desks
  <2> HIDE DEF G, T
  <2>8. /\ e \in Desks /\ e.grid = G /\ e.tile = T /\ e.win = d.win /\ e.entry = out.entry
        /\ e.fresh = out.fresh
    BY <1>3, <2>4, <2>5, <2>7 DEF Desks
  <2>9. e.tile[t] = BlankTile /\ e.tile[t].tabs = <<>>
    BY <2>7, <2>8 DEF BlankTile
  <2>10. TabSet(e, t) = {} /\ TabSet(d, t) \ {s} = {} /\ IsInjective(e.tile[t].tabs)
    <3>1. ToSet(<<>>) = {}
      BY DEF ToSet
    <3>2. TabSet(e, t) = {} /\ TabSet(out, t) = {}
      BY <1>7, <2>9, <3>1 DEF TabSet
    <3>3. IsInjective(e.tile[t].tabs)
      BY <2>9 DEF IsInjective
    <3> QED
      BY <1>3, <3>2, <3>3
  <2>11. \A u \in Tiles : TabSet(e, u) = IF u = t THEN TabSet(d, t) \ {s} ELSE TabSet(d, u)
    BY <2>7, <2>8, <2>10 DEF TabSet
  <2>12. GridSet(e, w) = GridSet(d, w) \ {t}
    BY <2>3, <2>5, <2>8 DEF GridSet
  <2>13. \A v \in Windows : IsInjective(e.grid[v])
    BY <1>5, <2>3, <2>5, <2>8
  <2>14. \A u \in Tiles : IsInjective(e.tile[u].tabs)
    BY <1>5, <2>7, <2>8, <2>10
  <2> QED
    BY <1>4, <2>5, <2>7, <2>8, <2>9, <2>10, <2>11, <2>12, <2>13, <2>14 DEF t
<1> QED
  BY <1>6, <1>7

\* A session leaves: the others stay, and one of them is active if there is one.
LEMMA TearDownDoes ==
    ASSUME NEW d, Sound(d), NEW w \in Windows, NEW s \in Tabs(d, w),
           NEW e \in TearDown(d, w, s)
    PROVE  /\ Sound(e) /\ Keeps(d, e)
           /\ Tabs(e, w) = Tabs(d, w) \ {s} /\ s \notin Open(e)
           /\ \A v \in Windows \ {w} : Leaves(d, e, v)
           /\ \A u \in GridSet(d, w) \ {Home(d, s)} :
                u \in GridSet(e, w) /\ e.tile[u].tabs = d.tile[u].tabs
           /\ e.win[w].selected = d.win[w].selected
           /\ IF Tabs(e, w) # {} THEN Painted(e, w) /\ Keyed(e, w)
              ELSE /\ e.win[w].focused = d.win[w].focused
                   /\ e.win[w].active = IF d.win[w].active = s THEN NoSession
                                        ELSE d.win[w].active
<1> DEFINE rest == TakeOut(d, w, s)
           forgotten == [rest EXCEPT !.win[w].active = IF @ = s THEN NoSession ELSE @]
<1>1. /\ Sound(rest) /\ rest.win = d.win /\ Keeps(d, rest)
      /\ Tabs(rest, w) = Tabs(d, w) \ {s} /\ s \notin Open(rest)
      /\ \A v \in Windows \ {w} : Leaves(d, rest, v)
      /\ \A u \in GridSet(d, w) \ {Home(d, s)} :
           u \in GridSet(rest, w) /\ rest.tile[u].tabs = d.tile[u].tabs
  <2> HIDE DEF rest
  <2>1. rest = TakeOut(d, w, s)
    BY DEF rest
  <2> QED
    BY <2>1, TakeOutDoes
<1>2. \/ Tabs(rest, w) = {} /\ e = forgotten
      \/ Tabs(rest, w) # {} /\ \E u \in Tabs(rest, w) : e = RequestActivate(forgotten, w, u)
  BY DEF TearDown
<1> HIDE DEF rest
<1>3. /\ forgotten \in Desks /\ forgotten.grid = rest.grid /\ forgotten.tile = rest.tile
      /\ forgotten.entry = rest.entry /\ forgotten.fresh = rest.fresh
      /\ \A v \in Windows \ {w} : forgotten.win[v] = d.win[v]
      /\ forgotten.win[w].selected = d.win[w].selected
      /\ forgotten.win[w].focused = d.win[w].focused
      /\ forgotten.win[w].active = IF d.win[w].active = s THEN NoSession ELSE d.win[w].active
  <2> DEFINE Routers == [focused : Ids \union {NoSession}, selected : SUBSET Ids,
                         mode : {"Focused", "Broadcast"}, active : Ids \union {NoSession}]
             x == IF d.win[w].active = s THEN NoSession ELSE d.win[w].active
             r == [d.win[w] EXCEPT !.active = x]
             W == [d.win EXCEPT ![w] = r]
  <2>1. rest \in Desks /\ d.win[w] \in Routers /\ d.win \in [Windows -> Routers]
    BY <1>1 DEF Sound, Desks
  <2>2. x \in Ids \union {NoSession}
    BY <2>1
  <2>3. forgotten = [rest EXCEPT !.win[w].active = x]
    BY <1>1, <2>1 DEF Desks
  <2> HIDE DEF x
  <2>4. forgotten = [rest EXCEPT !.win = W]
    BY <1>1, <2>1, <2>3 DEF Desks
  <2>5. /\ r \in Routers /\ r.selected = d.win[w].selected
        /\ r.focused = d.win[w].focused /\ r.active = x
    BY <2>1, <2>2
  <2> HIDE DEF r
  <2>6. W \in [Windows -> Routers] /\ W[w] = r /\ \A v \in Windows \ {w} : W[v] = d.win[v]
    BY <2>1, <2>5
  <2> HIDE DEF W, forgotten
  <2>7. /\ forgotten \in Desks /\ forgotten.grid = rest.grid /\ forgotten.tile = rest.tile
        /\ forgotten.entry = rest.entry /\ forgotten.fresh = rest.fresh /\ forgotten.win = W
    BY <2>1, <2>4, <2>6 DEF Desks
  <2> QED
    BY <2>5, <2>6, <2>7 DEF x
<1> HIDE DEF forgotten
<1>4. /\ Sound(forgotten) /\ Keeps(rest, forgotten) /\ Open(forgotten) = Open(rest)
      /\ \A v \in Windows : /\ GridSet(forgotten, v) = GridSet(rest, v)
                            /\ Tabs(forgotten, v) = Tabs(rest, v)
      /\ \A v \in Windows : forgotten.win[v] = rest.win[v] => Leaves(rest, forgotten, v)
  BY <1>1, <1>3, OnlyRouters
<1>5. /\ Keeps(d, forgotten)
      /\ \A v \in Windows \ {w} : Leaves(d, forgotten, v)
  BY <1>1, <1>3, <1>4, KeepsTwice, LeavesTwice
<1>6. CASE Tabs(rest, w) = {} /\ e = forgotten
  BY <1>1, <1>3, <1>4, <1>5, <1>6
<1>7. CASE Tabs(rest, w) # {} /\ \E u \in Tabs(rest, w) : e = RequestActivate(forgotten, w, u)
  <2>1. PICK u \in Tabs(rest, w) : e = RequestActivate(forgotten, w, u)
    BY <1>7
  <2>2. /\ Sound(e) /\ e.grid = forgotten.grid
        /\ \A x \in Tiles : e.tile[x].tabs = forgotten.tile[x].tabs
        /\ \A v \in Windows : /\ GridSet(e, v) = GridSet(forgotten, v)
                              /\ Tabs(e, v) = Tabs(forgotten, v)
        /\ e.win[w].selected = forgotten.win[w].selected
        /\ Painted(e, w) /\ Keyed(e, w)
        /\ \A v \in Windows \ {w} : Leaves(forgotten, e, v)
        /\ Keeps(forgotten, e)
    <3>1. u \in Tabs(forgotten, w)
      BY <1>4, <2>1
    <3> QED
      BY <1>4, <2>1, <3>1, RequestActivateDoes
  <2>3. s \notin Open(e)
    BY <1>1, <1>4, <2>2 DEF Open
  <2>4. /\ Keeps(d, e)
        /\ \A v \in Windows \ {w} : Leaves(d, e, v)
    BY <1>5, <2>2, KeepsTwice, LeavesTwice
  <2>5. \A x \in GridSet(d, w) \ {Home(d, s)} :
          x \in GridSet(e, w) /\ e.tile[x].tabs = d.tile[x].tabs
    BY <1>1, <1>3, <1>4, <2>2, FoundTile
  <2>6. Tabs(e, w) = Tabs(d, w) \ {s} /\ Tabs(e, w) # {}
    BY <1>1, <1>4, <1>7, <2>2
  <2> QED
    BY <1>3, <2>2, <2>3, <2>4, <2>5, <2>6
<1> QED
  BY <1>2, <1>6, <1>7

\* There are as many tiles as sessions: while one is not open, a tile is free.
LEMMA ATileIsFree ==
    ASSUME NEW d, Sound(d), NEW s \in Ids, s \notin Open(d)
    PROVE  \E u \in Tiles : u \notin Placed(d)
<1> SUFFICES ASSUME \A u \in Tiles : u \in Placed(d) PROVE FALSE
  OBVIOUS
<1> DEFINE f == [u \in Tiles |-> d.tile[u].tabs[1]]
           Rest == Ids \ {s}
<1>1. ASSUME NEW u \in Tiles PROVE f[u] \in TabSet(d, u) /\ f[u] \in Rest
  <2>1. PICK w \in Windows : u \in GridSet(d, w)
    BY DEF Placed, GridSet
  <2>2. d.tile[u].tabs \in Seq(Ids) /\ d.tile[u].active \in DOMAIN d.tile[u].tabs
    BY <2>1, DeskParts DEF Sound, Standing
  <2>3. 1 \in DOMAIN d.tile[u].tabs
    BY <2>2
  <2>4. f[u] \in TabSet(d, u) /\ f[u] \in Ids
    BY <2>2, <2>3 DEF TabSet, ToSet
  <2> QED
    BY <2>1, <2>4, TabInWindow
<1>2. \A u, v \in Tiles : f[u] = f[v] => u = v
  BY <1>1 DEF Sound, Apart
<1> HIDE DEF f
<1>3. f \in Injection(Tiles, Rest)
  <2>1. f \in [Tiles -> Rest]
    BY <1>1 DEF f
  <2> QED
    BY <1>2, <2>1 DEF Injection, IsInjective
<1>4. IsFiniteSet(Ids) /\ IsFiniteSet(Tiles) /\ Cardinality(Tiles) >= Cardinality(Ids)
  BY TilesAssumption
<1>5. IsFiniteSet(Rest) /\ Cardinality(Rest) = Cardinality(Ids) - 1
  BY <1>4, FS_RemoveElement
<1>6. Cardinality(Tiles) <= Cardinality(Rest)
  BY <1>3, <1>4, <1>5, FS_Injection
<1>7. Cardinality(Tiles) \in Nat /\ Cardinality(Ids) \in Nat
  BY <1>4, FS_CardinalityType
<1> QED
  BY <1>4, <1>5, <1>6, <1>7

\* A session comes into a tile of the window, or into a new one of it.
LEMMA JoiningDoes ==
    ASSUME NEW d, Sound(d), NEW w \in Windows, NEW t \in Tiles, NEW s \in Ids, s \notin Open(d),
           \A v \in Windows \ {w} : t \notin GridSet(d, v),
           NEW f \in Desks, f.win = d.win, f.fresh = d.fresh,
           \A v \in Windows \ {w} : f.grid[v] = d.grid[v],
           GridSet(f, w) = GridSet(d, w) \union {t}, IsInjective(f.grid[w]),
           \A u \in Tiles \ {t} : f.tile[u] = d.tile[u],
           f.tile[t].tabs = Append(d.tile[t].tabs, s),
           f.tile[t].active = IF d.tile[t].tabs = <<>> THEN 1 ELSE d.tile[t].active,
           \A u \in Ids \ {s} : f.entry[u] = d.entry[u]
    PROVE  /\ Sound(f) /\ Keeps(d, f)
           /\ Tabs(f, w) = Tabs(d, w) \union {s}
           /\ TabSet(f, t) = TabSet(d, t) \union {s}
           /\ \A v \in Windows \ {w} : Leaves(d, f, v)
<1>1. /\ d \in Desks /\ d.tile[t].tabs \in Seq(Ids) /\ IsInjective(d.tile[t].tabs)
      /\ \A v \in Windows : GridSet(d, v) \subseteq Tiles
  BY DeskParts DEF Sound, Apart
<1>2. \A u \in Tiles : s \notin TabSet(d, u)
  <2> SUFFICES ASSUME NEW u \in Tiles, s \in TabSet(d, u) PROVE FALSE
    OBVIOUS
  <2>1. PICK v \in Windows : u \in GridSet(d, v)
    BY Found
  <2> QED
    BY <2>1, TabInWindow
<1>3. /\ IsInjective(f.tile[t].tabs) /\ TabSet(f, t) = TabSet(d, t) \union {s}
      /\ f.tile[t].tabs # <<>>
      /\ Len(f.tile[t].tabs) = Len(d.tile[t].tabs) + 1
      /\ \A j \in 1..Len(d.tile[t].tabs) : f.tile[t].tabs[j] = d.tile[t].tabs[j]
      /\ f.tile[t].tabs[Len(d.tile[t].tabs) + 1] = s
  <2> DEFINE l == d.tile[t].tabs
  <2>1. l \in Seq(Ids) /\ IsInjective(l) /\ s \notin ToSet(l) /\ f.tile[t].tabs = Append(l, s)
    BY <1>1, <1>2 DEF TabSet
  <2> HIDE DEF l
  <2>2. /\ IsInjective(Append(l, s)) /\ ToSet(Append(l, s)) = ToSet(l) \union {s}
        /\ Append(l, s) # <<>>
        /\ Len(Append(l, s)) = Len(l) + 1
        /\ \A j \in 1..Len(l) : Append(l, s)[j] = l[j]
        /\ Append(l, s)[Len(l) + 1] = s
    BY <2>1, PutAtTheEnd
  <2> QED
    BY <2>1, <2>2 DEF TabSet, l
<1>4. f.tile[t].tabs \in Seq(Ids)
  BY DeskParts
<1>5. f.tile[t].active \in DOMAIN f.tile[t].tabs /\ Shown(f, t) \notin f.fresh
  <2>1. CASE d.tile[t].tabs = <<>>
    <3>1. /\ Len(d.tile[t].tabs) = 0 /\ f.tile[t].active = 1
          /\ Len(f.tile[t].tabs) = 1 /\ f.tile[t].tabs[1] = s
      BY <1>3, <2>1
    <3>2. DOMAIN f.tile[t].tabs = 1..1
      BY <1>4, <3>1, LenProperties
    <3>3. Shown(f, t) = s
      BY <3>1, <3>2 DEF Shown
    <3> QED
      BY <3>1, <3>2, <3>3 DEF Sound, Hidden
  <2>2. CASE d.tile[t].tabs # <<>>
    <3>1. d.tile[t].active \in DOMAIN d.tile[t].tabs
      BY <1>1, <2>2 DEF Sound, Standing, BlankTile
    <3>2. /\ d.tile[t].active \in 1..Len(d.tile[t].tabs) /\ Len(d.tile[t].tabs) \in Nat
          /\ f.tile[t].active = d.tile[t].active
          /\ DOMAIN f.tile[t].tabs = 1..(Len(d.tile[t].tabs) + 1)
      BY <1>1, <1>3, <1>4, <2>2, <3>1, LenProperties
    <3>3. f.tile[t].active \in DOMAIN f.tile[t].tabs
      BY <3>2
    <3>4. Shown(f, t) = Shown(d, t)
      BY <1>3, <3>1, <3>2, <3>3 DEF Shown
    <3> QED
      BY <3>3, <3>4 DEF Sound, Hidden
  <2> QED
    BY <2>1, <2>2
<1>6. \A u \in Tiles \ {t} : TabSet(f, u) = TabSet(d, u) /\ Shown(f, u) = Shown(d, u)
  BY DEF TabSet, Shown
<1>7. \A v \in Windows \ {w} : GridSet(f, v) = GridSet(d, v)
  BY DEF GridSet
<1>8. \A v \in Windows : /\ Tabs(d, v) = UNION {TabSet(d, x) : x \in GridSet(d, v)}
                         /\ Tabs(f, v) = UNION {TabSet(f, x) : x \in GridSet(f, v)}
  BY DEF Tabs, TabSet, GridSet
<1>9. Tabs(f, w) = Tabs(d, w) \union {s}
  <2>1. ASSUME NEW x \in Tabs(f, w) PROVE x \in Tabs(d, w) \union {s}
    <3>1. PICK u \in GridSet(f, w) : x \in TabSet(f, u)
      BY <1>8, <2>1
    <3>2. CASE u = t /\ x # s
      <4>1. x \in TabSet(d, t)
        BY <1>3, <3>1, <3>2
      <4>2. PICK v \in Windows : t \in GridSet(d, v)
        BY <4>1, Found
      <4> QED
        BY <1>8, <4>1, <4>2
    <3>3. CASE u # t
      <4>1. u \in GridSet(d, w) /\ u \in Tiles
        BY <1>1, <3>1, <3>3
      <4> QED
        BY <1>6, <1>8, <3>1, <3>3, <4>1
    <3> QED
      BY <3>2, <3>3
  <2>2. ASSUME NEW x \in Tabs(d, w) PROVE x \in Tabs(f, w)
    <3>1. PICK u \in GridSet(d, w) : x \in TabSet(d, u)
      BY <1>8, <2>2
    <3>2. x \in TabSet(f, u)
      BY <1>1, <1>3, <1>6, <3>1
    <3> QED
      BY <1>8, <3>1, <3>2
  <2>3. s \in Tabs(f, w)
    BY <1>3, <1>8
  <2> QED
    BY <2>1, <2>2, <2>3
<1>10. ASSUME NEW v \in Windows \ {w} PROVE Leaves(d, f, v) /\ Tabs(f, v) = Tabs(d, v)
  <2>1. \A u \in GridSet(d, v) : u \in Tiles \ {t}
    BY <1>1
  <2>2. \A u \in Tabs(d, v) : f.entry[u].cast = d.entry[u].cast
    <3> SUFFICES ASSUME NEW u \in Tabs(d, v) PROVE u \in Ids \ {s}
      OBVIOUS
    <3> QED
      BY FoundTab
  <2>3. Leaves(d, f, v)
    BY <2>1, <2>2 DEF Leaves
  <2> QED
    BY <2>3, LeftLit
<1>11. Apart(f)
  <2>1. \A u \in Tiles : IsInjective(f.tile[u].tabs)
    BY <1>3 DEF Sound, Apart
  <2>2. \A u, v \in Tiles : u # v => TabSet(f, u) \cap TabSet(f, v) = {}
    BY <1>2, <1>3, <1>6 DEF Sound, Apart
  <2>3. \A v \in Windows : IsInjective(f.grid[v])
    BY DEF Sound, Apart
  <2>4. \A u, v \in Windows : u # v => GridSet(f, u) \cap GridSet(f, v) = {}
    BY <1>7 DEF Sound, Apart
  <2> QED
    BY <2>1, <2>2, <2>3, <2>4 DEF Apart
<1>12. Standing(f)
  <2>1. ASSUME NEW v \in Windows, NEW u \in GridSet(f, v)
        PROVE  f.tile[u].active \in DOMAIN f.tile[u].tabs
    <3>1. CASE u = t
      BY <1>5, <3>1
    <3>2. CASE u # t
      <4>1. u \in GridSet(d, v) /\ u \in Tiles
        BY <1>1, <1>7, <2>1, <3>2
      <4> QED
        BY <3>2, <4>1 DEF Sound, Standing
    <3> QED
      BY <3>1, <3>2
  <2>2. ASSUME NEW u \in Tiles, \A v \in Windows : u \notin GridSet(f, v)
        PROVE  f.tile[u] = BlankTile
    <3>1. u # t /\ \A v \in Windows : u \notin GridSet(d, v)
      BY <1>7, <2>2
    <3> QED
      BY <3>1 DEF Sound, Standing
  <2> QED
    BY <2>1, <2>2 DEF Standing
<1>13. Hidden(f)
  <2>1. f.fresh \subseteq Open(f)
    BY <1>9, <1>10 DEF Open, Sound, Hidden
  <2>2. \A u \in Tiles : Shown(f, u) \notin f.fresh
    BY <1>5, <1>6 DEF Sound, Hidden
  <2> QED
    BY <2>1, <2>2 DEF Hidden
<1>14. Keeps(d, f)
  <2>1. \A u \in f.fresh : u \in Ids \ {s}
    BY <1>1, DeskParts DEF Sound, Hidden
  <2>2. \A u \in f.fresh, v \in Windows : u \in Tabs(f, v) => u \in Tabs(d, v)
    BY <1>9, <1>10, <2>1
  <2> QED
    BY <2>1, <2>2 DEF Keeps
<1> QED
  BY <1>3, <1>9, <1>10, <1>11, <1>12, <1>13, <1>14 DEF Sound

\* TakeSession: the session is in the window, in the tile asked for or one of its own,
\* and is active there.
LEMMA TakeSessionDoes ==
    ASSUME NEW d, Sound(d), NEW w \in Windows, NEW s \in Ids, s \notin Open(d),
           NEW t, t \in GridSet(d, w) \/ t = NoTile,
           NEW e, e = TakeSession(d, w, s, t)
    PROVE  /\ Sound(e) /\ Keeps(d, e)
           /\ Tabs(e, w) = Tabs(d, w) \union {s}
           /\ \A v \in Windows \ {w} : Leaves(d, e, v)
           /\ Painted(e, w) /\ Keyed(e, w)
           /\ e.win[w].selected = d.win[w].selected /\ e.win[w].active = s
           /\ IF t = NoTile THEN TabSet(e, Home(e, s)) = {s}
              ELSE Home(e, s) = t /\ TabSet(e, t) = TabSet(d, t) \union {s}
           /\ s \notin e.fresh
<1>1. d \in Desks /\ NoTile \notin Tiles /\ s \notin d.fresh
  BY TilesAssumption DEF Sound, Hidden
\* What is common to both ways.
<1>2. ASSUME NEW u \in Tiles, NEW f, Sound(f), Keeps(d, f),
             Tabs(f, w) = Tabs(d, w) \union {s}, TabSet(f, u) = TabSet(d, u) \union {s},
             \A v \in Windows \ {w} : Leaves(d, f, v), f.win = d.win,
             e = RequestActivate(f, w, s),
             IF t = NoTile THEN TabSet(d, u) = {} ELSE u = t
      PROVE  /\ Sound(e) /\ Keeps(d, e)
             /\ Tabs(e, w) = Tabs(d, w) \union {s}
             /\ \A v \in Windows \ {w} : Leaves(d, e, v)
             /\ Painted(e, w) /\ Keyed(e, w)
             /\ e.win[w].selected = d.win[w].selected /\ e.win[w].active = s
             /\ IF t = NoTile THEN TabSet(e, Home(e, s)) = {s}
                ELSE Home(e, s) = t /\ TabSet(e, t) = TabSet(d, t) \union {s}
             /\ s \notin e.fresh
  <2>1. /\ Sound(e) /\ e.grid = f.grid
        /\ \A x \in Tiles : e.tile[x].tabs = f.tile[x].tabs
        /\ \A v \in Windows : GridSet(e, v) = GridSet(f, v) /\ Tabs(e, v) = Tabs(f, v)
        /\ e.win[w].selected = f.win[w].selected /\ e.win[w].active = s
        /\ Painted(e, w) /\ Keyed(e, w)
        /\ \A v \in Windows \ {w} : Leaves(f, e, v)
        /\ Keeps(f, e)
    <3>1. s \in Tabs(f, w)
      BY <1>2
    <3> QED
      BY <1>2, <3>1, RequestActivateDoes
  <2>2. Keeps(d, e) /\ \A v \in Windows \ {w} : Leaves(d, e, v)
    BY <1>2, <2>1, KeepsTwice, LeavesTwice
  <2>3. TabSet(e, u) = TabSet(d, u) \union {s}
    BY <1>2, <2>1 DEF TabSet
  <2>4. Home(e, s) = u
    BY <2>1, <2>3, Found
  <2>5. s \notin e.fresh
    BY <1>1, <2>2 DEF Keeps
  <2> QED
    BY <1>2, <2>1, <2>2, <2>3, <2>4, <2>5
<1>3. CASE t # NoTile
  <2> DEFINE f == AddTab(d, t, s)
  <2>1. /\ t \in Tiles /\ t \in GridSet(d, w) /\ d.tile[t].active \in DOMAIN d.tile[t].tabs
        /\ \A v \in Windows \ {w} : t \notin GridSet(d, v)
    BY <1>3, FoundTile DEF Sound, Standing, Apart
  <2>2. e = RequestActivate(f, w, s) /\ f = AddTab(d, t, s)
    BY <1>3 DEF TakeSession
  <2> HIDE DEF f
  <2>3. d.tile[t].tabs # <<>>
    BY <2>1
  <2>4. /\ f \in Desks /\ f.grid = d.grid /\ f.win = d.win /\ f.fresh = d.fresh
        /\ \A u \in Tiles \ {t} : f.tile[u] = d.tile[u]
        /\ f.tile[t].tabs = Append(d.tile[t].tabs, s)
        /\ f.tile[t].active = IF d.tile[t].tabs = <<>> THEN 1 ELSE d.tile[t].active
        /\ \A u \in Ids \ {s} : f.entry[u] = d.entry[u]
    BY <1>1, <2>1, <2>2, <2>3, AddTabDoes
  <2>5. /\ GridSet(f, w) = GridSet(d, w) \union {t} /\ IsInjective(f.grid[w])
        /\ \A v \in Windows \ {w} : f.grid[v] = d.grid[v]
    BY <2>1, <2>4 DEF GridSet, Sound, Apart
  <2>6. /\ Sound(f) /\ Keeps(d, f)
        /\ Tabs(f, w) = Tabs(d, w) \union {s}
        /\ TabSet(f, t) = TabSet(d, t) \union {s}
        /\ \A v \in Windows \ {w} : Leaves(d, f, v)
    BY <2>1, <2>4, <2>5, JoiningDoes
  <2> QED
    BY <1>2, <1>3, <2>1, <2>2, <2>4, <2>6
<1>4. CASE t = NoTile
  <2> DEFINE new == CHOOSE u \in Tiles : u \notin Placed(d)
             g == [d EXCEPT !.grid[w] = Append(@, new)]
             f == AddTab(g, new, s)
             l == Append(d.grid[w], new)
             G == [d.grid EXCEPT ![w] = l]
  <2>1. new \in Tiles /\ new \notin Placed(d)
    BY ATileIsFree
  <2>2. e = RequestActivate(f, w, s) /\ f = AddTab(g, new, s)
    BY <1>4 DEF TakeSession
  <2> HIDE DEF new
  <2>3. /\ \A v \in Windows : new \notin GridSet(d, v)
        /\ d.tile[new] = BlankTile /\ d.grid[w] \in Seq(Tiles) /\ IsInjective(d.grid[w])
    BY <1>1, <2>1, DeskParts DEF Placed, GridSet, Sound, Standing, Apart
  <2>4. /\ l \in Seq(Tiles) /\ IsInjective(l) /\ ToSet(l) = ToSet(d.grid[w]) \union {new}
    <3> DEFINE k == d.grid[w]
    <3>1. k \in Seq(Tiles) /\ IsInjective(k) /\ new \notin ToSet(k) /\ l = Append(k, new)
      BY <2>3 DEF GridSet
    <3> HIDE DEF k, l
    <3> QED
      BY <2>1, <3>1, PutAtTheEnd DEF k
  <2> HIDE DEF l
  <2>5. /\ G \in [Windows -> Seq(Tiles)] /\ G[w] = l /\ \A v \in Windows \ {w} : G[v] = d.grid[v]
    BY <1>1, <2>4 DEF Desks
  <2>6. g = [d EXCEPT !.grid = G]
    BY DEF Desks, l
  <2> HIDE DEF G, g
  <2>7. /\ g \in Desks /\ g.grid = G /\ g.tile = d.tile /\ g.win = d.win /\ g.entry = d.entry
        /\ g.fresh = d.fresh
    BY <1>1, <2>5, <2>6 DEF Desks
  <2> HIDE DEF f
  <2>8. g.tile[new].tabs = <<>> /\ g.tile[new].active = 0 /\ d.tile[new].tabs = <<>>
    BY <2>3, <2>7 DEF BlankTile
  <2>9. /\ f \in Desks /\ f.grid = g.grid /\ f.win = g.win /\ f.fresh = g.fresh
        /\ \A u \in Tiles \ {new} : f.tile[u] = g.tile[u]
        /\ f.tile[new].tabs = Append(g.tile[new].tabs, s)
        /\ f.tile[new].active = IF g.tile[new].tabs = <<>> THEN 1 ELSE g.tile[new].active
        /\ \A u \in Ids \ {s} : f.entry[u] = g.entry[u]
    BY <1>1, <2>1, <2>2, <2>7, <2>8, AddTabDoes
  <2>10. /\ GridSet(f, w) = GridSet(d, w) \union {new} /\ IsInjective(f.grid[w])
         /\ \A v \in Windows \ {w} : f.grid[v] = d.grid[v] /\ new \notin GridSet(d, v)
    BY <2>3, <2>4, <2>5, <2>7, <2>9 DEF GridSet
  <2>11. /\ f.win = d.win /\ f.fresh = d.fresh
         /\ \A u \in Tiles \ {new} : f.tile[u] = d.tile[u]
         /\ f.tile[new].tabs = Append(d.tile[new].tabs, s)
         /\ f.tile[new].active = IF d.tile[new].tabs = <<>> THEN 1 ELSE d.tile[new].active
         /\ \A u \in Ids \ {s} : f.entry[u] = d.entry[u]
    BY <2>7, <2>9
  <2>12. /\ Sound(f) /\ Keeps(d, f)
         /\ Tabs(f, w) = Tabs(d, w) \union {s}
         /\ TabSet(f, new) = TabSet(d, new) \union {s}
         /\ \A v \in Windows \ {w} : Leaves(d, f, v)
    BY <2>1, <2>9, <2>10, <2>11, JoiningDoes
  <2>13. TabSet(d, new) = {}
    BY <2>8 DEF TabSet, ToSet
  <2> QED
    BY <1>2, <1>4, <2>1, <2>2, <2>11, <2>12, <2>13
<1> QED
  BY <1>3, <1>4

\* A window without sessions has no tiles either.
LEMMA NoTilesLeft ==
    ASSUME NEW d, Sound(d), NEW w \in Windows
    PROVE  Tabs(d, w) = {} <=> d.grid[w] = <<>>
<1>1. ASSUME Tabs(d, w) = {} PROVE d.grid[w] = <<>>
  <2> SUFFICES ASSUME d.grid[w] # <<>> PROVE FALSE
    OBVIOUS
  <2>1. d.grid[w] \in Seq(Tiles)
    BY DeskParts DEF Sound
  <2>2. d.grid[w][1] \in GridSet(d, w) /\ d.grid[w][1] \in Tiles
    BY <2>1 DEF GridSet, ToSet
  <2> DEFINE u == d.grid[w][1]
  <2>3. d.tile[u].tabs \in Seq(Ids) /\ d.tile[u].active \in DOMAIN d.tile[u].tabs
    BY <2>2, DeskParts DEF Sound, Standing
  <2>4. d.tile[u].tabs[d.tile[u].active] \in TabSet(d, u)
    BY <2>3 DEF TabSet, ToSet
  <2> QED
    BY <1>1, <2>2, <2>4, TabInWindow
<1>2. ASSUME d.grid[w] = <<>> PROVE Tabs(d, w) = {}
  BY <1>2 DEF Tabs, ToSet
<1> QED
  BY <1>1, <1>2

\* A session leaves its window and its router: every window is lit as before.
LEMMA LeavingDoes ==
    ASSUME NEW d, Sound(d), \A v \in Windows : Lit(d, v),
           NEW w \in Windows, NEW s \in Tabs(d, w),
           NEW e \in TearDown(RouterRemove(d, w, s), w, s)
    PROVE  /\ Sound(e) /\ Keeps(d, e)
           /\ Tabs(e, w) = Tabs(d, w) \ {s} /\ s \notin Open(e)
           /\ \A v \in Windows : Lit(e, v)
           /\ \A v \in Windows \ {w} : Leaves(d, e, v)
<1> DEFINE r == RouterRemove(d, w, s)
<1>1. /\ r \in Desks /\ r.grid = d.grid /\ r.tile = d.tile
      /\ r.entry = d.entry /\ r.fresh = d.fresh
      /\ \A v \in Windows \ {w} : r.win[v] = d.win[v]
      /\ r.win[w].selected = d.win[w].selected \ {s}
      /\ r.win[w].active = d.win[w].active
      /\ r.win[w].focused = IF d.win[w].focused = s THEN NoSession ELSE d.win[w].focused
  BY RouterRemoveDoes
<1>2. e \in TearDown(r, w, s)
  OBVIOUS
<1> HIDE DEF r
<1>3. /\ Sound(r) /\ Keeps(d, r)
      /\ \A v \in Windows : GridSet(r, v) = GridSet(d, v) /\ Tabs(r, v) = Tabs(d, v)
      /\ \A v \in Windows : r.win[v] = d.win[v] => Leaves(d, r, v)
  BY <1>1, OnlyRouters
<1>4. /\ Sound(e) /\ Keeps(r, e)
      /\ Tabs(e, w) = Tabs(r, w) \ {s} /\ s \notin Open(e)
      /\ \A v \in Windows \ {w} : Leaves(r, e, v)
      /\ e.win[w].selected = r.win[w].selected
      /\ IF Tabs(e, w) # {} THEN Painted(e, w) /\ Keyed(e, w)
         ELSE /\ e.win[w].focused = r.win[w].focused
              /\ e.win[w].active = IF r.win[w].active = s THEN NoSession
                                   ELSE r.win[w].active
  <2>1. s \in Tabs(r, w)
    BY <1>3
  <2> QED
    BY <1>2, <1>3, <2>1, TearDownDoes
<1>5. /\ Keeps(d, e)
      /\ \A v \in Windows \ {w} : Leaves(d, e, v)
  BY <1>1, <1>3, <1>4, KeepsTwice, LeavesTwice
<1>6. \A v \in Windows \ {w} : Lit(e, v)
  BY <1>5, LeftLit
<1>7. e.win[w].selected \subseteq Tabs(e, w)
  BY <1>1, <1>3, <1>4 DEF Lit
<1>8. CASE Tabs(e, w) # {}
  BY <1>3, <1>4, <1>5, <1>6, <1>7, <1>8 DEF Lit
<1>9. CASE Tabs(e, w) = {}
  <2>1. e.grid[w] = <<>> /\ GridSet(e, w) = {}
    BY <1>4, <1>9, NoTilesLeft DEF GridSet, ToSet
  <2>2. Tabs(d, w) = {s} /\ d.win[w].focused = s /\ d.win[w].active = s
    BY <1>3, <1>4, <1>9 DEF Lit, Keyed
  <2>3. e.win[w].focused = NoSession /\ e.win[w].active = NoSession
    BY <1>1, <1>4, <1>9, <2>2
  <2>4. Painted(e, w) /\ Keyed(e, w)
    BY <1>9, <2>1, <2>3 DEF Painted, Keyed
  <2> QED
    BY <1>3, <1>4, <1>5, <1>6, <1>7, <2>4 DEF Lit
<1> QED
  BY <1>8, <1>9

\* App::DropSession, of one: every window is lit, and the session is where it was to go.
LEMMA MoveSessionDoes ==
    ASSUME NEW d, Sound(d), \A v \in Windows : Lit(d, v),
           NEW s \in Open(d), NEW w \in Windows,
           NEW t, t = NoTile \/ (t \in GridSet(d, w) /\ s \notin TabSet(d, t)),
           NEW e \in MoveSession(d, s, w, t)
    PROVE  /\ Sound(e) /\ Keeps(d, e) /\ Open(e) = Open(d)
           /\ \A v \in Windows : Lit(e, v)
           /\ s \in Tabs(e, w) /\ e.win[w].active = s
           /\ IF t = NoTile THEN TabSet(e, Home(e, s)) = {s}
              ELSE Home(e, s) = t /\ TabSet(e, t) = TabSet(d, t) \union {s}
<1> DEFINE from == WindowOf(d, Home(d, s))
           routed == IF from = w THEN d ELSE RouterRemove(d, from, s)
<1>1. /\ s \in Ids /\ Home(d, s) \in Tiles /\ s \in TabSet(d, Home(d, s))
      /\ from \in Windows /\ s \in Tabs(d, from)
  BY FoundOpen
<1>2. PICK left \in TearDown(routed, from, s) : e = TakeSession(left, w, s, t)
  BY DEF MoveSession
<1> HIDE DEF from
\* What is common to both: the session is out, the window it goes to is there.
<1>3. ASSUME Sound(left), Keeps(d, left), s \notin Open(left),
             Tabs(left, w) \union {s} = Tabs(d, w) \union {s},
             \A v \in Windows \ {w, from} : Leaves(d, left, v),
             left.win[w].selected = d.win[w].selected,
             t # NoTile => t \in GridSet(left, w) /\ TabSet(left, t) = TabSet(d, t),
             from # w => Lit(left, from) /\ Tabs(left, from) = Tabs(d, from) \ {s}
      PROVE  /\ Sound(e) /\ Keeps(d, e) /\ Open(e) = Open(d)
             /\ \A v \in Windows : Lit(e, v)
             /\ s \in Tabs(e, w) /\ e.win[w].active = s
             /\ IF t = NoTile THEN TabSet(e, Home(e, s)) = {s}
                ELSE Home(e, s) = t /\ TabSet(e, t) = TabSet(d, t) \union {s}
  <2>1. /\ Sound(e) /\ Keeps(left, e)
        /\ Tabs(e, w) = Tabs(left, w) \union {s}
        /\ \A v \in Windows \ {w} : Leaves(left, e, v)
        /\ Painted(e, w) /\ Keyed(e, w)
        /\ e.win[w].selected = left.win[w].selected /\ e.win[w].active = s
        /\ IF t = NoTile THEN TabSet(e, Home(e, s)) = {s}
           ELSE Home(e, s) = t /\ TabSet(e, t) = TabSet(left, t) \union {s}
    <3>1. t \in GridSet(left, w) \/ t = NoTile
      BY <1>3
    <3> QED
      BY <1>1, <1>2, <1>3, <3>1, TakeSessionDoes
  <2>2. Keeps(d, e)
    BY <1>3, <2>1, KeepsTwice
  <2>3. Lit(e, w)
    BY <1>3, <2>1 DEF Lit
  <2>4. ASSUME NEW v \in Windows \ {w} PROVE Lit(e, v)
    <3>1. Lit(left, v)
      BY <1>3, <2>4, LeftLit
    <3> QED
      BY <2>1, <3>1, LeftLit
  <2>5. Open(e) = Open(d)
    <3>1. \A v \in Windows \ {w} : Tabs(e, v) = Tabs(left, v)
      BY <2>1, LeftLit
    <3>2. \A v \in Windows \ {w, from} : Tabs(left, v) = Tabs(d, v)
      BY <1>3, LeftLit
    <3>3. Tabs(e, w) = Tabs(d, w) \union {s}
      BY <1>3, <2>1
    <3>4. \A v \in Windows : Tabs(e, v) \union {s} = Tabs(d, v) \union {s}
      <4> TAKE v \in Windows
      <4>1. CASE v = w
        BY <3>3, <4>1
      <4>2. CASE v # w /\ v = from
        BY <1>3, <3>1, <4>2
      <4>3. CASE v # w /\ v # from
        BY <3>1, <3>2, <4>3
      <4> QED
        BY <4>1, <4>2, <4>3
    <3>5. s \in Open(e) /\ s \in Open(d)
      BY <3>3 DEF Open
    <3> QED
      BY <3>4, <3>5 DEF Open
  <2> QED
    BY <1>3, <2>1, <2>2, <2>3, <2>4, <2>5
<1>4. CASE from = w
  <2>1. left \in TearDown(d, w, s) /\ s \in Tabs(d, w)
    BY <1>1, <1>2, <1>4
  <2>2. /\ Sound(left) /\ Keeps(d, left)
        /\ Tabs(left, w) = Tabs(d, w) \ {s} /\ s \notin Open(left)
        /\ \A v \in Windows \ {w} : Leaves(d, left, v)
        /\ \A u \in GridSet(d, w) \ {Home(d, s)} :
             u \in GridSet(left, w) /\ left.tile[u].tabs = d.tile[u].tabs
        /\ left.win[w].selected = d.win[w].selected
    BY <2>1, TearDownDoes
  <2>3. t # NoTile => t \in GridSet(left, w) /\ TabSet(left, t) = TabSet(d, t)
    BY <1>1, <2>2 DEF TabSet
  <2> QED
    BY <1>3, <1>4, <2>2, <2>3
<1>5. CASE from # w
  <2>1. left \in TearDown(RouterRemove(d, from, s), from, s)
    BY <1>2, <1>5
  <2>2. /\ Sound(left) /\ Keeps(d, left)
        /\ Tabs(left, from) = Tabs(d, from) \ {s} /\ s \notin Open(left)
        /\ \A v \in Windows : Lit(left, v)
        /\ \A v \in Windows \ {from} : Leaves(d, left, v)
    BY <1>1, <2>1, LeavingDoes
  <2>3. Leaves(d, left, w)
    BY <1>5, <2>2
  <2>4. /\ GridSet(left, w) = GridSet(d, w) /\ Tabs(left, w) = Tabs(d, w)
        /\ left.win[w] = d.win[w] /\ \A u \in GridSet(d, w) : left.tile[u] = d.tile[u]
    BY <2>3, LeftLit DEF Leaves
  <2>5. t # NoTile => t \in GridSet(left, w) /\ TabSet(left, t) = TabSet(d, t)
    BY <2>4 DEF TabSet
  <2> QED
    BY <1>1, <1>3, <1>5, <2>2, <2>4, <2>5
<1> QED
  BY <1>4, <1>5

-----------------------------------------------------------------------------
(* Several sessions, one after another *)

Smaller == {ss \in Nat \X Nat : ss[1] < ss[2]}

\* What holds at first, and after a number whenever before it, holds up to the last.
LEMMA CountUp ==
    ASSUME NEW n \in Nat, NEW T, 0 \in T, \A k \in 1..n : k - 1 \in T => k \in T
    PROVE  \A k \in 0..n : k \in T
<1> DEFINE Out == {k \in 0..n : k \notin T}
<1> SUFFICES ASSUME Out # {} PROVE FALSE
  OBVIOUS
<1>1. Out \in SUBSET Nat
  OBVIOUS
<1>2. IsWellFoundedOn(Smaller, Nat)
  BY NatLessThanWellFounded, Zenon DEF OpToRel, Smaller
<1> HIDE DEF Out
<1>3. PICK x \in Out : \A y \in Out : ~ (<<y, x>> \in Smaller)
  BY <1>1, <1>2, WFMin
<1>4. \A y \in Out : ~(y < x)
  BY <1>1, <1>3 DEF Smaller
<1>5. x \in 0..n /\ x \notin T
  BY <1>3 DEF Out
<1>6. x \in 1..n
  BY <1>5
<1>7. x - 1 \in T
  <2>1. x - 1 \in 0..n /\ x - 1 < x
    BY <1>6
  <2> QED
    BY <1>4, <2>1 DEF Out
<1> QED
  BY <1>5, <1>6, <1>7

\* What may be after the first of several, k of n being gone through.
OneByOne(d, ids, w, t, n, g) ==
    g = [k \in 0..n |-> IF k = 0 THEN {[desk |-> d, tile |-> t]}
                        ELSE UNION {DropNext(x, ids[k], w) : x \in g[k - 1]}]

\* Dropping is what it says it is: there is such a function.
LEMMA DroppingIs ==
    ASSUME NEW d, NEW ids \in Seq(Ids), NEW w, NEW t
    PROVE  OneByOne(d, ids, w, t, Len(ids), Dropping(d, ids, w, t))
<1> DEFINE n == Len(ids)
           P(g) == g = [k \in 0..Len(ids) |-> IF k = 0 THEN {[desk |-> d, tile |-> t]}
                          ELSE UNION {DropNext(x, ids[k], w) : x \in g[k - 1]}]
           T == {k \in 0..n : \E g : OneByOne(d, ids, w, t, k, g)}
<1>1. n \in Nat
  OBVIOUS
<1>2. 0 \in T
  <2> DEFINE g == [k \in 0..0 |-> {[desk |-> d, tile |-> t]}]
  <2>1. OneByOne(d, ids, w, t, 0, g)
    BY DEF OneByOne
  <2> HIDE DEF g
  <2> QED
    BY <1>1, <2>1
<1>3. ASSUME NEW k \in 1..n, k - 1 \in T PROVE k \in T
  <2>1. PICK g : OneByOne(d, ids, w, t, k - 1, g)
    BY <1>3
  <2> DEFINE Further(j, S) == UNION {DropNext(x, ids[j], w) : x \in S}
             Start == {[desk |-> d, tile |-> t]}
             h == [j \in 0..k |-> IF j = k THEN Further(k, g[k - 1]) ELSE g[j]]
  <2>2. g = [j \in 0..(k - 1) |-> IF j = 0 THEN Start ELSE Further(j, g[j - 1])]
    BY <2>1 DEF OneByOne
  <2> HIDE DEF Further, Start
  <2>3. h = [j \in 0..k |-> IF j = 0 THEN Start ELSE Further(j, h[j - 1])]
    <3>1. ASSUME NEW j \in 0..k PROVE h[j] = IF j = 0 THEN Start ELSE Further(j, h[j - 1])
      <4>1. CASE j = 0
        BY <1>1, <1>3, <2>2, <4>1
      <4>2. CASE j = k
        <5>1. k - 1 \in 0..k /\ k - 1 # k /\ k # 0
          BY <1>1, <1>3
        <5>2. h[k - 1] = g[k - 1]
          BY <5>1
        <5> QED
          BY <5>1, <5>2, <4>2
      <4>3. CASE j \in 1..(k - 1)
        <5>1. /\ j - 1 \in 0..k /\ j - 1 # k /\ j # 0 /\ j # k /\ j \in 0..(k - 1)
          BY <1>1, <1>3, <4>3
        <5>2. h[j - 1] = g[j - 1] /\ h[j] = g[j]
          BY <5>1
        <5> QED
          BY <2>2, <5>1, <5>2
      <4> QED
        BY <1>1, <1>3, <4>1, <4>2, <4>3
    <3> QED
      BY <3>1
  <2> HIDE DEF h
  <2>4. OneByOne(d, ids, w, t, k, h)
    BY <2>3 DEF OneByOne, Further, Start
  <2> QED
    BY <1>3, <2>4
<1> HIDE DEF T
<1>4. n \in T
  <2>1. \A k \in 0..n : k \in T
    BY <1>1, <1>2, <1>3, CountUp
  <2> QED
    BY <1>1, <2>1
<1>5. PICK h : P(h)
  BY <1>4 DEF T, OneByOne
<1>6. Dropping(d, ids, w, t) = CHOOSE f : P(f)
  BY Zenon DEF Dropping
<1> HIDE DEF P
<1>7. P(Dropping(d, ids, w, t))
  BY <1>5, <1>6
<1> QED
  BY <1>7 DEF P, OneByOne

\* What holds after some of several sessions are moved: everything is in order, and
\* the tile for the others is there, and none of them is in it.
Between(d, ids, w, k, x) ==
    /\ Sound(x.desk) /\ Keeps(d, x.desk) /\ Open(x.desk) = Open(d)
    /\ \A v \in Windows : Lit(x.desk, v)
    /\ \/ x.tile = NoTile
       \/ /\ x.tile \in GridSet(x.desk, w)
          /\ \A j \in (k + 1)..Len(ids) : ids[j] \notin TabSet(x.desk, x.tile)

\* One more of them.
LEMMA DropNextDoes ==
    ASSUME NEW d, NEW ids \in Seq(Ids), IsInjective(ids), NEW w \in Windows,
           NEW k \in 1..Len(ids), NEW x, Between(d, ids, w, k - 1, x),
           NEW y \in DropNext(x, ids[k], w)
    PROVE  Between(d, ids, w, k, y)
<1> DEFINE s == ids[k]
           t == x.tile
           D == x.desk
<1>1. /\ Sound(D) /\ Keeps(d, D) /\ Open(D) = Open(d)
      /\ \A v \in Windows : Lit(D, v)
      /\ \/ t = NoTile
         \/ /\ t \in GridSet(D, w)
            /\ \A j \in k..Len(ids) : ids[j] \notin TabSet(D, t)
  BY DEF Between
<1>2. CASE s \notin Open(D)
  <2>1. y = x
    BY <1>2 DEF DropNext
  <2>2. \A j \in (k + 1)..Len(ids) : j \in k..Len(ids)
    OBVIOUS
  <2> QED
    BY <1>1, <2>1, <2>2 DEF Between
<1>3. CASE s \in Open(D)
  <2>1. PICK e \in MoveSession(D, s, w, t) :
          y = [desk |-> e, tile |-> IF t # NoTile THEN t ELSE Home(e, e.win[w].active)]
    BY <1>3 DEF DropNext
  <2>2. t = NoTile \/ (t \in GridSet(D, w) /\ s \notin TabSet(D, t))
    <3>1. k \in k..Len(ids)
      OBVIOUS
    <3> QED
      BY <1>1, <3>1, Zenon
  <2> DEFINE T == y.tile
  <2>3. y.desk = e /\ T = IF t # NoTile THEN t ELSE Home(e, e.win[w].active)
    BY <2>1
  <2> HIDE DEF s, t, D, T
  <2>4. /\ Sound(e) /\ Keeps(D, e) /\ Open(e) = Open(D)
        /\ \A v \in Windows : Lit(e, v)
        /\ s \in Tabs(e, w) /\ e.win[w].active = s
        /\ IF t = NoTile THEN TabSet(e, Home(e, s)) = {s}
           ELSE Home(e, s) = t /\ TabSet(e, t) = TabSet(D, t) \union {s}
    BY <1>1, <1>3, <2>1, <2>2, MoveSessionDoes
  <2>5. Keeps(d, e) /\ Open(e) = Open(d)
    BY <1>1, <2>4, KeepsTwice
  <2>6. T = Home(e, s) /\ T \in GridSet(e, w)
    BY <2>3, <2>4, FoundTab
  <2>7. \A j \in (k + 1)..Len(ids) : ids[j] \notin TabSet(e, T)
    <3> TAKE j \in (k + 1)..Len(ids)
    <3>1. j \in k..Len(ids) /\ j # k /\ j \in DOMAIN ids /\ k \in DOMAIN ids
      OBVIOUS
    <3>2. ids[j] # s
      BY <3>1 DEF s, IsInjective
    <3> QED
      BY <1>1, <2>3, <2>4, <2>6, <3>1, <3>2
  <2> QED
    BY <2>3, <2>4, <2>5, <2>6, <2>7 DEF Between, T
<1> QED
  BY <1>2, <1>3

\* App::DropSession of several: all windows are in order.
LEMMA DropSessionsDoes ==
    ASSUME NEW d, Sound(d), \A v \in Windows : Lit(d, v),
           NEW ids \in Seq(Ids), IsInjective(ids), NEW w \in Windows,
           NEW t, t = NoTile \/ (t \in GridSet(d, w) /\ ToSet(ids) \cap TabSet(d, t) = {}),
           NEW e \in DropSessions(d, ids, w, t)
    PROVE  /\ Sound(e) /\ Keeps(d, e) /\ Open(e) = Open(d)
           /\ \A v \in Windows : Lit(e, v)
<1> DEFINE n == Len(ids)
           f == Dropping(d, ids, w, t)
           T == {k \in 0..n : \A x \in f[k] : Between(d, ids, w, k, x)}
<1>1. f = [k \in 0..n |-> IF k = 0 THEN {[desk |-> d, tile |-> t]}
                          ELSE UNION {DropNext(x, ids[k], w) : x \in f[k - 1]}]
  BY DroppingIs DEF OneByOne
<1>2. n \in Nat
  OBVIOUS
<1>3. PICK last \in f[n] : e = last.desk
  BY DEF DropSessions
<1> HIDE DEF f
<1>4. 0 \in T
  <2>1. f[0] = {[desk |-> d, tile |-> t]}
    BY <1>1, <1>2
  <2>2. \A j \in 1..n : ids[j] \in ToSet(ids)
    BY DEF ToSet
  <2>3. Between(d, ids, w, 0, [desk |-> d, tile |-> t])
    BY <2>2 DEF Between, Keeps
  <2> QED
    BY <1>2, <2>1, <2>3
<1>5. ASSUME NEW k \in 1..n, k - 1 \in T PROVE k \in T
  <2>1. k \in 0..n /\ k # 0
    BY <1>2, <1>5
  <2>2. f[k] = UNION {DropNext(x, ids[k], w) : x \in f[k - 1]}
    BY <1>1, <2>1
  <2>3. ASSUME NEW y \in f[k] PROVE Between(d, ids, w, k, y)
    <3>1. PICK x \in f[k - 1] : y \in DropNext(x, ids[k], w)
      BY <2>2, <2>3
    <3>2. Between(d, ids, w, k - 1, x)
      BY <1>5, <3>1
    <3> QED
      BY <3>1, <3>2, DropNextDoes
  <2> QED
    BY <2>1, <2>3
<1> HIDE DEF T
<1>6. n \in T
  <2>1. \A k \in 0..n : k \in T
    BY <1>2, <1>4, <1>5, CountUp
  <2> QED
    BY <1>2, <2>1
<1>7. Between(d, ids, w, n, last)
  BY <1>3, <1>6 DEF T
<1> QED
  BY <1>3, <1>7 DEF Between

-----------------------------------------------------------------------------
(* Other places for tiles and tabs *)

\* Windows are in order when only places within a window or a tile are others.
LEMMA OnlyPlaces ==
    ASSUME NEW d, Sound(d), NEW e \in Desks,
           \A w \in Windows : GridSet(e, w) = GridSet(d, w) /\ IsInjective(e.grid[w]),
           \A u \in Tiles : TabSet(e, u) = TabSet(d, u) /\ IsInjective(e.tile[u].tabs),
           \A u \in Tiles : /\ e.tile[u].focused = d.tile[u].focused
                            /\ e.tile[u].mode = d.tile[u].mode
                            /\ e.tile[u].cast = d.tile[u].cast
                            /\ Shown(e, u) = Shown(d, u),
           \A w \in Windows : \A u \in GridSet(d, w) : e.tile[u].active \in DOMAIN e.tile[u].tabs,
           \A u \in Tiles : (\A w \in Windows : u \notin GridSet(d, w)) => e.tile[u] = d.tile[u],
           e.entry = d.entry, e.win = d.win, e.fresh = d.fresh
    PROVE  /\ Sound(e) /\ Keeps(d, e) /\ Open(e) = Open(d)
           /\ \A w \in Windows : Lit(d, w) => Lit(e, w)
<1>1. \A w \in Windows : \A u \in GridSet(d, w) : u \in Tiles
  BY FoundTile
<1>2. \A w \in Windows : Tabs(e, w) = Tabs(d, w)
  BY <1>1 DEF Tabs, TabSet, GridSet
<1>3. Open(e) = Open(d)
  BY <1>2 DEF Open
<1>4. Apart(e)
  BY DEF Sound, Apart
<1>5. Standing(e)
  BY DEF Sound, Standing
<1>6. Hidden(e)
  BY <1>3 DEF Sound, Hidden
<1>7. Keeps(d, e)
  BY <1>2 DEF Keeps
<1>8. ASSUME NEW w \in Windows, Lit(d, w) PROVE Lit(e, w)
  <2>1. Painted(e, w)
    <3>1. /\ Painted(d, w) /\ GridSet(e, w) = GridSet(d, w) /\ e.win = d.win /\ e.entry = d.entry
          /\ \A u \in GridSet(d, w) : /\ TabSet(e, u) = TabSet(d, u)
                                      /\ e.tile[u].mode = d.tile[u].mode
                                      /\ e.tile[u].cast = d.tile[u].cast
      BY <1>1, <1>8 DEF Lit
    <3>2. /\ e.win[w] = d.win[w]
          /\ \A s \in Tabs(d, w) : e.entry[s].cast = d.entry[s].cast
      BY <3>1
    <3>3. \A s \in Tabs(e, w) :
            e.entry[s].cast = (e.win[w].mode = "Broadcast" /\ s \in e.win[w].selected)
      BY <1>2, <3>1, <3>2 DEF Painted
    <3>4. \A u \in GridSet(e, w) : e.tile[u].mode = (e.win[w].mode = "Broadcast")
      BY <3>1, <3>2 DEF Painted
    <3>5. ASSUME NEW u \in GridSet(e, w)
          PROVE  e.tile[u].cast = \E s \in TabSet(e, u) :
                                    e.win[w].mode = "Broadcast" /\ s \in e.win[w].selected
      <4>1. d.tile[u].cast = \E s \in TabSet(d, u) :
                               d.win[w].mode = "Broadcast" /\ s \in d.win[w].selected
        BY <3>1, <3>5 DEF Painted
      <4>2. TabSet(e, u) = TabSet(d, u) /\ e.tile[u].cast = d.tile[u].cast /\ e.win[w] = d.win[w]
        BY <3>1, <3>2, <3>5
      <4> QED
        BY <4>1, <4>2
    <3> QED
      BY <3>3, <3>4, <3>5 DEF Painted
  <2>2. Keyed(e, w)
    BY <1>1, <1>2, <1>8 DEF Lit, Keyed
  <2> QED
    BY <1>2, <1>8, <2>1, <2>2 DEF Lit
<1> QED
  BY <1>3, <1>4, <1>5, <1>6, <1>7, <1>8 DEF Sound

\* What is put into a list somewhere.
LEMMA PutThere ==
    ASSUME NEW S, NEW l \in Seq(S), IsInjective(l), NEW i \in 1..(Len(l) + 1),
           NEW s \in S, s \notin ToSet(l), NEW c, c = InsertAt(l, i, s)
    PROVE  c \in Seq(S) /\ IsInjective(c) /\ ToSet(c) = ToSet(l) \union {s}
<1> DEFINE n == Len(l)
           a == SubSeq(l, 1, i - 1)
           m == <<s>>
           b == SubSeq(l, i, n)
<1>1. n \in Nat /\ i \in 1..(n + 1) /\ DOMAIN l = 1..n /\ \A j \in 1..n : l[j] \in S
  OBVIOUS
<1>2. a \in Seq(S) /\ Len(a) = i - 1 /\ \A j \in 1..(i - 1) : a[j] = l[j]
  <2>1. /\ 1 \in 1..(Len(l) + 1) /\ i - 1 \in (1 - 1)..Len(l)
    OBVIOUS
  <2>2. /\ a \in Seq(S) /\ Len(a) = (i - 1) - 1 + 1
        /\ \A j \in 1..((i - 1) - 1 + 1) : a[j] = l[j + 1 - 1]
    BY <2>1, Part
  <2> HIDE DEF a
  <2> QED
    BY <1>1, <2>2
<1>3. b \in Seq(S) /\ Len(b) = n - i + 1 /\ \A j \in 1..(n - i + 1) : b[j] = l[j + i - 1]
  <2>1. Len(l) \in (i - 1)..Len(l)
    OBVIOUS
  <2> QED
    BY <2>1, Part
<1>4. m \in Seq(S) /\ Len(m) = 1 /\ m[1] = s
  OBVIOUS
<1>5. c = (a \o m) \o b
  BY DEF InsertAt
<1> DEFINE r == a \o m
<1>18. r = a \o m
  OBVIOUS
<1> HIDE DEF a, b, m, r
<1>6. r \in Seq(S) /\ Len(r) = i /\ r[i] = s /\ \A j \in 1..(i - 1) : r[j] = l[j]
  <2>1. /\ r \in Seq(S) /\ Len(r) = Len(a) + Len(m)
        /\ \A j \in 1..Len(a) : r[j] = a[j]
        /\ \A j \in 1..Len(m) : r[Len(a) + j] = m[j]
    <3>1. a \in Seq(S) /\ m \in Seq(S)
      BY <1>2, <1>4
    <3> QED
      BY <3>1, <1>18, Joined
  <2>2. 1 \in 1..Len(m) /\ Len(a) + 1 = i
    BY <1>1, <1>2, <1>4
  <2> QED
    BY <1>1, <1>2, <1>4, <2>1, <2>2
<1>7. c = r \o b
  BY <1>5, <1>18
<1>8. /\ c \in Seq(S) /\ Len(c) = n + 1 /\ c[i] = s
      /\ \A j \in 1..(i - 1) : c[j] = l[j]
      /\ \A j \in i..n : c[j + 1] = l[j]
  <2>1. /\ c \in Seq(S) /\ Len(c) = Len(r) + Len(b)
        /\ \A j \in 1..Len(r) : c[j] = r[j]
        /\ \A j \in 1..Len(b) : c[Len(r) + j] = b[j]
    BY <1>3, <1>6, <1>7, Joined
  <2>2. \A j \in i..n : c[j + 1] = l[j]
    <3> TAKE j \in i..n
    <3> DEFINE k == j - i + 1
    <3>1. k \in 1..(n - i + 1) /\ i + k = j + 1 /\ k + i - 1 = j
      BY <1>1
    <3> HIDE DEF k
    <3>2. k \in 1..Len(b) /\ Len(r) + k = j + 1
      BY <1>3, <1>6, <3>1
    <3>3. c[j + 1] = b[k]
      BY <2>1, <3>2
    <3> QED
      BY <1>3, <3>1, <3>3
  <2>3. i \in 1..Len(r) /\ \A j \in 1..(i - 1) : j \in 1..Len(r)
    BY <1>1, <1>6
  <2>4. Len(c) = n + 1
    BY <1>1, <1>3, <1>6, <2>1
  <2> QED
    BY <1>6, <2>1, <2>2, <2>3, <2>4
<1>9. DOMAIN c = 1..(n + 1)
  BY <1>8
<1>10. \A j, k \in 1..n : l[j] = l[k] => j = k
  BY <1>1 DEF IsInjective
<1>11. \A j \in 1..n : l[j] # s
  BY <1>1 DEF ToSet
<1>12. \A j \in 1..(n + 1) : \/ j = i /\ c[j] = s
                             \/ j < i /\ j \in 1..n /\ c[j] = l[j]
                             \/ j > i /\ j - 1 \in 1..n /\ c[j] = l[j - 1]
  <2> TAKE j \in 1..(n + 1)
  <2>1. CASE j = i
    BY <1>8, <2>1
  <2>2. CASE j < i
    BY <1>1, <1>8, <2>2
  <2>3. CASE j > i
    <3>1. j - 1 \in i..n /\ (j - 1) + 1 = j /\ j - 1 \in 1..n
      BY <1>1, <2>3
    <3> QED
      BY <1>8, <2>3, <3>1
  <2> QED
    BY <1>1, <2>1, <2>2, <2>3
<1> HIDE DEF n
<1>13. IsInjective(c)
  <2> SUFFICES ASSUME NEW j \in 1..(n + 1), NEW k \in 1..(n + 1), c[j] = c[k] PROVE j = k
    BY <1>9 DEF IsInjective
  <2> QED
    BY <1>1, <1>10, <1>11, <1>12
<1>14. ToSet(c) \subseteq ToSet(l) \union {s}
  BY <1>1, <1>9, <1>12 DEF ToSet
<1>15. s \in ToSet(c)
  BY <1>1, <1>8, <1>9 DEF ToSet
<1>16. ASSUME NEW j \in 1..n PROVE l[j] \in ToSet(c)
  <2>1. CASE j < i
    <3>1. j \in 1..(i - 1) /\ j \in 1..(n + 1)
      BY <1>1, <2>1
    <3> QED
      BY <1>8, <1>9, <3>1 DEF ToSet
  <2>2. CASE j >= i
    <3>1. j \in i..n /\ j + 1 \in 1..(n + 1)
      BY <1>1, <2>2
    <3> QED
      BY <1>8, <1>9, <3>1 DEF ToSet
  <2> QED
    BY <1>1, <2>1, <2>2
<1>17. ToSet(l) \union {s} \subseteq ToSet(c)
  BY <1>1, <1>15, <1>16 DEF ToSet
<1> QED
  BY <1>8, <1>13, <1>14, <1>17

\* TerminalGrid::MoveTileNear: the tiles of the window have another order.
LEMMA MoveTileNearDoes ==
    ASSUME NEW d, Sound(d), NEW w \in Windows, NEW source, NEW t, source # t, NEW before,
           NEW e, e = MoveTileNear(d, w, source, t, before)
    PROVE  /\ Sound(e) /\ Keeps(d, e) /\ Open(e) = Open(d)
           /\ \A v \in Windows : Lit(d, v) => Lit(e, v)
<1>1. CASE ~({source, t} \subseteq GridSet(d, w))
  <2>1. e = d
    BY <1>1 DEF MoveTileNear, GridSet
  <2> QED
    BY <2>1 DEF Keeps
<1>2. CASE source \in GridSet(d, w) /\ t \in GridSet(d, w)
  <2> DEFINE l == d.grid[w]
             i == At(l, source)
             others == RemoveAt(l, i)
             j == At(others, t)
             k == IF before THEN j ELSE j + 1
             c == InsertAt(others, k, source)
             G == [d.grid EXCEPT ![w] = c]
  <2>1. e = [d EXCEPT !.grid[w] = c]
    BY <1>2 DEF MoveTileNear, GridSet
  <2>2. /\ l \in Seq(Tiles) /\ IsInjective(l) /\ source \in ToSet(l) /\ t \in ToSet(l)
        /\ ToSet(l) \subseteq Tiles /\ ToSet(l) = GridSet(d, w)
    BY <1>2, DeskParts DEF Sound, Apart, GridSet
  <2> HIDE DEF l
  <2>3. i \in 1..Len(l) /\ l[i] = source
    <3>1. i \in DOMAIN l /\ l[i] = source
      BY <2>2, AtItsPlace
    <3> QED
      BY <2>2, <3>1
  <2> HIDE DEF i
  <2>4. others \in Seq(Tiles) /\ IsInjective(others) /\ ToSet(others) = ToSet(l) \ {source}
    BY <2>2, <2>3, TabTakenOut
  <2> HIDE DEF others
  <2>5. j \in 1..Len(others)
    <3>1. t \in ToSet(others)
      BY <2>2, <2>4
    <3>2. j \in DOMAIN others
      BY <2>4, <3>1, AtItsPlace
    <3> QED
      BY <2>4, <3>2
  <2> HIDE DEF j
  <2>6. k \in 1..(Len(others) + 1) /\ source \in Tiles /\ source \notin ToSet(others)
    BY <2>2, <2>4, <2>5
  <2> HIDE DEF k
  <2>7. c \in Seq(Tiles) /\ IsInjective(c) /\ ToSet(c) = ToSet(others) \union {source}
    BY <2>4, <2>6, PutThere
  <2>8. ToSet(c) = GridSet(d, w)
    BY <2>2, <2>4, <2>7
  <2>9. e = [d EXCEPT !.grid = G]
    BY <2>1 DEF Sound, Desks
  <2> HIDE DEF c
  <2>10. /\ d \in Desks /\ G \in [Windows -> Seq(Tiles)] /\ G[w] = c
         /\ \A v \in Windows \ {w} : G[v] = d.grid[v]
    BY <2>7 DEF Sound, Desks
  <2> HIDE DEF G
  <2>11. /\ e \in Desks /\ e.grid = G /\ e.tile = d.tile /\ e.win = d.win
         /\ e.entry = d.entry /\ e.fresh = d.fresh
    BY <2>9, <2>10 DEF Desks
  <2>12. \A v \in Windows : GridSet(e, v) = GridSet(d, v) /\ IsInjective(e.grid[v])
    <3> TAKE v \in Windows
    <3>1. CASE v = w
      BY <2>7, <2>8, <2>10, <2>11, <3>1 DEF GridSet
    <3>2. CASE v # w
      BY <2>10, <2>11, <3>2 DEF GridSet, Sound, Apart
    <3> QED
      BY <3>1, <3>2
  <2>13. \A u \in Tiles : /\ TabSet(e, u) = TabSet(d, u) /\ IsInjective(e.tile[u].tabs)
                          /\ Shown(e, u) = Shown(d, u) /\ e.tile[u] = d.tile[u]
    BY <2>11 DEF Sound, Apart, TabSet, Shown
  <2>14. \A v \in Windows : \A u \in GridSet(d, v) : e.tile[u].active \in DOMAIN e.tile[u].tabs
    BY <2>11 DEF Sound, Standing
  <2> QED
    BY <2>11, <2>12, <2>13, <2>14, OnlyPlaces
<1> QED
  BY <1>1, <1>2

\* MoveTabToIndex, as windows are.
LEMMA MoveTabStaysSound ==
    ASSUME NEW d, Sound(d), NEW t \in Placed(d), NEW s \in TabSet(d, t),
           NEW before \in 0..Len(d.tile[t].tabs),
           NEW e, e = MoveTabToIndex(d, t, s, before)
    PROVE  /\ Sound(e) /\ Keeps(d, e) /\ Open(e) = Open(d)
           /\ \A v \in Windows : Lit(d, v) => Lit(e, v)
<1>1. PICK w \in Windows : t \in GridSet(d, w)
  BY DEF Placed, GridSet
<1>2. /\ d \in Desks /\ t \in Tiles /\ IsInjective(d.tile[t].tabs)
      /\ d.tile[t].active \in DOMAIN d.tile[t].tabs
  BY <1>1, FoundTile DEF Sound, Apart, Standing
<1>3. /\ e \in Desks /\ e.grid = d.grid /\ e.win = d.win
      /\ e.entry = d.entry /\ e.fresh = d.fresh
      /\ \A u \in Tiles \ {t} : e.tile[u] = d.tile[u]
      /\ e.tile[t].focused = d.tile[t].focused /\ e.tile[t].mode = d.tile[t].mode
      /\ e.tile[t].cast = d.tile[t].cast
      /\ IsInjective(e.tile[t].tabs) /\ TabSet(e, t) = TabSet(d, t)
      /\ e.tile[t].active \in DOMAIN e.tile[t].tabs /\ Shown(e, t) = Shown(d, t)
  BY <1>2, MoveTabDoes
<1>4. \A v \in Windows : GridSet(e, v) = GridSet(d, v) /\ IsInjective(e.grid[v])
  BY <1>3 DEF GridSet, Sound, Apart
<1>5. ASSUME NEW u \in Tiles
      PROVE  /\ TabSet(e, u) = TabSet(d, u) /\ IsInjective(e.tile[u].tabs)
             /\ e.tile[u].focused = d.tile[u].focused /\ e.tile[u].mode = d.tile[u].mode
             /\ e.tile[u].cast = d.tile[u].cast /\ Shown(e, u) = Shown(d, u)
  <2>1. CASE u = t
    BY <1>3, <2>1
  <2>2. CASE u # t
    <3>1. e.tile[u] = d.tile[u]
      BY <1>3, <2>2
    <3> QED
      BY <3>1 DEF TabSet, Shown, Sound, Apart
  <2> QED
    BY <2>1, <2>2
<1>6. \A v \in Windows : \A u \in GridSet(d, v) : e.tile[u].active \in DOMAIN e.tile[u].tabs
  <2> TAKE v \in Windows
  <2> TAKE u \in GridSet(d, v)
  <2>1. u \in Tiles
    BY FoundTile
  <2>2. CASE u = t
    BY <1>3, <2>2
  <2>3. CASE u # t
    BY <1>3, <2>1, <2>3 DEF Sound, Standing
  <2> QED
    BY <2>2, <2>3
<1>7. \A u \in Tiles : (\A v \in Windows : u \notin GridSet(d, v)) => e.tile[u] = d.tile[u]
  BY <1>1, <1>3
<1> QED
  BY <1>3, <1>4, <1>5, <1>6, <1>7, OnlyPlaces

-----------------------------------------------------------------------------
(* What holds in every state *)

\* What CallAfter queues: whom it is about, each of them once.
Notices == {n \in [kind : {"refresh", "tile", "window"}, ids : Seq(Ids)] : IsInjective(n.ids)}

\* The notice that the session has output is queued.
OnItsWay(q, s) == \E i \in DOMAIN q : q[i].kind = "refresh" /\ q[i].ids = <<s>>

\* A session that is not to be noted again has its notice under way, and whoever has
\* output that was not shown is marked or will be.
Owed(r, q) == \A w \in Windows : \A s \in r[w] : OnItsWay(q[w], s)
MarkedIn(d, q) == \A w \in Windows : \A s \in d.fresh \cap Tabs(d, w) :
                    d.entry[s].unread \/ OnItsWay(q[w], s)

Ready(d, r, q, p) ==
    /\ Sound(d) /\ \A w \in Windows : Lit(d, w)
    /\ r \in [Windows -> SUBSET Ids] /\ q \in [Windows -> Seq(Notices)]
    /\ Owed(r, q) /\ MarkedIn(d, q)
    /\ p = NotPressed \/ (p.tile \in Placed(d))

\* One tab is dragged, or all of a tile.
Dragged(g) ==
    /\ g.ids \in Seq(Ids) /\ IsInjective(g.ids) /\ g.intent \in {"Tabs", "Tile"}
    /\ g.intent = "Tabs" => Len(g.ids) <= 1

TilesInv == Ready(desk, refreshing, posted, pressed) /\ Dragged(drag)

\* What is kept is marked as before.
LEMMA StaysMarked ==
    ASSUME NEW d, NEW e, NEW q, NEW p, MarkedIn(d, q), Keeps(d, e),
           \A w \in Windows : e.grid[w] # <<>> => \A s \in Ids :
               OnItsWay(q[w], s) => OnItsWay(p[w], s),
           Sound(e)
    PROVE  MarkedIn(e, p)
<1> SUFFICES ASSUME NEW w \in Windows, NEW s \in e.fresh \cap Tabs(e, w),
                    ~e.entry[s].unread
             PROVE  OnItsWay(p[w], s)
  BY DEF MarkedIn
<1>1. s \in d.fresh \cap Tabs(d, w) /\ ~d.entry[s].unread
  BY DEF Keeps
<1>2. OnItsWay(q[w], s)
  BY <1>1 DEF MarkedIn
<1>3. e.grid[w] # <<>> /\ s \in Ids
  BY NoTilesLeft, FoundTab
<1> QED
  BY <1>2, <1>3

\* What a handler leaves: windows without sessions close.
LEMMA BecomeDoes ==
    ASSUME Ready(desk, refreshing, posted, pressed),
           NEW d, Sound(d), \A v \in Windows : Lit(d, v), Keeps(desk, d),
           NEW queue \in [Windows -> Seq(Notices)],
           \A w \in Windows : \A s \in Ids : OnItsWay(posted[w], s) => OnItsWay(queue[w], s),
           Become(d, queue)
    PROVE  Ready(desk', refreshing', posted', pressed')
<1> DEFINE E == Emptied(d)
           W == [w \in Windows |-> IF w \in E THEN Router ELSE d.win[w]]
           e == desk'
           Routers == [focused : Ids \union {NoSession}, selected : SUBSET Ids,
                       mode : {"Focused", "Broadcast"}, active : Ids \union {NoSession}]
<1>1. /\ e = [d EXCEPT !.win = W]
      /\ refreshing' = [w \in Windows |-> IF w \in E THEN {} ELSE refreshing[w]]
      /\ posted' = [w \in Windows |-> IF w \in E THEN <<>> ELSE queue[w]]
      /\ pressed' = IF pressed.tile \in Placed(d) THEN pressed ELSE NotPressed
  BY DEF Become
<1>2. \A w \in E : d.grid[w] = <<>>
  BY DEF Emptied
<1> HIDE DEF E, e
<1>3. d \in Desks /\ W \in [Windows -> Routers] /\ d.win \in [Windows -> Routers]
  BY DEF Sound, Desks, Router
<1>4. \A w \in Windows : W[w] = IF w \in E THEN Router ELSE d.win[w]
  OBVIOUS
<1> HIDE DEF W
<1>5. /\ e \in Desks /\ e.grid = d.grid /\ e.tile = d.tile /\ e.win = W
      /\ e.entry = d.entry /\ e.fresh = d.fresh
  BY <1>1, <1>3 DEF Desks
<1>6. /\ Sound(e) /\ Keeps(d, e) /\ Open(e) = Open(d)
      /\ \A v \in Windows : GridSet(e, v) = GridSet(d, v) /\ Tabs(e, v) = Tabs(d, v)
      /\ \A v \in Windows : e.win[v] = d.win[v] => Leaves(d, e, v)
  BY <1>5, OnlyRouters
<1>7. ASSUME NEW v \in Windows PROVE Lit(e, v)
  <2>1. CASE v \notin E
    BY <1>4, <1>5, <1>6, <2>1, LeftLit
  <2>2. CASE v \in E
    <3>1. Tabs(e, v) = {} /\ e.win[v] = Router
      BY <1>2, <1>4, <1>5, <1>6, <2>2, NoTilesLeft
    <3>2. GridSet(e, v) = {}
      BY <1>2, <1>5, <2>2 DEF GridSet, ToSet
    <3> QED
      BY <3>1, <3>2 DEF Lit, Painted, Keyed, Router
  <2> QED
    BY <2>1, <2>2
<1>8. refreshing' \in [Windows -> SUBSET Ids] /\ posted' \in [Windows -> Seq(Notices)]
  <2>1. refreshing \in [Windows -> SUBSET Ids]
    BY DEF Ready
  <2>2. <<>> \in Seq(Notices)
    OBVIOUS
  <2>3. refreshing' \in [Windows -> SUBSET Ids]
    BY <1>1, <2>1
  <2>4. posted' \in [Windows -> Seq(Notices)]
    BY <1>1, <2>2
  <2> QED
    BY <2>3, <2>4
<1>9. Owed(refreshing', posted')
  <2> SUFFICES ASSUME NEW w \in Windows, NEW s \in refreshing'[w] PROVE OnItsWay(posted'[w], s)
    BY DEF Owed
  <2>1. w \notin E /\ s \in refreshing[w] /\ posted'[w] = queue[w]
    BY <1>1
  <2>2. s \in Ids /\ OnItsWay(posted[w], s)
    BY <2>1 DEF Ready, Owed
  <2> QED
    BY <2>1, <2>2
<1>10. MarkedIn(e, posted')
  <2>1. Keeps(desk, e)
    BY <1>6, KeepsTwice
  <2>2. ASSUME NEW w \in Windows, e.grid[w] # <<>>, NEW s \in Ids, OnItsWay(posted[w], s)
        PROVE  OnItsWay(posted'[w], s)
    <3>1. posted'[w] = queue[w]
      BY <1>1, <1>2, <1>5, <2>2
    <3> QED
      BY <2>2, <3>1
  <2> QED
    BY <1>6, <2>1, <2>2, StaysMarked DEF Ready
<1>11. pressed' = NotPressed \/ (pressed'.tile \in Placed(e))
  BY <1>1, <1>5 DEF Placed
<1> QED
  BY <1>6, <1>7, <1>8, <1>9, <1>10, <1>11 DEF Ready, e

\* At first there is nothing.
LEMMA InitReady ==
    ASSUME InitTiles
    PROVE  TilesInv
<1>1. /\ desk.grid = [w \in Windows |-> <<>>] /\ desk.tile = [t \in Tiles |-> BlankTile]
      /\ desk.entry = [s \in Ids |-> Entry] /\ desk.win = [w \in Windows |-> Router]
      /\ desk.fresh = {}
  BY DEF InitTiles
<1>2. desk \in Desks
  <2>1. BlankTile \in TileTypes
    <3>1. <<>> \in Seq(Ids)
      OBVIOUS
    <3> QED
      BY <3>1 DEF BlankTile, TileTypes
  <2>2. <<>> \in Seq(Tiles)
    OBVIOUS
  <2>3. [w \in Windows |-> <<>>] \in [Windows -> Seq(Tiles)]
    BY <2>2
  <2> QED
    BY <2>1, <2>3 DEF InitTiles, Desks, Entry, Router
<1>3. \A w \in Windows : GridSet(desk, w) = {} /\ Tabs(desk, w) = {} /\ IsInjective(desk.grid[w])
  BY <1>1 DEF GridSet, Tabs, ToSet, IsInjective
<1>4. \A t \in Tiles : /\ TabSet(desk, t) = {} /\ IsInjective(desk.tile[t].tabs)
                       /\ desk.tile[t] = BlankTile
  BY <1>1 DEF TabSet, ToSet, IsInjective, BlankTile
<1>5. Sound(desk)
  BY <1>1, <1>2, <1>3, <1>4 DEF Sound, Apart, Standing, Hidden
<1>6. ASSUME NEW w \in Windows PROVE Lit(desk, w)
  <2>1. desk.win[w] = Router /\ GridSet(desk, w) = {} /\ Tabs(desk, w) = {}
    BY <1>1, <1>3
  <2>2. Painted(desk, w)
    BY <2>1 DEF Painted
  <2>3. Keyed(desk, w)
    BY <2>1 DEF Keyed, Router
  <2> QED
    BY <2>1, <2>2, <2>3 DEF Lit, Router
<1>7. refreshing \in [Windows -> SUBSET Ids] /\ posted \in [Windows -> Seq(Notices)]
  <2>1. <<>> \in Seq(Notices)
    OBVIOUS
  <2> QED
    BY <2>1 DEF InitTiles
<1>8. Owed(refreshing, posted) /\ MarkedIn(desk, posted)
  BY <1>1, <1>3 DEF InitTiles, Owed, MarkedIn
<1>9. Dragged(drag)
  <2>1. drag.ids = <<>> /\ drag.intent = "Tabs"
    BY DEF InitTiles, NotDragged
  <2>2. <<>> \in Seq(Ids) /\ IsInjective(<<>>) /\ Len(<<>>) = 0
    BY DEF IsInjective
  <2> QED
    BY <2>1, <2>2 DEF Dragged
<1> QED
  BY <1>5, <1>6, <1>7, <1>8, <1>9 DEF TilesInv, Ready, InitTiles

\* A session ends.
LEMMA EndKeeps ==
    ASSUME TilesInv, NEW s \in Ids, End(s)
    PROVE  TilesInv'
<1> DEFINE w == WindowOf(desk, Home(desk, s))
<1>1. /\ Ready(desk, refreshing, posted, pressed) /\ Sound(desk)
      /\ \A v \in Windows : Lit(desk, v)
      /\ posted \in [Windows -> Seq(Notices)]
  BY DEF TilesInv, Ready
<1>2. s \in Open(desk)
  BY DEF End
<1>3. w \in Windows /\ s \in Tabs(desk, w)
  BY <1>1, <1>2, FoundOpen
<1>4. PICK d \in TearDown(RouterRemove(desk, w, s), w, s) : Become(d, posted)
  BY DEF End
<1> HIDE DEF w
<1>5. Sound(d) /\ Keeps(desk, d) /\ \A v \in Windows : Lit(d, v)
  BY <1>1, <1>3, <1>4, LeavingDoes
<1>6. Ready(desk', refreshing', posted', pressed')
  BY <1>1, <1>4, <1>5, BecomeDoes
<1> QED
  BY <1>6 DEF End, TilesInv, Dragged

\* What is queued stays queued when something is put after it.
LEMMA QueuedStays ==
    ASSUME NEW q \in Seq(Notices), NEW n \in Notices
    PROVE  /\ Append(q, n) \in Seq(Notices)
           /\ \A s \in Ids : OnItsWay(q, s) => OnItsWay(Append(q, n), s)
           /\ \A s \in Ids : n.kind = "refresh" /\ n.ids = <<s>> => OnItsWay(Append(q, n), s)
<1> DEFINE c == Append(q, n)
<1>1. /\ c \in Seq(Notices) /\ Len(c) = Len(q) + 1 /\ c[Len(q) + 1] = n
      /\ \A i \in 1..Len(q) : c[i] = q[i]
  OBVIOUS
<1> HIDE DEF c
<1>2. DOMAIN c = 1..(Len(q) + 1) /\ DOMAIN q = 1..Len(q) /\ Len(q) \in Nat
  BY <1>1
<1>3. \A i \in DOMAIN q : i \in DOMAIN c /\ c[i] = q[i]
  BY <1>1, <1>2
<1>4. Len(q) + 1 \in DOMAIN c /\ c[Len(q) + 1] = n
  BY <1>1, <1>2
<1> QED
  BY <1>1, <1>3, <1>4 DEF OnItsWay, c

\* When the first is taken off, only that one is no longer queued.
LEMMA QueuedAfter ==
    ASSUME NEW q \in Seq(Notices), q # <<>>
    PROVE  /\ Head(q) \in Notices /\ Tail(q) \in Seq(Notices)
           /\ \A s \in Ids : OnItsWay(q, s) =>
                \/ OnItsWay(Tail(q), s)
                \/ Head(q).kind = "refresh" /\ Head(q).ids = <<s>>
<1>1. /\ Head(q) \in Notices /\ Head(q) = q[1] /\ Len(q) \in Nat /\ Len(q) >= 1
      /\ Tail(q) \in Seq(Notices) /\ Len(Tail(q)) = Len(q) - 1
      /\ \A i \in 1..(Len(q) - 1) : Tail(q)[i] = q[i + 1]
  OBVIOUS
<1>2. ASSUME NEW s \in Ids, OnItsWay(q, s), ~(Head(q).kind = "refresh" /\ Head(q).ids = <<s>>)
      PROVE  OnItsWay(Tail(q), s)
  <2>1. PICK i \in DOMAIN q : q[i].kind = "refresh" /\ q[i].ids = <<s>>
    BY <1>2 DEF OnItsWay
  <2>2. i \in 1..Len(q) /\ i # 1
    BY <1>1, <1>2, <2>1
  <2>3. i - 1 \in 1..(Len(q) - 1) /\ (i - 1) + 1 = i
    BY <1>1, <2>2
  <2>4. i - 1 \in DOMAIN Tail(q) /\ Tail(q)[i - 1] = q[i]
    BY <1>1, <2>3
  <2> QED
    BY <2>1, <2>4 DEF OnItsWay
<1> QED
  BY <1>1, <1>2

\* Output is noted, and a notice of it is under way.
LEMMA OutputKeeps ==
    ASSUME TilesInv, NEW s \in Ids, Output(s)
    PROVE  TilesInv'
<1> DEFINE t == Home(desk, s)
           w == WindowOf(desk, t)
           e == desk'
<1>1. /\ Sound(desk) /\ \A v \in Windows : Lit(desk, v)
      /\ refreshing \in [Windows -> SUBSET Ids] /\ posted \in [Windows -> Seq(Notices)]
      /\ Owed(refreshing, posted) /\ MarkedIn(desk, posted)
      /\ pressed = NotPressed \/ (pressed.tile \in Placed(desk))
  BY DEF TilesInv, Ready
<1>2. s \in Open(desk) /\ UNCHANGED <<pressed, drag>>
  BY DEF Output
<1>3. t \in Tiles /\ s \in TabSet(desk, t) /\ w \in Windows /\ s \in Tabs(desk, w)
  BY <1>1, <1>2, FoundOpen
<1>4. /\ \/ e = desk
         \/ e = [desk EXCEPT !.fresh = desk.fresh \union {s}] /\ Shown(desk, t) # s
      /\ \/ s \in refreshing[w] /\ refreshing' = refreshing /\ posted' = posted
         \/ /\ refreshing' = [refreshing EXCEPT ![w] = refreshing[w] \union {s}]
            /\ posted' = [posted EXCEPT ![w] =
                            Append(posted[w], [kind |-> "refresh", ids |-> <<s>>])]
  BY DEF Output
<1> HIDE DEF w, t, e
<1>5. /\ refreshing' \in [Windows -> SUBSET Ids] /\ posted' \in [Windows -> Seq(Notices)]
      /\ Owed(refreshing', posted') /\ OnItsWay(posted'[w], s)
      /\ \A v \in Windows, u \in Ids : OnItsWay(posted[v], u) => OnItsWay(posted'[v], u)
  <2>1. CASE s \in refreshing[w] /\ refreshing' = refreshing /\ posted' = posted
    BY <1>1, <1>3, <2>1 DEF Owed
  <2>2. CASE /\ refreshing' = [refreshing EXCEPT ![w] = refreshing[w] \union {s}]
             /\ posted' = [posted EXCEPT ![w] =
                            Append(posted[w], [kind |-> "refresh", ids |-> <<s>>])]
    <3> DEFINE n == [kind |-> "refresh", ids |-> <<s>>]
               q == Append(posted[w], n)
               R == refreshing[w] \union {s}
    <3>1. n \in Notices /\ n.kind = "refresh" /\ n.ids = <<s>>
      BY DEF Notices, IsInjective
    <3> HIDE DEF n
    <3>2. /\ q \in Seq(Notices) /\ OnItsWay(q, s)
          /\ \A u \in Ids : OnItsWay(posted[w], u) => OnItsWay(q, u)
      <4>1. posted[w] \in Seq(Notices)
        BY <1>1, <1>3
      <4> QED
        BY <3>1, <4>1, QueuedStays
    <3>3. posted' = [posted EXCEPT ![w] = q] /\ refreshing' = [refreshing EXCEPT ![w] = R]
      BY <2>2 DEF n
    <3>4. R \in SUBSET Ids
      BY <1>1, <1>3
    <3> HIDE DEF q
    <3>5. /\ posted' \in [Windows -> Seq(Notices)] /\ posted'[w] = q
          /\ \A v \in Windows \ {w} : posted'[v] = posted[v]
      BY <1>1, <1>3, <3>2, <3>3
    <3> HIDE DEF R
    <3>6. /\ refreshing' \in [Windows -> SUBSET Ids] /\ refreshing'[w] = R
          /\ \A v \in Windows \ {w} : refreshing'[v] = refreshing[v]
      BY <1>1, <1>3, <3>3, <3>4
    <3>7. \A v \in Windows, u \in Ids : OnItsWay(posted[v], u) => OnItsWay(posted'[v], u)
      BY <3>2, <3>5
    <3>8. ASSUME NEW v \in Windows, NEW u \in refreshing'[v] PROVE OnItsWay(posted'[v], u)
      <4>1. CASE u \in refreshing[v]
        <5>1. u \in Ids /\ OnItsWay(posted[v], u)
          BY <1>1, <4>1 DEF Owed
        <5> QED
          BY <3>7, <5>1
      <4>2. CASE u \notin refreshing[v]
        <5>1. v = w /\ u = s
          BY <3>6, <3>8, <4>2 DEF R
        <5> QED
          BY <3>2, <3>5, <5>1
      <4> QED
        BY <4>1, <4>2
    <3> QED
      BY <3>2, <3>5, <3>6, <3>7, <3>8 DEF Owed
  <2> QED
    BY <1>4, <2>1, <2>2
<1>6. CASE e = desk
  <2>1. Keeps(desk, e) /\ Sound(e)
    BY <1>1, <1>6 DEF Keeps
  <2>2. MarkedIn(e, posted')
    BY <1>1, <1>5, <2>1, StaysMarked
  <2> QED
    BY <1>1, <1>2, <1>5, <1>6, <2>2 DEF TilesInv, Ready, Dragged, e
<1>7. CASE e = [desk EXCEPT !.fresh = desk.fresh \union {s}] /\ Shown(desk, t) # s
  <2>1. /\ e \in Desks /\ e.grid = desk.grid /\ e.tile = desk.tile /\ e.win = desk.win
        /\ e.entry = desk.entry /\ e.fresh = desk.fresh \union {s}
    BY <1>1, <1>7 DEF Sound, Desks
  <2>2. \A v \in Windows : Leaves(desk, e, v)
    BY <2>1 DEF Leaves
  <2>3. /\ \A v \in Windows : Lit(e, v) /\ Tabs(e, v) = Tabs(desk, v)
    BY <1>1, <2>2, LeftLit
  <2>4. Apart(e) /\ Standing(e)
    BY <1>1, <2>1 DEF Sound, Apart, Standing, TabSet, GridSet
  <2>5. Hidden(e)
    <3>1. Open(e) = Open(desk)
      BY <2>3 DEF Open
    <3>2. e.fresh \subseteq Open(e)
      BY <1>1, <1>2, <2>1, <3>1 DEF Sound, Hidden
    <3>3. ASSUME NEW u \in Tiles PROVE Shown(e, u) \notin e.fresh
      <4>1. Shown(e, u) = Shown(desk, u)
        BY <2>1 DEF Shown
      <4>2. Shown(desk, u) \notin desk.fresh
        BY <1>1 DEF Sound, Hidden
      <4>3. Shown(desk, u) # s
        <5> SUFFICES ASSUME Shown(desk, u) = s PROVE FALSE
          OBVIOUS
        <5>1. s # NoSession
          BY TilesAssumption
        <5>2. s \in TabSet(desk, u)
          BY <5>1 DEF Shown, TabSet, ToSet
        <5>3. u = t
          BY <1>1, <5>2, Found DEF t
        <5> QED
          BY <1>7, <5>3
      <4> QED
        BY <2>1, <4>1, <4>2, <4>3
    <3> QED
      BY <3>2, <3>3 DEF Hidden
  <2>6. MarkedIn(e, posted')
    <3> SUFFICES ASSUME NEW v \in Windows, NEW u \in e.fresh \cap Tabs(e, v)
                 PROVE  e.entry[u].unread \/ OnItsWay(posted'[v], u)
      BY DEF MarkedIn
    <3>1. u \in Ids /\ u \in Tabs(desk, v)
      BY <1>1, <2>3, FoundTab
    <3>2. CASE u = s
      <4>1. v = w
        BY <1>1, <1>3, <3>1, <3>2, FoundTab
      <4> QED
        BY <1>5, <3>2, <4>1
    <3>3. CASE u # s
      <4>1. u \in desk.fresh \cap Tabs(desk, v) /\ e.entry[u] = desk.entry[u]
        BY <2>1, <3>1, <3>3
      <4>2. desk.entry[u].unread \/ OnItsWay(posted[v], u)
        BY <1>1, <4>1 DEF MarkedIn
      <4> QED
        BY <1>5, <3>1, <4>1, <4>2
    <3> QED
      BY <3>2, <3>3
  <2>7. Sound(e) /\ (pressed = NotPressed \/ (pressed.tile \in Placed(e)))
    BY <1>1, <2>1, <2>4, <2>5 DEF Sound, Placed
  <2> QED
    BY <1>2, <1>5, <2>3, <2>6, <2>7 DEF TilesInv, Ready, Dragged, e
<1> QED
  BY <1>4, <1>6, <1>7

\* A notice is handled: the tab is marked unless it is shown by now.
LEMMA HandleRefreshKeeps ==
    ASSUME TilesInv, NEW w \in Windows, HandleRefresh(w)
    PROVE  TilesInv'
<1> DEFINE q == posted[w]
           s == Head(q).ids[1]
           e == desk'
<1>1. /\ Sound(desk) /\ \A v \in Windows : Lit(desk, v)
      /\ refreshing \in [Windows -> SUBSET Ids] /\ posted \in [Windows -> Seq(Notices)]
      /\ Owed(refreshing, posted) /\ MarkedIn(desk, posted)
      /\ pressed = NotPressed \/ (pressed.tile \in Placed(desk))
  BY DEF TilesInv, Ready
<1>2. /\ q # <<>> /\ UNCHANGED <<pressed, drag>>
      /\ posted' = [posted EXCEPT ![w] = Tail(q)]
      /\ refreshing' = [refreshing EXCEPT ![w] = refreshing[w] \ {s}]
      /\ \/ e = desk /\ (s \notin Tabs(desk, w) \/ Shown(desk, Home(desk, s)) = s)
         \/ e = [desk EXCEPT !.entry[s].unread = TRUE] /\ s \in Tabs(desk, w)
  BY DEF HandleRefresh, Refresh
<1>3. \A u : Head(q).ids = <<u>> => u = s
  BY DEF s
<1> HIDE DEF s, e
<1>4. /\ Tail(q) \in Seq(Notices)
      /\ \A u \in Ids : OnItsWay(q, u) => OnItsWay(Tail(q), u) \/ u = s
  <2>1. q \in Seq(Notices)
    BY <1>1
  <2> HIDE DEF q
  <2> QED
    BY <1>2, <1>3, <2>1, QueuedAfter
<1> HIDE DEF q
<1>5. /\ posted' \in [Windows -> Seq(Notices)] /\ posted'[w] = Tail(q)
      /\ \A v \in Windows \ {w} : posted'[v] = posted[v]
  BY <1>1, <1>2, <1>4
<1>6. /\ refreshing' \in [Windows -> SUBSET Ids] /\ refreshing'[w] = refreshing[w] \ {s}
      /\ \A v \in Windows \ {w} : refreshing'[v] = refreshing[v]
  BY <1>1, <1>2
<1>7. Owed(refreshing', posted')
  <2> SUFFICES ASSUME NEW v \in Windows, NEW u \in refreshing'[v] PROVE OnItsWay(posted'[v], u)
    BY DEF Owed
  <2>1. u \in refreshing[v] /\ u \in Ids
    BY <1>1, <1>6
  <2>2. OnItsWay(posted[v], u)
    BY <1>1, <2>1 DEF Owed
  <2> QED
    BY <1>4, <1>5, <1>6, <2>1, <2>2 DEF q
\* What is left of it: the tabs, with one of them marked.
<1>8. /\ Sound(e) /\ \A v \in Windows : Lit(e, v) /\ Tabs(e, v) = Tabs(desk, v)
      /\ e.grid = desk.grid /\ e.fresh = desk.fresh
      /\ \A u \in Ids : desk.entry[u].unread => e.entry[u].unread
      /\ (s \in Tabs(desk, w) /\ Shown(desk, Home(desk, s)) # s) => e.entry[s].unread
  <2>1. CASE e = desk /\ (s \notin Tabs(desk, w) \/ Shown(desk, Home(desk, s)) = s)
    BY <1>1, <2>1
  <2>2. CASE e = [desk EXCEPT !.entry[s].unread = TRUE] /\ s \in Tabs(desk, w)
    <3> DEFINE r == [desk.entry[s] EXCEPT !.unread = TRUE]
               E == [desk.entry EXCEPT ![s] = r]
               Entries == [cast : BOOLEAN, unread : BOOLEAN]
    <3>1. s \in Ids /\ desk \in Desks /\ desk.entry \in [Ids -> Entries]
      BY <1>1, <2>2, FoundTab DEF Sound, Desks
    <3>2. e = [desk EXCEPT !.entry = E]
      BY <2>2, <3>1 DEF Desks
    <3>3. r \in Entries /\ r.cast = desk.entry[s].cast /\ r.unread = TRUE
      BY <3>1
    <3> HIDE DEF r
    <3>4. E \in [Ids -> Entries] /\ E[s] = r /\ \A u \in Ids \ {s} : E[u] = desk.entry[u]
      BY <3>1, <3>3
    <3> HIDE DEF E
    <3>5. /\ e \in Desks /\ e.grid = desk.grid /\ e.tile = desk.tile /\ e.win = desk.win
          /\ e.entry = E /\ e.fresh = desk.fresh
      BY <3>1, <3>2, <3>4 DEF Desks
    <3>6. \A u \in Ids : e.entry[u].cast = desk.entry[u].cast
      BY <3>3, <3>4, <3>5
    <3>7. \A v \in Windows : Leaves(desk, e, v)
      BY <1>1, <3>5, <3>6, FoundTab DEF Leaves
    <3>8. \A v \in Windows : Lit(e, v) /\ Tabs(e, v) = Tabs(desk, v)
      BY <1>1, <3>7, LeftLit
    <3>9. Apart(e) /\ Standing(e)
      BY <1>1, <3>5 DEF Sound, Apart, Standing, TabSet, GridSet
    <3>10. Hidden(e)
      BY <1>1, <3>5, <3>8 DEF Sound, Hidden, Open, Shown
    <3> QED
      BY <3>3, <3>4, <3>5, <3>8, <3>9, <3>10 DEF Sound
  <2> QED
    BY <1>2, <2>1, <2>2
<1>9. MarkedIn(e, posted')
  <2> SUFFICES ASSUME NEW v \in Windows, NEW u \in e.fresh \cap Tabs(e, v)
               PROVE  e.entry[u].unread \/ OnItsWay(posted'[v], u)
    BY DEF MarkedIn
  <2>1. /\ u \in desk.fresh \cap Tabs(desk, v) /\ u \in Ids /\ Home(desk, u) \in Tiles
    BY <1>1, <1>8, FoundTab
  <2>2. Shown(desk, Home(desk, u)) # u
    BY <1>1, <2>1 DEF Sound, Hidden
  <2>3. desk.entry[u].unread \/ OnItsWay(posted[v], u)
    BY <1>1, <2>1 DEF MarkedIn
  <2>4. CASE u = s /\ v = w
    BY <1>8, <2>1, <2>2, <2>4
  <2>5. CASE ~(u = s /\ v = w)
    BY <1>4, <1>5, <1>8, <2>1, <2>3, <2>5 DEF q
  <2> QED
    BY <2>4, <2>5
<1>10. pressed = NotPressed \/ (pressed.tile \in Placed(e))
  BY <1>1, <1>8 DEF Placed
<1> QED
  BY <1>2, <1>5, <1>6, <1>7, <1>8, <1>9, <1>10 DEF TilesInv, Ready, Dragged, e

\* Sessions are moved as a menu asked: to a tile of their own, or to another window.
LEMMA HandleMoveKeeps ==
    ASSUME TilesInv, NEW w \in Windows, HandleMove(w)
    PROVE  TilesInv'
<1> DEFINE q == posted[w]
           n == Head(q)
           to == IF n.kind = "tile" THEN {w} ELSE Empty(w)
           moved == UNION {DropSessions(desk, n.ids, v, NoTile) : v \in to}
           queue == [posted EXCEPT ![w] = Tail(q)]
<1>1. /\ Ready(desk, refreshing, posted, pressed) /\ Sound(desk)
      /\ \A v \in Windows : Lit(desk, v)
      /\ posted \in [Windows -> Seq(Notices)]
  BY DEF TilesInv, Ready
<1>2. q # <<>> /\ n.kind # "refresh" /\ UNCHANGED drag
  BY DEF HandleMove
<1>3. PICK d \in (IF to = {} THEN {desk} ELSE moved) : Become(d, queue)
  BY DEF HandleMove
<1>4. to \subseteq Windows
  BY DEF Empty
<1> HIDE DEF to
<1>5. /\ n \in Notices /\ Tail(q) \in Seq(Notices)
      /\ \A s \in Ids : OnItsWay(q, s) => OnItsWay(Tail(q), s)
  <2>1. q \in Seq(Notices)
    BY <1>1
  <2> HIDE DEF q
  <2> QED
    BY <1>2, <2>1, QueuedAfter
<1>6. n.ids \in Seq(Ids) /\ IsInjective(n.ids)
  BY <1>5 DEF Notices
<1> HIDE DEF n
<1>7. Sound(d) /\ Keeps(desk, d) /\ \A v \in Windows : Lit(d, v)
  <2>1. CASE to = {}
    BY <1>1, <1>3, <2>1 DEF Keeps
  <2>2. CASE to # {}
    <3>1. PICK v \in to : d \in DropSessions(desk, n.ids, v, NoTile)
      BY <1>3, <2>2
    <3>2. v \in Windows
      BY <1>4, <3>1
    <3> QED
      BY <1>1, <1>6, <3>1, <3>2, DropSessionsDoes
  <2> QED
    BY <2>1, <2>2
<1> HIDE DEF moved, q
<1>8. /\ queue \in [Windows -> Seq(Notices)]
      /\ \A v \in Windows : \A s \in Ids : OnItsWay(posted[v], s) => OnItsWay(queue[v], s)
  BY <1>1, <1>5 DEF q
<1> HIDE DEF queue
<1>9. Ready(desk', refreshing', posted', pressed')
  BY <1>1, <1>3, <1>7, <1>8, BecomeDoes
<1> QED
  BY <1>2, <1>9 DEF TilesInv, Dragged

\* Nothing is queued for later, and the tiles are as the handler leaves them.
LEMMA OnlyTheDesk ==
    ASSUME TilesInv, Sound(desk'), \A v \in Windows : Lit(desk', v), Keeps(desk, desk'),
           UNCHANGED <<refreshing, posted, drag>>,
           pressed' = NotPressed \/ (pressed'.tile \in Placed(desk'))
    PROVE  TilesInv'
<1>1. MarkedIn(desk', posted')
  <2>1. MarkedIn(desk, posted) /\ posted' = posted
    BY DEF TilesInv, Ready
  <2> QED
    BY <2>1, StaysMarked
<1> QED
  BY <1>1 DEF TilesInv, Ready, Dragged

\* A session is opened, and is active in its window.
LEMMA ConnectKeeps ==
    ASSUME TilesInv, NEW w \in Windows, NEW s \in Ids, NEW t \in Tiles \union {NoTile},
           Connect(w, s, t)
    PROVE  TilesInv'
<1>1. Sound(desk) /\ \A v \in Windows : Lit(desk, v)
  BY DEF TilesInv, Ready
<1>2. /\ t \in GridSet(desk, w) \/ t = NoTile
      /\ s \notin Open(desk) /\ desk' = TakeSession(desk, w, s, t)
      /\ UNCHANGED <<refreshing, posted, pressed, drag>> /\ pressed = NotPressed
  BY DEF Connect, UserFree, GridSet
<1>3. /\ Sound(desk') /\ Keeps(desk, desk')
      /\ Tabs(desk', w) = Tabs(desk, w) \union {s}
      /\ \A v \in Windows \ {w} : Leaves(desk, desk', v)
      /\ Painted(desk', w) /\ Keyed(desk', w)
      /\ desk'.win[w].selected = desk.win[w].selected
  BY <1>1, <1>2, TakeSessionDoes
<1>4. Lit(desk', w)
  BY <1>1, <1>3 DEF Lit
<1>5. \A v \in Windows \ {w} : Lit(desk', v)
  BY <1>1, <1>3, LeftLit
<1> QED
  BY <1>2, <1>3, <1>4, <1>5, OnlyTheDesk

\* The button goes down on a tile: its tab, or the one it shows, is activated.
LEMMA PressKeeps ==
    ASSUME TilesInv, NEW t \in Tiles, NEW i \in Nat, Press(t, i)
    PROVE  TilesInv'
<1> DEFINE s == IF i = 0 THEN Shown(desk, t) ELSE desk.tile[t].tabs[i]
           w == WindowOf(desk, t)
<1>1. Sound(desk) /\ \A v \in Windows : Lit(desk, v)
  BY DEF TilesInv, Ready
<1>2. /\ t \in Placed(desk) /\ i \in {0} \union DOMAIN desk.tile[t].tabs
      /\ desk' = RequestActivate(desk, w, s) /\ pressed'.tile = t
      /\ UNCHANGED <<refreshing, posted, drag>>
  BY DEF Press
<1>3. w \in Windows /\ t \in GridSet(desk, w)
  <2>1. PICK v \in Windows : t \in GridSet(desk, v)
    BY <1>2 DEF Placed, GridSet
  <2> QED
    BY <1>1, <2>1, FoundTile
<1>4. s \in Tabs(desk, w)
  <2>1. desk.tile[t].active \in DOMAIN desk.tile[t].tabs /\ desk.tile[t].tabs \in Seq(Ids)
    BY <1>1, <1>3, DeskParts DEF Sound, Standing
  <2>2. Shown(desk, t) \in TabSet(desk, t)
    BY <2>1 DEF Shown, TabSet, ToSet
  <2>3. s \in TabSet(desk, t)
    BY <1>2, <2>1, <2>2 DEF TabSet, ToSet
  <2> QED
    BY <1>3, <2>3, TabInWindow
<1> HIDE DEF s, w
<1>5. /\ Sound(desk') /\ desk'.grid = desk.grid
      /\ \A v \in Windows : Tabs(desk', v) = Tabs(desk, v)
      /\ desk'.win[w].selected = desk.win[w].selected
      /\ Painted(desk', w) /\ Keyed(desk', w)
      /\ \A v \in Windows \ {w} : Leaves(desk, desk', v)
      /\ Keeps(desk, desk')
  BY <1>1, <1>2, <1>3, <1>4, RequestActivateDoes
<1>6. Lit(desk', w)
  BY <1>1, <1>3, <1>5 DEF Lit
<1>7. \A v \in Windows \ {w} : Lit(desk', v)
  BY <1>1, <1>5, LeftLit
<1>8. pressed'.tile \in Placed(desk')
  BY <1>2, <1>5 DEF Placed
<1> QED
  BY <1>2, <1>5, <1>6, <1>7, <1>8, OnlyTheDesk

\* What a drag starts with is a tab by its index of now, or all tabs of the tile.
LEMMA StartDragKeeps ==
    ASSUME TilesInv, StartDrag
    PROVE  TilesInv'
<1> DEFINE t == pressed.tile
           i == pressed.tab
           tabs == desk.tile[t].tabs
<1>1. Sound(desk) /\ t \in Placed(desk) /\ Dragged(drag)
  BY DEF TilesInv, Ready, StartDrag
<1>2. \/ drag'.ids = tabs /\ drag'.intent = "Tile"
      \/ i \in DOMAIN tabs /\ drag'.ids = <<tabs[i]>> /\ drag'.intent = "Tabs"
      \/ drag' = drag
  BY DEF StartDrag
<1> HIDE DEF i
<1>3. tabs \in Seq(Ids) /\ IsInjective(tabs)
  <2>1. PICK v \in Windows : t \in GridSet(desk, v)
    BY <1>1 DEF Placed, GridSet
  <2>2. t \in Tiles
    BY <1>1, <2>1, FoundTile
  <2> QED
    BY <1>1, <2>2, DeskParts DEF Sound, Apart
<1> HIDE DEF tabs, t
<1>4. Dragged(drag')
  <2>1. CASE drag'.ids = tabs /\ drag'.intent = "Tile"
    BY <1>3, <2>1 DEF Dragged
  <2>2. CASE i \in DOMAIN tabs /\ drag'.ids = <<tabs[i]>> /\ drag'.intent = "Tabs"
    <3>1. tabs[i] \in Ids
      BY <1>3, <2>2
    <3>2. <<tabs[i]>> \in Seq(Ids) /\ IsInjective(<<tabs[i]>>) /\ Len(<<tabs[i]>>) <= 1
      BY <3>1 DEF IsInjective
    <3> QED
      BY <2>2, <3>2 DEF Dragged
  <2>3. CASE drag' = drag
    BY <1>1, <2>3
  <2> QED
    BY <1>2, <2>1, <2>2, <2>3
<1> QED
  BY <1>4 DEF TilesInv, Ready, StartDrag

\* The drag is over.
LEMMA NothingDragged == Dragged(NotDragged)
<1>1. <<>> \in Seq(Ids) /\ IsInjective(<<>>) /\ Len(<<>>) = 0
  BY DEF IsInjective
<1> QED
  BY <1>1 DEF Dragged, NotDragged

\* What is dropped on a tile is moved there, or beside it.
LEMMA DropOnTileDoes ==
    ASSUME Sound(desk), \A v \in Windows : Lit(desk, v), Dragged(drag),
           NEW t \in Placed(desk), NEW before \in 0..Len(desk.tile[t].tabs),
           NEW d \in DropOnTile(t, before)
    PROVE  Sound(d) /\ Keeps(desk, d) /\ \A v \in Windows : Lit(d, v)
<1> DEFINE w == WindowOf(desk, t)
           own == ToSet(drag.ids) \cap TabSet(desk, t) # {}
           to == IF drag.intent = "Tile" THEN NoTile ELSE t
<1>1. w \in Windows /\ t \in GridSet(desk, w)
  <2>1. PICK v \in Windows : t \in GridSet(desk, v)
    BY DEF Placed, GridSet
  <2> QED
    BY <2>1, FoundTile
<1>2. drag.ids \in Seq(Ids) /\ IsInjective(drag.ids) /\ drag.intent \in {"Tabs", "Tile"}
  BY DEF Dragged
<1>3. \/ own /\ drag.intent = "Tabs" /\ d = MoveTabToIndex(desk, t, drag.ids[1], before)
      \/ d = desk
      \/ /\ ~(own /\ drag.intent = "Tabs") /\ ~(own /\ drag.intent = "Tile")
         /\ d \in DropSessions(desk, drag.ids, w, to)
  BY DEF DropOnTile, TabSet
<1> HIDE DEF w
<1>4. CASE own /\ drag.intent = "Tabs" /\ d = MoveTabToIndex(desk, t, drag.ids[1], before)
  <2>1. drag.ids[1] \in TabSet(desk, t)
    <3>1. PICK j \in DOMAIN drag.ids : drag.ids[j] \in TabSet(desk, t)
      BY <1>4 DEF ToSet
    <3>2. Len(drag.ids) <= 1
      BY <1>4 DEF Dragged
    <3>3. j = 1
      BY <1>2, <3>1, <3>2
    <3> QED
      BY <3>1, <3>3
  <2> HIDE DEF own
  <2> QED
    BY <1>4, <2>1, MoveTabStaysSound
<1>5. CASE d = desk
  BY <1>5 DEF Keeps
<1>6. CASE /\ ~(own /\ drag.intent = "Tabs") /\ ~(own /\ drag.intent = "Tile")
           /\ d \in DropSessions(desk, drag.ids, w, to)
  <2>1. to = NoTile \/ (to \in GridSet(desk, w) /\ ToSet(drag.ids) \cap TabSet(desk, to) = {})
    BY <1>1, <1>2, <1>6
  <2> HIDE DEF own, to
  <2> QED
    BY <1>1, <1>2, <1>6, <2>1, DropSessionsDoes
<1> QED
  BY <1>3, <1>4, <1>5, <1>6

\* The button is released over a tile.
LEMMA DropAtKeeps ==
    ASSUME TilesInv, NEW t \in Tiles, NEW before \in Nat, DropAt(t, before)
    PROVE  TilesInv'
<1>1. /\ Ready(desk, refreshing, posted, pressed) /\ Sound(desk)
      /\ \A v \in Windows : Lit(desk, v)
      /\ posted \in [Windows -> Seq(Notices)] /\ Dragged(drag)
  BY DEF TilesInv, Ready
<1>2. /\ t \in Placed(desk) /\ before \in 0..Len(desk.tile[t].tabs) /\ drag' = NotDragged
  BY DEF DropAt
<1>3. \E d : Become(d, posted) /\ Sound(d) /\ Keeps(desk, d) /\ \A v \in Windows : Lit(d, v)
  <2>1. CASE drag.intent = "Tile" /\ drag.source # t /\ WindowOf(desk, t) = drag.from
    <3>1. PICK first \in BOOLEAN :
            Become(MoveTileNear(desk, drag.from, drag.source, t, first), posted)
      BY <2>1 DEF DropAt
    <3>2. drag.from \in Windows
      <4>1. PICK v \in Windows : t \in GridSet(desk, v)
        BY <1>2 DEF Placed, GridSet
      <4> QED
        BY <1>1, <2>1, <4>1, FoundTile
    <3> DEFINE d == MoveTileNear(desk, drag.from, drag.source, t, first)
    <3>3. Become(d, posted) /\ d = MoveTileNear(desk, drag.from, drag.source, t, first)
      BY <3>1
    <3> HIDE DEF d
    <3>4. Sound(d) /\ Keeps(desk, d) /\ \A v \in Windows : Lit(desk, v) => Lit(d, v)
      BY <1>1, <2>1, <3>2, <3>3, MoveTileNearDoes
    <3> QED
      BY <1>1, <3>3, <3>4
  <2>2. CASE ~(drag.intent = "Tile" /\ drag.source # t /\ WindowOf(desk, t) = drag.from)
    <3>1. PICK d \in DropOnTile(t, before) : Become(d, posted)
      BY <2>2 DEF DropAt
    <3>2. Sound(d) /\ Keeps(desk, d) /\ \A v \in Windows : Lit(d, v)
      BY <1>1, <1>2, <3>1, DropOnTileDoes
    <3> QED
      BY <3>1, <3>2
  <2> QED
    BY <2>1, <2>2
<1>4. Ready(desk', refreshing', posted', pressed')
  BY <1>1, <1>3, BecomeDoes
<1> QED
  BY <1>2, <1>4, NothingDragged DEF TilesInv

\* The button is released beside the tiles of a window.
LEMMA DropOnWindowKeeps ==
    ASSUME TilesInv, NEW w \in Windows, DropOnWindow(w)
    PROVE  TilesInv'
<1>1. /\ Ready(desk, refreshing, posted, pressed) /\ Sound(desk)
      /\ \A v \in Windows : Lit(desk, v)
      /\ posted \in [Windows -> Seq(Notices)]
      /\ drag.ids \in Seq(Ids) /\ IsInjective(drag.ids)
  BY DEF TilesInv, Ready, Dragged
<1>2. PICK d \in DropSessions(desk, drag.ids, w, NoTile) : Become(d, posted)
  BY DEF DropOnWindow
<1>3. Sound(d) /\ Keeps(desk, d) /\ \A v \in Windows : Lit(d, v)
  BY <1>1, <1>2, DropSessionsDoes
<1>4. Ready(desk', refreshing', posted', pressed')
  BY <1>1, <1>2, <1>3, BecomeDoes
<1> QED
  BY <1>4, NothingDragged DEF TilesInv, DropOnWindow

\* What a menu asks for is queued.
LEMMA AskMoveKeeps ==
    ASSUME TilesInv, NEW w \in Windows, NEW to \in {"tile", "window"},
           NEW ids \in Seq(Ids), IsInjective(ids), AskMove(w, ids, to)
    PROVE  TilesInv'
<1> DEFINE n == [kind |-> to, ids |-> ids]
           q == Append(posted[w], n)
<1>1. /\ Sound(desk) /\ \A v \in Windows : Lit(desk, v)
      /\ refreshing \in [Windows -> SUBSET Ids] /\ posted \in [Windows -> Seq(Notices)]
      /\ Owed(refreshing, posted) /\ MarkedIn(desk, posted)
      /\ pressed = NotPressed \/ (pressed.tile \in Placed(desk))
  BY DEF TilesInv, Ready
<1>2. n \in Notices
  BY DEF Notices
<1>3. posted' = [posted EXCEPT ![w] = q] /\ UNCHANGED <<desk, refreshing, pressed, drag>>
  BY DEF AskMove
<1> HIDE DEF n
<1>4. q \in Seq(Notices) /\ \A s \in Ids : OnItsWay(posted[w], s) => OnItsWay(q, s)
  <2>1. posted[w] \in Seq(Notices)
    BY <1>1
  <2> QED
    BY <1>2, <2>1, QueuedStays
<1> HIDE DEF q
<1>5. /\ posted' \in [Windows -> Seq(Notices)]
      /\ \A v \in Windows : \A s \in Ids : OnItsWay(posted[v], s) => OnItsWay(posted'[v], s)
  BY <1>1, <1>3, <1>4
<1>6. Owed(refreshing', posted')
  BY <1>1, <1>3, <1>5 DEF Owed
<1>7. MarkedIn(desk', posted')
  <2>1. Keeps(desk, desk') /\ Sound(desk')
    BY <1>1, <1>3 DEF Keeps
  <2> QED
    BY <1>1, <1>5, <2>1, StaysMarked
<1> QED
  BY <1>1, <1>3, <1>5, <1>6, <1>7 DEF TilesInv, Ready, Dragged

\* By a tab's menu.
LEMMA AskTabMoveKeeps ==
    ASSUME TilesInv, NEW s \in Ids, NEW to \in {"tile", "window"}, AskTabMove(s, to)
    PROVE  TilesInv'
<1> DEFINE w == WindowOf(desk, Home(desk, s))
<1>1. w \in Windows
  BY FoundOpen DEF TilesInv, Ready, AskTabMove
<1>2. <<s>> \in Seq(Ids) /\ IsInjective(<<s>>)
  BY DEF IsInjective
<1>3. AskMove(w, <<s>>, to)
  BY DEF AskTabMove
<1> HIDE DEF w
<1> QED
  BY <1>1, <1>2, <1>3, AskMoveKeeps

\* By a tile's menu.
LEMMA AskTileMoveKeeps ==
    ASSUME TilesInv, NEW t \in Tiles, AskTileMove(t)
    PROVE  TilesInv'
<1> DEFINE w == WindowOf(desk, t)
           ids == desk.tile[t].tabs
<1>1. Sound(desk) /\ TabSet(desk, t) # {} /\ AskMove(w, ids, "window")
  BY DEF TilesInv, Ready, AskTileMove, TabSet
<1>2. w \in Windows
  <2>1. PICK s \in TabSet(desk, t) : TRUE
    BY <1>1
  <2>2. PICK v \in Windows : t \in GridSet(desk, v)
    BY <1>1, Found
  <2> QED
    BY <1>1, <2>2, FoundTile
<1>3. ids \in Seq(Ids) /\ IsInjective(ids)
  BY <1>1, DeskParts DEF Sound, Apart
<1> HIDE DEF w, ids
<1> QED
  BY <1>1, <1>2, <1>3, AskMoveKeeps

\* When a router's choice changes and its window is painted again, it is lit.
LEMMA RepaintedDoes ==
    ASSUME NEW d, Sound(d), \A v \in Windows : Lit(d, v), NEW w \in Windows,
           NEW n \in Desks, n.grid = d.grid, n.tile = d.tile, n.entry = d.entry,
           n.fresh = d.fresh, \A v \in Windows \ {w} : n.win[v] = d.win[v],
           n.win[w].focused = d.win[w].focused, n.win[w].active = d.win[w].active,
           n.win[w].selected \subseteq Tabs(d, w),
           NEW e, e = RefreshVisuals(n, w)
    PROVE  /\ Sound(e) /\ Keeps(d, e) /\ e.grid = d.grid
           /\ \A v \in Windows : Lit(e, v)
<1>1. /\ Sound(n) /\ Keeps(d, n)
      /\ \A v \in Windows : GridSet(n, v) = GridSet(d, v) /\ Tabs(n, v) = Tabs(d, v)
      /\ \A u \in Tiles : TabSet(n, u) = TabSet(d, u)
  BY OnlyRouters
<1>2. /\ e \in Desks /\ e.grid = n.grid /\ e.win = n.win /\ e.fresh = n.fresh
      /\ \A u \in Tiles : /\ e.tile[u].tabs = n.tile[u].tabs
                          /\ e.tile[u].active = n.tile[u].active
                          /\ e.tile[u].focused = n.tile[u].focused
      /\ \A u \in Tiles \ GridSet(n, w) : e.tile[u] = n.tile[u]
      /\ \A s \in Ids : e.entry[s].unread = n.entry[s].unread
      /\ \A s \in Ids \ Tabs(n, w) : e.entry[s] = n.entry[s]
      /\ Painted(e, w)
  BY RefreshVisualsDoes
<1>3. \A v \in Windows : \A u \in GridSet(d, v) :
        /\ u \in Tiles /\ e.tile[u].active \in DOMAIN d.tile[u].tabs
        /\ Shown(e, u) = Shown(d, u) /\ Shown(e, u) \notin e.fresh
  <2> TAKE v \in Windows
  <2> TAKE u \in GridSet(d, v)
  <2>1. u \in Tiles /\ d.tile[u].active \in DOMAIN d.tile[u].tabs
    BY FoundTile DEF Sound, Standing
  <2>2. e.tile[u].active = d.tile[u].active /\ e.tile[u].tabs = d.tile[u].tabs
    BY <1>2, <2>1
  <2>3. Shown(e, u) = Shown(d, u)
    BY <2>2 DEF Shown
  <2>4. Shown(d, u) \notin d.fresh
    BY <2>1 DEF Sound, Hidden
  <2> QED
    BY <1>2, <2>1, <2>2, <2>3, <2>4
<1>4. /\ e.grid = d.grid /\ e.fresh \subseteq d.fresh
      /\ \A u \in Tiles : e.tile[u].tabs = d.tile[u].tabs
      /\ \A u \in Tiles : (\A v \in Windows : u \notin GridSet(d, v)) => e.tile[u] = d.tile[u]
  BY <1>1, <1>2
<1>5. /\ Sound(e)
      /\ \A v \in Windows : GridSet(e, v) = GridSet(d, v) /\ Tabs(e, v) = Tabs(d, v)
      /\ \A u \in Tiles : TabSet(e, u) = TabSet(d, u)
  BY <1>2, <1>3, <1>4, StaysSound
<1>6. Keeps(d, e)
  <2>1. \A s \in e.fresh : s \in Ids /\ e.entry[s].unread = d.entry[s].unread
    BY <1>2, DeskParts
  <2> QED
    BY <1>4, <1>5, <2>1 DEF Keeps
<1>7. Lit(e, w)
  <2>1. Keyed(d, w)
    BY DEF Lit
  <2>2. e.win[w].focused = d.win[w].focused /\ e.win[w].active = d.win[w].active
    BY <1>2
  <2>3. \A u \in GridSet(d, w) : /\ e.tile[u].focused = d.tile[u].focused
                                 /\ Shown(e, u) = Shown(d, u) /\ TabSet(e, u) = TabSet(d, u)
    BY <1>2, <1>3, <1>5
  <2>4. GridSet(e, w) = GridSet(d, w) /\ Tabs(e, w) = Tabs(d, w)
    BY <1>5
  <2>5. Keyed(e, w)
    BY <2>1, <2>2, <2>3, <2>4 DEF Keyed
  <2> QED
    BY <1>2, <2>4, <2>5 DEF Lit
<1>8. ASSUME NEW v \in Windows \ {w} PROVE Lit(e, v)
  <2>1. ASSUME NEW u \in GridSet(d, v) PROVE e.tile[u] = d.tile[u]
    <3>1. u \in Tiles /\ u \notin GridSet(d, w)
      BY <1>3, <1>8 DEF Sound, Apart
    <3> QED
      BY <1>1, <1>2, <3>1
  <2>2. ASSUME NEW s \in Tabs(d, v) PROVE e.entry[s].cast = d.entry[s].cast
    <3>1. s \in Ids /\ s \notin Tabs(d, w)
      BY <1>8, FoundTab
    <3> QED
      BY <1>1, <1>2, <3>1
  <2>3. Leaves(d, e, v)
    BY <1>2, <1>8, <2>1, <2>2 DEF Leaves
  <2> QED
    BY <2>3, LeftLit
<1> QED
  BY <1>4, <1>5, <1>6, <1>7, <1>8

Routed(d, w, S, m) == [d EXCEPT !.win[w].selected = S, !.win[w].mode = m]

\* A router with another choice and mode.
LEMMA RouterWith ==
    ASSUME NEW d \in Desks, NEW w \in Windows, NEW m \in {"Focused", "Broadcast"},
           NEW S \in SUBSET Ids, NEW n, n = Routed(d, w, S, m)
    PROVE  /\ n \in Desks /\ n.grid = d.grid /\ n.tile = d.tile /\ n.entry = d.entry
           /\ n.fresh = d.fresh /\ \A v \in Windows \ {w} : n.win[v] = d.win[v]
           /\ n.win[w].focused = d.win[w].focused /\ n.win[w].active = d.win[w].active
           /\ n.win[w].selected = S /\ n.win[w].mode = m
<1> DEFINE Routers == [focused : Ids \union {NoSession}, selected : SUBSET Ids,
                       mode : {"Focused", "Broadcast"}, active : Ids \union {NoSession}]
           r == [d.win[w] EXCEPT !.selected = S, !.mode = m]
           W == [d.win EXCEPT ![w] = r]
<1>1. d.win \in [Windows -> Routers] /\ d.win[w] \in Routers
  BY DEF Desks
<1>2. n = [d EXCEPT !.win = W]
  BY <1>1 DEF Desks, Routed
<1>3. /\ r \in Routers /\ r.selected = S /\ r.mode = m
      /\ r.focused = d.win[w].focused /\ r.active = d.win[w].active
  BY <1>1
<1> HIDE DEF r
<1>4. W \in [Windows -> Routers] /\ W[w] = r /\ \A v \in Windows \ {w} : W[v] = d.win[v]
  BY <1>1, <1>3
<1> HIDE DEF W
<1>5. /\ n \in Desks /\ n.grid = d.grid /\ n.tile = d.tile /\ n.entry = d.entry
      /\ n.fresh = d.fresh /\ n.win = W
  BY <1>2, <1>4 DEF Desks
<1> QED
  BY <1>3, <1>4, <1>5

\* One is added to the broadcast or taken out of it by name.
LEMMA ToggleTileBroadcastKeeps ==
    ASSUME TilesInv, NEW s \in Ids, ToggleTileBroadcast(s)
    PROVE  TilesInv'
<1> DEFINE w == WindowOf(desk, Home(desk, s))
           selected == desk.win[w].selected
<1>1. Sound(desk) /\ (\A v \in Windows : Lit(desk, v)) /\ desk \in Desks
  BY DEF TilesInv, Ready, Sound
<1>2. s \in Open(desk) /\ UNCHANGED <<refreshing, posted, pressed, drag>>
      /\ pressed = NotPressed
  BY DEF ToggleTileBroadcast, UserFree
<1>3. w \in Windows /\ s \in Tabs(desk, w)
  BY <1>1, <1>2, FoundOpen
<1>4. \E S \in SUBSET Tabs(desk, w), m \in {"Focused", "Broadcast"} :
        desk' = RefreshVisuals(Routed(desk, w, S, m), w)
  <2>1. selected \subseteq Tabs(desk, w) /\ desk.win[w].mode \in {"Focused", "Broadcast"}
    BY <1>1, <1>3 DEF Lit, Desks
  <2>2. CASE s \in selected
    <3> DEFINE S == selected \ {s}
               m == IF selected = {s} THEN "Focused" ELSE desk.win[w].mode
    <3>1. desk' = RefreshVisuals(Routed(desk, w, S, m), w)
      BY <1>1, <1>3, <2>2 DEF ToggleTileBroadcast, Desks, Routed
    <3>2. S \in SUBSET Tabs(desk, w) /\ m \in {"Focused", "Broadcast"}
      BY <2>1
    <3> QED
      BY <3>1, <3>2
  <2>3. CASE s \notin selected
    <3> DEFINE S == selected \union {s}
    <3>1. desk' = RefreshVisuals(Routed(desk, w, S, "Broadcast"), w)
      BY <1>1, <1>3, <2>3 DEF ToggleTileBroadcast, Desks, Routed
    <3>2. S \in SUBSET Tabs(desk, w)
      BY <1>3, <2>1
    <3> QED
      BY <3>1, <3>2
  <2> QED
    BY <2>2, <2>3
<1> HIDE DEF w
<1>5. PICK S \in SUBSET Tabs(desk, w), m \in {"Focused", "Broadcast"} :
        desk' = RefreshVisuals(Routed(desk, w, S, m), w)
  BY <1>4
<1> DEFINE n == Routed(desk, w, S, m)
<1>6. desk' = RefreshVisuals(n, w) /\ n = Routed(desk, w, S, m)
  BY <1>5
<1> HIDE DEF n
<1>7. S \in SUBSET Ids
  BY <1>1, <1>3, DeskParts
<1>8. /\ n \in Desks /\ n.grid = desk.grid /\ n.tile = desk.tile /\ n.entry = desk.entry
      /\ n.fresh = desk.fresh /\ \A v \in Windows \ {w} : n.win[v] = desk.win[v]
      /\ n.win[w].focused = desk.win[w].focused /\ n.win[w].active = desk.win[w].active
      /\ n.win[w].selected = S
  BY <1>1, <1>3, <1>6, <1>7, RouterWith
<1>9. n.win[w].selected \subseteq Tabs(desk, w)
  BY <1>8
<1>10. /\ Sound(desk') /\ Keeps(desk, desk') /\ desk'.grid = desk.grid
       /\ \A v \in Windows : Lit(desk', v)
  BY <1>1, <1>3, <1>6, <1>8, <1>9, RepaintedDoes
<1> QED
  BY <1>2, <1>10, OnlyTheDesk

\* The switch of the menu.
LEMMA ToggleBroadcastModeKeeps ==
    ASSUME TilesInv, NEW w \in Windows, ToggleBroadcastMode(w)
    PROVE  TilesInv'
<1> DEFINE on == desk.win[w].mode # "Broadcast"
           m == IF on THEN "Broadcast" ELSE "Focused"
           S == IF on /\ desk.win[w].selected = {} THEN {desk.win[w].active} \ {NoSession}
                ELSE desk.win[w].selected
           n == Routed(desk, w, S, m)
<1>1. Sound(desk) /\ (\A v \in Windows : Lit(desk, v)) /\ desk \in Desks
  BY DEF TilesInv, Ready, Sound
<1>2. UNCHANGED <<refreshing, posted, pressed, drag>> /\ pressed = NotPressed
  BY DEF ToggleBroadcastMode, UserFree
<1>3. S \subseteq Tabs(desk, w)
  BY <1>1 DEF Lit, Keyed
<1>4. m \in {"Focused", "Broadcast"}
  OBVIOUS
<1>5. desk' = RefreshVisuals(n, w)
  BY <1>1 DEF ToggleBroadcastMode, Desks, Routed
<1>6. n = Routed(desk, w, S, m)
  OBVIOUS
<1>7. S \in SUBSET Ids
  BY <1>1, <1>3, DeskParts
<1> HIDE DEF n, S, m
<1>8. /\ n \in Desks /\ n.grid = desk.grid /\ n.tile = desk.tile /\ n.entry = desk.entry
      /\ n.fresh = desk.fresh /\ \A v \in Windows \ {w} : n.win[v] = desk.win[v]
      /\ n.win[w].focused = desk.win[w].focused /\ n.win[w].active = desk.win[w].active
      /\ n.win[w].selected = S
  BY <1>1, <1>4, <1>6, <1>7, RouterWith
<1>9. n.win[w].selected \subseteq Tabs(desk, w)
  BY <1>3, <1>8
<1>10. /\ Sound(desk') /\ Keeps(desk, desk') /\ desk'.grid = desk.grid
       /\ \A v \in Windows : Lit(desk', v)
  BY <1>1, <1>5, <1>8, <1>9, RepaintedDoes
<1> QED
  BY <1>2, <1>10, OnlyTheDesk

\* What every step keeps.
LEMMA TilesStepKeeps ==
    ASSUME TilesInv, [NextTiles]_tilesVars
    PROVE  TilesInv'
<1>1. CASE UNCHANGED tilesVars
  BY <1>1 DEF tilesVars, TilesInv, Ready, Dragged, MarkedIn, Owed
<1>2. ASSUME NEW s \in Ids, End(s) \/ Output(s) PROVE TilesInv'
  BY <1>2, EndKeeps, OutputKeeps
<1>3. ASSUME NEW w \in Windows, HandleRefresh(w) \/ HandleMove(w) PROVE TilesInv'
  BY <1>3, HandleRefreshKeeps, HandleMoveKeeps
<1>4. CASE Release
  BY <1>4 DEF Release, TilesInv, Ready, Dragged, MarkedIn, Owed
<1>5. CASE StartDrag
  BY <1>5, StartDragKeeps
<1>6. CASE DropNowhere
  <2>1. Ready(desk', refreshing', posted', pressed')
    BY <1>6 DEF DropNowhere, TilesInv
  <2> QED
    BY <1>6, <2>1, NothingDragged DEF DropNowhere, TilesInv
<1>7. ASSUME NEW w \in Windows, DropOnWindow(w) \/ ToggleBroadcastMode(w) PROVE TilesInv'
  BY <1>7, DropOnWindowKeeps, ToggleBroadcastModeKeeps
<1>8. ASSUME NEW w \in Windows, NEW s \in Ids, NEW t \in Tiles \union {NoTile}, Connect(w, s, t)
      PROVE  TilesInv'
  BY <1>8, ConnectKeeps
<1>9. ASSUME NEW s \in Ids, ToggleTileBroadcast(s) PROVE TilesInv'
  BY <1>9, ToggleTileBroadcastKeeps
<1>10. ASSUME NEW s \in Ids, NEW to \in {"tile", "window"}, AskTabMove(s, to) PROVE TilesInv'
  BY <1>10, AskTabMoveKeeps
<1>11. ASSUME NEW t \in Tiles, AskTileMove(t) PROVE TilesInv'
  BY <1>11, AskTileMoveKeeps
<1>12. ASSUME NEW t \in Tiles, NEW i \in 0..Cardinality(Ids), Press(t, i) \/ DropAt(t, i)
       PROVE  TilesInv'
  <2>1. i \in Nat
    BY FS_CardinalityType, TilesAssumption
  <2> QED
    BY <1>12, <2>1, PressKeeps, DropAtKeeps
<1>13. CASE Others
  BY <1>2, <1>3, <1>13 DEF Others
<1>14. CASE User
  BY <1>4, <1>5, <1>6, <1>7, <1>8, <1>9, <1>10, <1>11, <1>12, <1>14 DEF User
<1> QED
  BY <1>1, <1>13, <1>14 DEF NextTiles

\* In every state a session has one tab and a tile one window, every window looks as
\* its router is, and notices of output are marked or under way.
THEOREM TilesInvariant == TilesSpec => []TilesInv
<1>1. InitTiles => TilesInv
  BY InitReady
<1>2. TilesInv /\ [NextTiles]_tilesVars => TilesInv'
  BY TilesStepKeeps
<1> QED
  BY <1>1, <1>2, PTL DEF TilesSpec

\* Everything has its type, a tile of a window has tabs, a session one tab.
THEOREM TilesTypes == TilesSpec => []TilesTypeOK
<1>1. TilesInv => TilesTypeOK
  <2> SUFFICES ASSUME TilesInv PROVE TilesTypeOK
    OBVIOUS
  <2>1. Sound(desk) /\ desk \in Desks /\ refreshing \in [Windows -> SUBSET Ids]
    BY DEF TilesInv, Ready, Sound
  <2>2. \A w \in Windows :
          /\ desk.grid[w] \in Seq(Tiles) /\ refreshing[w] \subseteq Ids
          /\ desk.win[w].selected \subseteq Ids
          /\ desk.win[w].mode \in {"Focused", "Broadcast"}
          /\ {desk.win[w].focused, desk.win[w].active} \subseteq Ids \union {NoSession}
    BY <2>1 DEF Desks
  <2>3. ASSUME NEW t \in Placed(desk)
        PROVE  desk.tile[t].tabs # <<>> /\ Shown(desk, t) # NoSession /\ t \in Tiles
    <3>1. PICK w \in Windows : t \in GridSet(desk, w)
      BY <2>3 DEF Placed, GridSet
    <3>2. /\ t \in Tiles /\ desk.tile[t].active \in DOMAIN desk.tile[t].tabs
          /\ desk.tile[t].tabs \in Seq(Ids)
      BY <2>1, <3>1, FoundTile, DeskParts DEF Sound, Standing
    <3>3. Shown(desk, t) \in Ids
      BY <3>2 DEF Shown
    <3> QED
      BY <3>2, <3>3, TilesAssumption
  <2>4. ASSUME NEW t \in Tiles, t \notin Placed(desk) PROVE desk.tile[t].tabs = <<>>
    <3>1. \A w \in Windows : t \notin GridSet(desk, w)
      BY <2>4 DEF Placed, GridSet
    <3> QED
      BY <2>1, <3>1 DEF Sound, Standing, BlankTile
  <2>5. \A t \in Tiles : desk.tile[t].tabs \in Seq(Ids) /\ IsInjective(desk.tile[t].tabs)
    BY <2>1, DeskParts DEF Sound, Apart
  <2>6. \A t, u \in Tiles : t # u => ToSet(desk.tile[t].tabs) \cap ToSet(desk.tile[u].tabs) = {}
    BY <2>1 DEF Sound, Apart, TabSet
  <2>7. pressed.tile \in Tiles \union {NoTile} /\ drag.ids \in Seq(Ids)
    BY <2>3 DEF TilesInv, Ready, Dragged, NotPressed
  <2>8. \A t \in Tiles : /\ (desk.tile[t].tabs # <<>>) = (t \in Placed(desk))
                         /\ t \in Placed(desk) => Shown(desk, t) # NoSession
    BY <2>3, <2>4
  <2> QED
    BY <2>2, <2>5, <2>6, <2>7, <2>8 DEF TilesTypeOK
<1> QED
  BY <1>1, TilesInvariant, PTL

\* A key typed in a window reaches just the sessions whose tabs there look it, whatever
\* sessions, tiles and windows there are and however they were moved.
THEOREM TilesInputIsShown == TilesSpec => []InputIsShown
<1>1. TilesInv => InputIsShown
  <2> SUFFICES ASSUME TilesInv, NEW w \in Windows, NEW s \in Ids
               PROVE  s \in Recipients(desk, w) <=> s \in Tabs(desk, w) /\ LooksTypedTo(s)
    BY DEF InputIsShown
  <2> DEFINE r == desk.win[w]
             on == r.mode = "Broadcast"
             t == Home(desk, s)
  <2>1. Sound(desk) /\ Painted(desk, w) /\ Keyed(desk, w) /\ r.selected \subseteq Tabs(desk, w)
    BY DEF TilesInv, Ready, Lit
  <2>2. CASE s \notin Tabs(desk, w)
    <3>1. s \notin r.selected
      BY <2>1, <2>2
    <3>2. r.focused # s
      BY <2>1, <2>2, TilesAssumption DEF Keyed
    <3> QED
      BY <2>2, <3>1, <3>2 DEF Recipients
  <2>3. CASE s \in Tabs(desk, w)
    <3>1. t \in Tiles /\ s \in TabSet(desk, t) /\ t \in GridSet(desk, w)
      BY <2>1, <2>3, FoundTab
    <3> HIDE DEF t
    <3>2. /\ desk.entry[s].cast = (on /\ s \in r.selected)
          /\ desk.tile[t].mode = on
          /\ desk.tile[t].cast = \E u \in TabSet(desk, t) : on /\ u \in r.selected
      BY <2>1, <2>3, <3>1 DEF Painted
    <3>3. /\ desk.tile[t].focused = (r.focused \in TabSet(desk, t))
          /\ desk.tile[t].focused => Shown(desk, t) = r.focused
      BY <2>1, <3>1 DEF Keyed
    <3>4. CASE on
      <4>1. LooksTypedTo(s) <=> s \in r.selected
        BY <3>2, <3>4 DEF LooksTypedTo, t
      <4> QED
        BY <2>3, <3>4, <4>1 DEF Recipients
    <3>5. CASE ~on
      <4>1. desk.entry[s].cast = FALSE /\ desk.tile[t].mode = FALSE /\ desk.tile[t].cast = FALSE
        BY <3>2, <3>5
      <4>2. LooksTypedTo(s) <=> (desk.tile[t].focused /\ Shown(desk, t) = s)
        BY <4>1 DEF LooksTypedTo, t
      <4>3. LooksTypedTo(s) <=> r.focused = s
        BY <3>1, <3>3, <4>2
      <4>4. s \in Recipients(desk, w) <=> r.focused = s
        BY <3>5, TilesAssumption DEF Recipients
      <4> QED
        BY <2>3, <4>3, <4>4
    <3> QED
      BY <3>4, <3>5
  <2> QED
    BY <2>2, <2>3
<1> QED
  BY <1>1, TilesInvariant, PTL

\* Output that came while its tab was not shown is marked, or will be in the window its
\* session is in, across every move.
THEOREM TilesUnreadIsKept == TilesSpec => []UnreadIsKept
<1>1. TilesInv => UnreadIsKept
  <2> SUFFICES ASSUME TilesInv, NEW s \in desk.fresh, s \in Open(desk)
               PROVE  \/ desk.entry[s].unread
                      \/ OnItsWay(posted[WindowOf(desk, Home(desk, s))], s)
    BY DEF UnreadIsKept, OnItsWay
  <2>1. Sound(desk) /\ MarkedIn(desk, posted)
    BY DEF TilesInv, Ready
  <2>2. /\ WindowOf(desk, Home(desk, s)) \in Windows
        /\ s \in Tabs(desk, WindowOf(desk, Home(desk, s)))
    BY <2>1, FoundOpen
  <2> QED
    BY <2>1, <2>2 DEF MarkedIn
<1> QED
  BY <1>1, TilesInvariant, PTL

\* Whatever the tabs of a tile are, closing and moving one leaves what is shown and the
\* order of the others, and the moved tab comes to stand where it was dropped.
THEOREM TilesTabsKeepTheirPlace == TilesSpec => []TabsKeepTheirPlace
<1>1. TilesInv => TabsKeepTheirPlace
  BY PlacesKept DEF TilesInv, Ready
<1> QED
  BY <1>1, TilesInvariant, PTL

-----------------------------------------------------------------------------
(* The room a layout takes *)

LEMMA LeastOf ==
    ASSUME NEW S \in SUBSET Nat, S # {}
    PROVE  Min(S) \in S /\ \A y \in S : Min(S) <= y
<1>1. IsWellFoundedOn(Smaller, Nat)
  BY NatLessThanWellFounded, Zenon DEF OpToRel, Smaller
<1>2. PICK x \in S : \A y \in S : ~ (<<y, x>> \in Smaller)
  BY <1>1, WFMin
<1>3. \A y \in S : ~(y < x)
  BY <1>2 DEF Smaller
<1>4. \A y \in S : x <= y
  BY <1>3
<1> QED
  BY <1>4 DEF Min

LEMMA GreatestOf ==
    ASSUME NEW S \in SUBSET Nat, S # {}, NEW b \in Nat, \A x \in S : x <= b
    PROVE  Max(S) \in S /\ \A y \in S : y <= Max(S)
<1> DEFINE U == {u \in Nat : \A x \in S : x <= u}
<1>1. U \in SUBSET Nat /\ b \in U
  OBVIOUS
<1>2. PICK m \in U : \A u \in U : m <= u
  BY <1>1, LeastOf
<1>3. m \in Nat /\ \A x \in S : x <= m
  OBVIOUS
<1>4. m \in S
  <2> SUFFICES ASSUME m \notin S PROVE FALSE
    OBVIOUS
  <2>1. \A x \in S : x <= m - 1 /\ m - 1 \in Nat
    BY <1>3
  <2>2. m - 1 \in U
    BY <2>1
  <2> QED
    BY <1>2, <1>3, <2>2
<1>5. \A y \in S : m >= y
  BY <1>3
<1> QED
  BY <1>4, <1>5 DEF Max

LEMMA GreaterOf ==
    ASSUME NEW a \in Nat, NEW b \in Nat
    PROVE  Max({a, b}) = IF a < b THEN b ELSE a
<1>1. Max({a, b}) \in {a, b} /\ \A y \in {a, b} : y <= Max({a, b})
  <2>1. PICK c \in Nat : a <= c /\ b <= c
    OBVIOUS
  <2> QED
    BY <2>1, GreatestOf
<1> QED
  BY <1>1

LEMMA SmallerOf ==
    ASSUME NEW a \in Nat, NEW b \in Nat
    PROVE  Min({a, b}) = IF a < b THEN a ELSE b
<1>1. Min({a, b}) \in {a, b} /\ \A y \in {a, b} : Min({a, b}) <= y
  BY LeastOf
<1> QED
  BY <1>1

\* f is x at first and after that what F makes of it, and there is such a function.
Iterates(f, n, V, x, F) ==
    /\ f = [i \in 0..n |-> IF i = 0 THEN x ELSE F[<<i, f[i - 1]>>]]
    /\ \A i \in 0..n : f[i] \in V

LEMMA Iterated ==
    ASSUME NEW n \in Nat, NEW V, NEW x \in V, NEW F \in [(1..n) \X V -> V]
    PROVE  \E f : Iterates(f, n, V, x, F)
<1> DEFINE Is(f, k) == /\ f = [i \in 0..k |-> IF i = 0 THEN x ELSE F[<<i, f[i - 1]>>]]
                       /\ \A i \in 0..k : f[i] \in V
           T == {k \in 0..n : \E f : Is(f, k)}
<1>1. 0 \in T
  <2> DEFINE f == [i \in 0..0 |-> x]
  <2>1. f = [i \in 0..0 |-> IF i = 0 THEN x ELSE F[<<i, f[i - 1]>>]]
    OBVIOUS
  <2>2. \A i \in 0..0 : f[i] \in V
    OBVIOUS
  <2> HIDE DEF f
  <2> QED
    BY <2>1, <2>2
<1>2. ASSUME NEW k \in 1..n, k - 1 \in T PROVE k \in T
  <2>1. PICK g : Is(g, k - 1)
    BY <1>2
  <2> DEFINE h == [i \in 0..k |-> IF i = k THEN F[<<k, g[k - 1]>>] ELSE g[i]]
  <2>2. k - 1 \in 0..(k - 1) /\ k - 1 # k /\ k # 0 /\ k \in 0..k /\ k - 1 \in 0..k
    OBVIOUS
  <2>3. \A i \in 0..(k - 1) : i \in 0..k /\ i # k
    OBVIOUS
  <2>4. h[k] = F[<<k, g[k - 1]>>] /\ \A i \in 0..(k - 1) : h[i] = g[i]
    BY <2>2, <2>3
  <2>5. ASSUME NEW i \in 0..k PROVE h[i] = IF i = 0 THEN x ELSE F[<<i, h[i - 1]>>]
    <3>1. CASE i = k
      BY <2>2, <2>4, <3>1
    <3>2. CASE i # k
      <4>1. i \in 0..(k - 1) /\ (i # 0 => i - 1 \in 0..(k - 1))
        BY <3>2
      <4>2. g[i] = IF i = 0 THEN x ELSE F[<<i, g[i - 1]>>]
        BY <2>1, <4>1
      <4> QED
        BY <2>4, <4>1, <4>2
    <3> QED
      BY <3>1, <3>2
  <2>6. ASSUME NEW i \in 0..k PROVE h[i] \in V
    <3>1. g[k - 1] \in V
      BY <2>1, <2>2
    <3>2. F[<<k, g[k - 1]>>] \in V
      BY <3>1
    <3>3. CASE i = k
      BY <2>4, <3>2, <3>3
    <3>4. CASE i # k
      BY <2>1, <2>4, <3>4
    <3> QED
      BY <3>3, <3>4
  <2>7. h = [i \in 0..k |-> h[i]]
    OBVIOUS
  <2> HIDE DEF h
  <2>8. h = [i \in 0..k |-> IF i = 0 THEN x ELSE F[<<i, h[i - 1]>>]]
    BY <2>5, <2>7
  <2>9. Is(h, k)
    BY <2>6, <2>8
  <2> HIDE DEF Is
  <2> QED
    BY <2>9
<1> HIDE DEF T
<1>3. n \in T
  <2>1. \A k \in 0..n : k \in T
    BY <1>1, <1>2, CountUp
  <2> QED
    BY <2>1
<1> QED
  BY <1>3 DEF T, Iterates

-----------------------------------------------------------------------------
(* A layout as RelayoutTiles makes it *)

Places == [line : Nat, lines : Seq(Nat), at : Nat, longest : Nat]
FirstPlace == [line |-> 1, lines |-> <<>>, at |-> Gap, longest |-> 0]

\* What happens to one tile: it goes on, or begins a line.
LEMMA NextPlaceIs ==
    ASSUME NEW a \in Places, NEW size \in Nat, NEW room \in Nat
    PROVE  LET b == NextPlace(a, size, room)
               wraps == a.at > Gap /\ a.at + size + Gap > room
           IN /\ b \in Places /\ a.longest <= b.longest /\ b.at <= b.longest
              /\ b.line = IF wraps THEN a.line + 1 ELSE a.line
              /\ b.at = (IF wraps THEN Gap ELSE a.at) + size + Gap
<1> DEFINE wraps == a.at > Gap /\ a.at + size + Gap > room
           from == IF wraps THEN Gap ELSE a.at
           line == IF wraps THEN a.line + 1 ELSE a.line
           b == NextPlace(a, size, room)
<1>1. Gap \in Nat /\ a.at \in Nat /\ a.line \in Nat /\ a.longest \in Nat /\ a.lines \in Seq(Nat)
  BY TilesAssumption DEF Places
<1>2. b = [line |-> line, lines |-> Append(a.lines, line), at |-> from + size + Gap,
           longest |-> Max({a.longest, from + size + Gap})]
  BY DEF NextPlace
<1>3. from \in Nat /\ line \in Nat /\ from + size + Gap \in Nat
  BY <1>1
<1> HIDE DEF from, line, b
<1>4. Max({a.longest, from + size + Gap})
        = IF a.longest < from + size + Gap THEN from + size + Gap ELSE a.longest
  BY <1>1, <1>3, GreaterOf
<1>5. Append(a.lines, line) \in Seq(Nat)
  BY <1>1, <1>3
<1>6. b \in Places
  BY <1>1, <1>2, <1>3, <1>4, <1>5 DEF Places
<1>7. /\ b.line = line /\ b.at = from + size + Gap
      /\ a.longest <= b.longest /\ b.at <= b.longest
  BY <1>1, <1>2, <1>3, <1>4
<1> QED
  BY <1>6, <1>7 DEF b, from, line

\* A layout is what is left of the places after each of its tiles.
LaidBy(d, ts, k, room, f) ==
    /\ Laid(d, ts, k, room) = f[Len(ts)] /\ f[0] = FirstPlace
    /\ \A i \in 0..Len(ts) : f[i] \in Places
    /\ \A i \in 1..Len(ts) : f[i] = NextPlace(f[i - 1], Extent(d, ts[i], k), room)

LEMMA LaidIs ==
    ASSUME NEW d, NEW ts \in Seq(Tiles), NEW k, NEW room \in Nat,
           \A i \in 1..Len(ts) : Extent(d, ts[i], k) \in Nat
    PROVE  \E f : LaidBy(d, ts, k, room, f)
<1> DEFINE n == Len(ts)
           P(f) == f = [i \in 0..Len(ts) |-> IF i = 0 THEN [line |-> 1, lines |-> <<>>, at |-> Gap, longest |-> 0]
                          ELSE NextPlace(f[i - 1], Extent(d, ts[i], k), room)]
           F == [p \in (1..n) \X Places |-> NextPlace(p[2], Extent(d, ts[p[1]], k), room)]
           f == CHOOSE g : P(g)
<1>1. n \in Nat
  OBVIOUS
<1>2. FirstPlace \in Places
  BY TilesAssumption DEF FirstPlace, Places
<1>3. F \in [(1..n) \X Places -> Places]
  <2> SUFFICES ASSUME NEW p \in (1..n) \X Places
               PROVE  NextPlace(p[2], Extent(d, ts[p[1]], k), room) \in Places
    OBVIOUS
  <2>1. p[2] \in Places /\ Extent(d, ts[p[1]], k) \in Nat
    OBVIOUS
  <2> QED
    BY <2>1, NextPlaceIs
<1>4. PICK g : Iterates(g, n, Places, FirstPlace, F)
  <2> HIDE DEF F, n
  <2> QED
    BY <1>1, <1>2, <1>3, Iterated
<1>5. ASSUME NEW h, NEW i \in 1..n, \A j \in 0..n : h[j] \in Places
      PROVE  F[<<i, h[i - 1]>>] = NextPlace(h[i - 1], Extent(d, ts[i], k), room)
  <2>1. <<i, h[i - 1]>> \in (1..n) \X Places
    BY <1>1, <1>5
  <2> QED
    BY <2>1
<1> HIDE DEF F
<1>6. \A i \in 0..n : g[i] = IF i = 0 THEN FirstPlace
                             ELSE NextPlace(g[i - 1], Extent(d, ts[i], k), room)
  <2> TAKE i \in 0..n
  <2>1. g[i] = IF i = 0 THEN FirstPlace ELSE F[<<i, g[i - 1]>>]
    BY <1>4 DEF Iterates
  <2>2. i # 0 => F[<<i, g[i - 1]>>] = NextPlace(g[i - 1], Extent(d, ts[i], k), room)
    <3> SUFFICES ASSUME i # 0 PROVE F[<<i, g[i - 1]>>] = NextPlace(g[i - 1], Extent(d, ts[i], k), room)
      OBVIOUS
    <3>1. i \in 1..n
      BY <1>1
    <3> QED
      BY <1>4, <1>5, <3>1 DEF Iterates
  <2> QED
    BY <2>1, <2>2
<1>7. P(g)
  BY <1>4, <1>6 DEF FirstPlace, Iterates
<1>8. P(f)
  <2> HIDE DEF P
  <2> QED
    BY <1>7
<1>9. Laid(d, ts, k, room) = f[n]
  BY Zenon DEF Laid
<1> HIDE DEF f
<1>10. f[0] = FirstPlace
  BY <1>1, <1>8 DEF FirstPlace
<1>11. ASSUME NEW i \in 1..n PROVE f[i] = NextPlace(f[i - 1], Extent(d, ts[i], k), room)
  <2>1. i \in 0..n /\ i # 0
    OBVIOUS
  <2> QED
    BY <1>8, <2>1
<1>12. \A i \in 0..n : f[i] \in Places
  <2> DEFINE T == {i \in 0..n : f[i] \in Places}
  <2>1. 0 \in T
    BY <1>1, <1>2, <1>10
  <2>2. ASSUME NEW i \in 1..n, i - 1 \in T PROVE i \in T
    <3>1. f[i] = NextPlace(f[i - 1], Extent(d, ts[i], k), room)
      BY <1>11
    <3>2. f[i - 1] \in Places /\ Extent(d, ts[i], k) \in Nat
      BY <2>2
    <3>3. NextPlace(f[i - 1], Extent(d, ts[i], k), room) \in Places
      BY <3>2, NextPlaceIs
    <3> QED
      BY <3>1, <3>3
  <2> HIDE DEF T
  <2>3. \A i \in 0..n : i \in T
    BY <1>1, <2>1, <2>2, CountUp
  <2> QED
    BY <2>3 DEF T
<1> HIDE DEF P
<1> QED
  BY <1>9, <1>10, <1>11, <1>12 DEF LaidBy

\* Given no more than what it came to with room enough, a layout is the same.
LEMMA SameInLess ==
    ASSUME NEW d, NEW ts \in Seq(Tiles), NEW k, NEW room \in Nat,
           \A i \in 1..Len(ts) : Extent(d, ts[i], k) \in Nat
    PROVE  Laid(d, ts, k, Min({Laid(d, ts, k, room).longest, room})) = Laid(d, ts, k, room)
<1> DEFINE n == Len(ts)
           size(i) == Extent(d, ts[i], k)
<1>1. n \in Nat
  OBVIOUS
<1>2. PICK f : /\ Laid(d, ts, k, room) = f[n] /\ f[0] = FirstPlace
               /\ \A i \in 0..n : f[i] \in Places
               /\ \A i \in 1..n : f[i] = NextPlace(f[i - 1], size(i), room)
  <2>1. PICK f : LaidBy(d, ts, k, room, f)
    BY LaidIs
  <2> QED
    BY <2>1 DEF LaidBy
<1> DEFINE less == Min({f[n].longest, room})
<1>3. n \in 0..n /\ f[n].longest \in Nat
  BY <1>1, <1>2 DEF Places
<1>4. less = IF f[n].longest < room THEN f[n].longest ELSE room
  BY <1>3, SmallerOf
<1> HIDE DEF less
<1>5. less \in Nat /\ less <= room
  BY <1>3, <1>4
<1>6. PICK g : /\ Laid(d, ts, k, less) = g[n] /\ g[0] = FirstPlace
               /\ \A i \in 0..n : g[i] \in Places
               /\ \A i \in 1..n : g[i] = NextPlace(g[i - 1], size(i), less)
  <2>1. PICK g : LaidBy(d, ts, k, less, g)
    BY <1>5, LaidIs
  <2> QED
    BY <2>1 DEF LaidBy
<1>7. \A i \in 1..n : i \in 0..n /\ i - 1 \in 0..n /\ size(i) \in Nat
  OBVIOUS
<1> HIDE DEF n, size
<1>8. \A i \in 0..n : f[i].longest <= f[n].longest
  <2> DEFINE T == {i \in 0..n : f[n - i].longest <= f[n].longest}
  <2>1. 0 \in T
    BY <1>1, <1>3
  <2>2. ASSUME NEW i \in 1..n, i - 1 \in T PROVE i \in T
    <3>1. n - i + 1 \in 1..n /\ (n - i + 1) - 1 = n - i /\ n - (i - 1) = n - i + 1 /\ n - i \in 0..n
      BY <1>1
    <3>2. f[n - i + 1] = NextPlace(f[n - i], size(n - i + 1), room)
      BY <1>2, <3>1
    <3>3. f[n - i] \in Places /\ size(n - i + 1) \in Nat
      BY <1>2, <1>7, <3>1
    <3>4. f[n - i].longest <= f[n - i + 1].longest
      BY <3>2, <3>3, NextPlaceIs
    <3>5. f[n - i + 1].longest <= f[n].longest
      BY <2>2, <3>1
    <3>6. f[n - i].longest \in Nat /\ f[n - i + 1].longest \in Nat /\ f[n].longest \in Nat
      <4>1. n - i + 1 \in 0..n
        BY <1>7, <3>1
      <4> QED
        BY <1>2, <1>3, <3>3, <4>1 DEF Places
    <3> QED
      BY <3>4, <3>5, <3>6
  <2> HIDE DEF T
  <2>3. \A i \in 0..n : i \in T
    BY <1>1, <2>1, <2>2, CountUp
  <2> TAKE i \in 0..n
  <2>4. n - i \in 0..n /\ n - (n - i) = i
    BY <1>1
  <2>5. n - i \in T
    BY <2>3, <2>4
  <2> QED
    BY <2>4, <2>5 DEF T
<1>9. \A i \in 0..n : g[i] = f[i]
  <2> DEFINE T == {i \in 0..n : g[i] = f[i]}
  <2>1. 0 \in T
    BY <1>1, <1>2, <1>6
  <2>2. ASSUME NEW i \in 1..n, i - 1 \in T PROVE i \in T
    <3> DEFINE a == f[i - 1]
    <3>1. /\ a \in Places /\ g[i - 1] = a /\ i \in 0..n /\ size(i) \in Nat
          /\ f[i] = NextPlace(a, size(i), room) /\ g[i] = NextPlace(a, size(i), less)
      BY <1>2, <1>6, <1>7, <2>2
    <3> HIDE DEF a
    <3>2. a.at \in Nat /\ a.at > Gap /\ ~(a.at + size(i) + Gap > room) => a.at + size(i) + Gap <= less
      <4> SUFFICES ASSUME a.at > Gap, ~(a.at + size(i) + Gap > room)
                   PROVE  a.at + size(i) + Gap <= less
        OBVIOUS
      <4>1. a.at \in Nat /\ Gap \in Nat
        BY <3>1, TilesAssumption DEF Places
      <4>2. f[i].at = a.at + size(i) + Gap /\ f[i].at <= f[i].longest
        <5> DEFINE b == NextPlace(a, size(i), room)
        <5>1. /\ b.at <= b.longest
              /\ b.at = (IF a.at > Gap /\ a.at + size(i) + Gap > room THEN Gap ELSE a.at)
                          + size(i) + Gap
          BY <3>1, NextPlaceIs
        <5> HIDE DEF b
        <5>2. b.at = a.at + size(i) + Gap
          BY <5>1
        <5> QED
          BY <3>1, <5>1, <5>2 DEF b
      <4>3. f[i].longest <= f[n].longest /\ f[i].longest \in Nat
        BY <1>2, <1>8, <3>1 DEF Places
      <4> QED
        BY <1>3, <1>4, <3>1, <4>1, <4>2, <4>3
    <3>3. (a.at > Gap /\ a.at + size(i) + Gap > room) <=> (a.at > Gap /\ a.at + size(i) + Gap > less)
      <4>1. a.at \in Nat /\ Gap \in Nat
        BY <3>1, TilesAssumption DEF Places
      <4> QED
        BY <1>5, <3>1, <3>2, <4>1
    <3>4. NextPlace(a, size(i), room) = NextPlace(a, size(i), less)
      BY <3>3 DEF NextPlace
    <3> QED
      BY <3>1, <3>4
  <2> HIDE DEF T
  <2>3. \A i \in 0..n : i \in T
    BY <1>1, <2>1, <2>2, CountUp
  <2> QED
    BY <2>3 DEF T
<1> QED
  BY <1>2, <1>3, <1>6, <1>9 DEF less

\* What is reached by adding, at each i from 0 to n.
Sums(p, n) ==
    /\ p \in [0..n -> Nat] /\ p[0] = 0
    /\ \A i \in 0..n : \A j \in 0..i : p[j] <= p[i]

LEMMA PrefixIs ==
    ASSUME NEW ws \in Seq(Nat)
    PROVE  /\ Sums(Prefix(ws), Len(ws))
           /\ \A i \in 1..Len(ws) : Prefix(ws)[i] = Prefix(ws)[i - 1] + ws[i]
<1> DEFINE n == Len(ws)
           P(f) == f = [i \in 0..Len(ws) |-> IF i = 0 THEN 0 ELSE f[i - 1] + ws[i]]
           F == [q \in (1..n) \X Nat |-> q[2] + ws[q[1]]]
           f == CHOOSE g : P(g)
<1>1. n \in Nat /\ \A i \in 1..n : ws[i] \in Nat
  OBVIOUS
<1>2. F \in [(1..n) \X Nat -> Nat]
  <2> SUFFICES ASSUME NEW q \in (1..n) \X Nat PROVE q[2] + ws[q[1]] \in Nat
    OBVIOUS
  <2>1. q[2] \in Nat /\ ws[q[1]] \in Nat
    OBVIOUS
  <2> QED
    BY <2>1
<1>3. PICK g : Iterates(g, n, Nat, 0, F)
  <2> HIDE DEF F, n
  <2> QED
    BY <1>1, <1>2, Iterated
<1>4. \A i \in 1..n, v \in Nat : F[<<i, v>>] = v + ws[i]
  OBVIOUS
<1> HIDE DEF F
<1>5. P(g)
  <2>1. \A i \in 0..n : i # 0 => i \in 1..n /\ g[i - 1] \in Nat
    <3>1. \A j \in 0..n : g[j] \in Nat
      BY <1>3 DEF Iterates
    <3>2. \A i \in 0..n : i # 0 => i \in 1..n /\ i - 1 \in 0..n
      BY <1>1
    <3> QED
      BY <3>1, <3>2
  <2>2. \A i \in 0..n : g[i] = IF i = 0 THEN 0 ELSE g[i - 1] + ws[i]
    BY <1>3, <1>4, <2>1 DEF Iterates
  <2> QED
    BY <1>3, <2>2 DEF Iterates
<1>6. P(f)
  <2> HIDE DEF P
  <2> QED
    BY <1>5
<1>7. Prefix(ws) = f
  BY Zenon DEF Prefix
<1> HIDE DEF f
<1>8. f[0] = 0 /\ \A i \in 1..n : f[i] = f[i - 1] + ws[i]
  <2>1. 0 \in 0..n /\ \A i \in 1..n : i \in 0..n /\ i # 0
    BY <1>1
  <2> QED
    BY <1>6, <2>1
<1>9. f = [i \in 0..n |-> f[i]]
  BY <1>6
<1> HIDE DEF P, n
<1> DEFINE T == {i \in 0..n : f[i] \in Nat /\ \A j \in 0..i : f[j] \in Nat /\ f[j] <= f[i]}
<1>10. 0 \in T
  BY <1>1, <1>8
<1>11. ASSUME NEW i \in 1..n, i - 1 \in T PROVE i \in T
  <2>1. f[i] = f[i - 1] + ws[i] /\ f[i - 1] \in Nat /\ ws[i] \in Nat
    BY <1>1, <1>8, <1>11
  <2>2. i \in 0..n /\ \A j \in 0..i : j = i \/ j \in 0..(i - 1)
    BY <1>1
  <2>3. ASSUME NEW j \in 0..i PROVE f[j] \in Nat /\ f[j] <= f[i]
    <3>1. CASE j = i
      BY <2>1, <3>1
    <3>2. CASE j \in 0..(i - 1)
      <4>1. f[j] <= f[i - 1] /\ f[j] \in Nat
        BY <1>11, <3>2
      <4> QED
        BY <2>1, <4>1
    <3> QED
      BY <2>2, <3>1, <3>2
  <2> QED
    BY <2>1, <2>2, <2>3
<1> HIDE DEF T
<1>12. \A i \in 0..n : i \in T
  BY <1>1, <1>10, <1>11, CountUp
<1>13. f \in [0..n -> Nat] /\ \A i \in 0..n : \A j \in 0..i : f[j] <= f[i]
  BY <1>9, <1>12 DEF T
<1> QED
  BY <1>7, <1>8, <1>13 DEF Sums, n

LEMMA GridRowsIs ==
    ASSUME NEW n \in Nat \ {0}
    PROVE  GridRows(n) \in 1..n
<1> DEFINE S == {c \in Nat : c * c >= n}
           Q(c) == c * c >= n /\ (c - 1) * (c - 1) < n
           columns == CHOOSE c \in 1..n : Q(c)
<1>1. n \in S
  <2>1. n * n >= n
    BY SMT
  <2> QED
    BY <2>1
<1>2. PICK c \in S : \A y \in S : c <= y
  <2>1. S \in SUBSET Nat /\ S # {}
    BY <1>1
  <2> HIDE DEF S
  <2> QED
    BY <2>1, LeastOf
<1>3. c \in 1..n
  <2>1. c # 0
    BY <1>2
  <2> QED
    BY <1>1, <1>2, <2>1
<1>4. c - 1 \in Nat /\ ~(c - 1 \in S)
  BY <1>2, <1>3
<1>5. Q(c)
  <2>1. \A x \in Nat : x * x \in Nat
    OBVIOUS
  <2>2. (c - 1) * (c - 1) \in Nat /\ ~((c - 1) * (c - 1) >= n)
    BY <1>4, <2>1
  <2> QED
    BY <1>2, <2>2
<1>6. columns \in 1..n
  <2> HIDE DEF Q
  <2> QED
    BY <1>3, <1>5
<1>7. GridRows(n) = (n + columns - 1) \div columns
  BY Zenon DEF GridRows
<1> HIDE DEF columns
<1> DEFINE q == (n + columns - 1) \div columns
           r == (n + columns - 1) % columns
<1>8. /\ q \in Int /\ r \in 0..(columns - 1) /\ n + columns - 1 = columns * q + r
  BY <1>6
<1> HIDE DEF q, r
<1>9. q >= 1
  <2> SUFFICES ASSUME q <= 0 PROVE FALSE
    BY <1>8
  <2>1. columns * q <= 0
    BY <1>6, <1>8
  <2> QED
    BY <1>6, <1>8, <2>1
<1>10. q <= n
  <2> SUFFICES ASSUME q >= n + 1 PROVE FALSE
    BY <1>8
  <2>1. columns * q >= columns * (n + 1) /\ columns * (n + 1) = columns * n + columns
    BY <1>6, <1>8
  <2>2. columns * n >= n
    BY <1>6
  <2>3. columns * n \in Nat /\ columns * q \in Int
    BY <1>6, <1>8
  <2> QED
    BY <1>6, <1>8, <2>1, <2>2, <2>3
<1> QED
  BY <1>7, <1>8, <1>9, <1>10 DEF q

LEMMA WidestIs ==
    ASSUME NEW n \in Nat, NEW p, Sums(p, n), NEW row \in [0..n -> Nat],
           NEW i \in 0..n, NEW m \in 0..i
    PROVE  Widest(p, row, m, i) \in Nat
<1>1. i \in 0..n /\ m \in 0..n /\ p[i] \in Nat /\ p[m] \in Nat /\ p[m] <= p[i] /\ row[m] \in Nat
  BY DEF Sums
<1>2. p[i] - p[m] \in Nat
  BY <1>1
<1>3. Max({row[m], p[i] - p[m]}) \in {row[m], p[i] - p[m]}
  BY <1>1, <1>2, GreaterOf
<1> QED
  BY <1>1, <1>2, <1>3 DEF Widest

\* A row has a number for every i, and where it is one that groups come to there
\* is a cut that they come to it with.
LEMMA NextRowIs ==
    ASSUME NEW n \in Nat, NEW p, Sums(p, n), NEW row \in [0..n -> Nat], NEW j \in Nat, j >= 2
    PROVE  /\ NextRow(p, n, row, j) \in [0..n -> Nat]
           /\ \A i \in j..n : Cut(p, row, NextRow(p, n, row, j), j, i) \in j - 1..i - 1
<1> DEFINE next == NextRow(p, n, row, j)
           S(i) == {Widest(p, row, m, i) : m \in j - 1..i - 1}
<1>1. next = [i \in 0..n |-> IF i < j THEN p[n] + 1 ELSE Min(S(i))]
  BY DEF NextRow
<1>2. ASSUME NEW i \in j..n
      PROVE  S(i) \in SUBSET Nat /\ Min(S(i)) \in S(i)
  <2>1. \A m \in j - 1..i - 1 : Widest(p, row, m, i) \in Nat
    <3> TAKE m \in j - 1..i - 1
    <3>1. i \in 0..n /\ m \in 0..i
      OBVIOUS
    <3> QED
      BY <3>1, WidestIs
  <2>2. j - 1 \in j - 1..i - 1
    OBVIOUS
  <2>3. S(i) \in SUBSET Nat
    BY <2>1
  <2>4. S(i) # {}
    BY <2>2
  <2> HIDE DEF S
  <2> QED
    BY <2>3, <2>4, LeastOf
<1>3. p[n] + 1 \in Nat
  BY DEF Sums
<1>4. ASSUME NEW i \in 0..n PROVE (IF i < j THEN p[n] + 1 ELSE Min(S(i))) \in Nat
  <2>1. ~(i < j) => i \in j..n
    OBVIOUS
  <2> HIDE DEF S
  <2> QED
    BY <1>2, <1>3, <2>1
<1>5. \A i \in j..n : next[i] = Min(S(i))
  <2> TAKE i \in j..n
  <2>1. i \in 0..n /\ ~(i < j)
    OBVIOUS
  <2> HIDE DEF S, next
  <2> QED
    BY <1>1, <2>1
<1>6. next \in [0..n -> Nat]
  <2> HIDE DEF S, next
  <2> QED
    BY <1>1, <1>4
<1>7. ASSUME NEW i \in j..n PROVE Cut(p, row, next, j, i) \in j - 1..i - 1
  <2> DEFINE C == {m \in j - 1..i - 1 : Widest(p, row, m, i) = next[i]}
  <2>1. next[i] \in S(i)
    <3> HIDE DEF S, next
    <3> QED
      BY <1>2, <1>5
  <2>2. C # {}
    <3> HIDE DEF next
    <3> QED
      BY <2>1
  <2>3. C \in SUBSET Nat
    OBVIOUS
  <2>4. Cut(p, row, next, j, i) = Min(C)
    BY DEF Cut
  <2>5. Min(C) \in C
    <3> HIDE DEF C
    <3> QED
      BY <2>2, <2>3, LeastOf
  <2> HIDE DEF next
  <2> QED
    BY <2>4, <2>5
<1> HIDE DEF next
<1> QED
  BY <1>6, <1>7 DEF next

\* The groups end one after another, the last at the end.
LEMMA PartitionIs ==
    ASSUME NEW ws \in Seq(Nat), NEW k \in 1..Len(ws)
    PROVE  LET ends == LinearPartition(ws, k) IN
           /\ ends[0] = 0 /\ ends[k] = Len(ws) /\ \A j \in 0..k : ends[j] \in 0..Len(ws)
           /\ \A j \in 1..k : ends[j - 1] < ends[j]
<1> DEFINE n == Len(ws)
           p == Prefix(ws)
           P(f) == f = [j \in 1..k |-> IF j = 1 THEN p ELSE NextRow(p, n, f[j - 1], j)]
           dp == CHOOSE f : P(f)
           B(f) == f = [g \in 0..k - 1 |->
                     IF g = 0 THEN n ELSE Cut(p, dp[k - g], dp[k - g + 1], k - g + 1, f[g - 1])]
           back == CHOOSE f : B(f)
           RowTypes == [0..n -> Nat]
           F == [q \in (1..k - 1) \X RowTypes |-> NextRow(p, n, q[2], q[1] + 1)]
           cut(g, i) == Cut(p, dp[k - g], dp[k - g + 1], k - g + 1, i)
           G == [q \in (1..k - 1) \X Nat |->
                   IF cut(q[1], q[2]) \in Nat THEN cut(q[1], q[2]) ELSE 0]
<1>1. n \in Nat /\ Sums(p, n) /\ p \in RowTypes /\ k - 1 \in Nat
  BY PrefixIs DEF Sums
<1>0. LinearPartition(ws, k) = [j \in 0..k |-> IF j = 0 THEN 0 ELSE back[k - j]]
  BY Zenon DEF LinearPartition
<1> HIDE DEF p, n, dp, back
<1>2. F \in [(1..k - 1) \X RowTypes -> RowTypes]
  <2> SUFFICES ASSUME NEW q \in (1..k - 1) \X RowTypes PROVE NextRow(p, n, q[2], q[1] + 1) \in RowTypes
    OBVIOUS
  <2>1. q[2] \in [0..n -> Nat] /\ q[1] + 1 \in Nat /\ q[1] + 1 >= 2
    OBVIOUS
  <2> QED
    BY <1>1, <2>1, NextRowIs
<1>3. PICK h : Iterates(h, k - 1, RowTypes, p, F)
  <2> HIDE DEF F, RowTypes
  <2> QED
    BY <1>1, <1>2, Iterated
<1>4. \A j \in 1..k - 1, row \in RowTypes : F[<<j, row>>] = NextRow(p, n, row, j + 1)
  OBVIOUS
<1> HIDE DEF F
<1> DEFINE s == [j \in 1..k |-> h[j - 1]]
<1>5. P(s)
  <2>1. ASSUME NEW j \in 1..k PROVE s[j] = IF j = 1 THEN p ELSE NextRow(p, n, s[j - 1], j)
    <3>1. j - 1 \in 0..k - 1 /\ s[j] = h[j - 1]
      OBVIOUS
    <3>2. CASE j = 1
      <4>1. h[0] = p
        BY <1>1, <1>3 DEF Iterates
      <4> QED
        BY <3>1, <3>2, <4>1
    <3>3. CASE j # 1
      <4>1. j - 1 \in 1..k - 1 /\ j - 1 \in 1..k /\ (j - 1) - 1 \in 0..k - 1 /\ j - 1 # 0
        BY <3>3
      <4>2. h[j - 1] = F[<<j - 1, h[(j - 1) - 1]>>] /\ h[(j - 1) - 1] \in RowTypes
        BY <1>3, <3>1, <4>1 DEF Iterates
      <4>3. s[j - 1] = h[(j - 1) - 1] /\ (j - 1) + 1 = j
        BY <4>1
      <4> HIDE DEF s
      <4> QED
        BY <1>4, <3>1, <3>3, <4>1, <4>2, <4>3
    <3> HIDE DEF s
    <3> QED
      BY <3>2, <3>3
  <2>2. s = [j \in 1..k |-> s[j]]
    OBVIOUS
  <2> HIDE DEF s
  <2> QED
    BY <2>1, <2>2
<1>6. P(dp)
  <2> HIDE DEF P, s
  <2> QED
    BY <1>5 DEF dp
<1>7. \A j \in 1..k : dp[j] \in RowTypes
  <2> DEFINE T == {i \in 0..k - 1 : dp[i + 1] \in RowTypes}
  <2>1. 0 \in T
    <3>1. 1 \in 1..k
      OBVIOUS
    <3>2. dp[1] = p
      BY <1>6, <3>1
    <3> HIDE DEF RowTypes
    <3> QED
      BY <1>1, <3>2
  <2>2. ASSUME NEW i \in 1..k - 1, i - 1 \in T PROVE i \in T
    <3>1. i + 1 \in 1..k /\ i + 1 # 1 /\ (i + 1) - 1 = i /\ (i - 1) + 1 = i
      OBVIOUS
    <3>2. dp[i + 1] = NextRow(p, n, dp[i], i + 1)
      BY <1>6, <3>1
    <3>3. dp[i] \in [0..n -> Nat] /\ i + 1 \in Nat /\ i + 1 >= 2
      BY <2>2, <3>1
    <3>4. NextRow(p, n, dp[i], i + 1) \in RowTypes
      BY <1>1, <3>3, NextRowIs
    <3> HIDE DEF RowTypes
    <3> QED
      BY <3>1, <3>2, <3>4
  <2> HIDE DEF T
  <2>3. \A i \in 0..k - 1 : i \in T
    BY <1>1, <2>1, <2>2, CountUp
  <2> TAKE j \in 1..k
  <2>4. j - 1 \in 0..k - 1 /\ (j - 1) + 1 = j
    OBVIOUS
  <2> HIDE DEF RowTypes
  <2> QED
    BY <2>3, <2>4 DEF T
<1>8. ASSUME NEW g \in 1..k - 1, NEW i \in k - g + 1..n
      PROVE  cut(g, i) \in k - g..i - 1
  <2> DEFINE j == k - g + 1
  <2>1. j \in 1..k /\ j # 1 /\ j - 1 = k - g /\ j - 1 \in 1..k /\ j \in Nat /\ j >= 2
    OBVIOUS
  <2>2. dp[j] = NextRow(p, n, dp[j - 1], j)
    BY <1>6, <2>1
  <2>3. dp[j - 1] \in [0..n -> Nat]
    BY <1>7, <2>1
  <2>4. i \in j..n
    OBVIOUS
  <2> HIDE DEF j, P
  <2>5. Cut(p, dp[j - 1], NextRow(p, n, dp[j - 1], j), j, i) \in j - 1..i - 1
    BY <1>1, <2>1, <2>3, <2>4, NextRowIs
  <2>6. cut(g, i) = Cut(p, dp[j - 1], NextRow(p, n, dp[j - 1], j), j, i)
    BY <2>1, <2>2 DEF j
  <2> HIDE DEF cut
  <2> QED
    BY <2>1, <2>5, <2>6
<1> HIDE DEF P, cut
<1>9. G \in [(1..k - 1) \X Nat -> Nat]
  OBVIOUS
<1>10. PICK b : Iterates(b, k - 1, Nat, n, G)
  <2> HIDE DEF G
  <2> QED
    BY <1>1, <1>9, Iterated
<1>11. ASSUME NEW g \in 1..k - 1, NEW i \in k - g + 1..n PROVE G[<<g, i>>] = cut(g, i)
  <2>1. cut(g, i) \in Nat /\ i \in Nat
    BY <1>8
  <2> QED
    BY <2>1
<1> HIDE DEF G
<1>12. b[0] = n /\ \A g \in 1..k - 1 : b[g] = G[<<g, b[g - 1]>>]
  <2>1. 0 \in 0..k - 1 /\ \A g \in 1..k - 1 : g \in 0..k - 1 /\ g # 0
    BY <1>1
  <2> QED
    BY <1>10, <2>1 DEF Iterates
<1>13. \A g \in 0..k - 1 : b[g] \in k - g..n
  <2> DEFINE T == {g \in 0..k - 1 : b[g] \in k - g..n}
  <2>1. 0 \in T
    BY <1>1, <1>12 DEF n
  <2>2. ASSUME NEW g \in 1..k - 1, g - 1 \in T PROVE g \in T
    <3>1. b[g - 1] \in k - g + 1..n
      BY <2>2
    <3>2. b[g] \in k - g..b[g - 1] - 1
      BY <1>8, <1>11, <1>12, <3>1
    <3>3. ASSUME NEW x \in k - g + 1..n, NEW y \in k - g..x - 1 PROVE y \in k - g..n
      BY <1>1
    <3>5. b[g] \in k - g..n
      BY <3>1, <3>2, <3>3
    <3>4. g \in 0..k - 1
      OBVIOUS
    <3> QED
      BY <3>4, <3>5
  <2> HIDE DEF T
  <2>3. \A g \in 0..k - 1 : g \in T
    BY <1>1, <2>1, <2>2, CountUp
  <2> QED
    BY <2>3 DEF T
<1>14. \A g \in 1..k - 1 : b[g - 1] \in k - g + 1..n
  <2> TAKE g \in 1..k - 1
  <2>1. g - 1 \in 0..k - 1 /\ k - (g - 1) = k - g + 1
    OBVIOUS
  <2> QED
    BY <1>13, <2>1
<1>15. \A g \in 1..k - 1 : b[g] = cut(g, b[g - 1]) /\ b[g] \in k - g..b[g - 1] - 1
  <2> TAKE g \in 1..k - 1
  <2>1. b[g - 1] \in k - g + 1..n
    BY <1>14
  <2>2. G[<<g, b[g - 1]>>] = cut(g, b[g - 1]) /\ cut(g, b[g - 1]) \in k - g..b[g - 1] - 1
    BY <1>8, <1>11, <2>1
  <2> QED
    BY <1>12, <2>2
<1>16. B(b)
  <2>1. \A g \in 0..k - 1 : b[g] = IF g = 0 THEN n ELSE cut(g, b[g - 1])
    <3>1. \A g \in 0..k - 1 : g # 0 => g \in 1..k - 1
      OBVIOUS
    <3> QED
      BY <1>12, <1>15, <3>1
  <2>2. b = [g \in 0..k - 1 |-> b[g]]
    BY <1>10 DEF Iterates
  <2> QED
    BY <2>1, <2>2 DEF cut
<1>17. B(back)
  <2> HIDE DEF B
  <2> QED
    BY <1>16 DEF back
<1> USE DEF cut
<1>18. back[0] = n /\ \A g \in 1..k - 1 : back[g] = cut(g, back[g - 1])
  <2>1. 0 \in 0..k - 1 /\ \A g \in 1..k - 1 : g \in 0..k - 1 /\ g # 0
    BY <1>1
  <2> QED
    BY <1>17, <2>1
<1> HIDE DEF cut, B
<1>19. \A g \in 0..k - 1 : back[g] = b[g]
  <2> DEFINE T == {g \in 0..k - 1 : back[g] = b[g]}
  <2>1. 0 \in T
    BY <1>1, <1>12, <1>18
  <2>2. ASSUME NEW g \in 1..k - 1, g - 1 \in T PROVE g \in T
    BY <1>15, <1>18, <2>2
  <2> HIDE DEF T
  <2>3. \A g \in 0..k - 1 : g \in T
    BY <1>1, <2>1, <2>2, CountUp
  <2> QED
    BY <2>3 DEF T
<1> DEFINE ends == LinearPartition(ws, k)
<1>20. ends[0] = 0 /\ \A j \in 1..k : ends[j] = b[k - j]
  <2>1. 0 \in 0..k /\ \A j \in 1..k : j \in 0..k /\ j # 0 /\ k - j \in 0..k - 1
    OBVIOUS
  <2> QED
    BY <1>0, <1>19, <2>1
<1> HIDE DEF ends
<1>21. ends[k] = n
  <2>1. k \in 1..k /\ k - k = 0
    OBVIOUS
  <2> QED
    BY <1>12, <1>20, <2>1
<1>22. ASSUME NEW j \in 1..k PROVE ends[j] \in j..n
  <2>1. k - j \in 0..k - 1 /\ k - (k - j) = j
    OBVIOUS
  <2> QED
    BY <1>13, <1>20, <2>1
<1>23. ASSUME NEW j \in 0..k PROVE ends[j] \in 0..n
  <2>1. j = 0 \/ j \in 1..k
    OBVIOUS
  <2> QED
    BY <1>1, <1>20, <1>22, <2>1
<1>24. ASSUME NEW j \in 1..k PROVE ends[j - 1] < ends[j]
  <2>1. CASE j = 1
    <3>1. ends[1] \in 1..n /\ ends[0] = 0
      BY <1>20, <1>22, <2>1
    <3> QED
      BY <1>1, <2>1, <3>1
  <2>2. CASE j # 1
    <3>1. j - 1 \in 1..k /\ k - (j - 1) \in 1..k - 1 /\ (k - (j - 1)) - 1 = k - j
      BY <2>2
    <3>2. ends[j - 1] = b[k - (j - 1)] /\ ends[j] = b[k - j]
      BY <1>20, <3>1
    <3>3. b[k - (j - 1)] \in k - (k - (j - 1))..b[k - j] - 1
      BY <1>15, <3>1
    <3>4. b[k - j] \in 0..n
      BY <1>22, <3>2, <1>1
    <3> QED
      BY <3>2, <3>3, <3>4
  <2> QED
    BY <2>1, <2>2
<1> QED
  BY <1>20, <1>21, <1>23, <1>24 DEF ends, n

\* The width made for the tiles has room for each of the groups.
LEMMA IdealWidthIs ==
    ASSUME NEW d, NEW ts \in Seq(Tiles), ts # <<>>,
           \A i \in 1..Len(ts) : Extent(d, ts[i], 1) \in Nat
    PROVE  \E p, e :
             LET n == Len(ts)  k == GridRows(n)  width == IdealWidth(d, ts) IN
             /\ width \in Nat /\ k \in 1..n /\ Sums(p, n)
             /\ \A i \in 1..n : p[i] = p[i - 1] + Extent(d, ts[i], 1) + Gap
             /\ e[0] = 0 /\ e[k] = n
             /\ \A j \in 1..k : /\ e[j - 1] \in 0..n /\ e[j] \in 0..n /\ e[j - 1] < e[j]
                                /\ Gap + (p[e[j]] - p[e[j - 1]]) <= width
<1> DEFINE n == Len(ts)
           ws == [i \in DOMAIN ts |-> Extent(d, ts[i], 1) + Gap]
           k == GridRows(Len(ts))
           p == Prefix(ws)
           e == LinearPartition(ws, k)
           S == {Gap + (p[e[j]] - p[e[j - 1]]) : j \in 1..k}
           width == IdealWidth(d, ts)
<1>1. width = Max(S)
  BY DEF IdealWidth
<1>2. n \in Nat \ {0} /\ DOMAIN ts = 1..n /\ Gap \in Nat
  BY TilesAssumption
<1>3. k \in 1..n
  BY <1>2, GridRowsIs
<1>4. ws \in Seq(Nat) /\ Len(ws) = n /\ \A i \in 1..n : ws[i] = Extent(d, ts[i], 1) + Gap
  <2>1. \A i \in 1..n : Extent(d, ts[i], 1) + Gap \in Nat
    BY <1>2
  <2>2. ws = [i \in 1..n |-> Extent(d, ts[i], 1) + Gap] /\ n \in Nat
    BY <1>2
  <2> HIDE DEF ws, n
  <2> QED
    BY <2>1, <2>2
<1> HIDE DEF ws, n, k, width
<1>5. Sums(p, n) /\ \A i \in 1..n : p[i] = p[i - 1] + ws[i]
  BY <1>4, PrefixIs
<1>6. /\ e[0] = 0 /\ e[k] = n /\ \A j \in 0..k : e[j] \in 0..n
      /\ \A j \in 1..k : e[j - 1] < e[j]
  BY <1>3, <1>4, PartitionIs
<1> HIDE DEF p, e
<1>7. \A j \in 1..k : e[j - 1] \in 0..n /\ e[j] \in 0..n /\ e[j - 1] < e[j]
  <2> TAKE j \in 1..k
  <2>1. j - 1 \in 0..k /\ j \in 0..k
    BY <1>2, <1>3
  <2> QED
    BY <1>6, <2>1
<1>8. \A j \in 1..k : /\ Gap + (p[e[j]] - p[e[j - 1]]) \in Nat
                      /\ Gap + (p[e[j]] - p[e[j - 1]]) <= Gap + p[n]
  <2> TAKE j \in 1..k
  <2>1. e[j - 1] \in 0..n /\ e[j] \in 0..n /\ e[j - 1] < e[j]
    BY <1>7
  <2> DEFINE x == e[j]  y == e[j - 1]
  <2>2. x \in 0..n /\ y \in 0..x /\ n \in 0..n
    BY <1>2, <2>1
  <2> HIDE DEF x, y
  <2>3. p[x] \in Nat /\ p[y] \in Nat /\ p[n] \in Nat /\ p[y] <= p[x] /\ p[x] <= p[n]
    <3>1. y \in 0..n
      BY <1>2, <2>2
    <3> QED
      BY <1>5, <2>2, <3>1 DEF Sums
  <2>4. Gap + (p[x] - p[y]) \in Nat /\ Gap + (p[x] - p[y]) <= Gap + p[n]
    BY <1>2, <2>3
  <2> QED
    BY <2>4 DEF x, y
<1>9. S \in SUBSET Nat /\ S # {} /\ Gap + p[n] \in Nat /\ \A s \in S : s <= Gap + p[n]
  <2>1. 1 \in 1..k
    BY <1>2, <1>3
  <2>2. p[n] \in Nat
    BY <1>2, <1>5 DEF Sums
  <2> QED
    BY <1>2, <1>8, <2>1, <2>2
<1>10. width \in S /\ \A s \in S : s <= width
  <2> HIDE DEF S
  <2> QED
    BY <1>1, <1>9, GreatestOf
<1>11. width \in Nat /\ \A j \in 1..k : Gap + (p[e[j]] - p[e[j - 1]]) <= width
  BY <1>9, <1>10
<1>12. \A i \in 1..n : p[i] = p[i - 1] + Extent(d, ts[i], 1) + Gap
  <2> TAKE i \in 1..n
  <2>1. p[i - 1] \in Nat /\ Extent(d, ts[i], 1) \in Nat
    <3>1. i - 1 \in 0..n
      BY <1>2
    <3> QED
      BY <1>5, <3>1 DEF Sums, n
  <2> QED
    BY <1>2, <1>4, <1>5, <2>1
<1> HIDE DEF S
<1>13. /\ width \in Nat /\ k \in 1..n /\ Sums(p, n)
       /\ \A i \in 1..n : p[i] = p[i - 1] + Extent(d, ts[i], 1) + Gap
       /\ e[0] = 0 /\ e[k] = n
       /\ \A j \in 1..k : /\ e[j - 1] \in 0..n /\ e[j] \in 0..n /\ e[j - 1] < e[j]
                          /\ Gap + (p[e[j]] - p[e[j - 1]]) <= width
  BY <1>3, <1>5, <1>6, <1>7, <1>11, <1>12
<1> QED
  BY <1>13 DEF n, k, width

\* Laid out one after another in that width, the tiles of a group need no line
\* beyond the group's own.
LEMMA NoMoreRows ==
    ASSUME NEW d, NEW ts \in Seq(Tiles), ts # <<>>,
           \A i \in 1..Len(ts) : Extent(d, ts[i], 1) \in Nat
    PROVE  Laid(d, ts, 1, IdealWidth(d, ts)).line <= GridRows(Len(ts))
<1> DEFINE n == Len(ts)
           k == GridRows(Len(ts))
           width == IdealWidth(d, ts)
           size(i) == Extent(d, ts[i], 1)
<1>1. PICK p, e : /\ width \in Nat /\ k \in 1..n /\ Sums(p, n)
                  /\ \A i \in 1..n : p[i] = p[i - 1] + size(i) + Gap
                  /\ e[0] = 0 /\ e[k] = n
                  /\ \A j \in 1..k : /\ e[j - 1] \in 0..n /\ e[j] \in 0..n /\ e[j - 1] < e[j]
                                     /\ Gap + (p[e[j]] - p[e[j - 1]]) <= width
  BY IdealWidthIs
<1>2. PICK f : /\ Laid(d, ts, 1, width) = f[n] /\ f[0] = FirstPlace
               /\ \A i \in 0..n : f[i] \in Places
               /\ \A i \in 1..n : f[i] = NextPlace(f[i - 1], size(i), width)
  <2> HIDE DEF width
  <2>1. PICK f : LaidBy(d, ts, 1, width, f)
    BY <1>1, LaidIs
  <2> QED
    BY <2>1 DEF LaidBy
<1>3. n \in Nat /\ Gap \in Nat /\ \A i \in 1..n : size(i) \in Nat
  BY TilesAssumption
<1> HIDE DEF n, k, width, size
<1>4. \A i \in 0..n : p[i] \in Nat /\ f[i].line \in Nat /\ f[i].at \in Nat
  BY <1>1, <1>2 DEF Sums, Places
<1> DEFINE In(i, j) == /\ e[j - 1] <= i /\ i <= e[j]
                       /\ \/ f[i].line < j
                          \/ f[i].line = j /\ f[i].at <= Gap + (p[i] - p[e[j - 1]])
           T == {i \in 0..n : \E j \in 1..k : In(i, j)}
<1>5. 0 \in T
  <2>1. 1 \in 1..k /\ 0 \in 0..n /\ f[0].line = 1 /\ f[0].at = Gap
    BY <1>1, <1>2, <1>3 DEF FirstPlace
  <2>2. e[0] = 0 /\ e[1] \in 0..n /\ p[0] = 0
    BY <1>1, <2>1 DEF Sums
  <2>3. In(0, 1)
    BY <1>3, <2>1, <2>2
  <2> HIDE DEF In
  <2> QED
    BY <2>1, <2>3
<1>6. ASSUME NEW i \in 1..n, i - 1 \in T PROVE i \in T
  <2>1. i - 1 \in 0..n /\ i \in 0..n
    BY <1>3
  <2>2. PICK j \in 1..k : In(i - 1, j) /\ i <= e[j]
    <3>1. PICK m \in 1..k : In(i - 1, m)
      BY <1>6
    <3>2. e[m - 1] \in 0..n /\ e[m] \in 0..n
      BY <1>1
    <3>3. CASE i <= e[m]
      BY <3>1, <3>3
    <3>4. CASE ~(i <= e[m])
      <4>1. i - 1 = e[m]
        BY <3>1, <3>2, <3>4
      <4>2. m # k
        BY <1>1, <1>3, <4>1
      <4>3. m + 1 \in 1..k /\ (m + 1) - 1 = m
        BY <1>1, <1>3, <4>2
      <4>4. e[m] < e[m + 1] /\ e[m + 1] \in 0..n
        BY <1>1, <4>3
      <4>5. f[i - 1].line < m + 1
        <5>1. f[i - 1].line <= m
          BY <1>4, <2>1, <3>1
        <5> QED
          BY <1>4, <2>1, <5>1
      <4>6. In(i - 1, m + 1) /\ i <= e[m + 1]
        BY <3>2, <4>1, <4>3, <4>4, <4>5
      <4> HIDE DEF In
      <4> QED
        BY <4>3, <4>6
    <3> HIDE DEF In
    <3> QED
      BY <3>3, <3>4
  <2> DEFINE a == f[i - 1]
             wraps == a.at > Gap /\ a.at + size(i) + Gap > width
             y == e[j - 1]
             z == e[j]
  <2>3. /\ f[i].line = IF wraps THEN a.line + 1 ELSE a.line
        /\ f[i].at = (IF wraps THEN Gap ELSE a.at) + size(i) + Gap
    <3>1. f[i] = NextPlace(a, size(i), width) /\ a \in Places /\ size(i) \in Nat /\ width \in Nat
      BY <1>1, <1>2, <1>3, <2>1
    <3> HIDE DEF a
    <3> DEFINE b == NextPlace(a, size(i), width)
    <3>2. /\ b.line = IF wraps THEN a.line + 1 ELSE a.line
          /\ b.at = (IF wraps THEN Gap ELSE a.at) + size(i) + Gap
      BY <3>1, NextPlaceIs
    <3> HIDE DEF b, wraps
    <3>3. f[i] = b
      BY <3>1 DEF b
    <3> QED
      BY <3>2, <3>3
  <2>4. a.line \in Nat /\ a.at \in Nat /\ f[i].line \in Nat /\ f[i].at \in Nat /\ size(i) \in Nat
    BY <1>3, <1>4, <2>1
  <2>5. y \in 0..n /\ z \in 0..n /\ Gap + (p[z] - p[y]) <= width /\ width \in Nat
    BY <1>1
  <2>6. y <= i - 1 /\ i <= z /\ (a.line < j \/ (a.line = j /\ a.at <= Gap + (p[i - 1] - p[y])))
    BY <2>2
  <2> HIDE DEF a, y, z
  <2>7. /\ p[y] \in Nat /\ p[i - 1] \in Nat /\ p[i] \in Nat /\ p[z] \in Nat
        /\ p[y] <= p[i - 1] /\ p[i] <= p[z] /\ p[i] = p[i - 1] + size(i) + Gap
    <3>1. y \in 0..(i - 1) /\ i \in 0..z
      BY <1>3, <2>5, <2>6
    <3> QED
      BY <1>1, <1>4, <2>1, <2>5, <3>1 DEF Sums
  <2>8. \/ f[i].line < j
        \/ f[i].line = j /\ f[i].at <= Gap + (p[i] - p[y])
    <3> DEFINE line == a.line  at == a.at  then == f[i].line  place == f[i].at  s == size(i)
               first == p[y]  before == p[i - 1]  now == p[i]  last == p[z]
    <3>1. /\ line \in Nat /\ at \in Nat /\ then \in Nat /\ place \in Nat /\ s \in Nat
          /\ first \in Nat /\ before \in Nat /\ now \in Nat /\ last \in Nat
          /\ width \in Nat /\ j \in Nat
      BY <1>1, <1>3, <2>4, <2>5, <2>7
    <3>2. /\ first <= before /\ now = before + s + Gap /\ now <= last
          /\ Gap + (last - first) <= width
      BY <2>5, <2>7
    <3>3. line < j \/ (line = j /\ at <= Gap + (before - first))
      BY <2>6
    <3>4. /\ then = IF at > Gap /\ at + s + Gap > width THEN line + 1 ELSE line
          /\ place = (IF at > Gap /\ at + s + Gap > width THEN Gap ELSE at) + s + Gap
      BY <2>3
    <3> HIDE DEF line, at, then, place, s, first, before, now, last
    <3>5. then < j \/ (then = j /\ place <= Gap + (now - first))
      <4>1. CASE line < j /\ at > Gap /\ at + s + Gap > width
        BY <1>3, <3>1, <3>2, <3>4, <4>1
      <4>2. CASE line < j /\ ~(at > Gap /\ at + s + Gap > width)
        BY <1>3, <3>1, <3>4, <4>2
      <4>3. CASE line = j /\ at <= Gap + (before - first)
        BY <1>3, <3>1, <3>2, <3>4, <4>3
      <4> QED
        BY <3>3, <4>1, <4>2, <4>3
    <3> QED
      BY <3>5 DEF then, place, now, first
  <2>9. In(i, j)
    BY <2>5, <2>6, <2>8, <1>3 DEF y, z
  <2> HIDE DEF In
  <2> QED
    BY <2>1, <2>9
<1> HIDE DEF T, In
<1>7. n \in T
  <2>1. \A i \in 0..n : i \in T
    BY <1>3, <1>5, <1>6, CountUp
  <2> QED
    BY <1>3, <2>1
<1>8. PICK j \in 1..k : f[n].line <= j
  <2>1. PICK j \in 1..k : In(n, j)
    BY <1>7 DEF T
  <2>2. f[n].line < j \/ f[n].line = j
    BY <2>1 DEF In
  <2>3. f[n].line \in Nat
    BY <1>3, <1>4
  <2> QED
    BY <2>2, <2>3
<1>9. f[n].line <= k
  <2>1. f[n].line \in Nat /\ k \in Nat
    BY <1>1, <1>3, <1>4
  <2> QED
    BY <1>8, <2>1
<1> QED
  BY <1>2, <1>9 DEF n, k, width

-----------------------------------------------------------------------------
\* A window that is given the size computed for its tiles shows them in the columns
\* that were computed, and in no more rows than there are to be.
THEOREM TilesFitIsLayout == TilesSpec => []FitIsLayout
<1>1. TilesInv => FitIsLayout
  <2> SUFFICES ASSUME TilesInv, NEW w \in Windows, desk.grid[w] # <<>>
               PROVE  LET ts == desk.grid[w] IN
                      /\ Laid(desk, ts, 2, Min({IdealHeight(desk, ts), MaxSize[2]})).lines
                           = Laid(desk, ts, 2, MaxSize[2]).lines
                      /\ Laid(desk, ts, 1, IdealWidth(desk, ts)).line <= GridRows(Len(ts))
    BY DEF FitIsLayout
  <2> DEFINE ts == desk.grid[w]
  <2>1. desk \in Desks
    BY DEF TilesInv, Ready, Sound
  <2>2. ts \in Seq(Tiles) /\ ts # <<>>
    BY <2>1 DEF Desks
  <2>3. \A t \in Tiles : Extent(desk, t, 1) \in Nat /\ Extent(desk, t, 2) \in Nat
    BY <2>1 DEF Desks, TileTypes, Extent
  <2> HIDE DEF ts
  <2>4. \A i \in 1..Len(ts) : Extent(desk, ts[i], 1) \in Nat /\ Extent(desk, ts[i], 2) \in Nat
    BY <2>2, <2>3
  <2>5. MaxSize[2] \in Nat
    BY TilesAssumption
  <2>6. Laid(desk, ts, 2, Min({Laid(desk, ts, 2, MaxSize[2]).longest, MaxSize[2]}))
          = Laid(desk, ts, 2, MaxSize[2])
    BY <2>2, <2>4, <2>5, SameInLess
  <2>7. Laid(desk, ts, 1, IdealWidth(desk, ts)).line <= GridRows(Len(ts))
    BY <2>2, <2>4, NoMoreRows
  <2> QED
    BY <2>6, <2>7 DEF IdealHeight, ts
<1> QED
  BY <1>1, TilesInvariant, PTL
=============================================================================
