--------------------------- MODULE ExplorerProofs ---------------------------
(***************************************************************************)
(* A pane of the explorer, for every tree, every number of machines, every *)
(* order of the answers: it rests where it was asked to go, offers no link *)
(* as a way into a directory that is none, and asks nothing of a machine   *)
(* whose session has ended.  What it does to files, for every tree and     *)
(* whatever others do, links included: no rename costs a file that was     *)
(* there when its way was checked, and a deletion takes all that was       *)
(* chosen and goes through no link that the listing showed as one.         *)
(***************************************************************************)
EXTENDS Explorer, FileOperations, FiniteSetTheorems, WellFoundedInduction, TLAPS

-----------------------------------------------------------------------------
(* The inductive invariant *)

Paths == Dirs \union {Raw}
Intents == [kind : {"push", "goto", "none"}, to : Nat]
Batches == [turn : Nat, nav : Nat, todo : SUBSET Names, got : SUBSET Names]
Controllers ==
    [path : Paths \union {None}, entries : SUBSET Names, doors : SUBSET Names,
     loading : BOOLEAN, want : Paths \union {None}, gen : 0..MaxNav,
     history : Seq(Paths), pos : Nat, batch : Batches]
Asked == {"RealPath", "List", "Lookup", "Batch", "Activate", "Write"}
Calls ==
    [op : Asked, fs : Machines,
     gen : Nat, path : Paths \union {None}, intent : Intents, names : SUBSET Names]
Panes ==
    [fs : Machines \union {None}, ctl : Controllers, row : 0..Len(Rows),
     calls : SUBSET Calls, focus : Names \union {None}]

\* The names of a directory that lead to one.
LeadsFrom(p) == {n \in Names : p \in Dirs /\ Under[<<p, n>>] # None}

Navigates(c) == c.op \in {"RealPath", "List"}

\* Where a navigation will leave the history: on what it asked for, or on the
\* path it was given before the server resolved it.
Aims(h, pos, path, intent) ==
    /\ intent.kind = "goto" => intent.to \in 1..Len(h) /\ h[intent.to] \in {path, Raw}
    /\ intent.kind = "none" => pos \in 1..Len(h) /\ h[pos] \in {path, Raw}

\* What the answer to a navigation of the current generation will show.
Wanted(ctl, c) ==
    /\ c.path \in Paths
    /\ c.op = "RealPath" => c.path = Raw
    /\ ctl.want = Raw \/ (c.op = "List" /\ c.path = ctl.want)
    /\ Aims(ctl.history, ctl.pos, c.path, c.intent)

\* A call the pane has made: of the machine shown, about one name unless it
\* brings a batch; a navigation of the current generation while the pane loads;
\* what is asked about links, and what comes of it, about the listing shown.
Fits(s, c) ==
    /\ c.fs = s.fs
    /\ c.op \in {"Lookup", "Activate", "Write"} => \E n \in Names : c.names = {n}
    /\ c.op \in {"Lookup", "Activate", "Batch"} => c.path \in Paths
    /\ Navigates(c) =>
         /\ c.gen <= s.ctl.gen
         /\ c.gen = s.ctl.gen => s.ctl.loading /\ Wanted(s.ctl, c)
    /\ c.op = "Lookup" =>
         /\ c.gen <= s.ctl.batch.turn
         /\ c.gen = s.ctl.batch.turn =>
              /\ s.ctl.batch.nav = s.ctl.gen /\ ~s.ctl.loading
              /\ c.path = s.ctl.path /\ s.ctl.batch.got \subseteq LeadsFrom(c.path)
    /\ c.op = "Batch" =>
         /\ c.gen <= s.ctl.gen
         /\ c.gen = s.ctl.gen =>
              ~s.ctl.loading /\ c.path = s.ctl.path /\ c.names \subseteq LeadsFrom(c.path)

Current(s, c) == Navigates(c) /\ c.gen = s.ctl.gen

\* One navigation at most is current.
OneCurrent(s) ==
    \A c, d \in s.calls : (Current(s, c) /\ Current(s, d)) => c = d

HistoryInv(c) ==
    /\ c.pos \in 0..Len(c.history)
    /\ c.history # <<>> => c.pos > 0
    /\ c.path # None => c.pos \in 1..Len(c.history) /\ c.history[c.pos] \in {c.path, Raw}

ListingInv(c) ==
    /\ c.batch.nav <= c.gen
    /\ c.doors \subseteq c.entries \intersect LeadsFrom(c.path)
    /\ c.entries # {} => c.path \in Dirs

PaneInv(s) ==
    /\ s \in Panes /\ HistoryInv(s.ctl) /\ ListingInv(s.ctl)
    /\ \A c \in s.calls : Fits(s, c)
    /\ OneCurrent(s)

Rests(s) ==
    (s.fs # None /\ ~s.ctl.loading) =>
        s.ctl.path # None /\ (s.ctl.want = Raw \/ s.ctl.path = s.ctl.want)

Dialogs == [kind : {"none", "entry", "folder"}, name : Names \union {None}]

ExplorerInv ==
    /\ PaneInv(pane) /\ Rests(pane)
    /\ dialog \in Dialogs /\ (dialog.kind = "entry" => dialog.name \in Names)
    /\ up \subseteq Machines /\ (pane.fs # None => pane.fs \in up)
    /\ count \in [binds : 0..MaxBinds, writes : 0..MaxWrites]

-----------------------------------------------------------------------------
(* The order of the rows *)

Less == {ss \in Nat \X Nat : ss[1] < ss[2]}

\* A set of numbers that is not empty has a least one.
LEMMA LeastNumber ==
  ASSUME NEW T \in SUBSET Nat, T # {}
  PROVE  \E m \in T : \A n \in T : m <= n
<1>1. IsWellFoundedOn(Less, Nat)
  BY NatLessThanWellFounded, Zenon DEF OpToRel, Less
<1>2. PICK x \in T : \A y \in T : ~ (<<y, x>> \in Less)
  BY <1>1, WFMin
<1>3. \A y \in T : ~(y < x)
  BY <1>2 DEF Less
<1> QED
  BY <1>3

\* Every name has its place in the sort.
LEMMA NameHasAPlace ==
  ASSUME NEW n \in Names
  PROVE  Place(n) \in Nat
<1>1. \E i \in DOMAIN Rows : Rows[i] = n
  BY DEF Names, Range
<1>2. Place(n) \in DOMAIN Rows
  BY <1>1 DEF Place
<1> QED
  BY <1>2, ExplorerAssumption

\* The first of several names is one of them.
LEMMA FirstIsOne ==
  ASSUME NEW S \in SUBSET Names, S # {}
  PROVE  First(S) \in S
<1> DEFINE T == {Place(n) : n \in S}
<1>1. T \in SUBSET Nat /\ T # {}
  BY NameHasAPlace
<1>2. PICK p \in T : \A q \in T : p <= q
  BY <1>1, LeastNumber
<1>3. PICK n \in S : p = Place(n)
  BY <1>2
<1>4. \A m \in S : Place(n) <= Place(m)
  BY <1>2, <1>3
<1> QED
  BY <1>4 DEF First

\* There are no more names than rows in the sort.
LEMMA NamesAreFew ==
  IsFiniteSet(Names) /\ Cardinality(Names) \in Nat /\ Cardinality(Names) <= Len(Rows)
<1>1. IsFiniteSet(1..Len(Rows)) /\ Cardinality(1..Len(Rows)) = Len(Rows)
  <2>1. Len(Rows) \in Nat
    BY ExplorerAssumption
  <2>2. PICK k \in Nat : k = Len(Rows)
    BY <2>1
  <2>3. 1 \in Int /\ k \in Int
    OBVIOUS
  <2>4. IsFiniteSet(1..k) /\ Cardinality(1..k) = IF 1 > k THEN 0 ELSE k - 1 + 1
    BY <2>3, FS_Interval, Zenon
  <2> QED
    BY <2>2, <2>4
<1> DEFINE f == [i \in 1..Len(Rows) |-> Rows[i]]
<1>2. f \in Surjection(1..Len(Rows), Names)
  <2>1. DOMAIN Rows = 1..Len(Rows)
    BY ExplorerAssumption
  <2>2. f \in [1..Len(Rows) -> Names]
    BY <2>1 DEF Names, Range
  <2>3. \A n \in Names : \E i \in 1..Len(Rows) : f[i] = n
    BY <2>1 DEF Names, Range
  <2> QED
    BY <2>2, <2>3 DEF Surjection
<1>3. IsFiniteSet(Names) /\ Cardinality(Names) <= Cardinality(1..Len(Rows))
  <2> HIDE DEF f
  <2> QED
    BY <1>1, <1>2, FS_Surjection
<1> QED
  BY <1>1, <1>3, FS_CardinalityType

\* A listing fills no more rows than it has names, and each name has its row.
LEMMA RowsOfTheListing ==
  ASSUME NEW c, c.entries \in SUBSET Names
  PROVE  /\ Cardinality(c.entries) \in 0..Len(Rows)
         /\ \A n \in c.entries : Rebuild(c)[n] \in 0..Len(Rows)
<1>1. IsFiniteSet(c.entries) /\ Cardinality(c.entries) \in Nat
      /\ Cardinality(c.entries) <= Len(Rows)
  BY NamesAreFew, FS_Subset, FS_CardinalityType
<1>2. ASSUME NEW n \in c.entries
      PROVE  Rebuild(c)[n] \in 0..Len(Rows)
  <2> DEFINE A == {m \in c.entries : Above(c, m, n)}
  <2>1. n \notin A
    <3>1. ~Above(c, n, n)
      <4>1. Place(n) \in Nat
        BY NameHasAPlace
      <4>2. ~(Place(n) < Place(n))
        BY <4>1
      <4> QED
        BY <4>2 DEF Above
    <3> QED
      BY <3>1
  <2>2. A \subseteq c.entries /\ A # c.entries
    BY <2>1
  <2>3. IsFiniteSet(A) /\ Cardinality(A) < Cardinality(c.entries)
    <3>1. /\ IsFiniteSet(A) /\ Cardinality(A) <= Cardinality(c.entries)
          /\ Cardinality(c.entries) = Cardinality(A) => c.entries = A
      <4> HIDE DEF A
      <4> QED
        BY <1>1, <2>2, FS_Subset
    <3>2. Cardinality(A) \in Nat
      BY <3>1, FS_CardinalityType
    <3> HIDE DEF A
    <3> QED
      BY <1>1, <2>2, <3>1, <3>2
  <2>4. Cardinality(A) \in Nat
    BY <2>3, FS_CardinalityType
  <2>5. Rebuild(c)[n] = 1 + Cardinality(A)
    BY DEF Rebuild
  <2> HIDE DEF A
  <2> QED
    BY <1>1, <2>3, <2>4, <2>5, ExplorerAssumption
<1> QED
  BY <1>1, <1>2, ExplorerAssumption

-----------------------------------------------------------------------------
(* The operations one by one *)

\* What the constants are.
LEMMA Constants ==
  /\ Home \in Dirs /\ Raw \notin Dirs /\ None \notin Machines /\ None \notin Paths
  /\ None \notin Names /\ MaxNav \in Nat \ {0} /\ MaxBinds \in Nat /\ MaxWrites \in Nat
  /\ Len(Rows) \in Nat
BY ExplorerAssumption DEF Paths

\* What the pane asks of its machine.
CallOf(s, op, gen, path, intent, names) ==
    [op |-> op, fs |-> s.fs, gen |-> gen, path |-> path, intent |-> intent, names |-> names]

\* A pane that asks a machine for something has one more call.
LEMMA AskIs ==
  ASSUME NEW s \in Panes, s.fs \in Machines, NEW op \in Asked,
         NEW gen \in Nat, NEW path \in Paths \union {None}, NEW intent \in Intents,
         NEW names \in SUBSET Names
  PROVE  /\ CallOf(s, op, gen, path, intent, names) \in Calls
         /\ Ask(s, op, gen, path, intent, names) \in Panes
         /\ Ask(s, op, gen, path, intent, names).fs = s.fs
         /\ Ask(s, op, gen, path, intent, names).ctl = s.ctl
         /\ Ask(s, op, gen, path, intent, names).calls
              = s.calls \union {CallOf(s, op, gen, path, intent, names)}
BY DEF Ask, Panes, Calls, CallOf

\* It keeps the invariant when the call fits.
LEMMA AskKeeps ==
  ASSUME NEW s, NEW t, NEW c \in Calls, PaneInv(s), t \in Panes,
         t.fs = s.fs, t.ctl = s.ctl, t.calls = s.calls \union {c},
         Fits(s, c), Current(s, c) => \A d \in s.calls : ~Current(s, d)
  PROVE  PaneInv(t)
<1>1. \A d \in t.calls : Fits(t, d)
  BY DEF PaneInv, Fits
<1>2. OneCurrent(t)
  BY DEF PaneInv, OneCurrent, Current
<1> QED
  BY <1>1, <1>2 DEF PaneInv

\* A call that is answered is out no more.
LEMMA DropKeeps ==
  ASSUME NEW s, PaneInv(s), NEW c \in s.calls
  PROVE  LET t == [s EXCEPT !.calls = @ \ {c}] IN
         /\ PaneInv(t) /\ t.fs = s.fs /\ t.ctl = s.ctl /\ t.row = s.row /\ t.focus = s.focus
         /\ t.calls = s.calls \ {c}
         /\ Current(s, c) => \A d \in t.calls : ~Current(t, d)
<1> DEFINE t == [s EXCEPT !.calls = @ \ {c}]
<1>1. /\ t \in Panes /\ t.fs = s.fs /\ t.ctl = s.ctl /\ t.row = s.row /\ t.focus = s.focus
      /\ t.calls = s.calls \ {c}
  BY DEF PaneInv, Panes
<1> HIDE DEF t
<1>2. \A d \in t.calls : Fits(t, d)
  BY <1>1 DEF PaneInv, Fits
<1>3. OneCurrent(t)
  BY <1>1 DEF PaneInv, OneCurrent, Current
<1>4. Current(s, c) => \A d \in t.calls : ~Current(t, d)
  BY <1>1 DEF PaneInv, OneCurrent, Current
<1>5. PaneInv(t)
  BY <1>1, <1>2, <1>3 DEF PaneInv
<1> QED
  BY <1>1, <1>4, <1>5 DEF t

\* The generation that a navigation begins, before it asks for anything.
Restarted(s, p) ==
    [s EXCEPT !.ctl.gen = s.ctl.gen + 1, !.ctl.loading = TRUE, !.ctl.want = p,
              !.ctl.batch.turn = @ + 1]

\* What was asked before it is superseded.
LEMMA RestartKeeps ==
  ASSUME NEW s, PaneInv(s), s.ctl.gen < MaxNav, NEW p \in Paths
  PROVE  LET r == Restarted(s, p) IN
         /\ PaneInv(r) /\ \A d \in r.calls : ~Current(r, d)
         /\ r.fs = s.fs /\ r.calls = s.calls
         /\ r.ctl.gen = s.ctl.gen + 1 /\ r.ctl.loading /\ r.ctl.want = p
         /\ r.ctl.history = s.ctl.history /\ r.ctl.pos = s.ctl.pos /\ r.ctl.path = s.ctl.path
<1> DEFINE r == Restarted(s, p)
<1>1. s \in Panes /\ s.ctl \in Controllers /\ s.ctl.batch \in Batches /\ s.ctl.gen \in Nat
  BY Constants DEF PaneInv, Panes, Controllers
<1>2. /\ r.fs = s.fs /\ r.calls = s.calls /\ r.row = s.row /\ r.focus = s.focus
      /\ r.ctl = [s.ctl EXCEPT !.gen = s.ctl.gen + 1, !.loading = TRUE, !.want = p,
                               !.batch.turn = @ + 1]
      /\ DOMAIN r = DOMAIN s
  BY <1>1 DEF Restarted, Panes
<1>3. /\ r.ctl \in Controllers
      /\ r.ctl.gen = s.ctl.gen + 1 /\ r.ctl.loading = TRUE /\ r.ctl.want = p
      /\ r.ctl.batch.turn = s.ctl.batch.turn + 1 /\ r.ctl.batch.nav = s.ctl.batch.nav
      /\ r.ctl.path = s.ctl.path /\ r.ctl.entries = s.ctl.entries /\ r.ctl.doors = s.ctl.doors
      /\ r.ctl.history = s.ctl.history /\ r.ctl.pos = s.ctl.pos
  <2>1. PICK k \in Controllers, g \in Nat, b \in Batches : k = s.ctl /\ g = k.gen /\ b = k.batch
    BY <1>1
  <2> DEFINE e == [b EXCEPT !.turn = @ + 1]
             j == [k EXCEPT !.gen = g + 1, !.loading = TRUE, !.want = p, !.batch = e]
  <2>2. e \in Batches /\ e.turn = b.turn + 1 /\ e.nav = b.nav
    BY <2>1 DEF Batches
  <2>3. r.ctl = j
    BY <1>2, <2>1 DEF Controllers
  <2>4. g + 1 \in 0..MaxNav
    BY <2>1, Constants
  <2> HIDE DEF e
  <2>5. /\ j \in Controllers /\ j.gen = g + 1 /\ j.loading = TRUE /\ j.want = p /\ j.batch = e
        /\ j.path = k.path /\ j.entries = k.entries /\ j.doors = k.doors
        /\ j.history = k.history /\ j.pos = k.pos
    BY <2>1, <2>2, <2>4 DEF Controllers
  <2> HIDE DEF j
  <2> QED
    BY <2>1, <2>2, <2>3, <2>5
<1>4. r \in Panes
  BY <1>1, <1>3 DEF Restarted, Panes
<1> HIDE DEF r
<1>5. HistoryInv(r.ctl) /\ ListingInv(r.ctl)
  BY <1>1, <1>3 DEF PaneInv, HistoryInv, ListingInv, Batches
<1>6. ASSUME NEW d \in r.calls
      PROVE  Fits(r, d) /\ ~Current(r, d)
  <2>1. d \in Calls /\ d.gen \in Nat /\ Fits(s, d)
    BY <1>1, <1>2 DEF PaneInv, Panes, Calls
  <2>2. s.ctl.batch.turn \in Nat
    BY <1>1 DEF Batches
  <2> QED
    BY <1>1, <1>2, <1>3, <2>1, <2>2 DEF Fits, Current
<1>7. PaneInv(r)
  BY <1>4, <1>5, <1>6 DEF PaneInv, OneCurrent
<1> QED
  BY <1>2, <1>3, <1>6, <1>7 DEF r

\* A navigation begins: the pane loads, and what it asks is what it wants.
LEMMA BeginKeeps ==
  ASSUME NEW s, PaneInv(s), s.fs \in Machines, s.ctl.gen < MaxNav, NEW p \in Paths,
         NEW intent \in Intents, Aims(s.ctl.history, s.ctl.pos, p, intent)
  PROVE  /\ PaneInv(Begin(s, p, intent)) /\ Rests(Begin(s, p, intent))
         /\ Begin(s, p, intent).fs = s.fs
<1> DEFINE r == Restarted(s, p)
           op == IF p = Raw THEN "RealPath" ELSE "List"
           g == s.ctl.gen + 1
           c == CallOf(r, op, g, p, intent, {})
           t == Ask(r, op, g, p, intent, {})
<1>1. /\ PaneInv(r) /\ \A d \in r.calls : ~Current(r, d)
      /\ r.fs = s.fs /\ r.calls = s.calls
      /\ r.ctl.gen = s.ctl.gen + 1 /\ r.ctl.loading /\ r.ctl.want = p
      /\ r.ctl.history = s.ctl.history /\ r.ctl.pos = s.ctl.pos
  BY RestartKeeps
<1>2. Begin(s, p, intent) = t
  BY DEF Begin, Restarted
<1>3. g \in Nat /\ r \in Panes
  BY <1>1, Constants DEF PaneInv, Panes, Controllers
<1> HIDE DEF r
<1>4. /\ c \in Calls /\ t \in Panes /\ t.fs = r.fs /\ t.ctl = r.ctl
      /\ t.calls = r.calls \union {c}
  <2>1. op \in Asked
    BY DEF Asked
  <2>2. p \in Paths \union {None} /\ {} \in SUBSET Names
    OBVIOUS
  <2>3. r.fs \in Machines
    BY <1>1
  <2> HIDE DEF op, g
  <2> QED
    BY <1>3, <2>1, <2>2, <2>3, AskIs
<1>5. Fits(r, c)
  <2>1. Wanted(r.ctl, c)
    BY <1>1, Constants DEF Wanted, Paths, CallOf
  <2>2. /\ c.fs = r.fs /\ c.gen = r.ctl.gen
        /\ c.op \notin {"Lookup", "Batch", "Activate", "Write"}
    BY <1>1 DEF CallOf
  <2> HIDE DEF c
  <2>3. c.gen <= r.ctl.gen
    BY <1>1, <1>3, <2>2
  <2> QED
    BY <1>1, <2>1, <2>2, <2>3 DEF Fits, Navigates
<1> HIDE DEF c, t
<1>6. PaneInv(t)
  BY <1>1, <1>4, <1>5, AskKeeps
<1>7. Rests(t)
  BY <1>1, <1>4 DEF Rests
<1> QED
  BY <1>1, <1>2, <1>4, <1>6, <1>7

\* What is shown is asked for again, if there is anything.
LEMMA ReloadKeeps ==
  ASSUME NEW s, PaneInv(s), s.fs \in Machines, Rests(s)
  PROVE  PaneInv(Reload(s)) /\ Rests(Reload(s)) /\ Reload(s).fs = s.fs
<1>1. CASE s.ctl.path = None \/ ~CanBegin(s)
  BY <1>1 DEF Reload
<1>2. CASE ~(s.ctl.path = None \/ ~CanBegin(s))
  <2>1. s.ctl.path \in Paths /\ s.ctl.gen < MaxNav
    BY <1>2 DEF PaneInv, Panes, Controllers, CanBegin
  <2>2. Stay \in Intents /\ Aims(s.ctl.history, s.ctl.pos, s.ctl.path, Stay)
    BY <1>2 DEF PaneInv, HistoryInv, Aims, Stay, Intents
  <2> QED
    BY <1>2, <2>1, <2>2, BeginKeeps DEF Reload
<1> QED
  BY <1>1, <1>2

\* The rows shown change, and the selection with them, and nothing else.
LEMMA ChangedIs ==
  ASSUME NEW s \in Panes
  PROVE  LET t == OnExplorerContentsChanged(s) IN
         t \in Panes /\ t.fs = s.fs /\ t.ctl = s.ctl /\ t.calls = s.calls
<1>1. s.ctl.entries \in SUBSET Names /\ s.row \in 0..Len(Rows)
  BY DEF Panes, Controllers
<1>2. 0 \in 0..Len(Rows)
  BY Constants
<1> DEFINE r == IF s.focus \in s.ctl.entries THEN Rebuild(s.ctl)[s.focus]
                ELSE IF s.row <= Cardinality(s.ctl.entries) THEN s.row ELSE 0
<1>3. r \in 0..Len(Rows)
  BY <1>1, <1>2, RowsOfTheListing
<1>4. OnExplorerContentsChanged(s) = [s EXCEPT !.row = r, !.focus = None]
  BY DEF OnExplorerContentsChanged, RefreshRows, Panes
<1> HIDE DEF r
<1> QED
  BY <1>3, <1>4 DEF Panes

\* It keeps the invariant.
LEMMA ChangedKeeps ==
  ASSUME NEW s, PaneInv(s)
  PROVE  LET t == OnExplorerContentsChanged(s) IN
         PaneInv(t) /\ t.fs = s.fs /\ t.ctl = s.ctl /\ t.calls = s.calls
<1> DEFINE t == OnExplorerContentsChanged(s)
<1>1. t \in Panes /\ t.fs = s.fs /\ t.ctl = s.ctl /\ t.calls = s.calls
  BY ChangedIs DEF PaneInv
<1> HIDE DEF t
<1>2. PaneInv(t)
  BY <1>1 DEF PaneInv, Fits, OneCurrent, Current
<1> QED
  BY <1>1, <1>2 DEF t

\* A pane with another batch of lookups.
WithBatch(s, b) == [s EXCEPT !.ctl.batch = b]

\* Nothing else of it is different.
LEMMA WithBatchIs ==
  ASSUME NEW s \in Panes, NEW b \in Batches
  PROVE  LET t == WithBatch(s, b) IN
         /\ t \in Panes /\ t.fs = s.fs /\ t.calls = s.calls
         /\ t.ctl.path = s.ctl.path /\ t.ctl.entries = s.ctl.entries
         /\ t.ctl.doors = s.ctl.doors /\ t.ctl.loading = s.ctl.loading
         /\ t.ctl.want = s.ctl.want /\ t.ctl.gen = s.ctl.gen
         /\ t.ctl.history = s.ctl.history /\ t.ctl.pos = s.ctl.pos
         /\ t.ctl.batch = b
<1>1. PICK k \in Controllers : k = s.ctl
  BY DEF Panes
<1>2. WithBatch(s, b) = [s EXCEPT !.ctl = [k EXCEPT !.batch = b]]
  BY <1>1 DEF WithBatch, Panes
<1>3. [k EXCEPT !.batch = b] \in Controllers
  BY DEF Controllers
<1> DEFINE j == [k EXCEPT !.batch = b]
<1>4. /\ j \in Controllers /\ j.path = k.path /\ j.entries = k.entries
      /\ j.doors = k.doors /\ j.loading = k.loading /\ j.want = k.want /\ j.gen = k.gen
      /\ j.history = k.history /\ j.pos = k.pos /\ j.batch = b
  BY <1>1 DEF Controllers
<1> HIDE DEF j
<1>5. WithBatch(s, b) = [s EXCEPT !.ctl = j]
  BY <1>2 DEF j
<1> QED
  BY <1>1, <1>4, <1>5 DEF Panes

\* The invariant stays when what is out about the links fits the new batch.
LEMMA WithBatchKeeps ==
  ASSUME NEW s, PaneInv(s), NEW b \in Batches, b.nav <= s.ctl.gen,
         s.ctl.batch.turn <= b.turn,
         b.turn = s.ctl.batch.turn =>
            b.nav = s.ctl.batch.nav /\ b.got \subseteq LeadsFrom(s.ctl.path)
  PROVE  PaneInv(WithBatch(s, b))
<1> DEFINE t == WithBatch(s, b)
<1>1. s \in Panes
  BY DEF PaneInv
<1>2. /\ t \in Panes /\ t.fs = s.fs /\ t.calls = s.calls
      /\ t.ctl.path = s.ctl.path /\ t.ctl.entries = s.ctl.entries
      /\ t.ctl.doors = s.ctl.doors /\ t.ctl.loading = s.ctl.loading
      /\ t.ctl.want = s.ctl.want /\ t.ctl.gen = s.ctl.gen
      /\ t.ctl.history = s.ctl.history /\ t.ctl.pos = s.ctl.pos
      /\ t.ctl.batch = b
  BY <1>1, WithBatchIs
<1> HIDE DEF t
<1>3. HistoryInv(t.ctl) /\ ListingInv(t.ctl)
  BY <1>2 DEF PaneInv, HistoryInv, ListingInv
<1>4. ASSUME NEW d \in t.calls
      PROVE  Fits(t, d)
  <2>1. Fits(s, d) /\ d \in Calls
    BY <1>1, <1>2 DEF PaneInv, Panes
  <2>2. d.gen \in Nat /\ s.ctl.batch.turn \in Nat /\ b.turn \in Nat
    BY <1>1, <2>1 DEF Panes, Calls, Controllers, Batches
  <2>3. Navigates(d) /\ d.gen = t.ctl.gen => Wanted(t.ctl, d)
    BY <1>2, <2>1 DEF Fits, Wanted
  <2>4. d.op = "Lookup" =>
          /\ d.gen <= b.turn
          /\ d.gen = b.turn =>
               /\ b.nav = s.ctl.gen /\ ~s.ctl.loading
               /\ d.path = s.ctl.path /\ b.got \subseteq LeadsFrom(d.path)
    BY <2>1, <2>2 DEF Fits
  <2> QED
    BY <1>2, <2>1, <2>3, <2>4 DEF Fits
<1>5. OneCurrent(t)
  BY <1>2 DEF PaneInv, OneCurrent, Current
<1> QED
  BY <1>2, <1>3, <1>4, <1>5 DEF PaneInv, t

\* The links of a listing are asked about: a new turn, of this navigation.
LEMMA ResolveKeeps ==
  ASSUME NEW s, PaneInv(s), s.fs \in Machines, ~s.ctl.loading, s.ctl.path \in Paths, Rests(s)
  PROVE  PaneInv(ResolveLinks(s)) /\ Rests(ResolveLinks(s)) /\ ResolveLinks(s).fs = s.fs
<1> DEFINE names == UnresolvedLinkNames(s.ctl)
           b == [turn |-> s.ctl.batch.turn + 1, nav |-> s.ctl.gen, todo |-> names, got |-> {}]
           e == [s.ctl.batch EXCEPT !.turn = @ + 1]
<1>1. /\ s \in Panes /\ s.ctl \in Controllers /\ s.ctl.batch \in Batches
      /\ s.ctl.gen \in Nat /\ s.ctl.batch.turn \in Nat /\ s.ctl.batch.nav <= s.ctl.gen
  BY Constants DEF PaneInv, ListingInv, Panes, Controllers, Batches
<1>2. names \in SUBSET Names
  BY <1>1 DEF UnresolvedLinkNames, Controllers
<1> HIDE DEF names
<1>3. CASE names = {}
  <2>1. e \in Batches /\ e.turn = s.ctl.batch.turn + 1 /\ e.nav = s.ctl.batch.nav
    BY <1>1 DEF Batches
  <2>2. ResolveLinks(s) = WithBatch(s, e)
    <3>1. ResolveLinks(s) = [s EXCEPT !.ctl.batch.turn = @ + 1]
      BY <1>3 DEF ResolveLinks, names
    <3> QED
      BY <3>1 DEF WithBatch
  <2> HIDE DEF e
  <2>3. PaneInv(WithBatch(s, e))
    BY <1>1, <2>1, WithBatchKeeps
  <2>4. Rests(WithBatch(s, e)) /\ WithBatch(s, e).fs = s.fs
    BY <1>1, <2>1, WithBatchIs DEF Rests
  <2> QED
    BY <2>2, <2>3, <2>4
<1>4. CASE names # {}
  <2> DEFINE r == WithBatch(s, b)
             g == s.ctl.batch.turn + 1
             t == Ask(r, "Lookup", g, s.ctl.path, Stay, {First(names)})
             c == CallOf(r, "Lookup", g, s.ctl.path, Stay, {First(names)})
  <2>1. /\ b \in Batches /\ b.turn = g /\ b.nav = s.ctl.gen /\ b.got = {} /\ g \in Nat
    BY <1>1, <1>2 DEF Batches
  <2>2. ResolveLinks(s) = t
    BY <1>4 DEF ResolveLinks, names, WithBatch
  <2> HIDE DEF b
  <2>3. PaneInv(r)
    BY <1>1, <2>1, WithBatchKeeps
  <2>4. /\ r \in Panes /\ r.fs = s.fs /\ r.ctl.path = s.ctl.path /\ ~r.ctl.loading
        /\ r.ctl.gen = s.ctl.gen /\ r.ctl.batch = b /\ r.ctl.want = s.ctl.want
    BY <1>1, <2>1, WithBatchIs
  <2>5. First(names) \in Names
    BY <1>2, <1>4, FirstIsOne
  <2> HIDE DEF r, g
  <2>6. /\ c \in Calls /\ t \in Panes /\ t.fs = r.fs /\ t.ctl = r.ctl
        /\ t.calls = r.calls \union {c}
    <3>1. "Lookup" \in Asked /\ Stay \in Intents /\ {First(names)} \in SUBSET Names
      BY <2>5 DEF Asked, Stay, Intents
    <3>2. s.ctl.path \in Paths \union {None} /\ r.fs \in Machines
      BY <2>4
    <3> QED
      BY <2>1, <2>4, <3>1, <3>2, AskIs
  <2>7. Fits(r, c)
    <3>1. /\ c.op = "Lookup" /\ c.fs = r.fs /\ c.gen = g /\ c.path = s.ctl.path
          /\ c.names = {First(names)}
      BY DEF CallOf
    <3> QED
      BY <2>1, <2>4, <2>5, <3>1 DEF Fits, Navigates
  <2>8. ~Current(r, c)
    BY DEF Current, Navigates, CallOf
  <2> HIDE DEF c, t
  <2>9. PaneInv(t)
    BY <2>3, <2>6, <2>7, <2>8, AskKeeps
  <2>10. Rests(t)
    BY <2>4, <2>6 DEF Rests
  <2> QED
    BY <2>2, <2>4, <2>6, <2>9, <2>10
<1> QED
  BY <1>3, <1>4

\* Where an arrival leaves the history: on the path that arrived, or on the one
\* typed for it.
LEMMA CommitIs ==
  ASSUME NEW c \in Controllers, HistoryInv(c), NEW intent \in Intents, NEW p \in Paths,
         Aims(c.history, c.pos, p, intent)
  PROVE  LET d == Commit(c, intent, p) IN
         /\ d \in Controllers
         /\ d.history \in Seq(Paths) /\ d.pos \in 1..Len(d.history)
         /\ d.history[d.pos] \in {p, Raw}
         /\ d.want = c.want /\ d.gen = c.gen /\ d.batch = c.batch
<1>1. c.history \in Seq(Paths) /\ c.pos \in 0..Len(c.history) /\ c.pos \in Nat
  BY DEF Controllers, HistoryInv
<1>2. CASE intent.kind = "push"
  <2> DEFINE h == Append(SubSeq(c.history, 1, c.pos), p)
  <2>1. SubSeq(c.history, 1, c.pos) \in Seq(Paths) /\ Len(SubSeq(c.history, 1, c.pos)) = c.pos
    BY <1>1
  <2>2. h \in Seq(Paths) /\ Len(h) = c.pos + 1 /\ h[c.pos + 1] = p
    BY <1>1, <2>1
  <2>3. Commit(c, intent, p) = [c EXCEPT !.history = h, !.pos = @ + 1]
    BY <1>2 DEF Commit
  <2> DEFINE d == [c EXCEPT !.history = h, !.pos = c.pos + 1]
  <2> HIDE DEF h
  <2>4. /\ d \in Controllers /\ d.history = h /\ d.pos = c.pos + 1
        /\ d.want = c.want /\ d.gen = c.gen /\ d.batch = c.batch
    <3>1. PICK i \in Nat : i = c.pos + 1
      BY <1>1
    <3>2. [c EXCEPT !.history = h, !.pos = i] \in Controllers
      BY <2>2, <3>1 DEF Controllers
    <3> QED
      BY <3>1, <3>2 DEF Controllers
  <2>5. c.pos + 1 \in 1..Len(h)
    BY <1>1, <2>2
  <2>6. Commit(c, intent, p) = d
    BY <2>3
  <2> HIDE DEF d
  <2>7. d.pos \in 1..Len(d.history) /\ d.history[d.pos] = p
    BY <2>2, <2>4, <2>5
  <2> QED
    BY <2>2, <2>4, <2>6, <2>7
<1>3. CASE intent.kind = "goto"
  <2>1. Commit(c, intent, p) = [c EXCEPT !.pos = intent.to]
    BY <1>3 DEF Commit
  <2>2. intent.to \in 1..Len(c.history) /\ c.history[intent.to] \in {p, Raw}
    BY <1>3 DEF Aims
  <2>3. intent.to \in Nat
    BY DEF Intents
  <2> QED
    BY <1>1, <2>1, <2>2, <2>3 DEF Controllers
<1>4. CASE intent.kind = "none"
  <2>1. Commit(c, intent, p) = c
    BY <1>4 DEF Commit
  <2> QED
    BY <1>1, <1>4, <2>1 DEF Aims
<1>5. intent.kind \in {"push", "goto", "none"}
  BY DEF Intents
<1> QED
  BY <1>2, <1>3, <1>4, <1>5

\* The navigation that is current arrives: the pane rests where it was asked to.
LEMMA ArriveKeeps ==
  ASSUME NEW s, PaneInv(s), s.fs \in Machines, s.ctl.loading,
         \A d \in s.calls : ~Current(s, d),
         NEW call \in Calls, call.op = "List", Wanted(s.ctl, call),
         NEW found \in SUBSET Names, found # {} => call.path \in Dirs
  PROVE  LET t == Arrive(s, call, found) IN PaneInv(t) /\ Rests(t) /\ t.fs = s.fs
<1> DEFINE k == Commit(s.ctl, call.intent, call.path)
           c == [k EXCEPT !.path = call.path, !.entries = found, !.doors = {}, !.loading = FALSE]
           r == [s EXCEPT !.ctl = c]
           u == OnExplorerContentsChanged(r)
<1>1. /\ s \in Panes /\ s.ctl \in Controllers /\ HistoryInv(s.ctl) /\ call.intent \in Intents
      /\ call.path \in Paths /\ Aims(s.ctl.history, s.ctl.pos, call.path, call.intent)
      /\ s.ctl.batch \in Batches
  BY DEF PaneInv, Panes, Controllers, Calls, Wanted
<1>2. /\ k \in Controllers /\ k.history \in Seq(Paths) /\ k.pos \in 1..Len(k.history)
      /\ k.history[k.pos] \in {call.path, Raw}
      /\ k.want = s.ctl.want /\ k.gen = s.ctl.gen /\ k.batch = s.ctl.batch
  BY <1>1, CommitIs
<1> HIDE DEF k
<1>3. /\ c \in Controllers /\ c.history = k.history /\ c.pos = k.pos /\ c.path = call.path
      /\ c.entries = found /\ c.doors = {} /\ c.loading = FALSE
      /\ c.want = s.ctl.want /\ c.gen = s.ctl.gen /\ c.batch = s.ctl.batch
  BY <1>1, <1>2 DEF Controllers
<1> HIDE DEF c
<1>4. r \in Panes /\ r.fs = s.fs /\ r.ctl = c /\ r.calls = s.calls
  BY <1>1, <1>3 DEF Panes
<1>5. Arrive(s, call, found) = ResolveLinks(u)
  BY DEF Arrive, c, k
<1> HIDE DEF r
<1>6. PaneInv(r)
  <2>1. HistoryInv(r.ctl)
    BY <1>2, <1>3, <1>4 DEF HistoryInv
  <2>2. ListingInv(r.ctl)
    BY <1>3, <1>4 DEF ListingInv, PaneInv
  <2>3. ASSUME NEW d \in r.calls
        PROVE  Fits(r, d) /\ ~Current(r, d)
    <3>1. Fits(s, d) /\ ~Current(s, d)
      BY <1>4 DEF PaneInv
    <3>2. ~Current(r, d)
      BY <1>3, <1>4, <3>1 DEF Current
    <3>3. Navigates(d) => d.gen <= r.ctl.gen /\ d.gen # r.ctl.gen
      BY <1>3, <1>4, <3>1, <3>2 DEF Fits, Current
    <3>4. d.op = "Lookup" => d.gen <= r.ctl.batch.turn /\ d.gen # r.ctl.batch.turn
      BY <1>3, <1>4, <3>1 DEF Fits
    <3>5. d.op = "Batch" => d.gen <= r.ctl.gen /\ d.gen # r.ctl.gen
      BY <1>3, <1>4, <3>1 DEF Fits
    <3> QED
      BY <1>4, <3>1, <3>2, <3>3, <3>4, <3>5 DEF Fits
  <2> QED
    BY <1>4, <2>1, <2>2, <2>3 DEF PaneInv, OneCurrent
<1>7. PaneInv(u) /\ u.fs = s.fs /\ u.ctl = c
  BY <1>4, <1>6, ChangedKeeps
<1> HIDE DEF u
<1>8. Rests(u)
  BY <1>1, <1>3, <1>7, Constants DEF Rests, Wanted
<1>9. ~u.ctl.loading /\ u.ctl.path \in Paths /\ u.fs \in Machines
  BY <1>1, <1>3, <1>7
<1>10. PaneInv(ResolveLinks(u)) /\ Rests(ResolveLinks(u)) /\ ResolveLinks(u).fs = u.fs
  BY <1>7, <1>8, <1>9, ResolveKeeps
<1> QED
  BY <1>5, <1>7, <1>10

\* A listing: of the navigation that is current, or dropped.
LEMMA OnListedKeeps ==
  ASSUME NEW s, PaneInv(s), Rests(s), s.fs \in Machines, NEW call \in Calls, call.op = "List",
         Fits(s, call), Current(s, call) => \A d \in s.calls : ~Current(s, d),
         NEW found \in SUBSET Names, found # {} => call.path \in Dirs
  PROVE  LET t == OnListed(s, call, found) IN PaneInv(t) /\ Rests(t) /\ t.fs = s.fs
<1>1. CASE call.gen # s.ctl.gen
  BY <1>1 DEF OnListed
<1>2. CASE call.gen = s.ctl.gen
  <2>1. Navigates(call) /\ Current(s, call) /\ s.ctl.loading /\ Wanted(s.ctl, call)
    BY <1>2 DEF Navigates, Current, Fits
  <2>2. OnListed(s, call, found) = Arrive(s, call, found)
    BY <1>2 DEF OnListed
  <2> QED
    BY <2>1, <2>2, ArriveKeeps
<1> QED
  BY <1>1, <1>2

\* A path resolved: what it stands for is listed, by the same navigation.
LEMMA OnResolvedKeeps ==
  ASSUME NEW s, PaneInv(s), Rests(s), s.fs \in Machines, NEW call \in Calls,
         call.op = "RealPath", Fits(s, call),
         Current(s, call) => \A d \in s.calls : ~Current(s, d), NEW p \in Paths
  PROVE  LET t == OnResolved(s, call, p) IN PaneInv(t) /\ Rests(t) /\ t.fs = s.fs
<1>1. CASE call.gen # s.ctl.gen
  BY <1>1 DEF OnResolved
<1>2. CASE call.gen = s.ctl.gen
  <2> DEFINE t == Ask(s, "List", call.gen, p, call.intent, {})
             c == CallOf(s, "List", call.gen, p, call.intent, {})
  <2>1. /\ Current(s, call) /\ s.ctl.loading /\ Wanted(s.ctl, call)
    BY <1>2 DEF Navigates, Current, Fits
  <2>2. OnResolved(s, call, p) = t
    BY <1>2 DEF OnResolved
  <2>3. /\ c \in Calls /\ t \in Panes /\ t.fs = s.fs /\ t.ctl = s.ctl
        /\ t.calls = s.calls \union {c}
    <3>1. "List" \in Asked /\ call.gen \in Nat /\ call.intent \in Intents /\ s \in Panes
          /\ p \in Paths \union {None} /\ {} \in SUBSET Names
      BY DEF Asked, Calls, PaneInv
    <3> QED
      BY <3>1, AskIs
  <2>4. Wanted(s.ctl, c)
    BY <2>1 DEF Wanted, CallOf, Aims
  <2>5. Fits(s, c)
    <3>1. c.op = "List" /\ c.fs = s.fs /\ c.gen = s.ctl.gen
      BY <1>2 DEF CallOf
    <3>2. c.gen <= s.ctl.gen
      BY <2>3, <3>1 DEF Calls
    <3> QED
      BY <2>1, <2>4, <3>1, <3>2 DEF Fits
  <2>6. \A d \in s.calls : ~Current(s, d)
    BY <2>1
  <2> HIDE DEF c, t
  <2>7. PaneInv(t)
    BY <2>3, <2>5, <2>6, AskKeeps
  <2>8. Rests(t)
    BY <2>3 DEF Rests
  <2> QED
    BY <2>2, <2>3, <2>7, <2>8
<1> QED
  BY <1>1, <1>2

\* An answer about a link: the next is asked about, or the batch is sent on.
LEMMA OnLookedUpKeeps ==
  ASSUME NEW s, PaneInv(s), Rests(s), s.fs \in Machines, NEW call \in Calls,
         call.op = "Lookup", Fits(s, call),
         NEW isDir \in BOOLEAN, isDir => call.names \subseteq LeadsFrom(call.path)
  PROVE  LET t == OnLookedUp(s, call, isDir) IN PaneInv(t) /\ Rests(t) /\ t.fs = s.fs
<1> DEFINE b == s.ctl.batch
           got == IF isDir THEN b.got \union call.names ELSE b.got
           next == [b EXCEPT !.todo = @ \ call.names, !.got = got]
           t == WithBatch(s, next)
           more == Ask(t, "Lookup", b.turn, call.path, Stay, {First(next.todo)})
           done == Ask(t, "Batch", b.nav, call.path, Stay, next.got)
<1>1. /\ s \in Panes /\ b \in Batches /\ s.ctl.gen \in Nat /\ call.names \in SUBSET Names
      /\ b.nav <= s.ctl.gen
  BY Constants DEF PaneInv, ListingInv, Panes, Controllers, Calls
<1>2. OnLookedUp(s, call, isDir) =
        IF call.gen # b.turn THEN s ELSE IF next.todo # {} THEN more ELSE done
  BY DEF OnLookedUp, WithBatch
<1>3. CASE call.gen # b.turn
  BY <1>2, <1>3
<1>4. CASE call.gen = b.turn
  <2>1. /\ b.nav = s.ctl.gen /\ ~s.ctl.loading /\ call.path = s.ctl.path
        /\ b.got \subseteq LeadsFrom(call.path) /\ call.path \in Paths
    BY <1>4 DEF Fits
  <2>2. got \in SUBSET Names /\ got \subseteq LeadsFrom(call.path)
    BY <1>1, <2>1 DEF Batches
  <2> HIDE DEF got
  <2>3. /\ next \in Batches /\ next.turn = b.turn /\ next.nav = b.nav /\ next.got = got
        /\ b.turn \in Nat /\ b.nav \in Nat /\ next.todo \in SUBSET Names
    BY <1>1, <2>2 DEF Batches
  <2> HIDE DEF next
  <2>4. PaneInv(t)
    BY <1>1, <2>1, <2>2, <2>3, WithBatchKeeps
  <2>5. /\ t \in Panes /\ t.fs = s.fs /\ t.calls = s.calls /\ t.ctl.path = s.ctl.path
        /\ t.ctl.loading = s.ctl.loading /\ t.ctl.want = s.ctl.want
        /\ t.ctl.gen = s.ctl.gen /\ t.ctl.batch = next
    BY <1>1, <2>3, WithBatchIs
  <2>6. Rests(t)
    BY <2>5 DEF Rests
  <2> HIDE DEF t, b
  <2>7. Stay \in Intents /\ call.path \in Paths \union {None}
    BY <2>1 DEF Stay, Intents
  <2>8. CASE next.todo # {}
    <3> DEFINE c == CallOf(t, "Lookup", b.turn, call.path, Stay, {First(next.todo)})
    <3>1. First(next.todo) \in Names
      BY <2>3, <2>8, FirstIsOne
    <3>2. /\ c \in Calls /\ more \in Panes /\ more.fs = t.fs /\ more.ctl = t.ctl
          /\ more.calls = t.calls \union {c}
      <4>1. "Lookup" \in Asked /\ {First(next.todo)} \in SUBSET Names /\ t.fs \in Machines
        BY <2>5, <3>1 DEF Asked
      <4> QED
        BY <2>3, <2>5, <2>7, <4>1, AskIs
    <3>3. Fits(t, c)
      <4>1. /\ c.op = "Lookup" /\ c.fs = t.fs /\ c.gen = b.turn /\ c.path = call.path
            /\ c.names = {First(next.todo)}
        BY DEF CallOf
      <4>2. c.gen <= t.ctl.batch.turn
        BY <2>3, <2>5, <4>1
      <4>3. \E n \in Names : c.names = {n}
        BY <3>1, <4>1
      <4> HIDE DEF c
      <4> QED
        BY <1>1, <2>1, <2>2, <2>3, <2>5, <4>1, <4>2, <4>3 DEF Fits, Navigates
    <3>4. ~Current(t, c)
      BY DEF Current, Navigates, CallOf
    <3> HIDE DEF c, more
    <3>5. PaneInv(more)
      BY <2>4, <3>2, <3>3, <3>4, AskKeeps
    <3> QED
      BY <1>2, <1>4, <2>5, <2>6, <2>8, <3>2, <3>5 DEF Rests
  <2>9. CASE next.todo = {}
    <3> DEFINE c == CallOf(t, "Batch", b.nav, call.path, Stay, next.got)
    <3>2. /\ c \in Calls /\ done \in Panes /\ done.fs = t.fs /\ done.ctl = t.ctl
          /\ done.calls = t.calls \union {c}
      <4>1. "Batch" \in Asked /\ next.got \in SUBSET Names /\ t.fs \in Machines
        BY <2>2, <2>3, <2>5 DEF Asked
      <4> QED
        BY <2>3, <2>5, <2>7, <4>1, AskIs
    <3>3. Fits(t, c)
      <4>1. /\ c.op = "Batch" /\ c.fs = t.fs /\ c.gen = b.nav /\ c.path = call.path
            /\ c.names = got
        BY <2>3 DEF CallOf
      <4>2. c.gen <= t.ctl.gen
        BY <1>1, <2>5, <4>1
      <4> QED
        BY <2>1, <2>2, <2>5, <4>1, <4>2 DEF Fits, Navigates
    <3>4. ~Current(t, c)
      BY DEF Current, Navigates, CallOf
    <3> HIDE DEF c, done
    <3>5. PaneInv(done)
      BY <2>4, <3>2, <3>3, <3>4, AskKeeps
    <3> QED
      BY <1>2, <1>4, <2>5, <2>6, <2>9, <3>2, <3>5 DEF Rests
  <2> QED
    BY <2>8, <2>9
<1> QED
  BY <1>3, <1>4

\* A batch: what it brings is applied to the listing it is about, or dropped.
LEMMA OnBatchKeeps ==
  ASSUME NEW s, PaneInv(s), Rests(s), NEW call \in Calls, call.op = "Batch", Fits(s, call)
  PROVE  LET t == OnBatch(s, call) IN PaneInv(t) /\ Rests(t) /\ t.fs = s.fs
<1>1. CASE call.gen # s.ctl.gen
  BY <1>1 DEF OnBatch
<1>2. CASE call.gen = s.ctl.gen
  <2> DEFINE doors == (s.ctl.doors \union call.names) \intersect s.ctl.entries
             c == [s.ctl EXCEPT !.doors = doors]
             r == [s EXCEPT !.ctl = c]
             u == OnExplorerContentsChanged(r)
  <2>1. /\ s \in Panes /\ s.ctl \in Controllers /\ HistoryInv(s.ctl) /\ ListingInv(s.ctl)
    BY DEF PaneInv, Panes
  <2>2. doors \subseteq s.ctl.entries \intersect LeadsFrom(s.ctl.path)
    BY <1>2, <2>1 DEF Fits, ListingInv
  <2>3. OnBatch(s, call) = u
    <3>1. r = [s EXCEPT !.ctl.doors = (@ \union call.names) \intersect s.ctl.entries]
      BY <2>1 DEF Panes, Controllers
    <3> QED
      BY <1>2, <3>1 DEF OnBatch
  <2> HIDE DEF doors
  <2>4. /\ c \in Controllers /\ c.history = s.ctl.history /\ c.pos = s.ctl.pos
        /\ c.path = s.ctl.path /\ c.entries = s.ctl.entries /\ c.doors = doors
        /\ c.loading = s.ctl.loading /\ c.want = s.ctl.want /\ c.gen = s.ctl.gen
        /\ c.batch = s.ctl.batch
    BY <2>1, <2>2 DEF Controllers
  <2> HIDE DEF c
  <2>5. r \in Panes /\ r.fs = s.fs /\ r.ctl = c /\ r.calls = s.calls
    BY <2>1, <2>4 DEF Panes
  <2> HIDE DEF r
  <2>6. PaneInv(r)
    <3>1. HistoryInv(r.ctl) /\ ListingInv(r.ctl)
      BY <2>1, <2>2, <2>4, <2>5 DEF HistoryInv, ListingInv
    <3>2. ASSUME NEW d \in r.calls
          PROVE  Fits(r, d)
      BY <2>4, <2>5 DEF PaneInv, Fits, Wanted
    <3>3. OneCurrent(r)
      BY <2>4, <2>5 DEF PaneInv, OneCurrent, Current
    <3> QED
      BY <2>5, <3>1, <3>2, <3>3 DEF PaneInv
  <2>7. PaneInv(u) /\ u.fs = r.fs /\ u.ctl = r.ctl
    BY <2>6, ChangedKeeps
  <2> HIDE DEF u
  <2> QED
    BY <2>3, <2>4, <2>5, <2>7 DEF Rests
<1> QED
  BY <1>1, <1>2

-----------------------------------------------------------------------------
(* The actions one by one *)

\* A pane that has just been pointed at a machine, or at none.
LEMMA FreshPane ==
  ASSUME NEW s \in Panes, NEW m \in Machines \union {None}, NEW t \in Panes,
         t.fs = m, t.ctl = Controller, t.calls = {}
  PROVE  PaneInv(t)
<1>1. HistoryInv(Controller) /\ ListingInv(Controller)
  BY DEF HistoryInv, ListingInv, Controller, NoBatch
<1> QED
  BY <1>1 DEF PaneInv, OneCurrent

\* The fields of a controller that has shown nothing.
LEMMA FreshController ==
  Controller \in Controllers /\ Controller.gen = 0 /\ Controller.history = <<>>
  /\ Controller.pos = 0 /\ Controller.path = None
<1>1. NoBatch \in Batches
  BY DEF NoBatch, Batches
<1>2. 0 \in 0..MaxNav /\ <<>> \in Seq(Paths)
  BY Constants
<1> QED
  BY <1>1, <1>2 DEF Controller, Controllers

\* The pane is pointed at another machine, and opens its home.
LEMMA BindKeeps ==
  ASSUME ExplorerInv, NEW m \in Machines, BindEndpoint(m)
  PROVE  ExplorerInv'
<1> DEFINE r == [pane EXCEPT !.fs = m, !.ctl = Controller, !.calls = {}]
<1>1. pane \in Panes
  BY DEF ExplorerInv, PaneInv
<1>2. r \in Panes /\ r.fs = m /\ r.ctl = Controller /\ r.calls = {}
  BY <1>1, FreshController DEF Panes
<1>3. pane' = Begin(r, Home, Push) /\ m \in up /\ UNCHANGED <<dialog, up>>
      /\ count.binds < MaxBinds /\ count' = [count EXCEPT !.binds = @ + 1]
  BY DEF BindEndpoint
<1> HIDE DEF r
<1>4. PaneInv(r)
  BY <1>1, <1>2, FreshPane
<1>5. Home \in Paths /\ Push \in Intents /\ Aims(r.ctl.history, r.ctl.pos, Home, Push)
      /\ r.ctl.gen < MaxNav
  BY <1>2, Constants, FreshController DEF Paths, Push, Intents, Aims
<1>6. PaneInv(pane') /\ Rests(pane') /\ pane'.fs = m
  BY <1>2, <1>3, <1>4, <1>5, BeginKeeps
<1>7. count' \in [binds : 0..MaxBinds, writes : 0..MaxWrites]
  BY <1>3, Constants DEF ExplorerInv
<1> QED
  BY <1>3, <1>6, <1>7 DEF ExplorerInv

\* The pane stays on its machine, and so does everything around it.
LEMMA PaneMoves ==
  ASSUME ExplorerInv, PaneInv(pane'), Rests(pane'), pane'.fs = pane.fs,
         UNCHANGED <<dialog, up, count>>
  PROVE  ExplorerInv'
BY DEF ExplorerInv

\* A machine that the pane shows is one of them.
LEMMA LiveMachine ==
  ASSUME ExplorerInv
  PROVE  /\ pane \in Panes /\ PaneInv(pane) /\ Rests(pane)
         /\ Live => pane.fs \in Machines
BY Constants DEF ExplorerInv, PaneInv, Panes, Live

\* A navigation, by a path, back or forth.
LEMMA NavigateKeeps ==
  ASSUME ExplorerInv, Navigate
  PROVE  ExplorerInv'
<1> DEFINE c == pane.ctl
<1>1. PaneInv(pane) /\ pane.fs \in Machines /\ c.gen < MaxNav
      /\ UNCHANGED <<dialog, up, count>>
  BY LiveMachine DEF Navigate, CanBegin
<1>2. c.history \in Seq(Paths) /\ c.pos \in 0..Len(c.history) /\ c.pos \in Nat
      /\ Len(c.history) \in Nat
  BY <1>1 DEF PaneInv, Panes, Controllers, HistoryInv
<1>3. ASSUME NEW p \in Dirs \union {Raw}, pane' = Begin(pane, p, Push)
      PROVE  ExplorerInv'
  <2>1. p \in Paths /\ Push \in Intents /\ Aims(c.history, c.pos, p, Push)
    BY DEF Paths, Push, Intents, Aims
  <2> QED
    BY <1>1, <1>3, <2>1, BeginKeeps, PaneMoves
<1>4. ASSUME NEW i \in 1..Len(c.history), pane' = Begin(pane, c.history[i], Goto(i))
      PROVE  ExplorerInv'
  <2>1. /\ c.history[i] \in Paths /\ Goto(i) \in Intents
        /\ Aims(c.history, c.pos, c.history[i], Goto(i))
    BY <1>2 DEF Goto, Intents, Aims
  <2> QED
    BY <1>1, <1>4, <2>1, BeginKeeps, PaneMoves
<1>5. CASE c.pos > 1 /\ pane' = Begin(pane, c.history[c.pos - 1], Goto(c.pos - 1))
  <2>1. c.pos - 1 \in 1..Len(c.history)
    BY <1>2, <1>5
  <2> QED
    BY <1>4, <1>5, <2>1
<1>6. CASE c.pos < Len(c.history) /\ pane' = Begin(pane, c.history[c.pos + 1], Goto(c.pos + 1))
  <2>1. c.pos + 1 \in 1..Len(c.history)
    BY <1>2, <1>6
  <2> QED
    BY <1>4, <1>6, <2>1
<1> QED
  BY <1>3, <1>5, <1>6 DEF Navigate

\* What is shown is asked for again.
LEMMA RefreshKeeps ==
  ASSUME ExplorerInv, Refresh
  PROVE  ExplorerInv'
<1>1. PaneInv(pane) /\ Rests(pane) /\ pane.fs \in Machines /\ pane' = Reload(pane)
      /\ UNCHANGED <<dialog, up, count>>
  BY LiveMachine DEF Refresh
<1> QED
  BY <1>1, ReloadKeeps, PaneMoves

\* Another row is selected, or another name is to be.
LEMMA SelectionKeeps ==
  ASSUME NEW s, PaneInv(s), NEW t \in Panes, t.fs = s.fs, t.ctl = s.ctl, t.calls = s.calls
  PROVE  PaneInv(t) /\ (Rests(s) => Rests(t))
BY DEF PaneInv, Fits, OneCurrent, Current, Rests

\* The user selects a row.
LEMMA SelectKeeps ==
  ASSUME ExplorerInv, Select
  PROVE  ExplorerInv'
<1>1. PaneInv(pane) /\ Rests(pane) /\ pane \in Panes /\ UNCHANGED <<dialog, up, count>>
  BY LiveMachine DEF Select
<1>2. PICK n \in pane.ctl.entries : pane' = [pane EXCEPT !.row = Rebuild(pane.ctl)[n]]
  BY DEF Select
<1>3. Rebuild(pane.ctl)[n] \in 0..Len(Rows)
  BY <1>1, <1>2, RowsOfTheListing DEF Panes, Controllers
<1>4. pane' \in Panes /\ pane'.fs = pane.fs /\ pane'.ctl = pane.ctl /\ pane'.calls = pane.calls
  BY <1>1, <1>2, <1>3 DEF Panes
<1> QED
  BY <1>1, <1>4, SelectionKeeps, PaneMoves

\* The name under the selection is one that is shown.
LEMMA OnRowIs == OnRow # None => OnRow \in pane.ctl.entries
BY DEF OnRow

\* A link, or a new name, is sent to the machine: no navigation, no batch.
LEMMA SendKeeps ==
  ASSUME ExplorerInv, Live, NEW op \in {"Activate", "Write"}, NEW gen \in Nat,
         NEW path \in Paths \union {None}, op = "Activate" => path \in Paths,
         NEW n \in Names, pane' = Ask(pane, op, gen, path, Stay, {n})
  PROVE  PaneInv(pane') /\ Rests(pane') /\ pane'.fs = pane.fs
<1> DEFINE c == CallOf(pane, op, gen, path, Stay, {n})
<1>1. PaneInv(pane) /\ Rests(pane) /\ pane \in Panes /\ pane.fs \in Machines
  BY LiveMachine
<1>2. op \in Asked /\ {n} \in SUBSET Names /\ Stay \in Intents
  BY DEF Asked, Stay, Intents
<1>3. /\ c \in Calls /\ pane' \in Panes /\ pane'.fs = pane.fs /\ pane'.ctl = pane.ctl
      /\ pane'.calls = pane.calls \union {c}
  BY <1>1, <1>2, AskIs
<1>4. c.op = op /\ c.fs = pane.fs /\ c.path = path /\ c.names = {n}
  BY DEF CallOf
<1> HIDE DEF c
<1>5. Fits(pane, c) /\ ~Current(pane, c)
  BY <1>4 DEF Fits, Current, Navigates
<1> QED
  BY <1>1, <1>3, <1>5, AskKeeps DEF Rests

\* The link under the selection is asked about.
LEMMA ActivateKeeps ==
  ASSUME ExplorerInv, Activate
  PROVE  ExplorerInv'
<1>1. /\ Live /\ OnRow # None /\ UNCHANGED <<dialog, up, count>>
      /\ pane' = Ask(pane, "Activate", pane.ctl.gen, pane.ctl.path, Stay, {OnRow})
  BY DEF Activate
<1>2. pane \in Panes /\ pane.ctl.gen \in Nat /\ ListingInv(pane.ctl)
      /\ pane.ctl.entries \in SUBSET Names
  BY LiveMachine, Constants DEF PaneInv, Panes, Controllers
<1>3. OnRow \in pane.ctl.entries
  BY <1>1, OnRowIs
<1>4. OnRow \in Names /\ pane.ctl.path \in Paths
  BY <1>2, <1>3 DEF ListingInv, Paths
<1>5. PaneInv(pane') /\ Rests(pane') /\ pane'.fs = pane.fs
  BY <1>1, <1>2, <1>4, SendKeeps
<1> QED
  BY <1>1, <1>5, PaneMoves

\* A dialog opens and holds on to a name that is shown.
LEMMA OpenDialogKeeps ==
  ASSUME ExplorerInv, OpenDialog
  PROVE  ExplorerInv'
<1>1. /\ UNCHANGED <<pane, up>> /\ count.writes < MaxWrites
      /\ count' = [count EXCEPT !.writes = @ + 1]
      /\ \/ OnRow # None /\ dialog' = [kind |-> "entry", name |-> OnRow]
         \/ dialog' = [kind |-> "folder", name |-> None]
  BY DEF OpenDialog
<1>2. OnRow # None => OnRow \in Names
  BY LiveMachine, OnRowIs DEF Panes, Controllers
<1>3. dialog' \in Dialogs /\ (dialog'.kind = "entry" => dialog'.name \in Names)
  BY <1>1, <1>2 DEF Dialogs
<1>4. count' \in [binds : 0..MaxBinds, writes : 0..MaxWrites]
  BY <1>1, Constants DEF ExplorerInv
<1> QED
  BY <1>1, <1>3, <1>4 DEF ExplorerInv

\* The dialog is answered: with no, or with a name that is sent.
LEMMA AnswerDialogKeeps ==
  ASSUME ExplorerInv, AnswerDialog
  PROVE  ExplorerInv'
<1>1. dialog' = NoDialog /\ UNCHANGED <<up, count>>
  BY DEF AnswerDialog
<1>2. dialog' \in Dialogs /\ (dialog'.kind = "entry" => dialog'.name \in Names)
  BY <1>1 DEF Dialogs, NoDialog
<1>3. CASE UNCHANGED pane
  BY <1>1, <1>2, <1>3 DEF ExplorerInv
<1>4. ASSUME Live, NEW n \in (IF dialog.kind = "entry" THEN {dialog.name} ELSE Names),
             pane' = Ask(pane, "Write", 0, pane.ctl.path, Stay, {n})
      PROVE  ExplorerInv'
  <2>1. n \in Names
    BY DEF ExplorerInv
  <2>2. pane.ctl.path \in Paths \union {None}
    BY LiveMachine DEF Panes, Controllers
  <2>3. PaneInv(pane') /\ Rests(pane') /\ pane'.fs = pane.fs
    BY <1>4, <2>1, <2>2, SendKeeps
  <2> QED
    BY <1>1, <1>2, <2>3 DEF ExplorerInv
<1> QED
  BY <1>3, <1>4 DEF AnswerDialog

\* A session ends: a pane that shows its machine goes offline.
LEMMA EndSessionKeeps ==
  ASSUME ExplorerInv, NEW m \in Machines, EndSession(m)
  PROVE  ExplorerInv'
<1>1. up' = up \ {m} /\ UNCHANGED <<dialog, count>>
  BY DEF EndSession
<1>2. CASE pane.fs # m
  <2>1. pane' = pane
    BY <1>2 DEF EndSession
  <2> QED
    BY <1>1, <1>2, <2>1 DEF ExplorerInv
<1>3. CASE pane.fs = m
  <2>1. pane' = [pane EXCEPT !.fs = None, !.ctl = Controller, !.row = 0, !.calls = {}]
    BY <1>3 DEF EndSession
  <2>2. pane \in Panes /\ 0 \in 0..Len(Rows)
    BY LiveMachine, Constants
  <2>3. pane' \in Panes /\ pane'.fs = None /\ pane'.ctl = Controller /\ pane'.calls = {}
    BY <2>1, <2>2, FreshController DEF Panes
  <2>4. PaneInv(pane') /\ Rests(pane')
    BY <2>2, <2>3, FreshPane DEF Rests
  <2> QED
    BY <1>1, <2>3, <2>4 DEF ExplorerInv
<1> QED
  BY <1>2, <1>3

\* The answer to a call, whichever it was, in whatever order it came.
LEMMA AnswerKeeps ==
  ASSUME ExplorerInv, NEW c \in pane.calls, Answer(c)
  PROVE  ExplorerInv'
<1> DEFINE s == [pane EXCEPT !.calls = @ \ {c}]
           listed == IF c.path \in Dirs THEN {n \in Names : Content[c.path][n] # "none"} ELSE {}
           leads == c.path \in Dirs /\ \E n \in c.names : Under[<<c.path, n>>] # None
<1>1. /\ pane \in Panes /\ PaneInv(pane) /\ Rests(pane) /\ UNCHANGED <<dialog, up, count>>
      /\ c \in Calls /\ Fits(pane, c)
  BY LiveMachine DEF Answer, PaneInv, Panes
<1>2. /\ PaneInv(s) /\ s.fs = pane.fs /\ s.ctl = pane.ctl
      /\ Current(pane, c) => \A d \in s.calls : ~Current(s, d)
  BY <1>1, DropKeeps
<1>3. \/ c.op = "RealPath" /\ \E p \in Dirs \union {Raw} : pane' = OnResolved(s, c, p)
      \/ c.op = "List" /\ \E found \in {{}, listed} : pane' = OnListed(s, c, found)
      \/ c.op = "Lookup" /\ \E isDir \in {FALSE, leads} : pane' = OnLookedUp(s, c, isDir)
      \/ c.op = "Batch" /\ pane' = OnBatch(s, c)
      \/ c.op = "Activate" /\ pane' = s
      \/ /\ c.op = "Activate" /\ leads /\ CanBegin(s)
         /\ \E n \in c.names : pane' = Begin(s, Under[<<c.path, n>>], Push)
      \/ c.op = "Write" /\ pane' = s
      \/ c.op = "Write" /\ \E n \in c.names : pane' = Reload([s EXCEPT !.focus = n])
  BY DEF Answer
<1> HIDE DEF s
<1>4. /\ Fits(s, c) /\ Rests(s) /\ s \in Panes
      /\ Current(s, c) => \A d \in s.calls : ~Current(s, d)
  BY <1>1, <1>2 DEF Fits, Rests, PaneInv, Current
<1>5. s.fs \in Machines
  BY <1>1, <1>2 DEF Fits, Calls
<1> SUFFICES PaneInv(pane') /\ Rests(pane') /\ pane'.fs = s.fs
  BY <1>1, <1>2, PaneMoves
<1>6. ASSUME c.op = "RealPath", NEW p \in Dirs \union {Raw}, pane' = OnResolved(s, c, p)
      PROVE  PaneInv(pane') /\ Rests(pane') /\ pane'.fs = s.fs
  <2>1. p \in Paths
    BY DEF Paths
  <2> QED
    BY <1>1, <1>2, <1>4, <1>5, <1>6, <2>1, OnResolvedKeeps
<1>7. ASSUME c.op = "List", NEW found \in {{}, listed}, pane' = OnListed(s, c, found)
      PROVE  PaneInv(pane') /\ Rests(pane') /\ pane'.fs = s.fs
  <2>1. found \in SUBSET Names /\ (found # {} => c.path \in Dirs)
    BY <1>7
  <2> QED
    BY <1>1, <1>2, <1>4, <1>5, <1>7, <2>1, OnListedKeeps
<1>8. ASSUME c.op = "Lookup", NEW isDir \in {FALSE, leads}, pane' = OnLookedUp(s, c, isDir)
      PROVE  PaneInv(pane') /\ Rests(pane') /\ pane'.fs = s.fs
  <2>1. PICK n \in Names : c.names = {n}
    BY <1>4, <1>8 DEF Fits
  <2>2. leads => c.names \subseteq LeadsFrom(c.path)
    BY <2>1 DEF LeadsFrom
  <2>3. leads \in BOOLEAN
    OBVIOUS
  <2> HIDE DEF leads
  <2>4. isDir = FALSE \/ isDir = leads
    BY <1>8, Zenon
  <2>5. isDir \in BOOLEAN /\ (isDir => c.names \subseteq LeadsFrom(c.path))
    <3>1. CASE isDir = FALSE
      BY <3>1
    <3>2. CASE isDir = leads
      BY <2>2, <2>3, <3>2
    <3> QED
      BY <2>4, <3>1, <3>2
  <2> QED
    BY <1>1, <1>2, <1>4, <1>5, <1>8, <2>5, OnLookedUpKeeps
<1>9. CASE c.op = "Batch" /\ pane' = OnBatch(s, c)
  BY <1>1, <1>2, <1>4, <1>9, OnBatchKeeps
<1>10. CASE pane' = s
  BY <1>2, <1>4, <1>10
<1>11. ASSUME c.op = "Activate", leads, CanBegin(s), NEW n \in c.names,
              pane' = Begin(s, Under[<<c.path, n>>], Push)
       PROVE  PaneInv(pane') /\ Rests(pane') /\ pane'.fs = s.fs
  <2>1. PICK m \in Names : c.names = {m}
    BY <1>4, <1>11 DEF Fits
  <2>2. n \in Names /\ c.path \in Dirs /\ Under[<<c.path, n>>] # None
    BY <1>11, <2>1
  <2>3. Under[<<c.path, n>>] \in Paths
    BY <2>2, ExplorerAssumption DEF Paths
  <2>4. Push \in Intents /\ Aims(s.ctl.history, s.ctl.pos, Under[<<c.path, n>>], Push)
    BY DEF Push, Intents, Aims
  <2>5. s.ctl.gen < MaxNav
    BY <1>11 DEF CanBegin
  <2> QED
    BY <1>2, <1>5, <1>11, <2>3, <2>4, <2>5, BeginKeeps
<1>12. ASSUME c.op = "Write", NEW n \in c.names, pane' = Reload([s EXCEPT !.focus = n])
       PROVE  PaneInv(pane') /\ Rests(pane') /\ pane'.fs = s.fs
  <2> DEFINE t == [s EXCEPT !.focus = n]
  <2>1. n \in Names
    BY <1>1 DEF Calls
  <2>2. t \in Panes /\ t.fs = s.fs /\ t.ctl = s.ctl /\ t.calls = s.calls
    BY <1>4, <2>1 DEF Panes
  <2>3. pane' = Reload(t)
    BY <1>12
  <2> HIDE DEF t
  <2>4. PaneInv(t) /\ Rests(t)
    BY <1>2, <1>4, <2>2, SelectionKeeps
  <2> QED
    BY <1>5, <2>2, <2>3, <2>4, ReloadKeeps
<1> HIDE DEF listed, leads
<1> QED
  BY <1>3, <1>6, <1>7, <1>8, <1>9, <1>10, <1>11, <1>12

-----------------------------------------------------------------------------
(* The theorems *)

\* The invariant, from the pane's opening on, whatever the user, the machines and
\* their sessions do.
THEOREM ExplorerInvariant == Spec => []ExplorerInv
<1>1. Init => ExplorerInv
  <2> SUFFICES ASSUME Init PROVE ExplorerInv
    OBVIOUS
  <2>1. /\ pane = [fs |-> None, ctl |-> Controller, row |-> 0, calls |-> {}, focus |-> None]
        /\ dialog = NoDialog /\ up = Machines /\ count = [binds |-> 0, writes |-> 0]
    BY DEF Init
  <2>2. 0 \in 0..Len(Rows) /\ 0 \in 0..MaxBinds /\ 0 \in 0..MaxWrites
    BY Constants
  <2>3. pane \in Panes /\ pane.fs = None /\ pane.ctl = Controller /\ pane.calls = {}
    BY <2>1, <2>2, FreshController DEF Panes
  <2>4. PaneInv(pane) /\ Rests(pane)
    BY <2>3, FreshPane DEF Rests
  <2>5. dialog \in Dialogs /\ dialog.kind # "entry"
    BY <2>1 DEF Dialogs, NoDialog
  <2>6. count \in [binds : 0..MaxBinds, writes : 0..MaxWrites]
    BY <2>1, <2>2
  <2> QED
    BY <2>1, <2>3, <2>4, <2>5, <2>6 DEF ExplorerInv
<1>2. ExplorerInv /\ [Next]_vars => ExplorerInv'
  <2> SUFFICES ASSUME ExplorerInv, [Next]_vars PROVE ExplorerInv'
    OBVIOUS
  <2>1. CASE UNCHANGED vars
    BY <2>1 DEF ExplorerInv, vars
  <2>2. CASE Next
    BY <2>2, BindKeeps, EndSessionKeeps, NavigateKeeps, RefreshKeeps, SelectKeeps,
       ActivateKeeps, OpenDialogKeeps, AnswerDialogKeeps, AnswerKeeps DEF Next
  <2> QED
    BY <2>1, <2>2
<1> QED
  BY <1>1, <1>2, PTL DEF Spec

\* Types, and the selection on a row there may be, the history's position on one
\* of its entries.
THEOREM ExplorerTypes == Spec => []TypeOK
<1>1. ExplorerInv => TypeOK
  <2> SUFFICES ASSUME ExplorerInv PROVE TypeOK
    OBVIOUS
  <2>1. pane \in Panes /\ HistoryInv(pane.ctl) /\ ListingInv(pane.ctl)
    BY DEF ExplorerInv, PaneInv
  <2>2. dialog.name \in Names \union {None} /\ up \subseteq Machines
        /\ count.binds <= MaxBinds /\ count.writes <= MaxWrites
    BY Constants DEF ExplorerInv, Dialogs
  <2> QED
    BY <2>1, <2>2 DEF Panes, Controllers, HistoryInv, ListingInv, TypeOK, Paths
<1> QED
  BY <1>1, ExplorerInvariant, PTL

\* A pane at rest shows what was asked for last, and its history stands there.
THEOREM ExplorerRestsWhereAsked == Spec => []RestsWhereAsked
<1>1. ExplorerInv => RestsWhereAsked
  BY DEF ExplorerInv, PaneInv, HistoryInv, Rests, RestsWhereAsked, Live
<1> QED
  BY <1>1, ExplorerInvariant, PTL

\* A row offered as the way into a directory is one, however the answers about
\* links and listings cross.
THEOREM ExplorerDoorsLeadSomewhere == Spec => []DoorsLeadSomewhere
<1>1. ExplorerInv => DoorsLeadSomewhere
  BY DEF ExplorerInv, PaneInv, ListingInv, LeadsFrom, DoorsLeadSomewhere
<1> QED
  BY <1>1, ExplorerInvariant, PTL

\* Every call that is out is of a machine whose session is alive.
THEOREM ExplorerCallsHaveAMachine == Spec => []CallsHaveAMachine
<1>1. ExplorerInv => CallsHaveAMachine
  <2> SUFFICES ASSUME ExplorerInv, NEW c \in pane.calls
               PROVE  c.fs # None /\ c.fs \in up
    BY DEF CallsHaveAMachine
  <2>1. c \in Calls /\ c.fs = pane.fs
    BY DEF ExplorerInv, PaneInv, Panes, Fits
  <2> QED
    BY <2>1, Constants DEF Calls, ExplorerInv
<1> QED
  BY <1>1, ExplorerInvariant, PTL

-----------------------------------------------------------------------------
(* What is done to files: the inductive invariant *)

Plans == [path : Seq(Leaves) \ {<<>>}, isDir : BOOLEAN, was : {"none", "file", "dir", "link"},
          root : Nat, depth : Nat]
Renames ==
    [phase : {"check", "move", "replace"}, from : Leaves, to : Seq(Leaves),
     rule : {"required", "absorbs", "inTheWay"}, since : SUBSET Entries]
Deletes ==
    [phase : {"plan", "run", "done"}, chosen : SUBSET Entries, pending : SUBSET Plans,
     steps : SUBSET Plans, since : SUBSET Entries]

\* No directory is made or moved, so one that is left is where it was at first.
TreeInv ==
    /\ there \in [Entries -> Things] /\ seen \in [Leaves -> Things]
    /\ \A e \in Entries : there[e].kind = "dir" => there[e] = FirstTree[e]

\* A rename that was cleared lands on nothing to lose, but for what came since,
\* there or on the way.
Diverted(x) == Way(x.to) \cap x.since # {}
RenameInv ==
    /\ rename \in Renames \union {NoRename}
    /\ rename.phase = "move" /\ EntryOf(rename.to) \in Entries =>
         Diverted(rename) \/ there[EntryOf(rename.to)] = Nothing \/ Dangles(EntryOf(rename.to))
    /\ rename.phase = "replace" =>
         /\ machine = "local"
         /\ EntryOf(rename.to) \in Entries =>
              Diverted(rename) \/ there[EntryOf(rename.to)] = Nothing

\* p is the directory that s was found in, and was shown as one.
HoldsStep(p, s) ==
    /\ p.isDir /\ p.was = "dir" /\ p.root = s.root /\ s.depth = p.depth + 1
    /\ \E n \in Leaves : s.path = Append(p.path, n)

\* A step of a row chosen.
OfARow(d, s) == \E n \in Leaves : s.path = <<n>> /\ <<Shown, n>> \in d.chosen

\* Each step left is of a chosen row, or its directory has a step left too; and
\* every row chosen has its step left unless it is gone or was put back.
PlanInv(d) ==
    /\ d \in Deletes
    /\ d.pending \subseteq {s \in d.steps : s.isDir}
    /\ d.phase = "run" => d.pending = {}
    /\ d.phase = "done" <=> d.steps = {}
    /\ \A s \in d.steps : s.isDir => s.was = "dir"
    /\ \A s \in d.steps : OfARow(d, s) \/ \E p \in d.steps : HoldsStep(p, s)
    /\ \A e \in d.chosen :
          /\ e[1] = Shown
          /\ (\E s \in d.steps : s.path = <<e[2]>>) \/ there[e] = Nothing \/ e \in d.since

FilesInv ==
    /\ machine \in {"server", "local"} /\ TreeInv /\ RenameInv
    /\ del = NoDelete \/ PlanInv(del)
    /\ spent \in [ops : 0..MaxOps, changes : 0..MaxChanges]

-----------------------------------------------------------------------------
(* The tree *)

\* What a thing's kind says of where it leads.
LEMMA ThingsAre ==
  ASSUME NEW x \in Things
  PROVE  /\ x.kind \in {"none", "file", "dir", "link"} /\ x.to \in Folders \union {Nil}
         /\ x.kind = "none" <=> x = Nothing
         /\ x.kind = "dir" => x.to \in Folders /\ LeadsTo(x, x.to)
         /\ x.kind = "link" => x = [kind |-> "link", to |-> x.to]
         /\ \A d : LeadsTo(x, d) => x.kind = "dir" /\ x.to = d
BY DEF Things, Nothing, AFile, LeadsTo

\* The names of the listing, and where the entries are.
LEMMA LeavesAre ==
  /\ \A i \in DOMAIN Sorted : Sorted[i] \in Leaves /\ i \in Nat
  /\ Shown \in Folders /\ Nil \notin Folders
  /\ \A d \in Folders, n \in Leaves : <<d, n>> \in Entries
  /\ \A e \in Entries : e = <<e[1], e[2]>> /\ e[1] \in Folders /\ e[2] \in Leaves
  /\ Nothing \in Things /\ AFile \in Things /\ Nothing # AFile
  /\ Nothing.kind = "none" /\ AFile.kind = "file" /\ FirstTree \in [Entries -> Things]
BY FileOperationsAssumption DEF Entries, Things, Nothing, AFile

\* An entry of a directory leads to a directory that is there, or to none.
IntoFits(d, n) ==
    /\ Into(d, n) \in Folders \union {Nil}
    /\ Into(d, n) # Nil =>
         /\ d \in Folders /\ there[<<d, n>>].kind \in {"dir", "link"}
         /\ there[<<d, n>>].to = Into(d, n) /\ Exists(Into(d, n))

LEMMA IntoIs ==
  there \in [Entries -> Things] =>
    \A d \in Folders \union {Nil}, n \in Leaves : IntoFits(d, n)
<1> SUFFICES ASSUME there \in [Entries -> Things], NEW d \in Folders \union {Nil}, NEW n \in Leaves,
                    Into(d, n) # Nil
             PROVE  IntoFits(d, n)
  BY DEF IntoFits
<1>1. /\ d # Nil /\ there[<<d, n>>].kind \in {"dir", "link"} /\ Exists(there[<<d, n>>].to)
      /\ Into(d, n) = there[<<d, n>>].to
  BY DEF Into
<1>2. Into(d, n) \in Folders
  BY <1>1 DEF Exists
<1> QED
  BY <1>1, <1>2 DEF IntoFits

\* The same of the tree that comes next.
LEMMA IntoIsThen ==
  (there \in [Entries -> Things] =>
    \A d \in Folders \union {Nil}, n \in Leaves : IntoFits(d, n))'
BY IntoIs, PTL

-----------------------------------------------------------------------------
(* Where a path goes *)

\* What holds at first, and after a number whenever before it, holds up to the last.
LEMMA CountUp ==
  ASSUME NEW n \in Nat, NEW T, 0 \in T, \A k \in 1..n : k - 1 \in T => k \in T
  PROVE  \A k \in 0..n : k \in T
<1> DEFINE Out == {k \in 0..n : k \notin T}
<1> SUFFICES ASSUME Out # {} PROVE FALSE
  OBVIOUS
<1>1. Out \in SUBSET Nat
  OBVIOUS
<1>2. PICK m \in Out : \A k \in Out : m <= k
  <2> HIDE DEF Out
  <2> QED
    BY <1>1, LeastNumber
<1>3. m - 1 \in 0..n /\ m \in 1..n /\ m - 1 < m
  BY <1>2
<1>4. m - 1 \notin Out
  BY <1>2, <1>3
<1> QED
  BY <1>2, <1>3, <1>4

\* f is x at first and after that what F makes of it, and there is such a function.
Iterates(f, n, V, x, F) ==
    /\ f = [i \in 0..n |-> IF i = 0 THEN x ELSE F[<<i, f[i - 1]>>]]
    /\ \A i \in 0..n : f[i] \in V

LEMMA Iterated ==
    ASSUME NEW n \in Nat, NEW V, NEW x \in V, NEW F \in [(1..n) \X V -> V]
    PROVE  \E f : Iterates(f, n, V, x, F)
<1> DEFINE Is(f, k) == /\ f = [i \in 0..k |-> IF i = 0 THEN x ELSE F[<<i, f[i - 1]>>]]
                       /\ \A i \in 0..k : f[i] \in V
           T == {k \in 0..n : \E f : Is(f, k)}
<1>1. 0 \in T
  <2> DEFINE f == [i \in 0..0 |-> x]
  <2>1. f = [i \in 0..0 |-> IF i = 0 THEN x ELSE F[<<i, f[i - 1]>>]]
    OBVIOUS
  <2>2. \A i \in 0..0 : f[i] \in V
    OBVIOUS
  <2> HIDE DEF f
  <2> QED
    BY <2>1, <2>2
<1>2. ASSUME NEW k \in 1..n, k - 1 \in T PROVE k \in T
  <2>1. PICK g : Is(g, k - 1)
    BY <1>2
  <2> DEFINE h == [i \in 0..k |-> IF i = k THEN F[<<k, g[k - 1]>>] ELSE g[i]]
  <2>2. k - 1 \in 0..(k - 1) /\ k - 1 # k /\ k # 0 /\ k \in 0..k /\ k - 1 \in 0..k
    OBVIOUS
  <2>3. \A i \in 0..(k - 1) : i \in 0..k /\ i # k
    OBVIOUS
  <2>4. h[k] = F[<<k, g[k - 1]>>] /\ \A i \in 0..(k - 1) : h[i] = g[i]
    BY <2>2, <2>3
  <2>5. ASSUME NEW i \in 0..k PROVE h[i] = IF i = 0 THEN x ELSE F[<<i, h[i - 1]>>]
    <3>1. CASE i = k
      BY <2>2, <2>4, <3>1
    <3>2. CASE i # k
      <4>1. i \in 0..(k - 1) /\ (i # 0 => i - 1 \in 0..(k - 1))
        BY <3>2
      <4>2. g[i] = IF i = 0 THEN x ELSE F[<<i, g[i - 1]>>]
        BY <2>1, <4>1
      <4> QED
        BY <2>4, <4>1, <4>2
    <3> QED
      BY <3>1, <3>2
  <2>6. ASSUME NEW i \in 0..k PROVE h[i] \in V
    <3>1. g[k - 1] \in V
      BY <2>1, <2>2
    <3>2. F[<<k, g[k - 1]>>] \in V
      BY <3>1
    <3>3. CASE i = k
      BY <2>4, <3>2, <3>3
    <3>4. CASE i # k
      BY <2>1, <2>4, <3>4
    <3> QED
      BY <3>3, <3>4
  <2>7. h = [i \in 0..k |-> h[i]]
    OBVIOUS
  <2> HIDE DEF h
  <2>8. h = [i \in 0..k |-> IF i = 0 THEN x ELSE F[<<i, h[i - 1]>>]]
    BY <2>5, <2>7
  <2>9. Is(h, k)
    BY <2>6, <2>8
  <2> HIDE DEF Is
  <2> QED
    BY <2>9
<1> HIDE DEF T
<1>3. n \in T
  <2>1. \A k \in 0..n : k \in T
    BY <1>1, <1>2, CountUp
  <2> QED
    BY <2>1
<1> QED
  BY <1>3 DEF T, Iterates

\* A path goes on from directory to directory.
LeadsBy(path, t) ==
    /\ t[0] = Shown /\ \A i \in 0..Len(path) : t[i] \in Folders \union {Nil}
    /\ \A i \in 1..Len(path) : t[i] = Into(t[i - 1], path[i])
LeadsOn(path) == LeadsBy(path, Trail(path))

LEMMA TrailIs ==
  there \in [Entries -> Things] => \A path \in Seq(Leaves) : LeadsOn(path)
<1> SUFFICES ASSUME there \in [Entries -> Things], NEW path \in Seq(Leaves) PROVE LeadsOn(path)
  OBVIOUS
<1> DEFINE n == Len(path)
           V == Folders \union {Nil}
           P(f) == f = [i \in 0..Len(path) |-> IF i = 0 THEN Shown ELSE Into(f[i - 1], path[i])]
           F == [p \in (1..n) \X V |-> Into(p[2], path[p[1]])]
           f == CHOOSE g : P(g)
<1>1. n \in Nat /\ \A i \in 1..n : path[i] \in Leaves
  OBVIOUS
<1>2. Shown \in V
  BY LeavesAre
<1>3. F \in [(1..n) \X V -> V]
  <2> SUFFICES ASSUME NEW p \in (1..n) \X V PROVE Into(p[2], path[p[1]]) \in V
    OBVIOUS
  <2>1. p[2] \in V /\ path[p[1]] \in Leaves
    BY <1>1
  <2> QED
    BY <2>1, IntoIs DEF IntoFits
<1>4. PICK g : Iterates(g, n, V, Shown, F)
  <2> HIDE DEF F, n, V
  <2> QED
    BY <1>1, <1>2, <1>3, Iterated
<1>5. ASSUME NEW h, NEW i \in 1..n, \A j \in 0..n : h[j] \in V
      PROVE  F[<<i, h[i - 1]>>] = Into(h[i - 1], path[i])
  <2>1. i - 1 \in 0..n
    BY <1>1
  <2>2. <<i, h[i - 1]>> \in (1..n) \X V
    BY <1>5, <2>1
  <2> QED
    BY <2>2
<1> HIDE DEF F
<1>6. \A i \in 0..n : g[i] = IF i = 0 THEN Shown ELSE Into(g[i - 1], path[i])
  <2> TAKE i \in 0..n
  <2>1. g[i] = IF i = 0 THEN Shown ELSE F[<<i, g[i - 1]>>]
    BY <1>4 DEF Iterates
  <2>2. ASSUME i # 0 PROVE F[<<i, g[i - 1]>>] = Into(g[i - 1], path[i])
    <3>1. i \in 1..n
      BY <1>1, <2>2
    <3> QED
      BY <1>4, <1>5, <3>1 DEF Iterates
  <2> QED
    BY <2>1, <2>2
<1>7. P(g)
  BY <1>4, <1>6 DEF Iterates
<1>8. P(f)
  <2> HIDE DEF P
  <2> QED
    BY <1>7
<1>9. Trail(path) = f
  BY DEF Trail
<1> HIDE DEF f
<1>10. \A i \in 0..n : f[i] = IF i = 0 THEN Shown ELSE Into(f[i - 1], path[i])
  BY <1>8
<1>11. f[0] = Shown /\ \A i \in 1..n : f[i] = Into(f[i - 1], path[i])
  <2>1. 0 \in 0..n /\ \A i \in 1..n : i \in 0..n /\ i # 0
    BY <1>1
  <2> QED
    BY <1>10, <2>1
<1>12. \A i \in 0..n : f[i] \in V
  <2> DEFINE T == {i \in 0..n : f[i] \in V}
  <2>1. 0 \in T
    BY <1>1, <1>2, <1>11
  <2>2. ASSUME NEW k \in 1..n, k - 1 \in T PROVE k \in T
    <3>1. f[k - 1] \in V /\ path[k] \in Leaves /\ k \in 0..n
      BY <1>1, <2>2
    <3>2. Into(f[k - 1], path[k]) \in V
      BY <3>1, IntoIs DEF IntoFits
    <3> QED
      BY <1>11, <3>1, <3>2
  <2> HIDE DEF T
  <2>3. \A k \in 0..n : k \in T
    BY <1>1, <2>1, <2>2, CountUp
  <2> QED
    BY <2>3 DEF T
<1> QED
  BY <1>9, <1>11, <1>12 DEF LeadsOn, LeadsBy

\* The same of the tree that comes next.
LEMMA TrailIsThen ==
  (there \in [Entries -> Things] => \A path \in Seq(Leaves) : LeadsOn(path))'
BY TrailIs, PTL

\* The entry a path names, when there is a directory it is in.
EntryIs(path) ==
    EntryOf(path) \in Entries =>
      /\ Len(path) \in Nat \ {0} /\ Len(path) - 1 \in 0..Len(path) /\ Last(path) = path[Len(path)]
      /\ path[Len(path)] \in Leaves /\ Trail(path)[Len(path) - 1] \in Folders
      /\ EntryOf(path) = <<Trail(path)[Len(path) - 1], path[Len(path)]>>
      /\ Directory(path) = Into(EntryOf(path)[1], EntryOf(path)[2])

LEMMA EntryOfIs ==
  there \in [Entries -> Things] => \A path \in Seq(Leaves) : EntryIs(path)
<1> SUFFICES ASSUME there \in [Entries -> Things], NEW path \in Seq(Leaves),
                    EntryOf(path) \in Entries
             PROVE  EntryIs(path)
  BY DEF EntryIs
<1>1. path # <<>>
  BY LeavesAre DEF EntryOf
<1>2. Len(path) \in Nat \ {0} /\ Len(path) - 1 \in 0..Len(path) /\ Last(path) = path[Len(path)]
      /\ path[Len(path)] \in Leaves /\ Len(path) \in 1..Len(path)
  BY <1>1 DEF Last
<1>3. EntryOf(path) = <<Trail(path)[Len(path) - 1], path[Len(path)]>>
  BY <1>1, <1>2 DEF EntryOf
<1>4. Trail(path)[Len(path) - 1] \in Folders
  BY <1>3, LeavesAre
<1>5. Directory(path) = Into(Trail(path)[Len(path) - 1], path[Len(path)])
  BY <1>2, TrailIs DEF Directory, LeadsOn, LeadsBy
<1> QED
  BY <1>2, <1>3, <1>4, <1>5 DEF EntryIs

LEMMA EntryOfIsThen ==
  (there \in [Entries -> Things] => \A path \in Seq(Leaves) : EntryIs(path))'
BY EntryOfIs, PTL

\* A directory that is there was there before, none being made.
LEMMA NoneIsMade ==
  ASSUME there \in [Entries -> Things], there' \in [Entries -> Things],
         \A e \in Entries : there'[e].kind = "dir" => there'[e] = there[e]
  PROVE  \A d : Exists(d)' => Exists(d)
<1>1. \A e \in Entries : \A d : LeadsTo(there'[e], d) => LeadsTo(there[e], d)
  BY ThingsAre DEF LeadsTo
<1> QED
  BY <1>1 DEF Exists

\* Where no entry on its way has changed but for being gone, a path that still
\* names an entry names the one it did, by the same way.
LEMMA EntryStands ==
  ASSUME there \in [Entries -> Things], there' \in [Entries -> Things],
         \A e \in Entries : there'[e].kind = "dir" => there'[e] = there[e],
         NEW C, \A e \in Entries : there'[e] = there[e] \/ there'[e] = Nothing \/ e \in C,
         NEW path \in Seq(Leaves), EntryOf(path)' \in Entries, Way(path)' \cap C = {}
  PROVE  EntryOf(path)' = EntryOf(path) /\ Way(path)' = Way(path) /\ EntryOf(path) \in Way(path)
<1>1. PICK m : m = Len(path) - 1
  OBVIOUS
<1>2. PICK t : t = Trail(path)
  OBVIOUS
<1>3. PICK u : u = Trail(path)'
  OBVIOUS
<1>4. LeadsBy(path, t) /\ LeadsBy(path, u)'
  BY <1>2, <1>3, TrailIs, TrailIsThen DEF LeadsOn
<1>5. /\ Len(path) \in Nat \ {0} /\ m \in 0..Len(path) /\ Last(path) = path[Len(path)]
      /\ u[m] \in Folders /\ EntryOf(path)' = <<u[m], path[Len(path)]>>
  BY <1>1, <1>3, EntryOfIsThen DEF EntryIs
<1>6. /\ Way(path)' = {<<u[i - 1], path[i]>> : i \in DOMAIN path}
      /\ Way(path) = {<<t[i - 1], path[i]>> : i \in DOMAIN path}
  BY <1>2, <1>3 DEF Way
<1>7. \A i \in 1..m : i \in DOMAIN path
  BY <1>5
<1>8. u[m] # Nil /\ \A i \in 1..m : <<u[i - 1], path[i]>> \notin C
  BY <1>5, <1>6, <1>7, LeavesAre
<1>9. \A i \in 0..m : u[i] = t[i]
  <2> DEFINE T == {i \in 0..m : u[i] # Nil => \A j \in 0..i : u[j] = t[j]}
  <2>1. m \in Nat /\ m <= Len(path)
    BY <1>5
  <2>2. \A d : Exists(d)' => Exists(d)
    BY NoneIsMade
  <2>3. 0 \in T
    BY <1>4, <2>1 DEF LeadsBy
  <2>4. ASSUME NEW k \in 1..m, k - 1 \in T PROVE k \in T
    <3> SUFFICES ASSUME u[k] # Nil PROVE \A j \in 0..k : u[j] = t[j]
      BY <2>1
    <3>1. k \in 1..Len(path) /\ k - 1 \in 0..Len(path) /\ path[k] \in Leaves
      BY <1>5, <2>1
    <3>2. u[k] = Into(u[k - 1], path[k])' /\ t[k] = Into(t[k - 1], path[k])
          /\ u[k - 1] \in Folders \union {Nil}
      BY <1>4, <3>1 DEF LeadsBy
    <3>3. /\ u[k - 1] \in Folders /\ there'[<<u[k - 1], path[k]>>].kind \in {"dir", "link"}
          /\ there'[<<u[k - 1], path[k]>>].to = u[k] /\ Exists(u[k])'
      BY <3>1, <3>2, IntoIsThen DEF IntoFits
    <3>4. u[k - 1] # Nil /\ \A j \in 0..(k - 1) : u[j] = t[j]
      BY <2>4, <3>3, LeavesAre
    <3> DEFINE e == <<u[k - 1], path[k]>>
    <3>5. e \in Entries /\ e \notin C
      BY <1>8, <3>1, <3>3, LeavesAre
    <3>6. there'[e] = there[e]
      BY <3>3, <3>5, LeavesAre
    <3>7. t[k - 1] = u[k - 1] /\ Exists(u[k])
      BY <2>1, <2>2, <3>3, <3>4
    <3>8. t[k] = u[k]
      BY <3>2, <3>3, <3>4, <3>6, <3>7 DEF Into
    <3> QED
      BY <2>1, <3>4, <3>8
  <2> HIDE DEF T
  <2>5. \A k \in 0..m : k \in T
    BY <2>1, <2>3, <2>4, CountUp
  <2>6. m \in T
    BY <2>1, <2>5
  <2> QED
    BY <1>8, <2>1, <2>6 DEF T
<1>10. \A i \in DOMAIN path : i - 1 \in 0..m
  BY <1>1, <1>5
<1>11. m \in 0..m /\ Len(path) \in DOMAIN path /\ path # <<>>
  BY <1>1, <1>5
<1>12. EntryOf(path) = <<t[m], path[Len(path)]>> /\ EntryOf(path) \in Way(path)
  BY <1>1, <1>2, <1>5, <1>6, <1>11 DEF EntryOf
<1>13. \A i \in DOMAIN path : <<u[i - 1], path[i]>> = <<t[i - 1], path[i]>>
  BY <1>9, <1>10
<1>14. Way(path)' = Way(path)
  <2>1. ASSUME NEW x, x \in Way(path)' PROVE x \in Way(path)
    <3>1. PICK i \in DOMAIN path : x = <<u[i - 1], path[i]>>
      BY <1>6, <2>1
    <3> QED
      BY <1>6, <1>13, <3>1
  <2>2. ASSUME NEW x, x \in Way(path) PROVE x \in Way(path)'
    <3>1. PICK i \in DOMAIN path : x = <<t[i - 1], path[i]>>
      BY <1>6, <2>2
    <3> QED
      BY <1>6, <1>13, <3>1
  <2> QED
    BY <2>1, <2>2
<1>15. EntryOf(path)' = EntryOf(path)
  BY <1>5, <1>9, <1>11, <1>12
<1> QED
  BY <1>12, <1>14, <1>15

-----------------------------------------------------------------------------
(* A rename and a deletion while the tree changes *)

\* No directory is made.
LEMMA TreeKeeps ==
  ASSUME TreeInv, UNCHANGED seen, there' \in [Entries -> Things],
         \A e \in Entries : there'[e].kind = "dir" => there'[e] = there[e]
  PROVE  TreeInv'
BY DEF TreeInv

\* What comes where a rename will land, or on the way to it, is noted.
LEMMA RenameStands ==
  ASSUME RenameInv, UNCHANGED machine,
         there \in [Entries -> Things], there' \in [Entries -> Things],
         \A e \in Entries : there'[e].kind = "dir" => there'[e] = there[e],
         NEW C \in SUBSET Entries,
         rename = NoRename => rename' = NoRename,
         rename # NoRename => rename' = [rename EXCEPT !.since = @ \union C],
         \A e \in Entries : there'[e] = there[e] \/ there'[e] = Nothing \/ e \in C
  PROVE  RenameInv'
<1>1. CASE rename = NoRename
  BY <1>1 DEF RenameInv, NoRename
<1>2. CASE rename # NoRename
  <2>1. rename \in Renames
    BY <1>2 DEF RenameInv
  <2>2. PICK path \in Seq(Leaves) : path = rename.to
    BY <2>1 DEF Renames
  <2>3. rename' \in Renames /\ rename'.phase = rename.phase /\ rename'.to = path
        /\ rename'.since = rename.since \union C
    BY <1>2, <2>1, <2>2 DEF Renames
  <2>4. \A d : Exists(d)' => Exists(d)
    BY NoneIsMade
  <2>5. ASSUME EntryOf(path)' \in Entries, ~Diverted(rename)'
        PROVE  /\ EntryOf(path)' = EntryOf(path) /\ ~Diverted(rename)
               /\ there'[EntryOf(path)] \in {there[EntryOf(path)], Nothing}
    <3>1. Way(path)' \cap C = {} /\ Way(path)' \cap rename.since = {}
      BY <2>3, <2>5 DEF Diverted
    <3>2. /\ EntryOf(path)' = EntryOf(path) /\ Way(path)' = Way(path)
          /\ EntryOf(path) \in Way(path)
      BY <2>5, <3>1, EntryStands
    <3> QED
      BY <2>2, <2>5, <3>1, <3>2 DEF Diverted
  <2>6. rename'.phase = "move" /\ EntryOf(path)' \in Entries =>
          Diverted(rename)' \/ there'[EntryOf(path)'] = Nothing \/ Dangles(EntryOf(path))'
    <3> SUFFICES ASSUME rename.phase = "move", EntryOf(path)' \in Entries, ~Diverted(rename)',
                        there'[EntryOf(path)] # Nothing
                 PROVE  Dangles(EntryOf(path))'
      BY <2>3, <2>5
    <3>1. Dangles(EntryOf(path)) /\ there'[EntryOf(path)] = there[EntryOf(path)]
      BY <2>2, <2>5 DEF RenameInv
    <3> QED
      BY <2>4, <2>5, <3>1 DEF Dangles
  <2>7. rename'.phase = "replace" => machine = "local"
    BY <2>3 DEF RenameInv
  <2>8. rename'.phase = "replace" /\ EntryOf(path)' \in Entries =>
          Diverted(rename)' \/ there'[EntryOf(path)'] = Nothing
    BY <2>2, <2>3, <2>5 DEF RenameInv
  <2> QED
    BY <2>3, <2>6, <2>7, <2>8 DEF RenameInv
<1> QED
  BY <1>1, <1>2

\* What the tree has instead of a chosen row is noted.
LEMMA PlanStands ==
  ASSUME del = NoDelete \/ PlanInv(del), NEW C \in SUBSET Entries,
         del = NoDelete => del' = NoDelete,
         del # NoDelete => del' = [del EXCEPT !.since = @ \union C],
         \A e \in Entries : there'[e] = there[e] \/ there'[e] = Nothing \/ e \in C
  PROVE  del' = NoDelete \/ PlanInv(del)'
<1>1. CASE del = NoDelete
  BY <1>1
<1>2. CASE del # NoDelete
  <2>1. PlanInv(del) /\ del \in Deletes
    BY <1>2 DEF PlanInv
  <2>2. del' \in Deletes /\ del'.phase = del.phase /\ del'.chosen = del.chosen
        /\ del'.pending = del.pending /\ del'.steps = del.steps
        /\ del'.since = del.since \union C /\ del.chosen \subseteq Entries
    BY <1>2, <2>1 DEF Deletes
  <2> QED
    BY <2>1, <2>2 DEF PlanInv, OfARow
<1> QED
  BY <1>1, <1>2

\* The tree stands still.
LEMMA TreeRests ==
  ASSUME TreeInv, UNCHANGED <<there, seen>>
  PROVE  TreeInv'
BY DEF TreeInv

LEMMA RenameRests ==
  ASSUME RenameInv, UNCHANGED <<there, machine, rename>>
  PROVE  RenameInv'
<1>1. PICK path : path = rename.to
  OBVIOUS
<1>2. Way(path)' = Way(path) /\ EntryOf(path)' = EntryOf(path)
      /\ (Dangles(EntryOf(path))' <=> Dangles(EntryOf(path)))
  BY DEF Way, EntryOf, Trail, Into, Dangles, Exists
<1>3. rename'.to = path
  BY <1>1
<1>4. Diverted(rename)' <=> Diverted(rename)
  BY <1>1, <1>2, <1>3 DEF Diverted
<1> QED
  BY <1>1, <1>2, <1>3, <1>4 DEF RenameInv

LEMMA NoRenameFits ==
  ASSUME rename' = NoRename
  PROVE  RenameInv'
BY DEF RenameInv, NoRename

LEMMA PlanRests ==
  ASSUME del = NoDelete \/ PlanInv(del), UNCHANGED <<there, del>>
  PROVE  del' = NoDelete \/ PlanInv(del)'
BY DEF PlanInv, OfARow

-----------------------------------------------------------------------------
(* The operations *)

LEMMA RenameEntryKeeps ==
  ASSUME FilesInv, NEW n \in Leaves, NEW to \in Destinations, NEW slash \in BOOLEAN,
         RenameEntry(n, to, slash), UNCHANGED machine
  PROVE  FilesInv'
<1>1. to \in Seq(Leaves)
  BY FileOperationsAssumption
<1>2. rename' \in Renames /\ rename'.phase = "check"
  BY <1>1 DEF RenameEntry, Renames
<1>3. RenameInv'
  BY <1>2 DEF RenameInv
<1>4. spent' \in [ops : 0..MaxOps, changes : 0..MaxChanges]
  BY FileOperationsAssumption DEF RenameEntry, FilesInv
<1> QED
  BY <1>3, <1>4, TreeRests, PlanRests DEF RenameEntry, FilesInv

\* Nothing to lose is where a stat sees nothing.
LEMMA AbsentIsFree ==
  ASSUME TreeInv, NEW path \in Seq(Leaves), Stat(path) = "absent", EntryOf(path) \in Entries
  PROVE  there[EntryOf(path)] = Nothing \/ Dangles(EntryOf(path))
<1> DEFINE e == EntryOf(path)
<1>1. EntryIs(path) /\ there[e] \in Things
  BY EntryOfIs DEF TreeInv
<1>2. Directory(path) = Nil /\ there[e].kind # "file"
  BY DEF Stat
<1>3. Into(e[1], e[2]) = Nil /\ e[1] # Nil /\ e = <<e[1], e[2]>>
  BY <1>1, <1>2, LeavesAre DEF EntryIs
<1>4. there[e].kind \in {"dir", "link"} /\ Exists(there[e].to) => there[e].to = Nil
  BY <1>3 DEF Into
<1>5. there[e].kind \in {"dir", "link"} => ~Exists(there[e].to)
  BY <1>4, LeavesAre DEF Exists
<1>6. there[e].kind # "dir"
  <2> SUFFICES ASSUME there[e].kind = "dir" PROVE Exists(there[e].to)
    BY <1>5
  <2>1. there[e] = FirstTree[e] /\ there[e].to \in Folders /\ LeadsTo(there[e], there[e].to)
    BY <1>1, ThingsAre DEF TreeInv
  <2> QED
    BY <2>1, FileOperationsAssumption DEF Exists
<1> QED
  BY <1>1, <1>2, <1>5, <1>6, ThingsAre DEF Dangles

\* What a directory takes in is named by a path, and only a destination that is not
\* there is cleared.
LEMMA CheckKeeps ==
  ASSUME FilesInv, Check, UNCHANGED machine
  PROVE  FilesInv'
<1>1. rename \in Renames /\ rename.phase = "check" /\ TreeInv /\ UNCHANGED there
  BY DEF Check, FilesInv, RenameInv, NoRename
<1>2. PICK x : x = [rename EXCEPT !.since = {}]
  OBVIOUS
<1>3. x \in Renames /\ x.phase = "check" /\ x.to = rename.to /\ x.from \in Leaves
      /\ x.to \in Seq(Leaves)
  BY <1>1, <1>2 DEF Renames
<1>4. PICK said \in {Stat(rename.to), "error"} : rename' = OnChecked(x, said)
  BY <1>2 DEF Check
<1>5. ASSUME RenameInv' PROVE FilesInv'
  BY <1>5, TreeRests, PlanRests DEF Check, FilesInv
<1>6. CASE said = "absent" /\ x.rule # "required"
  <2>1. rename' = [x EXCEPT !.phase = "move"]
    BY <1>4, <1>6 DEF OnChecked
  <2>2. rename' \in Renames /\ rename'.phase = "move" /\ rename'.to = rename.to
    BY <2>1, <1>3 DEF Renames
  <2>3. EntryOf(rename.to) \in Entries =>
          there[EntryOf(rename.to)] = Nothing \/ Dangles(EntryOf(rename.to))
    BY <1>1, <1>3, <1>4, <1>6, AbsentIsFree
  <2>4. PICK path : path = rename.to
    OBVIOUS
  <2>5. EntryOf(path)' = EntryOf(path) /\ (Dangles(EntryOf(path))' <=> Dangles(EntryOf(path)))
    BY <1>1 DEF EntryOf, Trail, Into, Dangles, Exists
  <2>6. RenameInv'
    BY <1>1, <2>2, <2>3, <2>4, <2>5 DEF RenameInv
  <2> QED
    BY <1>5, <2>6
<1>7. CASE said = "dir" /\ x.rule # "inTheWay" /\ Append(x.to, x.from) # <<x.from>>
  <2>1. rename' = [x EXCEPT !.to = Append(x.to, x.from), !.rule = "inTheWay"]
    BY <1>4, <1>7 DEF OnChecked
  <2>2. Append(x.to, x.from) \in Seq(Leaves)
    BY <1>3
  <2>3. rename' \in Renames /\ rename'.phase = "check"
    BY <2>1, <2>2, <1>3 DEF Renames
  <2>4. RenameInv'
    BY <2>3 DEF RenameInv
  <2> QED
    BY <1>5, <2>4
<1>8. CASE rename' = NoRename
  BY <1>5, <1>8, NoRenameFits
<1> QED
  BY <1>4, <1>6, <1>7, <1>8 DEF OnChecked

LEMMA LookKeeps ==
  ASSUME FilesInv, Look, UNCHANGED machine
  PROVE  FilesInv'
<1>1. rename \in Renames /\ there \in [Entries -> Things] /\ UNCHANGED there
  BY DEF Look, FilesInv, RenameInv, TreeInv, NoRename
<1>2. CASE Absent(rename.to)
  <2>1. rename' \in Renames /\ rename'.phase = "replace" /\ rename'.to = rename.to
        /\ machine' = "local"
    BY <1>1, <1>2 DEF Look, Renames
  <2>2. EntryOf(rename.to) \in Entries => there[EntryOf(rename.to)] = Nothing
    BY <1>1, <1>2, ThingsAre DEF Absent
  <2>3. PICK path : path = rename.to
    OBVIOUS
  <2>4. EntryOf(path)' = EntryOf(path)
    BY <1>1 DEF EntryOf, Trail, Into, Exists
  <2>5. RenameInv'
    BY <1>1, <2>1, <2>2, <2>3, <2>4 DEF RenameInv
  <2> QED
    BY <2>5, TreeRests, PlanRests DEF Look, FilesInv
<1>3. CASE ~Absent(rename.to)
  <2>1. rename' = NoRename
    BY <1>3 DEF Look
  <2>2. RenameInv'
    BY <2>1, NoRenameFits
  <2> QED
    BY <2>2, TreeRests, PlanRests DEF Look, FilesInv
<1> QED
  BY <1>2, <1>3

\* The rename takes a file or a link from where it was to where no directory is.
LEMMA MoveKeeps ==
  ASSUME FilesInv, Move, UNCHANGED machine
  PROVE  FilesInv'
<1>1. rename \in Renames /\ there \in [Entries -> Things] /\ rename' = NoRename
      /\ rename.from \in Leaves
  BY DEF Move, FilesInv, RenameInv, TreeInv, NoRename, Renames
<1>2. RenameInv'
  BY <1>1, NoRenameFits
<1>3. PICK from \in Entries : from = <<Shown, rename.from>>
  BY <1>1, LeavesAre
<1>4. PICK to : to = EntryOf(rename.to)
  OBVIOUS
<1>5. PICK C \in SUBSET Entries : C = Changed
  BY DEF Changed
<1>6. /\ del = NoDelete => del' = NoDelete
      /\ del # NoDelete => del' = [del EXCEPT !.since = @ \union C]
      /\ del = NoDelete \/ PlanInv(del)
      /\ UNCHANGED <<seen, spent>>
  BY <1>5 DEF Move, FilesInv
<1>7. del' = NoDelete \/ PlanInv(del)'
  <2>1. \A e \in Entries : there'[e] = there[e] \/ there'[e] = Nothing \/ e \in C
    BY <1>5 DEF Changed
  <2> QED
    BY <1>6, <2>1, PlanStands
<1>8. CASE there' = there
  BY <1>2, <1>6, <1>7, <1>8, TreeRests DEF FilesInv
<1>9. CASE there' # there
  <2>1. /\ there[from].kind \in {"file", "link"} /\ to \in Entries /\ to # from
        /\ there[to].kind # "dir"
        /\ there' = [there EXCEPT ![to] = there[from], ![from] = Nothing]
    BY <1>3, <1>4, <1>9 DEF Move
  <2>2. there' \in [Entries -> Things]
    BY <1>1, <2>1, LeavesAre
  <2>3. \A e \in Entries : \/ there'[e] = there[e] \/ there'[e] = Nothing
                           \/ e = to /\ there'[e] = there[from]
    BY <1>1, <2>1
  <2>4. \A e \in Entries : there'[e].kind = "dir" => there'[e] = there[e]
    BY <2>1, <2>3, LeavesAre
  <2>5. TreeInv'
    BY <1>6, <2>2, <2>4, TreeKeeps DEF FilesInv
  <2> QED
    BY <1>2, <1>6, <1>7, <2>5 DEF FilesInv
<1> QED
  BY <1>8, <1>9

\* Every row chosen has its step, and every step is of a row chosen.
LEMMA DeleteSelectionKeeps ==
  ASSUME FilesInv, NEW names \in SUBSET Leaves, DeleteSelection(names), UNCHANGED machine
  PROVE  FilesInv'
<1> DEFINE roots == {Step(<<Sorted[i]>>, seen[Sorted[i]], i, 0) :
                       i \in {i \in DOMAIN Sorted : Sorted[i] \in names}}
           chosen == {<<Shown, n>> : n \in names}
<1>1. seen \in [Leaves -> Things] /\ names # {}
  BY DEF FilesInv, TreeInv, DeleteSelection
<1>2. ASSUME NEW s \in roots
      PROVE  /\ s \in Plans /\ (s.isDir => s.was = "dir")
             /\ \E n \in Leaves : s.path = <<n>> /\ <<Shown, n>> \in chosen
  <2>1. PICK i \in DOMAIN Sorted :
          Sorted[i] \in names /\ s = Step(<<Sorted[i]>>, seen[Sorted[i]], i, 0)
    OBVIOUS
  <2>2. Sorted[i] \in Leaves /\ i \in Nat /\ <<Sorted[i]>> \in Seq(Leaves) \ {<<>>}
        /\ seen[Sorted[i]] \in Things /\ <<Shown, Sorted[i]>> \in chosen
    BY <1>1, <2>1, LeavesAre
  <2> HIDE DEF roots, chosen
  <2>3. s \in Plans /\ s.path = <<Sorted[i]>> /\ (s.isDir => s.was = "dir")
    BY <2>1, <2>2, ThingsAre DEF Step, Walked, Plans
  <2> QED
    BY <2>2, <2>3
<1>3. \A e \in chosen : e[1] = Shown /\ \E s \in roots : s.path = <<e[2]>>
  <2> SUFFICES ASSUME NEW n \in names PROVE \E s \in roots : s.path = <<n>>
    OBVIOUS
  <2>1. PICK i \in DOMAIN Sorted : Sorted[i] = n
    BY DEF Leaves, Range
  <2>2. Step(<<Sorted[i]>>, seen[Sorted[i]], i, 0) \in roots
    BY <2>1
  <2> QED
    BY <2>1, <2>2 DEF Step
<1>4. chosen \subseteq Entries /\ roots # {}
  <2>1. PICK n \in names : TRUE
    BY <1>1
  <2>2. <<Shown, n>> \in chosen
    OBVIOUS
  <2>3. roots # {}
    BY <1>3, <2>2
  <2>4. chosen \subseteq Entries
    BY LeavesAre
  <2> QED
    BY <2>3, <2>4
<1>5. del' = [phase |-> "plan", chosen |-> chosen, pending |-> {s \in roots : s.isDir},
              steps |-> roots, since |-> {}]
  BY DEF DeleteSelection
<1> HIDE DEF roots, chosen
<1>6. /\ del' \in Deletes /\ del'.phase = "plan" /\ del'.chosen = chosen /\ del'.steps = roots
      /\ del'.pending = {s \in roots : s.isDir}
  BY <1>2, <1>4, <1>5 DEF Deletes
<1>7. PlanInv(del)'
  BY <1>2, <1>3, <1>4, <1>6 DEF PlanInv, OfARow
<1>8. spent' \in [ops : 0..MaxOps, changes : 0..MaxChanges]
  BY FileOperationsAssumption DEF DeleteSelection, FilesInv
<1> QED
  BY <1>7, <1>8, TreeRests, RenameRests DEF DeleteSelection, FilesInv

\* What is found where a directory's path leads is planned after it, below it.
LEMMA WalkKeeps ==
  ASSUME FilesInv, NEW d \in del.pending, Walk(d), UNCHANGED machine
  PROVE  FilesInv'
<1> DEFINE at == Directory(d.path)
           steps(found) == {Step(Append(d.path, n), there[<<at, n>>], d.root, d.depth + 1) :
                              n \in found}
           all == {n \in Leaves : there[<<at, n>>] # Nothing}
<1>1. PlanInv(del) /\ TreeInv
  BY DEF FilesInv, NoDelete
<1>2. /\ d \in del.steps /\ d \in Plans /\ d.isDir /\ d.was = "dir" /\ del \in Deletes
      /\ d.root \in Nat /\ d.depth \in Nat /\ d.path \in Seq(Leaves)
  BY <1>1 DEF PlanInv, Deletes, Plans
<1>3. PICK found \in {{}} \union (IF at \in Folders THEN {all} ELSE {}) :
        del' = [del EXCEPT
                !.pending = (@ \ {d}) \union
                    {s \in steps(found) : s.isDir /\ s.depth < kMaxDeleteDepth},
                !.steps = @ \union steps(found)]
  BY DEF Walk
<1> DEFINE new == steps(found)
<1>4. ASSUME NEW s \in new
      PROVE  s \in Plans /\ HoldsStep(d, s) /\ (s.isDir => s.was = "dir")
  <2>1. PICK n \in found : s = Step(Append(d.path, n), there[<<at, n>>], d.root, d.depth + 1)
    OBVIOUS
  <2>2. at \in Folders /\ n \in Leaves
    BY <1>3
  <2>3. Append(d.path, n) \in Seq(Leaves) \ {<<>>}
    BY <1>2, <2>2
  <2>4. there[<<at, n>>] \in Things /\ d.depth + 1 \in Nat
    BY <1>1, <1>2, <2>2, LeavesAre DEF TreeInv
  <2> HIDE DEF at
  <2>5. s \in Plans /\ s.path = Append(d.path, n) /\ s.root = d.root /\ s.depth = d.depth + 1
        /\ (s.isDir => s.was = "dir")
    BY <1>2, <2>1, <2>3, <2>4, ThingsAre DEF Step, Walked, Plans
  <2> QED
    BY <1>2, <2>2, <2>5 DEF HoldsStep
<1>5. del' = [del EXCEPT
                !.pending = (@ \ {d}) \union {s \in new : s.isDir /\ s.depth < kMaxDeleteDepth},
                !.steps = @ \union new]
  BY <1>3
<1> HIDE DEF new
<1>6. del.pending \subseteq {s \in del.steps : s.isDir}
  BY <1>1 DEF PlanInv
<1>7. /\ del' \in Deletes /\ del'.phase = "plan" /\ del'.chosen = del.chosen
      /\ del'.since = del.since /\ del'.steps = del.steps \union new
      /\ del'.pending \subseteq {s \in del'.steps : s.isDir}
  BY <1>2, <1>4, <1>5, <1>6 DEF Deletes, Walk
<1>8. PlanInv(del)'
  <2>1. \A s \in del'.steps : s.isDir => s.was = "dir"
    BY <1>1, <1>4, <1>7 DEF PlanInv
  <2>2. \A s \in del'.steps : OfARow(del', s) \/ \E p \in del'.steps : HoldsStep(p, s)
    BY <1>1, <1>2, <1>4, <1>7 DEF PlanInv, OfARow
  <2>3. UNCHANGED there
    BY DEF Walk
  <2>4. \A e \in del'.chosen :
          /\ e[1] = Shown
          /\ (\E s \in del'.steps : s.path = <<e[2]>>) \/ there'[e] = Nothing \/ e \in del'.since
    BY <1>1, <1>7, <2>3 DEF PlanInv
  <2> QED
    BY <1>2, <1>7, <2>1, <2>2, <2>4 DEF PlanInv, OfARow
<1> QED
  BY <1>8, TreeRests, RenameRests DEF Walk, FilesInv

LEMMA ConfirmKeeps ==
  ASSUME FilesInv, Confirm, UNCHANGED machine
  PROVE  FilesInv'
<1>1. CASE del' = NoDelete
  BY <1>1, TreeRests, RenameRests DEF Confirm, FilesInv
<1>2. CASE del' = [del EXCEPT !.phase = "run"]
  <2>1. PlanInv(del) /\ del \in Deletes
    BY DEF Confirm, FilesInv, NoDelete, PlanInv
  <2>2. /\ del' \in Deletes /\ del'.phase = "run" /\ del.phase = "plan"
        /\ del.pending = {} /\ UNCHANGED there
        /\ del'.chosen = del.chosen /\ del'.since = del.since
        /\ del'.pending = del.pending /\ del'.steps = del.steps
    BY <1>2, <2>1 DEF Deletes, Confirm
  <2>3. PlanInv(del)'
    BY <2>1, <2>2 DEF PlanInv, OfARow
  <2> QED
    BY <2>3, TreeRests, RenameRests DEF Confirm, FilesInv
<1> QED
  BY <1>1, <1>2 DEF Confirm

\* A row's path names its entry.
LEMMA RowIs ==
  ASSUME there \in [Entries -> Things], NEW n \in Leaves
  PROVE  EntryOf(<<n>>) = <<Shown, n>>
<1>1. <<n>> \in Seq(Leaves) /\ <<n>> # <<>> /\ Len(<<n>>) = 1 /\ Last(<<n>>) = n
  BY DEF Last
<1>2. Trail(<<n>>)[0] = Shown
  BY <1>1, TrailIs DEF LeadsOn, LeadsBy
<1> QED
  BY <1>1, <1>2 DEF EntryOf

\* The step taken is of a deepest one, so no step left was found in its directory.
LEMMA PlanAdvances ==
  ASSUME PlanInv(del), del.phase = "run", NEW s \in del.steps, NextToRemove(s),
         there \in [Entries -> Things], EntryOf(s.path) \in Entries,
         there' = [there EXCEPT ![EntryOf(s.path)] = Nothing],
         del' = AfterStep(del, s, TRUE)
  PROVE  PlanInv(del)'
<1>1. del \in Deletes /\ s \in Plans /\ s.path \in Seq(Leaves) /\ s.depth \in Nat /\ s.root \in Nat
  BY DEF PlanInv, Deletes, Plans
<1>2. /\ del' \in Deletes /\ del'.chosen = del.chosen /\ del'.since = del.since
      /\ del'.pending = del.pending /\ del'.steps = del.steps \ {s}
      /\ del'.phase = (IF del.steps = {s} THEN "done" ELSE "run")
  BY <1>1 DEF AfterStep, Deletes
<1>3. del.pending = {}
  BY DEF PlanInv
<1>4. \A t \in del'.steps : OfARow(del', t) \/ \E p \in del'.steps : HoldsStep(p, t)
  <2> SUFFICES ASSUME NEW t \in del'.steps, ~OfARow(del', t)
               PROVE  \E p \in del'.steps : HoldsStep(p, t)
    OBVIOUS
  <2>1. t \in del.steps /\ t.depth \in Nat /\ t.root \in Nat /\ ~OfARow(del, t)
    BY <1>1, <1>2 DEF Deletes, Plans, OfARow
  <2>2. PICK p \in del.steps : HoldsStep(p, t)
    BY <1>2, <2>1 DEF PlanInv
  <2>3. p # s
    <3> SUFFICES ASSUME p = s PROVE FALSE
      OBVIOUS
    <3>1. t.root = s.root /\ t.depth = s.depth + 1
      BY <2>2 DEF HoldsStep
    <3>2. s.root < t.root \/ s.depth >= t.depth
      BY <2>1 DEF NextToRemove
    <3> QED
      BY <1>1, <2>1, <3>1, <3>2
  <2> QED
    BY <1>2, <2>2, <2>3
<1>5. \A e \in del'.chosen :
        /\ e[1] = Shown
        /\ (\E t \in del'.steps : t.path = <<e[2]>>) \/ there'[e] = Nothing \/ e \in del'.since
  <2> SUFFICES ASSUME NEW e \in del'.chosen
               PROVE  /\ e[1] = Shown
                      /\ \/ \E t \in del'.steps : t.path = <<e[2]>>
                         \/ there'[e] = Nothing \/ e \in del'.since
    OBVIOUS
  <2>1. e \in Entries /\ e \in del.chosen /\ e = <<e[1], e[2]>> /\ e[1] = Shown /\ e[2] \in Leaves
    <3>1. e \in Entries /\ e \in del.chosen
      BY <1>1, <1>2 DEF Deletes
    <3> QED
      BY <3>1, LeavesAre DEF PlanInv
  <2>2. there'[EntryOf(s.path)] = Nothing
        /\ \A f \in Entries : f # EntryOf(s.path) => there'[f] = there[f]
    OBVIOUS
  <2>3. CASE s.path = <<e[2]>>
    <3>1. EntryOf(s.path) = e
      BY <2>1, <2>3, RowIs
    <3> QED
      BY <2>1, <2>2, <3>1
  <2>4. CASE s.path # <<e[2]>>
    <3>1. CASE \E t \in del.steps : t.path = <<e[2]>>
      BY <1>2, <2>1, <2>4, <3>1
    <3>2. CASE there[e] = Nothing \/ e \in del.since
      BY <1>2, <2>1, <2>2, <3>2
    <3> QED
      BY <2>1, <3>1, <3>2 DEF PlanInv
  <2> QED
    BY <2>1, <2>3, <2>4
<1>6. \A t \in del'.steps : t.isDir => t.was = "dir"
  BY <1>2 DEF PlanInv
<1>7. del'.phase = "done" <=> del'.steps = {}
  BY <1>2
<1> QED
  BY <1>2, <1>3, <1>4, <1>5, <1>6, <1>7 DEF PlanInv, OfARow

LEMMA RemoveNextKeeps ==
  ASSUME FilesInv, NEW s \in del.steps, RemoveNext(s), UNCHANGED machine
  PROVE  FilesInv'
<1>1. PlanInv(del) /\ TreeInv /\ RenameInv /\ there \in [Entries -> Things] /\ del.phase = "run"
  BY DEF FilesInv, TreeInv, NoDelete, RemoveNext
<1>2. CASE there' = there /\ del' = AfterStep(del, s, FALSE)
  <2>1. del' = NoDelete
    BY <1>2 DEF AfterStep
  <2> QED
    BY <1>2, <2>1, TreeRests, RenameRests DEF RemoveNext, FilesInv
<1>3. CASE /\ Removable(s) /\ there' = [there EXCEPT ![EntryOf(s.path)] = Nothing]
           /\ del' = AfterStep(del, s, TRUE)
  <2>1. PICK e \in Entries : e = EntryOf(s.path)
    BY <1>3 DEF Removable
  <2>2. there' \in [Entries -> Things]
        /\ \A f \in Entries : there'[f] = there[f] \/ there'[f] = Nothing
    BY <1>1, <1>3, <2>1, LeavesAre
  <2>3. \A f \in Entries : there'[f].kind = "dir" => there'[f] = there[f]
    BY <2>2, LeavesAre
  <2>4. PlanInv(del)'
    BY <1>1, <1>3, <2>1, PlanAdvances DEF RemoveNext
  <2>5. RenameInv'
    <3>1. PICK C \in SUBSET Entries : C = {}
      OBVIOUS
    <3>2. /\ rename = NoRename => rename' = NoRename
          /\ rename # NoRename => rename' = [rename EXCEPT !.since = @ \union C]
      BY <1>1, <3>1 DEF RenameInv, Renames, RemoveNext
    <3> QED
      BY <1>1, <2>2, <2>3, <3>1, <3>2, RenameStands
  <2>6. TreeInv'
    BY <1>1, <2>2, <2>3, TreeKeeps DEF RemoveNext
  <2> QED
    BY <2>4, <2>5, <2>6 DEF RemoveNext, FilesInv
<1> QED
  BY <1>2, <1>3 DEF RemoveNext

LEMMA RelistKeeps ==
  ASSUME FilesInv, Relist, UNCHANGED machine
  PROVE  FilesInv'
<1>1. TreeInv'
  BY LeavesAre DEF Relist, FilesInv, TreeInv, Listing
<1> QED
  BY <1>1, RenameRests, PlanRests DEF Relist, FilesInv

LEMMA GoOfflineKeeps ==
  ASSUME FilesInv, GoOffline, UNCHANGED machine
  PROVE  FilesInv'
BY NoRenameFits, TreeRests DEF GoOffline, FilesInv

\* No directory is made, and what changes is noted.
LEMMA OthersKeeps ==
  ASSUME FilesInv, Others, UNCHANGED machine
  PROVE  FilesInv'
<1>1. TreeInv /\ RenameInv /\ there \in [Entries -> Things]
  BY DEF FilesInv, TreeInv
<1>2. PICK e \in Entries, x \in {Nothing, AFile} \union [kind : {"link"}, to : Targets] :
        there' = [there EXCEPT ![e] = x]
  BY DEF Others
<1>3. x \in Things /\ x.kind # "dir"
  BY <1>2, FileOperationsAssumption DEF Things, Nothing, AFile
<1>4. there' \in [Entries -> Things] /\ \A f \in Entries : there'[f].kind = "dir" => there'[f] = there[f]
  BY <1>1, <1>2, <1>3
<1>5. TreeInv'
  BY <1>1, <1>4, TreeKeeps DEF Others
<1>6. PICK C \in SUBSET Entries : C = Changed
  BY DEF Changed
<1>7. /\ rename = NoRename => rename' = NoRename
      /\ rename # NoRename => rename' = [rename EXCEPT !.since = @ \union C]
      /\ del = NoDelete => del' = NoDelete
      /\ del # NoDelete => del' = [del EXCEPT !.since = @ \union C]
      /\ \A f \in Entries : there'[f] = there[f] \/ there'[f] = Nothing \/ f \in C
  BY <1>6 DEF Others, Changed
<1>8. RenameInv'
  BY <1>1, <1>4, <1>7, RenameStands
<1>9. del' = NoDelete \/ PlanInv(del)'
  BY <1>7, PlanStands DEF FilesInv
<1>10. spent' \in [ops : 0..MaxOps, changes : 0..MaxChanges]
  BY FileOperationsAssumption DEF Others, FilesInv
<1> QED
  BY <1>5, <1>8, <1>9, <1>10 DEF Others, FilesInv

\* A path and one name more go the same way up to the name.
LEMMA TrailGoesOn ==
  ASSUME there \in [Entries -> Things], NEW path \in Seq(Leaves), NEW n \in Leaves
  PROVE  \A i \in 0..Len(path) : Trail(Append(path, n))[i] = Trail(path)[i]
<1> DEFINE q == Append(path, n)
           T == {i \in 0..Len(path) : Trail(q)[i] = Trail(path)[i]}
<1>1. q \in Seq(Leaves) /\ Len(path) \in Nat /\ Len(q) = Len(path) + 1
      /\ \A i \in 1..Len(path) : q[i] = path[i]
  OBVIOUS
<1>2. LeadsBy(path, Trail(path)) /\ LeadsBy(q, Trail(q))
  BY <1>1, TrailIs DEF LeadsOn
<1>3. 0 \in T
  BY <1>1, <1>2 DEF LeadsBy
<1>4. ASSUME NEW k \in 1..Len(path), k - 1 \in T PROVE k \in T
  <2>1. k \in 1..Len(q) /\ k \in 0..Len(path)
    BY <1>1
  <2>2. Trail(q)[k] = Into(Trail(q)[k - 1], q[k]) /\ Trail(path)[k] = Into(Trail(path)[k - 1], path[k])
    BY <1>2, <2>1 DEF LeadsBy
  <2> QED
    BY <1>1, <1>4, <2>1, <2>2
<1> HIDE DEF T
<1>5. \A k \in 0..Len(path) : k \in T
  BY <1>1, <1>3, <1>4, CountUp
<1> QED
  BY <1>5 DEF T

\* What a directory's path leads to is where its own entries are.
LEMMA DirectoryHolds ==
  ASSUME there \in [Entries -> Things], NEW path \in Seq(Leaves), NEW n \in Leaves,
         EntryOf(Append(path, n)) \in Entries
  PROVE  /\ EntryOf(Append(path, n))[1] = Directory(path) /\ Directory(path) \in Folders
<1> DEFINE q == Append(path, n)
<1>1. q \in Seq(Leaves) /\ Len(path) \in Nat /\ Len(q) = Len(path) + 1
      /\ Len(path) \in 0..Len(path) /\ Len(q) - 1 = Len(path)
  OBVIOUS
<1>2. Trail(q)[Len(path)] = Trail(path)[Len(path)]
  BY <1>1, TrailGoesOn
<1>3. EntryIs(q)
  BY <1>1, EntryOfIs
<1> QED
  BY <1>1, <1>2, <1>3 DEF EntryIs, Directory

\* The entry that leads to it, the path having one.
LEMMA DirectoryHasEntry ==
  ASSUME there \in [Entries -> Things], NEW path \in Seq(Leaves), path # <<>>,
         Directory(path) \in Folders
  PROVE  /\ EntryOf(path) \in Entries /\ there[EntryOf(path)].kind \in {"dir", "link"}
         /\ there[EntryOf(path)].to = Directory(path)
<1>1. /\ Len(path) \in 1..Len(path) /\ path[Len(path)] \in Leaves
      /\ Last(path) = path[Len(path)] /\ Len(path) - 1 \in 0..Len(path)
  BY DEF Last
<1>2. PICK d : d = Trail(path)[Len(path) - 1]
  OBVIOUS
<1>3. d \in Folders \union {Nil} /\ Directory(path) = Into(d, path[Len(path)])
  BY <1>1, <1>2, TrailIs DEF LeadsOn, LeadsBy, Directory
<1>4. /\ d \in Folders /\ there[<<d, path[Len(path)]>>].kind \in {"dir", "link"}
      /\ there[<<d, path[Len(path)]>>].to = Directory(path)
  BY <1>1, <1>3, IntoIs, LeavesAre DEF IntoFits
<1>5. EntryOf(path) = <<d, path[Len(path)]>>
  BY <1>1, <1>2 DEF EntryOf
<1> QED
  BY <1>1, <1>4, <1>5, LeavesAre

-----------------------------------------------------------------------------
(* What holds of files *)

\* The inductive invariant: no directory is made or moved, a cleared rename lands
\* on nothing to lose, but for what came there or on its way, and a plan's steps
\* are those of the rows chosen.
THEOREM FilesInvariant == FilesSpec => []FilesInv
<1>1. InitFiles => FilesInv
  <2> SUFFICES ASSUME InitFiles PROVE FilesInv
    OBVIOUS
  <2>1. there \in [Entries -> Things] /\ there = FirstTree /\ seen = Listing(Shown)
    BY LeavesAre DEF InitFiles
  <2>2. TreeInv
    BY <2>1, LeavesAre DEF TreeInv, Listing
  <2>3. RenameInv
    BY DEF InitFiles, RenameInv, NoRename
  <2>4. spent \in [ops : 0..MaxOps, changes : 0..MaxChanges]
    BY FileOperationsAssumption DEF InitFiles
  <2> QED
    BY <2>2, <2>3, <2>4 DEF InitFiles, FilesInv
<1>2. FilesInv /\ [NextFiles]_filesVars => FilesInv'
  <2> SUFFICES ASSUME FilesInv, [NextFiles]_filesVars PROVE FilesInv'
    OBVIOUS
  <2>1. CASE UNCHANGED filesVars
    BY <2>1, TreeRests, RenameRests, PlanRests DEF FilesInv, filesVars
  <2>2. CASE NextFiles
    BY <2>2, RenameEntryKeeps, DeleteSelectionKeeps, CheckKeeps, LookKeeps, MoveKeeps,
       WalkKeeps, ConfirmKeeps, RemoveNextKeeps, RelistKeeps, GoOfflineKeeps, OthersKeeps
       DEF NextFiles, Steps
  <2> QED
    BY <2>1, <2>2
<1> QED
  BY <1>1, <1>2, PTL DEF FilesSpec

\* Types, and a deletion under way has something to remove.
THEOREM FilesTypes == FilesSpec => []FilesTypeOK
<1>1. FilesInv => FilesTypeOK
  <2> SUFFICES ASSUME FilesInv PROVE FilesTypeOK
    OBVIOUS
  <2>1. there \in [Entries -> Things] /\ seen \in [Leaves -> Things]
        /\ spent.ops <= MaxOps /\ spent.changes <= MaxChanges
    BY FileOperationsAssumption DEF FilesInv, TreeInv
  <2>2. rename.phase \in {"none", "check", "move", "replace"}
        /\ (rename.phase # "none" => rename.from \in Leaves /\ rename.to \in Seq(Leaves))
    BY DEF FilesInv, RenameInv, Renames, NoRename
  <2>3. /\ del.phase \in {"none", "plan", "run", "done"} /\ del.chosen \subseteq Entries
        /\ del.phase = "run" => del.steps # {} /\ del.pending = {}
    BY DEF FilesInv, PlanInv, Deletes, NoDelete
  <2> QED
    BY <2>1, <2>2, <2>3 DEF FilesTypeOK
<1> QED
  BY <1>1, FilesInvariant, PTL

\* What a deletion has removed when it reports success is all that was chosen.
THEOREM FilesDoneMeansGone == FilesSpec => []DoneMeansGone
<1>1. FilesInv => DoneMeansGone
  BY DEF FilesInv, PlanInv, NoDelete, DoneMeansGone
<1> QED
  BY <1>1, FilesInvariant, PTL

\* What a rename lands on was not there when it was cleared, or the path to it was
\* another.
THEOREM FilesNothingReplaced == FilesSpec => NothingReplaced
<1>1. FilesInv /\ [NextFiles]_filesVars => [LandsOnNothing]_filesVars
  <2> SUFFICES ASSUME FilesInv, [NextFiles]_filesVars,
                      rename.phase \in {"move", "replace"}, rename' = NoRename,
                      EntryOf(rename.to) \in Entries,
                      there'[EntryOf(rename.to)] # there[EntryOf(rename.to)]
               PROVE  \/ there[EntryOf(rename.to)] = Nothing \/ Diverted(rename)
                      \/ machine = "server" /\ Dangles(EntryOf(rename.to))
    BY Zenon DEF LandsOnNothing, Diverted
  <2>1. rename' # rename /\ there' # there
    BY DEF NoRename
  <2>2. Move
    BY <2>1
       DEF NextFiles, Steps, filesVars, RenameEntry, DeleteSelection, Check, Look, Walk,
           Confirm, RemoveNext, Relist, GoOffline, Others, NoRename
  <2>3. rename.phase = (IF machine = "local" THEN "replace" ELSE "move")
    BY <2>2 DEF Move
  <2> QED
    BY <2>3 DEF FilesInv, RenameInv
<1> QED
  BY <1>1, FilesInvariant, PTL DEF FilesSpec, NothingReplaced

\* A set closed under what the chosen rows lead to has the directory of every step
\* that names something: if not, a step of least depth without it would have its
\* own directory's step without it too, whose path leads there, by a directory or
\* by a link that has come in its place.
LEMMA StepsAreUnder ==
  ASSUME TreeInv, PlanInv(del), NEW D \in SUBSET Folders, Closed(D),
         NEW s \in del.steps, EntryOf(s.path) \in Entries
  PROVE  EntryOf(s.path) \in del.chosen \/ EntryOf(s.path)[1] \in D
<1> DEFINE Out(t) == /\ EntryOf(t.path) \in Entries /\ EntryOf(t.path) \notin del.chosen
                     /\ EntryOf(t.path)[1] \notin D
           T == {t.depth : t \in {t \in del.steps : Out(t)}}
<1> SUFFICES ASSUME Out(s) PROVE FALSE
  OBVIOUS
<1>1. del.steps \subseteq Plans /\ there \in [Entries -> Things]
  BY DEF PlanInv, Deletes, TreeInv
<1>2. T \in SUBSET Nat /\ T # {}
  BY <1>1 DEF Plans
<1>3. PICK m \in T : \A n \in T : m <= n
  <2> HIDE DEF T
  <2> QED
    BY <1>2, LeastNumber
<1>4. PICK t \in del.steps : Out(t) /\ t.depth = m
  BY <1>3
<1>5. ~OfARow(del, t)
  <2> SUFFICES ASSUME NEW n \in Leaves, t.path = <<n>>, <<Shown, n>> \in del.chosen PROVE FALSE
    BY DEF OfARow
  <2>1. EntryOf(t.path) = <<Shown, n>>
    BY <1>1, RowIs
  <2> QED
    BY <1>4, <2>1
<1>6. PICK p \in del.steps : HoldsStep(p, t)
  BY <1>4, <1>5 DEF PlanInv
<1>7. PICK n \in Leaves : t.path = Append(p.path, n)
  BY <1>6 DEF HoldsStep
<1>8. p.path \in Seq(Leaves) \ {<<>>} /\ t.path \in Seq(Leaves) /\ p.was = "dir"
  BY <1>1, <1>6 DEF Plans, HoldsStep
<1>9. p.depth \notin T
  <2>1. p.depth \in Nat /\ m = p.depth + 1
    BY <1>1, <1>4, <1>6 DEF HoldsStep, Plans
  <2> HIDE DEF T
  <2> QED
    BY <1>3, <2>1
<1>10. ~Out(p)
  BY <1>9
<1>11. EntryOf(t.path)[1] = Directory(p.path) /\ Directory(p.path) \in Folders
  BY <1>1, <1>4, <1>7, <1>8, DirectoryHolds
<1>12. PICK e \in Entries : /\ e = EntryOf(p.path) /\ there[e].kind \in {"dir", "link"}
                            /\ there[e].to = Directory(p.path)
  BY <1>1, <1>8, <1>11, DirectoryHasEntry
<1>13. LeadsTo(there[e], Directory(p.path)) \/ Swapped(e, Directory(p.path))
  BY <1>1, <1>8, <1>12, ThingsAre DEF Swapped
<1>14. e \in del.chosen \/ e[1] \in D
  BY <1>10, <1>12
<1>15. Directory(p.path) \in D
  BY <1>11, <1>13, <1>14 DEF Closed
<1> QED
  BY <1>4, <1>11, <1>15

\* A deletion removes nothing but the rows chosen and what is in them, or in what a
\* link leads to that has come where the listing showed a directory.
THEOREM FilesLinksAreNotWalked == FilesSpec => LinksAreNotWalked
<1>1. FilesInv /\ [NextFiles]_filesVars => [TakesWhatIsUnder]_filesVars
  <2> SUFFICES ASSUME FilesInv, [NextFiles]_filesVars, NEW e \in Entries,
                      del.phase = "run", del'.steps # del.steps, there'[e] # there[e]
               PROVE  e \in Beneath
    BY Zenon DEF TakesWhatIsUnder
  <2>1. PICK s \in del.steps : RemoveNext(s)
    <3>1. ~(Move \/ Others)
      <4>1. del \in Deletes
        BY DEF FilesInv, NoDelete, PlanInv
      <4>2. ASSUME NEW C, del' = [del EXCEPT !.since = @ \union C] PROVE FALSE
        BY <4>1, <4>2 DEF Deletes
      <4> QED
        BY <4>2 DEF Move, Others
    <3>2. there' # there
      OBVIOUS
    <3> QED
      BY <3>1, <3>2
         DEF NextFiles, Steps, filesVars, RenameEntry, DeleteSelection, Check, Look, Walk,
             Confirm, Relist, GoOffline
  <2>2. PlanInv(del) /\ TreeInv /\ there \in [Entries -> Things]
    BY DEF FilesInv, TreeInv, NoDelete
  <2>3. EntryOf(s.path) \in Entries /\ e = EntryOf(s.path)
    BY <2>1, <2>2 DEF RemoveNext, Removable
  <2>4. e \in del.chosen \/ \A D \in SUBSET Folders : Closed(D) => e[1] \in D
    BY <2>2, <2>3, StepsAreUnder
  <2> QED
    BY <2>4 DEF Beneath
<1> QED
  BY <1>1, FilesInvariant, PTL DEF FilesSpec, LinksAreNotWalked

=============================================================================
