----------------------------- MODULE Scrollback -----------------------------
(***************************************************************************)
(* db/ScrollbackWriter, db/JsonScrollbackRepository::Load and the restore  *)
(* and save paths of session/SessionManager: the lines one terminal        *)
(* prints, streamed to two segment files that take turns, merged into one  *)
(* compact file on a save, and read back when the session is restored.     *)
(*                                                                         *)
(* Lines are numbered in the order they are written; which line of the     *)
(* document that is, and its text and styles, are left out.  The steps of  *)
(* Start, Compact and Truncate are separate, because the process may die   *)
(* between any two of them; writerMutex_ keeps the parser's lines out.     *)
(***************************************************************************)
EXTENDS Naturals, Sequences, SequencesExt

CONSTANTS
    Limits,     \* bound: the values scrollbackSaveLines_ takes
    MaxLines,   \* bound: the lines ever written
    MaxRuns     \* bound: how often the process starts

ASSUME ScrollbackAssumption ==
    Limits \subseteq Nat \ {0} /\ MaxLines \in Nat /\ MaxRuns \in Nat

Files == {"seg0", "seg1", "compact", "tmp"}

VARIABLES
    out,        \* the stream current_, its buffer and position, and the disk
    stage,      \* what the session, and in it the writer, is doing
    next,       \* where the session goes after Compact
    todo,       \* the lines of the snapshot Start has yet to write
    limit,      \* scrollbackSaveLines_
    written,    \* the number of lines written so far
    runs,
    recent,     \* the last lines written since the segments were begun
    clearedAt,  \* the number of lines written when the user last cleared
    saved       \* a save has found lines to compact since then

scrollbackVars == <<out, stage, next, todo, limit, written, runs, recent, clearedAt, saved>>

SegPath(i) == IF i = 0 THEN "seg0" ELSE "seg1"

Read(disk, f) == IF f \in DOMAIN disk THEN disk[f] ELSE <<>>
Erase(disk, f) == Restrict(disk, DOMAIN disk \ {f})
Replace(disk, f, lines) ==
    [g \in DOMAIN disk \union {f} |-> IF g = f THEN lines ELSE disk[g]]

InitScrollback ==
    /\ out = [disk |-> <<>>, current |-> "none", buffer |-> <<>>,
              idx |-> 0, count |-> 0]
    /\ stage = "off" /\ next = "off" /\ todo = <<>>
    /\ limit \in Limits
    /\ written = 0 /\ runs = 0
    /\ recent = <<>> /\ clearedAt = 0 /\ saved = FALSE

-----------------------------------------------------------------------------
(* The stream *)

Flush(o) ==
    IF o.current = "none" THEN o
    ELSE [o EXCEPT !.disk[o.current] = @ \o o.buffer, !.buffer = <<>>]

Close(o) == [Flush(o) EXCEPT !.current = "none"]

Open(o) ==
    [o EXCEPT !.current = SegPath(o.idx),
              !.disk = Replace(@, SegPath(o.idx), <<>>)]

Reset(o) == [o EXCEPT !.idx = 0, !.count = 0]

\* Mutant: the segment that is full is begun again.
RotateInPlace(o) == Open([Close(o) EXCEPT !.count = 0])

\* The other segment, the older one, is begun again.
Rotate(o) == Open([Close(o) EXCEPT !.idx = 1 - @, !.count = 0])

PutLine(o, line) ==
    LET opened == IF o.current = "none" THEN Open(o) ELSE o
    IN [opened EXCEPT !.buffer = Append(@, line), !.count = @ + 1]

WriteLine(o, line) ==
    LET put == PutLine(o, line)
    IN IF put.count >= limit THEN Rotate(put) ELSE put

LastOf(s, n) == IF Len(s) > n THEN SubSeq(s, Len(s) - n + 1, Len(s)) ELSE s

Write(line) ==
    /\ out' = WriteLine(out, line)
    /\ recent' = LastOf(Append(recent, line), limit)

\* A line the parser has finished; the transport runs before the restore
\* begins and after the compaction of a close.
PrintLine ==
    /\ stage \in {"created", "loaded", "running", "closing"}
    /\ written < MaxLines
    /\ written' = written + 1
    /\ Write(written')
    /\ UNCHANGED <<stage, next, todo, limit, runs, clearedAt, saved>>

\* The stream writes out some of its buffer when it likes.
Spill ==
    /\ out.buffer # <<>>
    /\ out' = [out EXCEPT !.disk[out.current] = Append(@, Head(out.buffer)),
                          !.buffer = Tail(@)]
    /\ UNCHANGED <<stage, next, todo, limit, written, runs, recent, clearedAt,
                   saved>>

-----------------------------------------------------------------------------
(* A process starts and restores the session; it ends, or dies *)

Segments(disk) == Read(disk, "seg0") \o Read(disk, "seg1")

\* JsonScrollbackRepository::Load, before it takes the last lines.
Loaded(disk) ==
    IF {"seg0", "seg1"} \intersect DOMAIN disk # {}
    THEN Segments(disk) ELSE Read(disk, "compact")

\* CreateSession: a new writer, started without a snapshot.
CreateSession(n) ==
    /\ stage = "off" /\ runs < MaxRuns
    /\ runs' = runs + 1
    /\ limit' = n
    /\ out' = Reset(out)
    /\ recent' = <<>>
    /\ stage' = "created"
    /\ UNCHANGED <<next, todo, written, clearedAt, saved>>

\* RestoreScrollback reads what there is, and adds a separator line.
LoadSnapshot ==
    /\ stage = "created"
    /\ LET lines == LastOf(Loaded(out.disk), limit)
       IN IF lines = <<>>
          THEN stage' = "running" /\ UNCHANGED <<todo, written>>
          ELSE /\ stage' = "loaded"
               /\ written' = written + 1
               /\ todo' = Append(lines, written')
    /\ UNCHANGED <<out, next, limit, runs, recent, clearedAt, saved>>

\* Start(&snap): the segments are begun again.
StartWriter ==
    /\ stage = "loaded"
    /\ out' = Open(Reset(Close(out)))
    /\ recent' = <<>>
    /\ stage' = "start"
    /\ UNCHANGED <<next, todo, limit, written, runs, clearedAt, saved>>

StartLine ==
    /\ stage = "start" /\ todo # <<>>
    /\ Write(Head(todo))
    /\ todo' = Tail(todo)
    /\ UNCHANGED <<stage, next, limit, written, runs, clearedAt, saved>>

StartFlush ==
    /\ stage = "start" /\ todo = <<>>
    /\ out' = Flush(out)
    /\ stage' = "running"
    /\ UNCHANGED <<next, todo, limit, written, runs, recent, clearedAt, saved>>

\* The session is destroyed, and the stream with it.
Exit ==
    /\ stage = "closing"
    /\ out' = Close(out)
    /\ stage' = "off"
    /\ UNCHANGED <<next, todo, limit, written, runs, recent, clearedAt, saved>>

ProcessDies ==
    /\ stage # "off"
    /\ out' = [out EXCEPT !.current = "none", !.buffer = <<>>]
    /\ stage' = "off" /\ todo' = <<>>
    /\ UNCHANGED <<next, limit, written, runs, recent, clearedAt, saved>>

-----------------------------------------------------------------------------
(* Compact: a workspace is saved, or the session is closed *)

Deleted(f) == out' = [out EXCEPT !.disk = Erase(@, f)]

\* With no room for the merged file the segment is opened again, to append.
Compact(after) ==
    /\ stage = "running"
    /\ next' = after
    /\ \/ /\ out' = [Close(out) EXCEPT !.disk = Replace(@, "tmp", <<>>)]
          /\ stage' = "copying"
       \/ LET closed == Close(out)
              f == SegPath(out.idx)
          IN /\ out' = [closed EXCEPT !.current = f,
                                      !.disk = Replace(@, f, Read(closed.disk, f))]
             /\ stage' = after
    /\ UNCHANGED <<todo, limit, written, runs, recent, clearedAt, saved>>

\* Inserting an empty file puts the merge's stream into a failed state, and
\* nothing that follows is written.
Merged(disk) ==
    IF "seg0" \in DOMAIN disk /\ disk["seg0"] = <<>> THEN <<>> ELSE Segments(disk)

CompactCopy ==
    /\ stage = "copying"
    /\ out' = [out EXCEPT !.disk = Replace(@, "tmp", Merged(out.disk))]
    /\ stage' = "renaming"
    /\ UNCHANGED <<next, todo, limit, written, runs, recent, clearedAt, saved>>

\* A rename that fails is logged, and the segments are deleted all the same.
CompactRename ==
    /\ stage = "renaming"
    /\ \/ /\ out' = [out EXCEPT
                        !.disk = Replace(Erase(@, "tmp"), "compact", out.disk["tmp"])]
          /\ saved' = (saved \/ Segments(out.disk) # <<>>)
       \/ UNCHANGED <<out, saved>>
    /\ stage' = "remove0"
    /\ UNCHANGED <<next, todo, limit, written, runs, recent, clearedAt>>

CompactRemove ==
    \/ /\ stage = "remove0"
       /\ Deleted("seg0")
       /\ stage' = "remove1"
       /\ UNCHANGED <<next, todo, limit, written, runs, recent, clearedAt, saved>>
    \/ /\ stage = "remove1"
       /\ out' = [Reset(out) EXCEPT !.disk = Erase(@, "seg1")]
       /\ recent' = <<>>
       /\ stage' = next
       /\ UNCHANGED <<next, todo, limit, written, runs, clearedAt, saved>>

-----------------------------------------------------------------------------
(* Truncate: the user resets the terminal and clears it *)

Truncate ==
    /\ stage = "running"
    /\ out' = [Close(out) EXCEPT !.disk = Erase(@, "seg0")]
    /\ stage' = "clear1"
    /\ UNCHANGED <<next, todo, limit, written, runs, recent, clearedAt, saved>>

TruncateOlder ==
    /\ stage = "clear1"
    /\ Deleted("seg1")
    /\ stage' = "clear2"
    /\ UNCHANGED <<next, todo, limit, written, runs, recent, clearedAt, saved>>

Cleared ==
    /\ clearedAt' = written /\ saved' = FALSE
    /\ recent' = <<>>
    /\ stage' = "running"
    /\ UNCHANGED <<next, todo, limit, written, runs>>

\* Mutant: the compact file stays.
TruncateSegmentsOnly ==
    /\ stage = "clear2"
    /\ out' = Reset(out)
    /\ Cleared

TruncateCompact ==
    /\ stage = "clear2"
    /\ out' = [Reset(out) EXCEPT !.disk = Erase(@, "compact")]
    /\ Cleared

-----------------------------------------------------------------------------

NextScrollback ==
    \/ \E n \in Limits : CreateSession(n)
    \/ PrintLine \/ Spill
    \/ LoadSnapshot \/ StartWriter \/ StartLine \/ StartFlush
    \/ Exit \/ ProcessDies
    \/ \E after \in {"running", "closing"} : Compact(after)
    \/ CompactCopy \/ CompactRename \/ CompactRemove
    \/ Truncate \/ TruncateOlder \/ TruncateCompact

ScrollbackSpec == InitScrollback /\ [][NextScrollback]_scrollbackVars

-----------------------------------------------------------------------------
(* Properties *)

Lines == 1..(MaxLines + MaxRuns)

\* The stream is open on a segment file that exists, or not at all, and files
\* hold only lines that have been written (ScrollbackWriter, its files).
ScrollbackTypeOK ==
    /\ DOMAIN out.disk \subseteq Files
    /\ \A f \in DOMAIN out.disk : out.disk[f] \in Seq(Lines)
    /\ out.current \in {"none"} \union (DOMAIN out.disk \intersect {"seg0", "seg1"})
    /\ out.buffer \in Seq(Lines)
    /\ out.idx \in {0, 1} /\ out.count \in Nat
    /\ stage \in {"off", "created", "loaded", "start", "running", "closing",
                  "copying", "renaming", "remove0", "remove1", "clear1", "clear2"}
    /\ next \in {"off", "running", "closing"}
    /\ todo \in Seq(Lines) /\ recent \in Seq(Lines)
    /\ limit \in Limits
    /\ written \in 0..(MaxLines + MaxRuns) /\ runs \in 0..MaxRuns
    /\ clearedAt \in 0..written /\ saved \in BOOLEAN

\* The two segments never hold more than the configured number of lines each,
\* whatever a crash, a failed save or a change of the setting left behind: the
\* line count of the open segment is the count of what is in it
\* (ScrollbackWriter::WriteLine, Start, Compact).
SegmentsBounded ==
    /\ out.current # "none" =>
           /\ out.count = Len(out.disk[out.current]) + Len(out.buffer)
           /\ out.count < limit
    /\ \A f \in {"seg0", "seg1"} :
           \E n \in Limits : Len(Read(out.disk, f)) <= n

\* Rotation forgets nothing too early: as long as the process lives, the last
\* scrollbackSaveLines_ lines since the segments were begun are in them or in
\* the stream's buffer (Rotate truncates only the older segment).
RecentKept ==
    stage \in {"created", "loaded", "start", "running", "closing"} =>
        ToSet(recent) \subseteq ToSet(Segments(out.disk)) \union ToSet(out.buffer)

\* Once the user has cleared the terminal nothing printed before is ever
\* restored, after any crash or save that follows (Truncate).
ClearedStaysCleared ==
    \A f \in DOMAIN out.disk \ {"tmp"} :
        \A line \in ToSet(out.disk[f]) : line > clearedAt

\* The compact file is replaced in one piece: whenever its content changes it
\* becomes all that merging the segments yields, so that a crash leaves no
\* half-written one (Compact's temporary file and rename).
CompactSwapsWhole ==
    [][(/\ "compact" \in DOMAIN out'.disk
        /\ out'.disk["compact"] # Read(out.disk, "compact"))
           => out'.disk["compact"] = Merged(out.disk)]_scrollbackVars

\* JsonScrollbackRepository.h, of the two segments: "{uuid}-0.ndjson - live
\* segment (older, full)", "{uuid}-1.ndjson - live segment (current...)".
OldestFirst ==
    \A i \in 1..Len(Segments(out.disk)) : \A j \in 1..(i - 1) :
        Segments(out.disk)[j] < Segments(out.disk)[i]

\* README.md: "on restore, the saved history is prepended to the new session".
\* Once a save has found lines in the segments there is something to load for
\* as long as nothing is written after it (Compact).
SavedHistoryStays ==
    (saved /\ stage = "running" /\ out.current = "none") => Loaded(out.disk) # <<>>

=============================================================================
