# naTE in TLA+

naTE is a terminal emulator with SSH sessions, an SFTP file explorer, remote
editing and workspaces that survive a restart.  This directory holds TLA+
models of the parts of it whose correctness depends on the order in which
things happen, the TLC configurations that check them on small instances, and
proofs of what matters most for instances of every size.  Paths below are
relative to the repository (`src/fs/...` is `src/src/fs/...` in `PROJECT.json`,
which counts from one directory higher).

Every definition follows the code at the lines `PROJECT.json` names under
"map".  Where the code does something its comments or documentation rule out,
the model does what the code does, and "findings" and section 5 say so.

## 1. The system

| Component | State it keeps | Operations | Who it talks to |
|---|---|---|---|
| `fs/TransferQueue` | jobs, the active job and its handle, the space check, the walk, directories to make, the conflict policy, pause | `Enqueue*`, `Pause`/`Resume`, `CancelJob`/`All`/`JobsUsing`, `ClearFinished`, one handler per answer | file systems (asynchronous calls), the explorer window (prompts), session ends |
| `transport/SftpTaskQueue`, `SshSftpService` | tasks, slots held, cancellation registry, the `cancelling_` latch | `Push`, `RunNext`, `Drain`; one non-blocking step per task kind; `Cancel`, `CancelPending`, `Shutdown` | any thread enqueues, the transport's worker steps, libssh2 underneath |
| `transport/LocalFileSystem` | a queue of copies, their flags, a worker thread | copies; everything else before the call returns | any thread |
| `fs/RemoteEditManager`, `RemoteEditSession`, `SaveAnnouncePolicy` | open edits and their working copies, the upload in flight and the one waiting, the last failure reported | download, watch, upload, announce, stop | a file system, the editor (through the working copy), the explorer window |
| `db/ScrollbackWriter`, `JsonScrollbackRepository` | two segment files, a compact file, the open stream and its line count | `Start`, `OnDocumentChanged`, `Compact`, `Truncate`; `Load`, `Delete` | the document (parser thread), `SessionManager` (UI thread) |
| `session/SessionManager`, `Session` | records of sessions, transports, status, observers | create, restore, reconnect, close, move | transports, scrollback, UI |
| `transport/Ssh-`, `Pty-`, `SerialTransport`, `BastionTunnel`, `SshAuthenticator` | `running_`, a worker thread, descriptors, a bridge thread | connect, the loop, `Stop` and its join | the session, libssh2, sockets |
| `transport/SshPortForwardEngine`, `ui/PortForwardPanel` | adds and removes asked for, forwards and their proxies, the last status told | add, remove, serve, sweep, tear down | the worker's loop, the session, the panel |
| `fs/ExplorerController`, `LinkResolver`, `ui/FileExplorerPane` | path, listing, generations, history, dialogs | bind, navigate, resolve links, write | a file system |
| `fs/RemoteDeleter`, `ExplorerController::Rename` | the plan, the step that is out | walk and delete, check and rename | a file system that others change |
| `document`, `layout`, `ui/TerminalPanel` | lines, cursor, margins; anchor, dirty rows; what is painted | a control sequence each; scroll, paint | listeners, under two locks |
| `ui/TerminalTile`, `TabStrip`, `TerminalGrid`, `UIManager`, `input/InputRouter` | tabs, tiles, drags, the broadcast set, unread marks | open, end, drag, move, select | sessions |
| `app`, `fs/TempArea`, `EditWorkspace`, `RelayWorkspace`, `OwnerLiveness`, restore files | slots and locks of running instances, restore files, temporary directories | claim, restore, save, sweep, purge | other instances, through files only |
| `parser`, `config`, `session/InputEncoder`, forms | an automaton, INI and JSON text | pure functions of their input | everything |

What is hard in it:

* **One thread, many answers.**  The transfer queue, the controllers and the
  edit manager run on the UI thread, but every operation they start comes back
  later, in any order, possibly after the user has cancelled what it was for,
  the session has closed or another job has taken its place.
* **Two threads and a lock given up in between.**  The SFTP queue steps a task
  outside its lock; the main screen is changed under its lock and announced
  after it; enqueues, cancels, paints and ends come between.
* **A join on the thread that serves prompts.**  `Stop` waits for a worker that
  may be waiting for the thread that waits.
* **Notices about what has changed since.**  Ends, output, counts of forwards
  and closes are posted to a window that the session may have left.
* **A file two programs write.**  The editor saves while an upload reads; two
  instances share a directory of locks, restore files and temporary files.
* **Crashes.**  The scrollback files are written while the program runs and
  merged in several steps, and read by the next process.

What makes each part correct is the list of properties in section 3;
`PROJECT.json` lists the hazards line by line, each with the property aimed at
it.

## 2. Modules

| Module | Models | Composes |
|---|---|---|
| `TransferQueue` | `fs/TransferQueue` and, as its environment, the explorer window and the endpoints | |
| `RemoteFileSystem` | the promise of `IRemoteFileSystem`, an abstract specification | |
| `SftpService` | `SshSftpService` and `SftpTaskQueue`, the worker's loop and end | |
| `LocalFileSystem` | the copies of `LocalFileSystem` and their worker | |
| `FileSystems` | either adapter, and the refinement of the port by both | the three above |
| `RemoteEdit` | `RemoteEditManager`, `RemoteEditSession`, `SaveAnnouncePolicy`, with the editor, the transport and the connections around them | |
| `Scrollback` | `ScrollbackWriter`, `Load`, and restore, save, close, clear | |
| `Sessions` | `SessionManager` and `Session`, the life of each worker, windows, notices and prompts | |
| `Transport` | what any transport promises its session, an abstract specification | |
| `Link` | a session's side of its transport, common to all kinds | |
| `PortForwards` | the engine, the session's memory of forwards, the panel | `Link` |
| `SshLink` | `SshTransport`, `SshAuthenticator`, `BastionTunnel` | `PortForwards` |
| `DeviceLink` | `PtyTransport`, `SerialTransport` | `Link` |
| `Links` | a session with whichever transport it has | `SshLink`, `DeviceLink`, `Transport` |
| `Explorer` | one pane, its controller and its link resolver | |
| `FileOperations` | renames and deletions over a tree that others change | |
| `AltScreen` | the alternate screen and the switch to it and back | |
| `Screen` | the main screen, the view onto it, and painting | |
| `Tiles` | tabs, tiles, drags, broadcast, unread marks, the layout | |
| `Instances` | running programs: slots, locks, restore files, temporary files, histories | |
| `...Proofs` | theorems about the module of that name (section 4) | that module |
| `DisplayProofs` | theorems about what is on the display | `AltScreen`, `Tiles` |
| `ExplorerProofs` | theorems about the explorer | `Explorer`, `FileOperations` |
| `StorageProofs` | theorems about what is kept on disk | `Instances`, `Scrollback` |
| `SessionsProofs` | theorems about sessions and their main screens | `Sessions`, `Screen` |
| `MC...` | its instance for TLC | that module |

### TransferQueue

One variable, `q`, a record with a field per member of the class: `state` and
`job` are `jobs_`, `call` is the callback each job is waiting for, `checks` the
space queries and warnings outstanding, `dir`/`toVisit`/`toMake` the walk and
`dirsToCreate_`, `activeId`, `owner`, `handle` and `cancelling` the transfer in
flight.  Each member function is an operator from the queue it finds to the
queue it leaves (`Pump`, `FinishJob`, `OnConflictKnown`, `OnPreflightSpace`,
`CancelBatchFor`...), so a handler's whole chain of calls is one expression and
one step.  That is what the code does: everything runs on the UI thread and
every adapter callback is posted to it (`Dispatcher.h`).  What interleaves is
the order of user actions, answers and session events, and all of them are
allowed at every moment; the real window is modal while a prompt is up, so the
model has more behaviours than the program there, never fewer.

* The three loops over a snapshot of ids (`CancelAll`, `CancelBatchFor`,
  `CancelJobsUsing`) run one iteration per step with everything else held off
  (`loop`, `todo`, `Ready`), so that TLC and the prover see what `FinishJob`'s
  `Pump` does in the middle of one.
* `DropLink` is a connection that fails: later calls on that endpoint are
  accepted and never answered (`"lost"`), which is what `SftpService` shows of
  calls made after the drain.  `EndSession` is `CloseSession`: the endpoint is
  destroyed after `CancelJobsUsing`.
* `fault` records a call through a null pointer or a destroyed endpoint.  The
  process stops there.
* Abstracted: paths, byte counts and progress, the texts of prompts and
  errors, staging files, the forecast's arithmetic (an answer to `QuerySpace`
  is "fits" or "short" freely).  `activeHandle_` is kept as the job it names.

### RemoteFileSystem, SftpService, LocalFileSystem, FileSystems

`RemoteFileSystem` is the contract: an operation asked for is answered once,
"cancelled" only on request or at the end, "gone" only at the end, and once the
session has ended whoever still waits is told.  `lost`, operations asked for
after the drain, is the exception the code makes (section 5).

`SftpService` has the task records, the queue with its slot marks, the worker
thread's place in its loop, the registry of cancellations, and libssh2's state
machines (`wire`: whose request each has out).  `Take`, `Step` and `PutBack`
are `RunNext`'s two locked halves and the step between them.  A task kind is
the sequence of slots it drives (`Program`); a step ends in pending, success or
failure, checks the session and the cancellation first, and goes on into the
close where the code does.  `Stop`, `Latch`, `Drain`, the steps of the drained
tasks and `Shutdown` are the end of the worker.  Abstracted: bytes and entries
(a read or a write is pending any number of times and then done), the init
deadline (a failure at any time), uploads of an empty file, and the worker's
early returns before its loop.  A step reads the stop flag and the registry once.

`LocalFileSystem` has paths that lead to files (`at`), so that two paths may
name one file, what is in each file, and the worker's stages of a copy: the
look at both ends, the open that truncates, the pieces with a look at the flag
between them, the removal of what is half done.  Its other operations complete
before the call returns and have no interleavings.  Nobody else changes the
files meanwhile.

`FileSystems` holds both with a variable `which`, and maps either to the
contract: asked for is a kind or a pair of paths set, told is the callback's
argument, ended is the stop.

### RemoteEdit

One function per member or per fact about an edit, on the set of edits.
`phase` is how far an edit has come: the download, its answer posted, the
session in `sessions_`, ended.  `posted` is the part of the dispatcher's queue
that belongs to an edit, in its order; `HandlePost` runs the head of it and
drops it for an edit that has ended, as the retired guard does.  `inFlight` and
`pending` are `uploadInFlight_` and `pendingUpload_`, `lastReported` the
policy's memory; `uploads` are the uploads asked for and not answered, each
with what it has read.  `told`, the last thing the user heard, is a history
variable.

Files hold the number of the save that wrote them.  `Unread` is an upload that
has not opened the local file yet, `Torn` any mixture: a save in place
truncates the file an upload is reading, a save by rename does not, and an
upload truncates the remote file before it writes it.  `noticed` is the kernel's
queue of events for the watch, which reads all there are at once.

A connection is up, has lost its link (the session is kept for a reconnect, and
what is asked of it stays in a drained queue), or is gone with its transport.
As it ends it answers all it was asked (`AnswerAll`): what it had not begun and
what it was writing as lost, an upload it was closing with the outcome it had.
`SftpService` drops the handle of such an upload and answers Success although no
reply to the close has come (`SshSftpService.cpp:823-826`); the user is told
"saved".  The model keeps that success apart as `"unclosed"`, which the code
cannot, and the remote file then holds what was sent or not.
`EndSession` is `CloseSession` with `StopEditsForFilesystem` in it; `Reconnect`
is `ReplaceConnection`, which destroys one port and makes another.  A call on a
port that is gone is undefined; the model gives it the mildest outcome, no
answer, and no passing property depends on it.  Abstracted: each edit is of a
remote file of its own; file modes and paths; an editor that never closes the
file; the refresh of panes after a save; `~RemoteEditManager`.

### Scrollback

`out` is the stream and the disk; lines are numbered as they are written.
Every file operation a crash can separate from the next one is a step.
`Spill` lets the stream write part of its buffer early, so a crash leaves any
prefix.  `PrintLine` is the parser thread's line, excluded by `writerMutex_`
while `Start`, `Compact` or `Truncate` runs, possible before `RestoreScrollback`
and between a close's `Compact` and its `Stop`, as in the code.  `Merged` keeps
one conversion as it is: `out << in.rdbuf()` of an empty file sets `failbit`
and the rest of the merge writes nothing.  Abstracted: which document line is
written and its text, a torn last line (`Load` skips it), other I/O failures
than the temporary file's open and the rename, a line limit of 0.

### Sessions

`life` is a session's record: made (its transport started, nobody observing),
open, being closed, gone.  `worker`, `running`, `link` and `status` are its
transport's thread and what it shares; `observer`, `router` and `win` the
pointers through which windows and sessions know each other; `posted` what each
window's `CallAfter` has queued, `closing` the sessions that the handler at hand
closes one after another.  `Free` says that the interface thread is between
handlers: the user and the posted notices act then, the workers always.  A
dialog's nested loop runs posted notices but not the user.  `CloseSession` is
two steps with the join between them; a move (`DropSession`), a reconnect and
the rest are a step each.  The load of the observer and the post are one step.
`missed` holds the sessions whose end nobody was told of, for the three reasons
the code has.  Abstracted: broadcast's mode, X11, bell, title and alternate
screen notices, the loopback transport, an open that throws; closing everything
at the end of the program is closing window by window.  Bounds: `Movable`, one
tab's close and one emptied window on their way at a time.

### Transport, Link, PortForwards, SshLink, DeviceLink, Links

`Transport` is the promise: a worker says its end once and nothing after it,
and ends without a word only when it was asked to.  `Link` has the session's
side, `SshLink` the stages of an SSH connection with those that look at
`running_` (`Polled`), the jump host's thread and its pair of sockets, the
prompt, and the loop; `DeviceLink` the reader of a descriptor that `Stop` closes
under it, and the dial script.  `PortForwards` follows a forward from the dialog
through `pending`, the batch, the engine and the sweep, and its status back
through the session and the posted snapshot to the rows; the session keeps
`descs` across reconnects and submits them again.  Abstracted: bytes, the write
queue, resizes, the capture of the working directory, X11 and agent channels
past their opening (one stage), `known_hosts` (an outcome).  `TakeLeave` is the
orderly leave of a line that is up (`SshTransport.cpp:257-297`): calls that block
without a timeout, which the server is taken to answer as long as the line lives.
Behind a live line a server process that hangs would hold it, and the join with
it; no part of the code limits that.  A callback into a
dialog that was destroyed is given no effect.  The session is the active tab of
one tile.

### Explorer, FileOperations

`Explorer` has one record for the pane, its controller (`path`, `entries`,
`gen`, `history`, `want`) and the calls out; a controller that is destroyed takes
its calls with it, as its guard does.  `OnResolved`, `OnListed` and `OnBatch`
are the answers, each with the generation it was asked under.  Machines whose
session ends answer no more.  The history's buttons are disabled while a pane
loads, its keys (Alt and an arrow) are not, so `Navigate` looks at the loading
flag for none of the history's moves.  Sorting, filters, hidden files and the free space
are left out; links are looked up one at a time, which is one of the orders
`LinkResolver` allows.  `Rebuild` gives each name the number of its row, one
more than how many are above it; `todo` is the set of links still to look up,
taken in the listing's order (`First`).

`FileOperations` has the tree as a function of entries, a listing on screen as
old as the last reload, and one rename and one deletion that may run together,
a call at a time.  `machine` tells a server from this machine, whose `Rename`
looks again.  A call names its file by a path and the machine follows the path when it
gets the call (`Trail`, `EntryOf`, `Directory`), through whatever links there are
by then: a plan holds paths, and so does a rename.  Others make files and links,
replace one by another, and take files, links and empty directories away or put
something else in the place of an empty one; a rename may put a link there too.
What they do not do is make or move a directory, and one they empty first takes
them several changes.  A directory is in one other at most.  `Exists` is whether
one is still there, so that nothing is put where it would have no directory and
a link to one that is gone dangles.  A plan is the set of its steps, each with
the row it belongs to and its depth; `NextToWalk` and `NextToRemove` keep the
order of rows and depths and leave the order within one depth open.  `since` are
the entries that have changed since the look, or since the deletion was chosen,
and `was` what the listing that a step was planned from called it (history).

### AltScreen, Screen

`docMutex_` is held for a whole operation of the alternate screen, so each is a
step: `AltScreen` has the grid with cursor, margins, saved cursor and pending
wrap, the sizes of the layout, of the session's view and of the remote's
terminal, the width the main document remembers, and how often the scrollback writer is registered with
each.  The panel resizes the layout at once and tells the session only when it has
been still for 80 ms (`OnSize`, `OnResizeTimer`, `resize`): in between the program
may switch to the alternate screen, whose grid then has the size the session was
told last.  A session moved to another tile gets a new panel, which sets the
layout and owes the session a size as well (`SetDocLayout`).  A line is how many
cells it has.

The main screen changes under `linesMutex_` and announces after releasing it.
An operation of `Screen` is therefore stages, each a change and what is
announced of it (`notes`), and the interface scrolls, looks at the cursor and
paints between any two.  `layout` is `DocLayout`'s anchor, following and dirty
rows; `pendingRefresh`, `timer` and `damage` the way of a row to the screen;
`painted` what is seen, a row being a line's text from a column on, as wide as the
view.  Where lines do not wrap the view moves sideways with the cursor, unless the
user has moved it (`left`, `clamped`); `slid` records that an update did, because
that marks only its own line (section 5).  `marginRight` is 8 in the code and 1 in
the run, whose view is 2 columns wide.  Left out: a resize of the view and a change
of wrapping, selections.  The eased move back to the cursor is one step, and the
widest visible line, which the code caches until the top of the view moves, is
taken as up to date.  Every operation runs in every state in which what it does is
defined: those that read the cursor's line need it to be one (`HasLine`), those
that address the canvas that it does not start past the lines' end (`HasCanvas`),
and a restored cursor a line to be on (`HasSaved`); section 5 names how each can
fail.  A key is one step.  `reading` is the line a user has scrolled back to, given
up when a new line is made above the last one or when the user scrolls between a
change and its announcement.

### Tiles, Instances

`Tiles` works on one record `desk` (grids, tiles, tab entries, routers) with an
operator per method and an action per handler, as `TransferQueue` does.
Between the press of a button, the drag and the drop, and between a menu and
what it posts, other handlers run.  Geometry is kept as sizes in cells and the
halves of a tile that a drop falls on.  There are no modal dialogs in it, menus'
posts are handled before the user acts again, and an emptied window closes
unless it is the last.

`Instances` has processes with numbers that are used again, locks and restore
files per slot, temporary files marked with the number of the process that
made them and (history) whether that one is alive.  A session is the
identifier of its history; output reaches a history at once; a sweep over both
workspaces is one, and the purge and `FindOrphaned` are a step each.  A claim of a
slot is its three system calls, the look at the lock, the open that empties it and
the write, and any launch may come between (`App.cpp:55-71`): two can take one slot.
`raced` records the slots of which two were between look and write at once, for as
long as one of those that took it lives.  `Quit` saves and closes all windows as
one step, since no file is touched between.

## 3. Runs

| Run | Asks | Instance |
|---|---|---|
| `transfer_queue` | Is the queue ever stuck (`NeverStalled`), are checks single (`OneCheckOut`), does anything start unweighed (`WeighedBeforeStart`), does a cancel leave something behind (`CancelLeavesNothing`), are jobs in flight awaited (`InFlightIsAwaited`), does a closed session take its own (`SessionTakesItsJobs`)? | 2 jobs and a tree copied across two servers, one of which drops and closes, through a relay area |
| `file_systems` | Do both adapters keep the port's contract (`Contract`); is success true (`SuccessMeansDone`); are small operations answered beside endless ones (`SmallOperationsAnswered`); does a copy keep its source (`CopyKeepsItsSource`)? | every pair of kinds on a server; 2 copies over a file with two names, another and a new one |
| `remote_edit` | Is a save lost that no failure and no doubtful success spoke of (`SilenceMeansSaved`), is every save on a live connection answered (`SavesAreAnswered`), what does an ended edit leave (`EndedIsOver`)? | 2 edits, 3 saves of one, 2 connections, 2 kinds of failure |
| `scrollback` | Are recent lines kept (`RecentKept`), does cleared output stay cleared (`ClearedStaysCleared`)? | 5 lines, 3 process runs, limits 2 and 3 |
| `sessions` | Is a notice about the connection there is (`NoticeIsAboutTheLink`), do the pointers agree (`PointersAgree`), is every end heard (`EndsAreHeard`)? | 2 sessions, 2 windows, 2 connections each |
| `links` | Does the engine have what the session means (`EngineFollowsSession`), the panel the latest (`PanelHasLatest`); does every transport keep its promise (`LinkContract`); does a stop return (`StopReturns`) and a loss get noticed (`LossNoticed`)? | ssh directly and through a jump host, pty, serial; a forward |
| `explorer` | Does a pane rest where it was sent (`RestsWhereAsked`), lead links where they lead (`DoorsLeadSomewhere`), stop loading (`LoadingEnds`)? | 2 directories, 2 names, 3 navigations, a rebind, a write |
| `file_operations` | Does a rename cost a file (`NothingReplaced`), a deletion go through a link (`LinksAreNotWalked`), does success leave something (`DoneMeansGone`)? | 4 directories of 3 names, 2 operations, 1 change by others, depth 2 |
| `alt_screen` | Is the grid the view once the session knows it (`GridFillsView`), does scrolling keep to the margins (`MarginsHold`)? | views of 3x1 and 2x3 |
| `screen` | Does every painted row show its line (`ShownIsCurrent`), does a scrolled-back view stay (`ReadingStays`)? | 2x2 view, 3 operations, 1 look of the user |
| `tiles` | Do keys go where the colours say (`InputIsShown`), are unread marks kept (`UnreadIsKept`), tabs in place (`TabsKeepTheirPlace`), the window's size its layout's (`FitIsLayout`)? | 3 sessions, 2 windows |
| `instances` | Do live programs share a slot they did not race for (`SlotsAreOwned`) or a mark (`NumbersAreClean`), does a sweep hit the living (`SweepsSpareTheLiving`)? | 2 process numbers, 2 slots, a history, a workspace |

All hold.  Every property has a mutant in `PROJECT.json`: a bug one could write
in that code, under which the same run fails.

### Further configurations

| Configuration | Shows |
|---|---|
| `MCTransferQueueSessions.cfg` | over three routes, with and without a relay area, that a closing session spares the jobs that do not use it; `QueuedIsAddressed` |
| `MCFileSystemsReplies.cfg` | "Slots make that impossible" (`SftpTaskQueue.h:23`) violated by two stats |
| `MCRemoteEditSilent.cfg` | a save after the link was lost is not heard of again (`NoSilentLoss` violated) |
| `MCScrollbackSaved.cfg` | a save that loses the history (`SavedHistoryStays` violated); with `MaxLines = 5`, `OldestFirst` too |
| `MCScreenWrapped.cfg` | rows left stale where lines wrap (`WrappedIsCurrent` violated) |
| `MCInstancesLost.cfg` | a restore that deletes what it has just saved (`OpenIsSaved` violated) |

Put in the place of the listed properties, these fail too, each as its comment
says: `OneAtATime` and `NoCallOnDeadEndpoint` in `MCTransferQueue.cfg`;
`DialFailureStops`, `SilenceNoticed` and `StopAlwaysReturns` in `MCLinks.cfg`;
`AddingAdds` and `FocusStays` in `MCTiles.cfg`; `SavedOnce` in
`MCAltScreen.cfg`; `NoColumnIsStale` in `MCScreen.cfg`.  These hold: `OneWalk`,
`QueuedIsAddressed`, `OneUpload`, `CopiesAreOwned`, `SegmentsBounded`, `CompactSwapsWhole`, `NothingLeftBehind`,
`WrapsAtMargin`, `FollowsOutput`, `AddsSettle`, `JoinEnds` (under `FairSpec`),
`CallsHaveAMachine`, and every module's `TypeOK`.

### Bounds, and why they are enough

Two jobs are what every interference found or excluded in the queue needs: one
that is cancelled, finished or closed, and one that takes its place; the tree
exercises the walk and the making of directories beside the check.  Listings of
several files differ from a listing of one only in the number of jobs.
`MaxRenameAttempts` and `MaxSpaceProbes` are 1, so both the retry and its
exhaustion happen; the proofs cover other values.  Two operations of every pair
that shares a slot are what it takes for the SFTP queue to mix them up or starve
one.  Three saves of one edit are an upload in flight with one coalesced behind
it, and also a failure, a save that lands and the same failure again, which is
what re-arming is about.  Limits of 2 and 3 lines with 5 lines let segments
rotate twice and a restart with another limit find longer segments than it would
write; three runs allow a crash, a restore and a crash of that.  Two windows and
two sessions are a move with a notice left behind and a window that empties; a
second connection is the reconnect that a stale notice would hit.  A forward is
added, removed and re-submitted across a reconnect; `MaxRequests` and `MaxPosts`
let one request or snapshot wait behind another.  Three navigations are one that
is superseded, one that supersedes it and one back.  Two levels of directories
reach the depth limit of 2 and a link at each.  Views of three rows and of three
columns are the smallest with something outside a region that scrolls and
something beside a wide character.  Two process numbers are the fewest with a
live and a dead owner, and make reuse frequent.  In `instances` two launches may
race for either slot, and states that differ in the histories on disk alone count
as one (`VIEW Seen`), since no guard and no property of that run reads them.  Three sessions are two tabs of
a tile and one elsewhere, two of them alike.

`CHECK_DEADLOCK FALSE` is set where the bounds run out, the worker or the
session has ended, or the process has crashed: there the system may stop.  That
it does not stop with work to do is what `NeverStalled`,
`SmallOperationsAnswered`, `SavesAreAnswered`, `StopReturns`, `LossNoticed` and
`LoadingEnds` say.

### What the properties grant

A property is worth as much as its exceptions.  Those that are not plain from its
formula:

* `WeighedBeforeStart` asks for a verdict that covers the job, not for room on the
  disk at the time.  `InFlightIsAwaited` counts a call that a dropped link has lost
  as one that was made: that nobody will answer it is the finding on
  `SshSftpService.cpp:865`, and `Contract` exempts it too (`lost`).
* `SuccessMeansDone` excuses an upload that was closing when the session stopped,
  and `SilenceMeansSaved` a user who was told "saved" of it (`"unclosed"`).
* `NothingReplaced` protects what was at the destination when it was checked; what
  comes between the check and the move is in `since`, and is replaced.
* `LinksAreNotWalked` grants what is behind a link that came where the listing showed
  a directory (`Swapped`); `DoneMeansGone` what was changed since.
* `GridFillsView` says nothing between a resize and the end of its 80 ms.
* `ShownIsCurrent` holds the column of a row to the view's only while no update has
  moved the view sideways (`slid`); `ReadingStays` gives up after a new line above
  the last one and after a scroll between a change and its announcement.
* `SlotsAreOwned` grants a shared slot to those that raced for it (`raced`).
* `PanelHasLatest` speaks of a forward once a snapshot has named it; an emptied one,
  and the time after a reconnect, are not covered.
* `FitIsLayout` bounds the rows from above only.
* `RestsWhereAsked` gives up on a path that was typed and not yet resolved (`Raw`).
  `MCExplorer.cfg` has one machine and one bind, and three navigations are too few
  for a move of the history while a pane loads: that answers of another machine and
  such moves do no harm rests on the theorem alone.
* `StopReturns` excuses a prompt that is posted and a jump host that is silent (both
  findings), and counts on the server to answer an orderly leave on a live line.

### Fairness

In `file_systems` the workers' actions are weakly fair: the loop services the
queue on each turn and nothing blocks it.  Every wait but the reading and
writing of bytes is strongly fair in its success or failure: the server answers
in the end (the code has no timeout except at init).  `Read` and `Write` are
left without, so the property says a listing is answered beside a transfer that
never ends.

In `remote_edit` the watch thread's `read`, the owning thread's queue and the
transport of a live connection are weakly fair: the first blocks in `poll` only
while there is nothing to read, the second is an event loop, and the third is
the worker above with a server that answers.  The user, the editor, losing a
link, reconnecting and closing are not fair.

In `links` threads run and posted notices are handled (weak), and the loop's
look for the end of its connection is strongly fair because it comes once in
every turn beside whatever else the turn finds to do; the kernel probes a
connection that has gone silent, which `SO_KEEPALIVE` is set for on direct
connections only.  Neither the user nor the remote shell owes anything.

In `explorer` a machine that is up answers `RealPath` and `List` (weak); the
answers are `file_systems`' `SmallOperationsAnswered`.  The other runs assume
none.

## 4. Proofs

Each theorem is `Spec => [](...)` for every value of the constants that the
module's assumption allows.

`TransferQueueProofs` (`QueueAssumption`: any endpoints, routes and bounds):

| Theorem | States |
|---|---|
| `AlwaysGood` | `Spec => []Inv`, the inductive invariant |
| `TypeCorrect` | the record stays well-formed (`TypeOK`) |
| `QueuedJobsAddressed` | a queued job names both endpoints (`QueuedIsAddressed`) |
| `WeighedFirst` | nothing reaches an endpoint before a verdict (`WeighedBeforeStart`) |
| `SingleCheck` | one query or warning while checking, none otherwise (`OneCheckOut`) |

`Inv` is `Good(q)`, a predicate on a queue value, so that each operator has one
lemma: from a good queue (with what the caller knows) it leaves a good queue.
The lemmas follow the call graph upwards, from `Issue` and `Pump` over
`FinishJob` and the handlers to the actions, and `NextGood` has a case per
action.  `WeighedBeforeStart` is not inductive by itself.  A late callback of a
cancelled job may start it again, so `Weighed` says that a job somebody may
still wake has been weighed as well; a job that starts from the queue is
weighed because `Pump` passes only when nothing queued is unchecked; `Fresh`
keeps that true of ids not given out, and `CheckCount` says that nothing is
weighed before the first check and that checks and `preflight` agree, also in
the middle of a declined warning's loop, where `preflight` is still
`"Checking"` with its answer already consumed.

`RemoteEditProofs` (`EditAssumption`: any edits, connections, errors, numbers
of saves):

| Theorem | States |
|---|---|
| `EveryEditGood` | `Spec => []Inv`, the inductive invariant |
| `EditsTyped` | everything has its type, only open edits are watched (`TypeOK`) |
| `OneUploadAtATime` | uploads of one file do not overlap (`OneUpload`) |
| `SilenceIsTrue` | at rest, and neither failure nor unconfirmed success heard of last, means saved (`SilenceMeansSaved`) |
| `EveryCopyOwned` | a working copy lives as long as its owner (`CopiesAreOwned`) |
| `AnEndedEditIsOver` | an ended edit starts and says nothing (`EndedIsOver`) |

`Inv` is `Good(d)` for every edit `d`, in five parts, none inductive without the
others.  `Single`: one upload or one answer is out, and `inFlight` marks it.
`Awaited`: what is pending waits for an upload in flight, and an upload in
flight for an answer.  `Early`: an edit not open has nothing to save.
`Remembers`: the policy remembers a failure exactly while it is the last thing
the user heard, which is what lets it keep quiet about the next one.
`Followed`: the last save is on its way (being written, noticed, posted,
pending, or in an upload that will read it or has read it), has arrived, or is
owned up to by a failure or an unconfirmed success that is posted or told.  There
is one lemma per group of actions; an upload that lands is the case that needs all
five, and the end of a connection, which answers many edits at once, is the one
where silence could be false: `AnswerAll` leaves no upload without an answer, and
every answer it gives is one that owns up.

`DisplayProofs`, its first part (`AltScreenAssumption`: views of any sizes,
sequences with any parameters):

| Theorem | States |
|---|---|
| `AlwaysTypeOK` | cursor, region and saved cursor stay inside the grid |
| `AlwaysFillsView` | while on, the grid has the layout's size once the session has been told of it (`GridFillsView`) |
| `AlwaysWrapsAtMargin` | a wrap is pending only at the right margin (`WrapsAtMargin`) |
| `AlwaysMarginsHold` | scrolling changes no row outside the region (`MarginsHold`) |

The invariant is `TypeOK`, `WrapsAtMargin` and the two halves of `GridFillsView`
that hold while a resize is still to be told: the grid has the size the session has
for the view (`GridIsViews`), and that is the layout's once it has been told
(`ViewIsPanels`).  The work is in the
lemmas on rows taken out and put in (`Removed`, `Inserted`): which row of the
result is which row of the grid, for any region.  They are what keeps the number
of rows right under counts larger than the region, and what `MarginsHold` is.

Its second part (`TilesAssumption`: any windows, and no fewer tiles than sessions,
so that a new tile is to be had):

| Theorem | States |
|---|---|
| `TilesInvariant` | `TilesSpec => []TilesInv`, the inductive invariant |
| `TilesTypes` | types; a tile of a window has tabs, a session one tab (`TilesTypeOK`) |
| `TilesInputIsShown` | keys go where the colours say (`InputIsShown`) |
| `TilesUnreadIsKept` | unread output is marked, or will be (`UnreadIsKept`) |
| `TilesTabsKeepTheirPlace` | tabs stay where they were, the shown one shown (`TabsKeepTheirPlace`) |
| `TilesFitIsLayout` | a window of the size computed has its tiles as computed (`FitIsLayout`) |

`Sound` says of a desk that a session has one tab and a tile one window (`Apart`),
that a placed tile shows one of its tabs (`Standing`), and that nothing shown is
`fresh` (`Hidden`).  `Lit` says of a window that its tabs and tiles look as its
router is (`Painted`) and that focus, active session, active tile and shown tab
agree (`Keyed`); `InputIsShown` follows from it.  A handler is a chain of calls
within which `Lit` fails: a moved session is still chosen by the router of a
window it has left, and a window in the middle of a move within it has neither
focus nor tile.  So each method has a lemma that says what it does to one window
(`...Does`), and that it `Leaves` the others alone; `LeavingDoes` and
`MoveSessionDoes` put them together and have `Lit` again.  A drop of several
sessions is an induction over them (`CountUp`, from the library's facts on
well-founded relations): `Between` adds that the tile made for the first is still
in its window and holds none of those to come, which is why emptying another tile
does not take it away, and needs that no session is dragged twice.  `DroppingIs`
shows that the function over the sessions exists.  `Keeps` is what carries
`UnreadIsKept` through any chain: whatever is unmarked afterwards was so before,
in the same window.  `TabsKeepTheirPlace` is a matter of lists, and most of it is
`RotatedDoes`: where `std::rotate` puts each tab (`Lands`).

`FitIsLayout` asks nothing of the windows but types, and much of the arithmetic.
For columns (`SameInLess`): with less room a layout goes on as with more until a
tile would wrap that did not, and such a tile ends within the longest line, which
is what there is room for.  For rows (`NoMoreRows`): after each tile the line is at
most the number of its group in `LinearPartition`, and if it is that number, what
stands on it is of the group and fits; a line can fall behind the groups, taking
tiles of the next group on, but not run ahead of them.  It uses that the groups
follow one another, none empty, to the end (`PartitionIs`: the cut that `dp`'s
minimum comes from exists at every turn), that each fits the width
(`IdealWidthIs`), and that there are at most as many rows as tiles
(`GridRowsIs`).  That the widest group is as small as may be is not needed for it
and not proved.  Recursive functions are shown to exist by `Iterated`, the least
and the greatest of a set by `LeastOf` and `GreatestOf`.

`StorageProofs`, its first part (`InstancesAssumption`: any numbers, slots,
sessions and launches at once):

| Theorem | States |
|---|---|
| `InstancesTyped` | types, and what a dead instance knew is gone |
| `SlotsOwned` | a lock names the live program that holds its slot, unless several raced for it (`SlotsAreOwned`) |
| `NumbersClean` | nothing of a dead namesake is under a live number (`NumbersAreClean`) |
| `LivingSpared` | no sweep removes a live program's file (`SweepsSpareTheLiving`) |

This invariant adds where in its start a program is: before its sweep it has made
no file, during it all its dead namesakes' files are among those found, after it
there are none (`LitterGood`); while a slot is being claimed it is nobody's
(`StillFree`) unless it is raced for, which it is as soon as two claim it
(`OneClaims`).  A race must neither spread to a slot nobody raced for nor be
forgotten while one of its winners lives: `StaysRaced`, `RivalsRace`, and `Respects`
for the steps that touch no lock.

`StorageProofs`, its second part (`ScrollbackAssumption`: any limits of at least
one line, any number of lines and of runs):

| Theorem | States |
|---|---|
| `ScrollbackInvariant` | `ScrollbackSpec => []ScrollbackInv`, the inductive invariant |
| `ScrollbackTypes` | types (`ScrollbackTypeOK`) |
| `ScrollbackRecentKept` | the last lines are in the segments or the buffer (`RecentKept`) |
| `ScrollbackClearedStaysCleared` | no cleared line can be restored (`ClearedStaysCleared`) |
| `ScrollbackSegmentsBounded` | no segment outgrows a configured limit (`SegmentsBounded`) |
| `ScrollbackSwapsWhole` | the compact file changes in one piece (`CompactSwapsWhole`) |

Everything is said of `Held(out, f)`, what file `f` comes to once the buffer has
been written out: flushing, closing, spilling and opening again do not change
it, so each operator of the stream has one lemma of what is held afterwards
(`FlushHolds` to `WriteLineHolds`).  `RecentKept` is not inductive: which lines
a rotation may drop depends on where they are.  `RecentHeld` says that the last
`out.count` of them are in the open segment and those before in the other one;
when the count reaches the limit all of them are in the segment just filled.
`SegmentsCounted` keeps that count equal to what the open segment holds, also
when a merge finds no room and opens it again, which is why a running session
with no stream open has empty segments.  `ClearedGone` speaks of the lines a
restore has read but not yet written back as well as of the files, and of every
file but the temporary one: `StagesAgree` says what that holds when it is
renamed, and which files a merge or a clear has removed so far.

`TransferQueueProofs`, its second part (`QueueAssumption`):

| Theorem | States |
|---|---|
| `AlwaysFlows` | `Spec => [](Inv /\ Flows(q))`, the second inductive invariant |
| `InFlightAwaited` | a job in flight waits for a callback that moves it on (`InFlightIsAwaited`) |
| `NeverStalls` | with work and no pause, something will pump (`NeverStalled`) |
| `CancelsLeaveNothing` | a cancel leaves nothing of what it was about (`CancelLeavesNothing`) |
| `OneWalkAtATime` | a walk has one listing out (`OneWalk`) |
| `SessionsTakeTheirJobs` | a closing session retires its own jobs and no other (`SessionTakesItsJobs`) |

`Flows` has four parts, all of them true between the turns of a loop as well,
because the next job is started there.  `Awaited`: every job in flight has a
callback out, except the one whose answer is being handled.  `Walk`: the listing
of a walk is out, or was asked of a machine whose link has dropped, never both,
since one that comes must be the only one.  `Alert`: a queue with work has
something out that pumps when it is answered.  `Swept`: the jobs a loop has come
past are gone or told to stop, so those it was about and has not reached are
exactly those in `todo`; that is what the cancels and the closing session leave
when the loop ends.  Again there is one lemma per operator, up the call graph.

`SessionsProofs`, its first part (`SessionsAssumption`: any sessions, windows and
connections):

| Theorem | States |
|---|---|
| `SessionsGood` | `Spec => []IInv`, the inductive invariant |
| `SessionsTypes` | types, and who closes whom (`TypeOK`) |
| `NoticesAreAboutTheLink` | a notice of an end is about the connection there is (`NoticeIsAboutTheLink`) |
| `PointersAlwaysAgree` | observer, router, window and keys agree (`PointersAgree`) |
| `EndsAreAlwaysHeard` | an open session's end is shown or on its way, or missed for a known reason (`EndsAreHeard`) |

`IInv` is `Typed` and five parts.  `Lived` says what a session has at each point
of its life, and that a thread is told to stop only by the close, which is why
an end that nobody asked for is never taken for one that somebody did.  `Agreed`
adds to the pointers that a window on its way out holds only what the handler at
hand will close.  `Noticed` and `Prompted` say of each notice posted what the
worker's state explains: at most one end per session anywhere, about its present
connection, from a worker that is done; a prompt only from one that waits for
it.  `Heard` is the property with the notices in it.  A reconnect makes a new
connection only when the old worker is joined and its notice has been read: that
is where all five are needed.

`SessionsProofs`, its second part (`ScreenAssumption`: any widths, heights, limits
and parameters of controls):

| Theorem | States |
|---|---|
| `ScreenInvariant` | `ScreenSpec => []ScreenInv`, the inductive invariant |
| `ScreenReadingStays` | the line being read stays at the top (`ReadingStays`) |
| `ScreenShownIsCurrent` | every row of a screen at rest shows its line, at the view's column but for `slid` (`ShownIsCurrent`) |

The argument is in two halves that meet in what a stage announces.  Of the
document: every operation is a `GoodOperation`, that is each of its stages leaves
the cursor on a line there is or on the one after the last, announces a line that
comes or goes by one note of its own (`MovesAsTold`), and announces updates alone
only of a change in place and then of every line whose text or cursor differs
(`TellsAll`).  There is a lemma for each operation (`AppendRunIsGood` to
`EraseInDisplayIsGood`); what is assumed of it is what `Screen` asks of the state
that it runs in (`HasLine`).  Of the view: a note either marks all rows, or
marks those of its line and leaves the top where it is (`Marked`); a view that
does not follow goes with the line at its top (`ViewStays`).  `PaintedOrOwed` is
then inductive: a row shows its line as it is, from the column it was painted
at, which is the view's unless `slid`, or it is damaged, or marked, or what is
still to be announced will mark it.
`ShownIsCurrent` follows with `MarksAreSeen`, since what is marked has a refresh
or a frame on its way.  Only where lines do not wrap is a row of the view a matter
of the number of lines alone (`RowsAreLines`), which is where the proof breaks for
wrapped lines and where `WrappedIsCurrent` does.  `ReadingKept` says where the one
note under way will leave the view; it holds wrapped or not.

`FileSystemsProofs` (`ServiceAssumption`, `LocalAssumption`: any operations of
any kinds, copies, paths, files and sizes):

| Theorem | States |
|---|---|
| `SftpKeepsContract` | `SftpService` implements `RemoteFileSystem`'s `Safety` |
| `ContractIsKept` | so does either adapter, as `FileSystems` maps them |
| `SuccessIsDone` | a success is true (`SuccessMeansDone`) |
| `SourcesAreKept` | a copy keeps its source (`CopyKeepsItsSource`) |
| `AnsweredIsForgotten` | registry and slot marks hold only what is in hand (`NothingLeftBehind`) |
| `FileSystemsTyped` | types (`BothTypeOK`) |

`ContractIsKept` is a refinement: the initial states map to the port's, and each
step maps to `Ask`, `Tell`, `Cancel`, `End` or none of them.  For the service the
invariant says where a task is (`Placed`: in the queue, in the worker's hands or
drained, once, exactly while it is asked for and not answered), that the loop's
end, the latch and the drain come in their order (`Ended`), and that what a task
is going to answer once its handle is closed is true already (`Due`): "cancelled"
only if its cancellation is noted, "gone" only if the session has ended, "ok"
only with the handle still open, so that a success has the confirmed close in
front of it.  Every step of a task is then either `Tells` or `Yields`, whatever
its program; in a drain it can only tell, because the latch is set before it.
`Lost` is shown to be what was pushed onto the drained queue, and nothing else.
For the copies it says that a copy is queued once or at work (`Queued`), that
paths keep leading to the files they led to, and that a destination is another
file than its source and holds a prefix of it (`Disk`).  What `Contract` says
beyond `Safety`, that whoever waits at the end is told, is liveness and checked
by TLC.

`LinksProofs` (`PortForwardsAssumption`, `SshLinkAssumption`,
`DeviceAssumption`: any profiles, numbers of forwards and connections, and
bounds):

| Theorem | States |
|---|---|
| `LinksKeepContract` | SSH, shell and serial transports implement `Transport` (`LinkContract`) |
| `EngineFollows` | the engine has, or will, what the session means to have (`EngineFollowsSession`) |
| `PanelIsUpToDate` | the panel has, or will, the worker's last word (`PanelHasLatest`) |
| `LastWordIsTrue` | that word is the truth between two batches (`StatusIsCurrent`) |
| `LinksGood` | `Spec => []IInv`, the inductive invariant |
| `LinksTyped` | types (`TypeOK`) |

The system has three transports and many actions, but few ways of changing what
a proof is about.  So `NextLinkStep` sorts every step of the system into a few
kinds by what it does to the link (`LinkStep`: starts, advances, fails, leaves,
ends, a stop, ...), and `NextPfStep` by what it does to the forwards
(`PfStep`); one lemma per conjunct of the invariant then has one case per kind.
`LinksKeepContract` is a refinement: each `LinkStep` is a step of `Transport` or
none.  It needs `StoppedIsAsked`, that nothing working finds `running_` taken
back, and nothing means to say "Deliberate", unless `Stop` was called, and
`ReplacedIsOver`, that only a connection whose end has been heard is replaced.
`EngineFollows` counts on `After(rs, held)`, what the requests `rs` come to: in
it the last request about a forward decides, so that serving the first one
(`AfterHead`) and queueing another (`AfterAppend`) keep `Follows`.  A reconnect
asks for all of `descs` at once, which comes to exactly those because no number
is in `descs` twice (`AfterAdds`, `RemoveOne`).  `StatusIsCurrent` fails in the
middle of a batch, so `Current` says that `changed` is then owed a notice;
`Passed` and `Bounded` follow the word through the posted snapshots.

`ExplorerProofs` (`ExplorerAssumption`: any machines, directories, names, links
and order of names):

| Theorem | States |
|---|---|
| `ExplorerInvariant` | `Spec => []ExplorerInv`, the inductive invariant |
| `ExplorerTypes` | types, the row and the history's position in range (`TypeOK`) |
| `ExplorerRestsWhereAsked` | a pane at rest shows what was asked for last (`RestsWhereAsked`) |
| `ExplorerDoorsLeadSomewhere` | only what leads to a directory is a door (`DoorsLeadSomewhere`) |
| `ExplorerCallsHaveAMachine` | nothing is out to a machine whose session has ended (`CallsHaveAMachine`) |

A pane may have any number of calls out, most of them overtaken.  `Fits` says
what each still means: it was asked under the present generation or an earlier
one, and one of the present generation is of a pane that is loading (`List`,
`RealPath`) and will put the history where `want` is (`Wanted`, `Aims`), or is
about the links of the listing shown and carries only links that lead somewhere.
`OneCurrent` says that one navigation at most is of the present generation.
Without it the first of two answers would end the loading that the second counts
on, and `Fits` would be lost: that is why the invariant speaks of calls in pairs.
A new generation makes every older call harmless at once (`BeginKeeps`), an
answer of the present one ends the loading and takes the only such call with it
(`ArriveKeeps`), and a batch of links is superseded by the next turn before its
listing can change (`ResolveKeeps`, `OnLookedUpKeeps`).  That a selected row is a
row needs the numbers of the rows to be 1 to their count (`RowsOfTheListing`),
and `First` a least place: `LeastNumber`, from the library's facts on
well-founded relations.

Also in `ExplorerProofs` (`FileOperationsAssumption`: any tree, names and depth):

| Theorem | States |
|---|---|
| `FilesInvariant` | `FilesSpec => []FilesInv`, the inductive invariant |
| `FilesTypes` | types (`FilesTypeOK`) |
| `FilesNothingReplaced` | no rename costs a file (`NothingReplaced`) |
| `FilesLinksAreNotWalked` | a deletion stays in what was chosen and in what has taken its place (`LinksAreNotWalked`) |
| `FilesDoneMeansGone` | and reports success only when it is gone (`DoneMeansGone`) |

`TreeInv` is what may be relied on while others work on the tree: no directory
is made or moved, so that one that is left, or shown by an old listing, is the
one there was at first.  Little can be said of paths, which lead elsewhere after
every link that is put down or taken away: a cleared rename lands on nothing to lose
unless its way has changed since (`RenameInv`, `Diverted`), and only the machine's
own look shortens that.  `PlanInv` says that each step of a plan is of a chosen row
or has the step of its directory beside it (`HoldsStep`), one that the listing showed
as a directory, which taking the deepest first preserves (`PlanAdvances`).
`LinksAreNotWalked` follows by induction on the depth of a step: what a step takes is
in the directory that the path of the step above leads to by now, which is at an
entry of its own (`DirectoryHasEntry`), a directory or a link that stands where the
plan has one (`Swapped`).  "Under" a row is the smallest set closed under these
(`Closed`, `Beneath`); a listing's links are not among them, which is what makes a
plan that walked one wrong.

Out of the prover's reach and left to TLC: liveness and `ENABLED`
(`SmallOperationsAnswered`, `SavesAreAnswered`, `StopReturns`, `LossNoticed`,
`LoadingEnds`, the fairness in `Contract` and in `LinkContract`).  All invariants
of the runs are proved.  The provers cannot open folds and recursive operators:
`Screen` folds the rows of wrapped lines, but nothing proved of it depends on what
the sum is.  Recursive functions and induction on a number are in reach
(`Iterated`, `DroppingIs`, `PtyToDocIs`, `CountUp`).

## 5. Seen while modelling

"findings" of `PROJECT.json` lists what contradicts a comment or a document.
Besides:

* Late answers change jobs that are already terminal: a cancelled job whose
  probe comes back is started (`StartTransfer` only asks whether it exists).
* `EnqueueTree` after `CancelAll`, with a listing of the old walk still out, is
  discarded with it: `enumCancelled_` covers both.
* `CreateNextDirectory` leaves no mark that a directory is being made; another
  `Pump` makes the next one, or starts a job, beside it.
* A cancel between the two legs of a relayed copy is sent to a handle that has
  finished.
* A save in place is uploaded torn if an upload is reading; the trigger of the
  save's own close makes up for it, which is why `SilenceMeansSaved` holds.
* A crash between `Compact`'s two deletes leaves segment 1, which hides the
  compact file; a failed rename deletes the segments all the same.
* A larger line limit after a restart leaves the old segment 1 beside a
  snapshot that holds its lines too.
* A line printed before `RestoreScrollback` has read the files truncates
  segment 0; one printed between a close's `Compact` and its `Stop` opens a
  segment that hides the compact file.
* An end before `SetSessionObserver`, or whose notice is left behind by a move
  of its session, is never shown (`missed` in `Sessions`).
* A local rename looks and then renames, and a copy looks for a destination
  that is its source and then opens it: another program can come between.
* The worker of an SSH connection that gives up while connecting frees neither
  its session nor its socket; the first `Stop` of `BastionTunnel` and the
  worker's end close one descriptor each that the other may have closed.
* Forwards that the server opens, and `Teardown`, announce no change: the
  panel shows counts of before.  A result of an add is called back into a
  dialog that may be gone (`pendingResultCbs_`).
* `PtyTransport` leaves its loop at a hang-up before it has read what is left.
* A drag remembers an index of a tab (`dragTabIdx_`); if tabs close before the
  button has moved far enough, another tab is dragged.
* A deletion walks what the listing calls directories, by their paths.  One that a
  link has replaced since is listed through the link, and what is found there is
  planned and removed; only the last step, the `rmdir` of the row, fails (`Swapped`
  in `FileOperations`, a finding).
* Where lines do not wrap, an update that moves the view sideways marks its own line
  only; the other rows keep the column they had until something marks them all
  (`slid` in `Screen`, a finding).
* A line can be popped or deleted from under the cursor: `EraseInLine` takes back the
  last line whichever the cursor is in, `DeleteLines` can leave none at it (a
  finding).  The next write, erase or new line then reads a line that is not there;
  an absolute position adds the lines it needs.
* A link that drops while an upload's close is out makes a "saved" of it that nobody
  confirmed (`"unclosed"` in `RemoteEdit`, a finding).
* A switch to the alternate screen within the 80 ms after a resize makes a grid of
  the old size, which is put right when the session is told.
* A tile moved to another window loses its unread marks; a session that ended
  and is moved to a new window opens an empty one.
* Two instances that start together both restore the same orphaned window
  layout; the purge of histories looks only at the instance's own restore file
  and the named workspaces, so it deletes those of other instances.

## 6. Not modelled, and why

The parser's automaton, key encoding, configuration and JSON text are functions
of one input and well served by tests.  Authentication methods in their order,
the space forecast's arithmetic, URL and word scanning and searching are
sequential and smaller than a model of them.  `MainFrame`, `TransferPanel` and
the forms show state kept elsewhere.  libssh2, the file system, the kernel and
the stream library are external and modelled by what the code here relies on.

## 7. Plan

1. `LinearPartition` against a reference definition: that no other cut makes the
   widest group smaller.
2. `SpaceForecast` and the authentication cascade against a reference
   definition.
