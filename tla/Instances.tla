----------------------------- MODULE Instances -----------------------------
(***************************************************************************)
(* Several running copies of the program over one ~/.nate directory:       *)
(* App::OnInit from the claim of a slot to the restored sessions, what an  *)
(* instance saves while it runs, how it ends, and what a killed one leaves *)
(* for the next launch.  Nothing but the files is shared: no instance      *)
(* talks to another, and each step below is one system call or one handler *)
(* between the calls of the others.                                        *)
(*                                                                         *)
(* A session is its scrollback uuid.  Which window shows it is the Sessions*)
(* module's business; which lines its history holds is Scrollback's.       *)
(***************************************************************************)
EXTENDS Integers, FiniteSets

CONSTANTS
    Pids,      \* bound: the process numbers, used again after a death
    MaxSlots,  \* the slots a launch tries (32 in the code)
    Uuids,     \* bound: sessions, known by their scrollback uuid
    Refused,   \* those a restore may fail to create (a device that is gone)
    Names,     \* bound: names of workspaces
    Unwritable,\* slots whose lock file cannot be opened
    AtOnce,    \* bound: instances that live at the same time
    MaxAsked,  \* bound: children asked for that have not started yet
    AutoSave,  \* sessionSaveInterval > 0
    Nobody

Slots == 0 .. MaxSlots - 1
Ids == 0 .. MaxSlots          \* MaxSlots: all slots taken, degenerate but alive
NoSlot == -1
Asked == 1 .. MaxAsked        \* the children asked for that have not started yet
Empty == NoSlot               \* what a lock says between its truncation and its pid

ASSUME InstancesAssumption ==
    /\ MaxSlots \in Nat \ {0} /\ {AtOnce, MaxAsked} \subseteq Nat /\ Unwritable \subseteq 0 .. MaxSlots - 1
    /\ AutoSave \in BOOLEAN
    /\ Refused \subseteq Uuids
    /\ Pids \cap Int = {} /\ Nobody \notin Pids \union Int

VARIABLES
    proc,    \* pid -> the instance that wears it
    lock,    \* slot -> what instance-<n>.lock says
    restore, \* id -> the sessions in instance-restore-<n>.json ({}: no file)
    named,   \* name -> the sessions in the workspace's file ({}: no file)
    history, \* the sessions with scrollback on disk
    temp,    \* working copies and relay files: <<the pid they are tagged with, life>>
    spawned, \* --restore-instance processes asked for: <<which, slot>>
    raced    \* the slots that several have claimed at once, while any of them has it

files == <<lock, restore, named, history>>
vars == <<proc, lock, restore, named, history, temp, spawned, raced>>

Starting == {"look", "open", "write", "purge", "collect", "sweep", "orphans"}
Phases == Starting \union {"off", "restore", "run", "closed"}

\* "child" is the slot of --restore-instance, "at" the slot being tried or held,
\* "found" what the sweep of temporary files is to remove, "todo" the orphans not
\* seen to yet, "loaded" the sessions of a file that are still to be created and
\* "source" the slot whose file is deleted afterwards.
Blank == [phase |-> "off", child |-> NoSlot, at |-> 0, found |-> {}, todo |-> {},
          loaded |-> {}, source |-> NoSlot, sessions |-> {}]

Init ==
    /\ proc = [p \in Pids |-> Blank]
    /\ lock = [n \in Slots |-> Nobody]
    /\ restore = [n \in Ids |-> {}] /\ named = [n \in Names |-> {}]
    /\ history = {} /\ temp = {} /\ spawned = {} /\ raced = {}

\* Wrong: an instance that is still starting does not count.
AliveWhenUp(q) == q \in Pids /\ proc[q].phase = "run"

\* kill(pid, 0) of what a lock says: it asks whether any process has the number.
Alive(q) == q \in Pids /\ proc[q].phase # "off"
Living == {p \in Pids : Alive(p)}

\* Wrong: one's own number counts as live.
OwnerIsLiveAnyhow(p, q) == Alive(q)

\* A process of this program has the number, and it is not the one that asks.
OwnerIsLive(p, q) == q # p /\ Alive(q)

Put(p, instance) == proc' = [proc EXCEPT ![p] = instance]
Go(p, phase) == Put(p, [proc[p] EXCEPT !.phase = phase])

\* The restore file is replaced whole (tmp and rename), or deleted when there is
\* nothing to save.
Saved(p, sessions) == restore' = [restore EXCEPT ![proc[p].at] = sessions]
NamedSaved(n, sessions) == named' = [named EXCEPT ![n] = sessions]

-----------------------------------------------------------------------------
(* The start of an instance *)

\* By the user, or as a child another instance has asked for.
Launch(p) ==
    /\ proc[p].phase = "off" /\ Cardinality(Living) < AtOnce
    /\ \/ /\ Put(p, [Blank EXCEPT !.phase = "look"])
          /\ UNCHANGED spawned
       \/ \E s \in spawned :
             /\ Put(p, [Blank EXCEPT !.phase = "look", !.child = s[2]])
             /\ spawned' = spawned \ {s}
    /\ UNCHANGED <<files, temp>>

NextSlot(p) ==
    Put(p, [proc[p] EXCEPT !.at = @ + 1,
                           !.phase = IF proc[p].at + 1 = MaxSlots THEN "purge" ELSE "look"])

\* TryClaimSlot: the lock is read; then opened, which empties it; then written.  No
\* lock is held meanwhile, and whoever reads it before the pid is there takes the
\* slot as well.
TryClaimSlot(p) ==
    /\ proc[p].phase = "look"
    /\ IF Alive(lock[proc[p].at]) \/ proc[p].at \in Unwritable
       THEN NextSlot(p) /\ UNCHANGED lock
       ELSE Go(p, "open") /\ UNCHANGED lock
    /\ UNCHANGED <<restore, named, history, temp, spawned>>

OpenLock(p) ==
    /\ proc[p].phase = "open"
    /\ lock' = [lock EXCEPT ![proc[p].at] = Empty] /\ Go(p, "write")
    /\ UNCHANGED <<restore, named, history, temp, spawned>>

WriteLock(p) ==
    /\ proc[p].phase = "write"
    /\ lock' = [lock EXCEPT ![proc[p].at] = p] /\ Go(p, "purge")
    /\ UNCHANGED <<restore, named, history, temp, spawned>>

\* What a restore file or workspace that this instance reads mentions.
Kept(p) == restore[proc[p].at] \union UNION {named[n] : n \in Names}

\* Scrollback that neither this slot's restore file nor a workspace mentions goes.
PurgeOrphanedScrollback(p) ==
    /\ proc[p].phase = "purge"
    /\ history' = history \cap Kept(p)
    /\ Go(p, "collect")
    /\ UNCHANGED <<lock, restore, named, temp, spawned>>

\* One sweep stands for the two alike walks, of working copies and of relay files:
\* what has no live owner is collected first ...
CollectOrphans(p) ==
    /\ proc[p].phase = "collect"
    /\ Put(p, [proc[p] EXCEPT !.phase = "sweep",
                              !.found = {f \in temp : ~OwnerIsLive(p, f[1])}])
    /\ UNCHANGED <<files, temp, spawned>>

\* Wrong: the walk keeps owners, not paths, and removes what is theirs by then.
RemoveOrphanByOwner(p) ==
    /\ proc[p].phase = "sweep"
    /\ \E f \in proc[p].found :
          /\ temp' = {g \in temp : g[1] # f[1]}
          /\ Put(p, [proc[p] EXCEPT !.found = @ \ {f}])
    /\ UNCHANGED <<files, spawned>>

\* ... and removed after the walk, one by one.
RemoveOrphan(p) ==
    /\ proc[p].phase = "sweep"
    /\ \E f \in proc[p].found :
          temp' = temp \ {f} /\ Put(p, [proc[p] EXCEPT !.found = @ \ {f}])
    /\ UNCHANGED <<files, spawned>>

\* Restore files no live instance holds; one's own counts whatever its lock says.
Orphans(p) ==
    {n \in Slots : restore[n] # {} /\ (n = proc[p].at \/ ~Alive(lock[n]))}

Load(p, from) ==
    Put(p, [proc[p] EXCEPT !.phase = "restore", !.child = NoSlot, !.loaded = restore[from],
                           !.source = from, !.todo = @ \ {from}])

\* After the sweep, --restore-instance N loads the file of slot N without a look at its lock;
\* otherwise the configuration and the flags say whether orphans are looked for.
ReadFlags(p) ==
    /\ proc[p].phase = "sweep" /\ proc[p].found = {}
    /\ IF proc[p].child # NoSlot
       THEN Load(p, proc[p].child)
       ELSE \/ Go(p, "run")
            \/ Put(p, [proc[p] EXCEPT !.phase = "orphans", !.todo = Orphans(p)])
    /\ UNCHANGED <<files, temp, spawned>>

\* Orphans in the order of their slots: one's own is restored here, and each of
\* the others gets a process of its own.
SeeToOrphan(p) ==
    /\ proc[p].phase = "orphans"
    /\ \/ proc[p].todo = {} /\ Go(p, "run") /\ UNCHANGED spawned
       \/ \E n \in proc[p].todo :
             /\ \A k \in proc[p].todo : n =< k
             /\ \/ n = proc[p].at /\ Load(p, n) /\ UNCHANGED spawned
                \/ /\ n # proc[p].at
                   /\ Put(p, [proc[p] EXCEPT !.todo = @ \ {n}])
                   /\ \E k \in Asked \ {s[1] : s \in spawned} : spawned' = spawned \union {<<k, n>>}
    /\ UNCHANGED <<files, temp>>

-----------------------------------------------------------------------------
(* Restoring *)

\* RestoreStateImpl creates one session after the other.  A window that takes a
\* session reports a changed list, and the list is saved at once; a session that
\* cannot be created is reported to the user instead.
RestoreSession(p) ==
    /\ proc[p].phase = "restore"
    /\ \E u \in proc[p].loaded :
          \/ /\ Put(p, [proc[p] EXCEPT !.loaded = @ \ {u}, !.sessions = @ \union {u}])
             /\ Saved(p, proc[p].sessions \union {u})
             /\ history' = history \union {u}
          \/ /\ u \in Refused
             /\ Put(p, [proc[p] EXCEPT !.loaded = @ \ {u}])
             /\ UNCHANGED <<restore, history>>
    /\ UNCHANGED <<lock, named, temp, spawned>>

\* The file that was read is deleted, whoever has written to it since.
FinishRestore(p) ==
    /\ proc[p].phase = "restore" /\ proc[p].loaded = {}
    /\ restore' = IF proc[p].source = NoSlot THEN restore
                  ELSE [restore EXCEPT ![proc[p].source] = {}]
    /\ Put(p, [proc[p] EXCEPT !.source = NoSlot,
                              !.phase = IF proc[p].todo = {} THEN "run" ELSE "orphans"])
    /\ UNCHANGED <<lock, named, history, temp, spawned>>

-----------------------------------------------------------------------------
(* A running instance *)

Running(p) == proc[p].phase = "run"

\* A fresh uuid is one that no instance and no list mentions.
Mentioned ==
    UNION {proc[p].sessions \union proc[p].loaded : p \in Pids}
    \union UNION {restore[n] : n \in Ids} \union UNION {named[n] : n \in Names}

\* Its first output reaches its scrollback file at once.
NewSession(p, u) ==
    /\ Running(p) /\ u \notin Mentioned
    /\ Put(p, [proc[p] EXCEPT !.sessions = @ \union {u}])
    /\ Saved(p, proc[p].sessions \union {u})
    /\ history' = history \union {u}
    /\ UNCHANGED <<lock, named, temp, spawned>>

\* The list is reported, and saved, before the session leaves it.
CloseSession(p, u) ==
    /\ Running(p) /\ u \in proc[p].sessions
    /\ Saved(p, proc[p].sessions)
    /\ Put(p, [proc[p] EXCEPT !.sessions = @ \ {u}])
    /\ UNCHANGED <<lock, named, history, temp, spawned>>

\* One of several windows: its teardown is quiet and its end saves nothing.
CloseWindow(p) ==
    /\ Running(p)
    /\ \E held \in SUBSET proc[p].sessions \ {{}} :
          /\ Put(p, [proc[p] EXCEPT !.sessions = @ \ held])
    /\ UNCHANGED <<files, temp, spawned>>

\* The timer, a new title, a moved tab, a logout that may still be refused.
SaveRestoreState(p) ==
    /\ Running(p)
    /\ Saved(p, proc[p].sessions)
    /\ UNCHANGED <<proc, lock, named, history, temp, spawned>>

SaveNamedWorkspace(p, n) ==
    /\ Running(p)
    /\ NamedSaved(n, proc[p].sessions)
    /\ UNCHANGED <<proc, lock, restore, history, temp, spawned>>

\* The histories it mentions go with it, whoever else mentions them.
DeleteNamedWorkspace(p, n) ==
    /\ Running(p) /\ named[n] # {}
    /\ history' = history \ named[n]
    /\ NamedSaved(n, {})
    /\ UNCHANGED <<proc, lock, restore, temp, spawned>>

RestoreNamedWorkspace(p, n) ==
    /\ Running(p) /\ named[n] # {}
    /\ Put(p, [proc[p] EXCEPT !.phase = "restore", !.loaded = named[n]])
    /\ UNCHANGED <<files, temp, spawned>>

\* From the menu the file is deleted first, so that what follows is kept.
RestoreWorkspaceFromMenu(p) ==
    /\ Running(p) /\ restore[proc[p].at] # {}
    /\ Put(p, [proc[p] EXCEPT !.phase = "restore", !.loaded = restore[proc[p].at]])
    /\ Saved(p, {})
    /\ UNCHANGED <<lock, named, history, temp, spawned>>

\* An edit or a relayed copy begins, and tags its file with the pid.
MakeTemp(p) ==
    /\ Running(p)
    /\ temp' = temp \union {<<p, "living">>}
    /\ UNCHANGED <<proc, files, spawned>>

RemoveTemp(p) ==
    /\ Running(p) /\ <<p, "living">> \in temp
    /\ temp' = temp \ {<<p, "living">>}
    /\ UNCHANGED <<proc, files, spawned>>

-----------------------------------------------------------------------------
(* The end of an instance *)

\* QuitAll, or the close of the last window: the sessions are saved while alive, and
\* then closed; from here on a closed session reports nothing.
Quit(p) ==
    /\ Running(p)
    /\ Saved(p, proc[p].sessions)
    /\ Put(p, [proc[p] EXCEPT !.phase = "closed", !.sessions = {}])
    /\ UNCHANGED <<lock, named, history, temp, spawned>>

\* The timer is stopped only in OnExit, after the windows are gone.
SaveTimer(p) ==
    /\ AutoSave /\ proc[p].phase = "closed"
    /\ Saved(p, {})
    /\ UNCHANGED <<proc, lock, named, history, temp, spawned>>

\* What an instance leaves in the temporary areas belongs to nobody afterwards.
Ended(p) ==
    /\ Put(p, Blank)
    /\ temp' = {IF f[1] = p THEN <<p, "dead">> ELSE f : f \in temp}

OnExit(p) ==
    /\ proc[p].phase = "closed"
    /\ lock' = IF proc[p].at \in Slots THEN [lock EXCEPT ![proc[p].at] = Nobody] ELSE lock
    /\ Ended(p)
    /\ UNCHANGED <<restore, named, history, spawned>>

Crash(p) ==
    /\ proc[p].phase # "off"
    /\ Ended(p)
    /\ UNCHANGED <<files, spawned>>

-----------------------------------------------------------------------------
Start(p) ==
    \/ TryClaimSlot(p) \/ OpenLock(p) \/ WriteLock(p)
    \/ PurgeOrphanedScrollback(p) \/ CollectOrphans(p) \/ RemoveOrphan(p)
    \/ ReadFlags(p) \/ SeeToOrphan(p) \/ RestoreSession(p) \/ FinishRestore(p)

Use(p) ==
    \/ \E u \in Uuids : NewSession(p, u) \/ CloseSession(p, u)
    \/ \E n \in Names : SaveNamedWorkspace(p, n) \/ DeleteNamedWorkspace(p, n)
                        \/ RestoreNamedWorkspace(p, n)
    \/ CloseWindow(p) \/ SaveRestoreState(p) \/ RestoreWorkspaceFromMenu(p)
    \/ MakeTemp(p) \/ RemoveTemp(p)

End(p) == Quit(p) \/ SaveTimer(p) \/ OnExit(p) \/ Crash(p)

\* A slot is raced for once two are between the look at it and the pid in it, and
\* until nobody who took it is left.
Claims(p, n) == proc[p].at = n /\ proc[p].phase \in {"open", "write"}
Takes(p, n) == proc[p].at = n /\ proc[p].phase \notin {"off", "look"}
Contest ==
    raced' = {n \in Slots :
                /\ \E p \in Pids : Takes(p, n)'
                /\ n \in raced \/ \E p, q \in Pids : p # q /\ Claims(p, n)' /\ Claims(q, n)'}

Next ==
    /\ \E p \in Pids : Launch(p) \/ Start(p) \/ Use(p) \/ End(p)
    /\ Contest

Spec == Init /\ [][Next]_vars

-----------------------------------------------------------------------------
(* Properties *)

Claimed(p) == proc[p].phase \notin {"off", "look", "open", "write"}

Instance == [phase : Phases, child : Slots \union {NoSlot}, at : Ids,
             found : SUBSET (Pids \X {"living", "dead"}), todo : SUBSET Slots,
             loaded : SUBSET Uuids, source : Slots \union {NoSlot}, sessions : SUBSET Uuids]

\* Everything has its type, and what a dead instance knew is gone.
TypeOK ==
    /\ proc \in [Pids -> Instance]
    /\ lock \in [Slots -> Pids \union {Empty, Nobody}]
    /\ restore \in [Ids -> SUBSET Uuids] /\ named \in [Names -> SUBSET Uuids]
    /\ history \subseteq Uuids
    /\ temp \subseteq Pids \X {"living", "dead"} /\ spawned \subseteq Asked \X Slots
    /\ raced \subseteq Slots
    /\ \A p \in Pids : proc[p].phase = "off" => proc[p] = Blank

\* The lock of a slot names the live instance that holds it for as long as it lives,
\* through the crashes, exits and reused numbers of the others.  Two that claim one
\* slot at once share it; that never spreads to another slot, and is over when both
\* are gone: no others share a slot, and nobody else takes a restore file for an
\* orphan (App::TryClaimSlot, App::ReleaseInstanceId).
SlotsAreOwned ==
    \A p \in Pids : Claimed(p) /\ proc[p].at \in Slots \ raced => lock[proc[p].at] = p

\* Before an instance makes its first temporary file, none of a dead namesake is left:
\* from then on a file tagged with its number is its own (OwnerLiveness: one's own
\* number counts as dead while the sweep runs).
NumbersAreClean == \A p \in Pids : Claimed(p) /\ proc[p].phase \notin Starting => <<p, "dead">> \notin temp

\* A working copy or relay file of a living instance is removed by nobody else, whoever
\* starts, dies or comes back under an old number meanwhile (PurgeOrphanedWorkingCopies,
\* PurgeOrphanedRelayFiles).
SweepsSpareTheLiving ==
    [][\A p \in Pids :
          <<p, "living">> \in temp /\ <<p, "living">> \notin temp'
            => proc'[p].phase = "off" \/ RemoveTemp(p)]_vars

\* What is open in a running instance is in its restore file: a crash at any moment of
\* ordinary use loses nothing.
OpenIsSaved == \A p \in Pids : Running(p) => proc[p].sessions \subseteq restore[proc[p].at]

=============================================================================
