---------------------------- MODULE StorageProofs ----------------------------
(***************************************************************************)
(* What survives on disk.  First what instances leave each other alone     *)
(* with, for any number of process numbers, slots, sessions and launches:  *)
(* slots (those that launches race for set aside) and temporary files.     *)
(* Then what a terminal's scrollback files hold, for any limits, any       *)
(* number of lines and any number of runs that end or die at any step.     *)
(***************************************************************************)
EXTENDS Instances, Scrollback, SequenceTheorems, TLAPS

Claiming == {"open", "write"}
Unswept == {"off", "look", "open", "write", "purge", "collect"}
Swept == {"orphans", "restore", "run", "closed"}

\* While a slot is looked at or claimed it is one of the slots.
Placed == \A p \in Pids : proc[p].phase \in {"look"} \union Claiming => proc[p].at \in Slots

\* Unless it is raced for, a slot that is about to be taken is nobody's.
StillFree ==
    \A p, q \in Pids :
        proc[p].phase \in Claiming /\ Claimed(q) /\ proc[p].at = proc[q].at => proc[p].at \in raced

\* ... and nobody else is about to take it.
OneClaims ==
    \A p, q \in Pids :
        /\ proc[p].phase \in Claiming /\ proc[q].phase \in Claiming /\ proc[p].at = proc[q].at
        => p = q \/ proc[p].at \in raced

SlotsGood == Placed /\ OneClaims /\ StillFree /\ SlotsAreOwned

\* No file of this life before the sweep; only dead files are swept; all of one's
\* dead namesakes' are, and no new one comes while one lives.
LitterGood ==
    \A p \in Pids :
        /\ proc[p].phase \in Unswept => <<p, "living">> \notin temp
        /\ \A f \in proc[p].found : f[2] = "dead"
        /\ proc[p].phase = "sweep" /\ <<p, "dead">> \in temp => <<p, "dead">> \in proc[p].found
        /\ proc[p].phase \in Swept => <<p, "dead">> \notin temp

\* What every step keeps, even if launches race for a slot.
IInv == TypeOK /\ Placed /\ LitterGood

-----------------------------------------------------------------------------
(* Instances: Types *)

\* The start of the program: no instance, no file.
LEMMA InitTyped == Init => TypeOK
BY InstancesAssumption DEF Init, TypeOK, Blank, Instance, Phases, Starting, Ids, Slots, NoSlot, Empty

\* An instance that becomes another one of its type, and does not end, keeps the types.
LEMMA Becomes ==
    ASSUME TypeOK, NEW p \in Pids, NEW r \in Instance, r.phase # "off", Put(p, r)
    PROVE  /\ proc' \in [Pids -> Instance]
           /\ \A q \in Pids : proc'[q].phase = "off" => proc'[q] = Blank
           /\ proc'[p] = r /\ \A q \in Pids \ {p} : proc'[q] = proc[q]
BY DEF TypeOK, Put

\* The slots among the numbers.
LEMMA SlotFacts ==
    /\ Slots \subseteq Ids /\ Slots \subseteq Int /\ Ids \subseteq Int /\ MaxSlots \notin Slots
    /\ \A n \in Slots : n + 1 \in Ids /\ (n + 1 # MaxSlots => n + 1 \in Slots)
    /\ NoSlot \notin Slots
BY InstancesAssumption DEF Slots, Ids, NoSlot

\* What the parts of an instance are.
LEMMA Fields ==
    ASSUME NEW r \in Instance
    PROVE  /\ r.phase \in Phases /\ r.child \in Slots \union {NoSlot} /\ r.at \in Ids
           /\ r.found \subseteq Pids \X {"living", "dead"} /\ r.todo \subseteq Slots
           /\ r.loaded \subseteq Uuids /\ r.source \in Slots \union {NoSlot}
           /\ r.sessions \subseteq Uuids
BY DEF Instance

\* The phases by name.
LEMMA PhaseFacts ==
    /\ {"look", "open", "write", "purge", "collect", "sweep", "orphans", "restore", "run",
        "closed"} \subseteq Phases
    /\ Phases = {"off"} \union {"look", "open", "write", "purge", "collect", "sweep",
                                "orphans", "restore", "run", "closed"}
BY DEF Phases, Starting

USE DEF files

\* What a step leaves of the types when it changes one instance and no lock.
LEMMA Keeps ==
    ASSUME TypeOK, NEW p \in Pids, NEW r \in Instance, r.phase # "off", Put(p, r),
           lock' \in [Slots -> Pids \union {Empty, Nobody}],
           restore' \in [Ids -> SUBSET Uuids], named' \in [Names -> SUBSET Uuids],
           history' \subseteq Uuids, temp' \subseteq Pids \X {"living", "dead"},
           spawned' \subseteq Asked \X Slots, raced' \subseteq Slots
    PROVE  TypeOK'
BY Becomes DEF TypeOK

\* The claim of a slot, and the sweeps, keep the types.
LEMMA ClaimTyped ==
    ASSUME TypeOK, Placed, raced' \subseteq Slots, NEW p \in Pids,
           \/ TryClaimSlot(p) \/ OpenLock(p) \/ WriteLock(p)
           \/ PurgeOrphanedScrollback(p) \/ CollectOrphans(p) \/ RemoveOrphan(p)
    PROVE  TypeOK'
<1> DEFINE me == proc[p]
<1>0. me \in Instance /\ me.at \in Ids /\ me.found \subseteq Pids \X {"living", "dead"}
  BY Fields DEF TypeOK
<1>1. CASE TryClaimSlot(p)
  <2>1. me.at \in Slots
    BY <1>1 DEF TryClaimSlot, Placed, Claiming
  <2>2. [me EXCEPT !.phase = "open"] \in Instance
    BY <1>0, PhaseFacts DEF Instance
  <2>3. [me EXCEPT !.at = @ + 1, !.phase = IF me.at + 1 = MaxSlots THEN "purge" ELSE "look"]
          \in Instance
    BY <1>0, <2>1, SlotFacts, PhaseFacts DEF Instance
  <2>4. CASE NextSlot(p) /\ UNCHANGED lock
    <3> DEFINE r == [me EXCEPT !.at = @ + 1,
                               !.phase = IF me.at + 1 = MaxSlots THEN "purge" ELSE "look"]
    <3>1. r.phase # "off"
      BY <1>0 DEF Instance
    <3>2. Put(p, r)
      BY <2>4 DEF NextSlot
    <3> QED
      BY <1>1, <2>3, <2>4, <3>1, <3>2, Keeps DEF TryClaimSlot, TypeOK
  <2>5. CASE Go(p, "open") /\ UNCHANGED lock
    <3>1. [me EXCEPT !.phase = "open"].phase # "off"
      BY <1>0 DEF Instance
    <3> QED
      BY <1>1, <2>2, <2>5, <3>1, Keeps DEF TryClaimSlot, Go, TypeOK
  <2> QED
    BY <1>1, <2>4, <2>5 DEF TryClaimSlot
<1>2. CASE OpenLock(p) \/ WriteLock(p)
  <2>1. \A x \in {"write", "purge"} :
          [me EXCEPT !.phase = x] \in Instance /\ [me EXCEPT !.phase = x].phase # "off"
    BY <1>0, PhaseFacts DEF Instance
  <2>2. lock' \in [Slots -> Pids \union {Empty, Nobody}]
    BY <1>2 DEF OpenLock, WriteLock, TypeOK
  <2> QED
    BY <1>2, <2>1, <2>2, Keeps DEF OpenLock, WriteLock, Go, TypeOK
<1>3. CASE PurgeOrphanedScrollback(p)
  <2>1. [me EXCEPT !.phase = "collect"] \in Instance /\ [me EXCEPT !.phase = "collect"].phase # "off"
    BY <1>0, PhaseFacts DEF Instance
  <2>2. history' \subseteq Uuids
    BY <1>3 DEF PurgeOrphanedScrollback, TypeOK
  <2> QED
    BY <1>3, <2>1, <2>2, Keeps DEF PurgeOrphanedScrollback, Go, TypeOK
<1>4. CASE CollectOrphans(p)
  <2> DEFINE f == {g \in temp : ~OwnerIsLive(p, g[1])}
             r == [me EXCEPT !.phase = "sweep", !.found = f]
  <2>1. f \subseteq Pids \X {"living", "dead"}
    BY DEF TypeOK
  <2>2. r \in Instance /\ r.phase # "off"
    BY <1>0, <2>1, PhaseFacts DEF Instance
  <2> QED
    BY <1>4, <2>2, Keeps DEF CollectOrphans, TypeOK
<1>5. CASE RemoveOrphan(p)
  <2>1. PICK f \in me.found : temp' = temp \ {f} /\ Put(p, [me EXCEPT !.found = @ \ {f}])
    BY <1>5 DEF RemoveOrphan
  <2>2. [me EXCEPT !.found = @ \ {f}] \in Instance /\ [me EXCEPT !.found = @ \ {f}].phase # "off"
    BY <1>0, <1>5, PhaseFacts DEF Instance, RemoveOrphan
  <2> QED
    BY <1>5, <2>1, <2>2, Keeps DEF RemoveOrphan, TypeOK
<1> QED
  BY <1>1, <1>2, <1>3, <1>4, <1>5

\* So do the flags, the orphans and the restores.
LEMMA RestoreTyped ==
    ASSUME TypeOK, raced' \subseteq Slots, NEW p \in Pids,
           ReadFlags(p) \/ SeeToOrphan(p) \/ RestoreSession(p) \/ FinishRestore(p)
    PROVE  TypeOK'
<1> DEFINE me == proc[p]
           file(n) == [me EXCEPT !.phase = "restore", !.child = NoSlot, !.loaded = restore[n],
                                 !.source = n, !.todo = @ \ {n}]
           at(x) == [me EXCEPT !.phase = x]
           left(u) == [me EXCEPT !.loaded = @ \ {u}]
           made(u) == [me EXCEPT !.loaded = @ \ {u}, !.sessions = @ \union {u}]
<1>0. me \in Instance /\ me.at \in Ids /\ me.todo \subseteq Slots /\ me.loaded \subseteq Uuids
      /\ me.source \in Slots \union {NoSlot} /\ me.child \in Slots \union {NoSlot}
      /\ me.sessions \subseteq Uuids
  BY Fields DEF TypeOK
<1>1. \A n \in Slots : file(n) \in Instance /\ file(n).phase # "off"
  BY <1>0, SlotFacts, PhaseFacts DEF Instance, TypeOK
<1>2. \A x \in {"run", "orphans"} : at(x) \in Instance /\ at(x).phase # "off"
  BY <1>0, PhaseFacts DEF Instance
<1>3. CASE ReadFlags(p)
  <2> DEFINE looking == [me EXCEPT !.phase = "orphans", !.todo = Orphans(p)]
  <2>1. looking \in Instance /\ looking.phase # "off"
    BY <1>0, PhaseFacts DEF Instance, Orphans
  <2>2. CASE me.child # NoSlot /\ Load(p, me.child)
    BY <1>0, <1>1, <1>3, <2>2, Keeps DEF ReadFlags, Load, TypeOK
  <2>3. CASE Go(p, "run")
    BY <1>2, <1>3, <2>3, Keeps DEF ReadFlags, Go, TypeOK
  <2>4. CASE Put(p, looking)
    BY <1>3, <2>1, <2>4, Keeps DEF ReadFlags, TypeOK
  <2> QED
    BY <1>3, <2>2, <2>3, <2>4 DEF ReadFlags
<1>4. CASE SeeToOrphan(p)
  <2>1. CASE Go(p, "run") /\ UNCHANGED spawned
    BY <1>2, <1>4, <2>1, Keeps DEF SeeToOrphan, Go, TypeOK
  <2>2. ASSUME NEW n \in me.todo, Load(p, n), UNCHANGED spawned
        PROVE  TypeOK'
    BY <1>0, <1>1, <1>4, <2>2, Keeps DEF SeeToOrphan, Load, TypeOK
  <2>3. ASSUME NEW n \in me.todo, Put(p, [me EXCEPT !.todo = @ \ {n}]),
               NEW k \in Asked, spawned' = spawned \union {<<k, n>>}
        PROVE  TypeOK'
    <3>1. [me EXCEPT !.todo = @ \ {n}] \in Instance /\ [me EXCEPT !.todo = @ \ {n}].phase # "off"
      BY <1>0, <1>4 DEF Instance, SeeToOrphan
    <3>2. spawned' \subseteq Asked \X Slots
      BY <1>0, <2>3 DEF TypeOK
    <3> QED
      BY <1>4, <2>3, <3>1, <3>2, Keeps DEF SeeToOrphan, TypeOK
  <2> QED
    BY <1>4, <2>1, <2>2, <2>3 DEF SeeToOrphan
<1>5. CASE RestoreSession(p)
  <2>1. PICK u \in me.loaded :
           \/ Put(p, made(u)) /\ Saved(p, me.sessions \union {u}) /\ history' = history \union {u}
           \/ Put(p, left(u)) /\ UNCHANGED <<restore, history>>
    BY <1>5 DEF RestoreSession
  <2>2. me.sessions \union {u} \subseteq Uuids /\ history \union {u} \subseteq Uuids
    BY <1>0, <2>1 DEF TypeOK
  <2>3. made(u) \in Instance /\ made(u).phase # "off" /\ left(u) \in Instance /\ left(u).phase # "off"
    BY <1>0, <1>5, <2>2 DEF Instance, RestoreSession
  <2>4. restore' \in [Ids -> SUBSET Uuids] /\ history' \subseteq Uuids
    BY <1>0, <2>1, <2>2 DEF Saved, TypeOK
  <2> QED
    BY <1>5, <2>1, <2>3, <2>4, Keeps DEF RestoreSession, TypeOK
<1>6. CASE FinishRestore(p)
  <2> DEFINE r == [me EXCEPT !.source = NoSlot,
                             !.phase = IF me.todo = {} THEN "run" ELSE "orphans"]
  <2>1. r \in Instance /\ r.phase # "off"
    BY <1>0, PhaseFacts DEF Instance
  <2>2. restore' \in [Ids -> SUBSET Uuids]
    BY <1>0, <1>6, SlotFacts DEF FinishRestore, TypeOK
  <2> QED
    BY <1>6, <2>1, <2>2, Keeps DEF FinishRestore, TypeOK
<1> QED
  BY <1>3, <1>4, <1>5, <1>6

\* What a running instance does keeps the types.
LEMMA UseTyped == ASSUME TypeOK, raced' \subseteq Slots, NEW p \in Pids, Use(p) PROVE TypeOK'
<1> DEFINE me == proc[p]
           with(s) == [me EXCEPT !.sessions = s]
           back(u) == [me EXCEPT !.phase = "restore", !.loaded = u]
<1>0. me \in Instance /\ me.at \in Ids /\ me.sessions \subseteq Uuids /\ restore[me.at] \subseteq Uuids
  BY Fields DEF TypeOK
<1>1. me.phase = "run"
  BY DEF Use, NewSession, CloseSession, SaveNamedWorkspace, DeleteNamedWorkspace,
         RestoreNamedWorkspace, CloseWindow, SaveRestoreState, RestoreWorkspaceFromMenu,
         MakeTemp, RemoveTemp, Running
<1>2. \A s \in SUBSET Uuids : with(s) \in Instance /\ with(s).phase # "off"
  BY <1>0, <1>1 DEF Instance
<1>3. \A u \in SUBSET Uuids : back(u) \in Instance /\ back(u).phase # "off"
  BY <1>0, PhaseFacts DEF Instance
<1>4. \A s \in SUBSET Uuids : Saved(p, s) => restore' \in [Ids -> SUBSET Uuids]
  BY <1>0 DEF Saved, TypeOK
<1>5. ASSUME NEW u \in Uuids, NewSession(p, u) \/ CloseSession(p, u) PROVE TypeOK'
  <2>1. me.sessions \union {u} \in SUBSET Uuids /\ me.sessions \ {u} \in SUBSET Uuids
        /\ history \union {u} \subseteq Uuids
    BY <1>0 DEF TypeOK
  <2> QED
    BY <1>0, <1>2, <1>4, <1>5, <2>1, Keeps DEF NewSession, CloseSession, TypeOK
<1>6. ASSUME NEW n \in Names,
             SaveNamedWorkspace(p, n) \/ DeleteNamedWorkspace(p, n) \/ RestoreNamedWorkspace(p, n)
      PROVE  TypeOK'
  <2>1. \A s \in SUBSET Uuids : NamedSaved(n, s) => named' \in [Names -> SUBSET Uuids]
    BY DEF NamedSaved, TypeOK
  <2>2. CASE SaveNamedWorkspace(p, n) \/ DeleteNamedWorkspace(p, n)
    BY <1>0, <2>1, <2>2 DEF SaveNamedWorkspace, DeleteNamedWorkspace, TypeOK
  <2>3. CASE RestoreNamedWorkspace(p, n)
    <3>1. named[n] \in SUBSET Uuids
      BY DEF TypeOK
    <3> QED
      BY <1>3, <2>3, <3>1, Keeps DEF RestoreNamedWorkspace, TypeOK
  <2> QED
    BY <1>6, <2>2, <2>3
<1>7. CASE CloseWindow(p)
  <2>1. \A h \in SUBSET me.sessions : me.sessions \ h \in SUBSET Uuids
    BY <1>0
  <2> QED
    BY <1>2, <1>7, <2>1, Keeps DEF CloseWindow, TypeOK
<1>8. CASE SaveRestoreState(p)
  BY <1>0, <1>4, <1>8 DEF SaveRestoreState, TypeOK
<1>9. CASE RestoreWorkspaceFromMenu(p)
  BY <1>0, <1>3, <1>4, <1>9, Keeps DEF RestoreWorkspaceFromMenu, TypeOK
<1>10. CASE MakeTemp(p) \/ RemoveTemp(p)
  BY <1>10 DEF MakeTemp, RemoveTemp, TypeOK
<1> QED
  BY <1>5, <1>6, <1>7, <1>8, <1>9, <1>10 DEF Use

\* So do launches and ends.
LEMMA EdgeTyped ==
    ASSUME TypeOK, raced' \subseteq Slots, NEW p \in Pids, Launch(p) \/ End(p)
    PROVE  TypeOK'
<1> DEFINE me == proc[p]
<1>0. me \in Instance /\ me.at \in Ids /\ me.sessions \subseteq Uuids
  BY Fields DEF TypeOK
<1>1. Blank \in Instance /\ Blank.phase = "off"
  BY InstancesAssumption DEF Blank, Instance, Phases, Ids, NoSlot
<1>2. CASE Launch(p)
  <2> DEFINE new(n) == [Blank EXCEPT !.phase = "look", !.child = n]
             own == [Blank EXCEPT !.phase = "look"]
  <2>1. own \in Instance /\ own.phase # "off"
    BY <1>1, PhaseFacts DEF Instance, Blank
  <2>2. \A n \in Slots : new(n) \in Instance /\ new(n).phase # "off"
    BY <1>1, PhaseFacts DEF Instance, Blank
  <2>3. CASE Put(p, own) /\ UNCHANGED spawned
    BY <1>2, <2>1, <2>3, Keeps DEF Launch, TypeOK
  <2>4. ASSUME NEW s \in spawned, Put(p, new(s[2])), spawned' = spawned \ {s} PROVE TypeOK'
    <3>1. s[2] \in Slots /\ spawned' \subseteq Asked \X Slots
      BY <2>4 DEF TypeOK
    <3> QED
      BY <1>2, <2>2, <2>4, <3>1, Keeps DEF Launch, TypeOK
  <2> QED
    BY <1>2, <2>3, <2>4 DEF Launch
<1>3. \A s \in SUBSET Uuids : Saved(p, s) => restore' \in [Ids -> SUBSET Uuids]
  BY <1>0 DEF Saved, TypeOK
<1>4. CASE Quit(p)
  <2> DEFINE r == [me EXCEPT !.phase = "closed", !.sessions = {}]
  <2>1. r \in Instance /\ r.phase # "off"
    BY <1>0, PhaseFacts DEF Instance
  <2> QED
    BY <1>0, <1>3, <1>4, <2>1, Keeps DEF Quit, TypeOK
<1>6. CASE SaveTimer(p)
  BY <1>3, <1>6 DEF SaveTimer, TypeOK
<1>7. ASSUME Ended(p)
      PROVE  /\ proc' \in [Pids -> Instance] /\ temp' \subseteq Pids \X {"living", "dead"}
             /\ \A q \in Pids : proc'[q].phase = "off" => proc'[q] = Blank
  BY <1>1, <1>7 DEF Ended, Put, TypeOK
<1>8. CASE OnExit(p)
  BY <1>7, <1>8 DEF OnExit, TypeOK
<1>9. CASE Crash(p)
  BY <1>7, <1>9 DEF Crash, TypeOK
<1> QED
  BY <1>2, <1>4, <1>6, <1>8, <1>9 DEF End

\* Every step keeps the types.
LEMMA NextTyped == ASSUME TypeOK, Placed, [Next]_vars PROVE TypeOK'
<1>1. CASE UNCHANGED vars
  BY <1>1 DEF vars, TypeOK
<1>2. ASSUME Contest, NEW p \in Pids, Launch(p) \/ Start(p) \/ Use(p) \/ End(p) PROVE TypeOK'
  <2>1. raced' \subseteq Slots
    BY <1>2 DEF Contest
  <2> QED
    BY <1>2, <2>1, ClaimTyped, RestoreTyped, UseTyped, EdgeTyped DEF Start
<1> QED
  BY <1>1, <1>2 DEF Next

-----------------------------------------------------------------------------
(* Instances: Steps that neither claim a slot nor touch a temporary file *)

\* One instance changes, the others do not.
LEMMA OneChanges ==
    ASSUME TypeOK, NEW p \in Pids, NEW r, Put(p, r)
    PROVE  proc'[p] = r /\ \A q \in Pids \ {p} : proc'[q] = proc[q]
BY DEF Put, TypeOK

\* An instance that only moves on to another phase.
LEMMA MovesOn ==
    ASSUME TypeOK, NEW p \in Pids, NEW x, Go(p, x)
    PROVE  /\ proc'[p].phase = x /\ proc'[p].at = proc[p].at /\ proc'[p].found = proc[p].found
           /\ \A q \in Pids \ {p} : proc'[q] = proc[q]
<1> DEFINE r == [proc[p] EXCEPT !.phase = x]
<1>1. proc[p] \in Instance
  BY DEF TypeOK
<1>2. r.phase = x /\ r.at = proc[p].at /\ r.found = proc[p].found
  BY <1>1 DEF Instance
<1>3. Put(p, r)
  BY DEF Go
<1> HIDE DEF r
<1> QED
  BY <1>2, <1>3, OneChanges

\* An instance has no more to sweep.
Through(p) ==
    \/ proc[p].phase \in Swept
    \/ proc[p].phase = "sweep" /\ proc[p].found = {}

\* A step of such an instance that keeps its slot, the locks and the temporary files.
Quiet(p) ==
    /\ Through(p) /\ proc'[p].phase \in Swept
    /\ proc'[p].at = proc[p].at /\ proc'[p].found = proc[p].found
    /\ \A q \in Pids \ {p} : proc'[q] = proc[q]
    /\ UNCHANGED <<lock, temp>>

\* A quiet step keeps what is known of temporary files.
LEMMA QuietKeeps ==
    ASSUME LitterGood, NEW p \in Pids, Quiet(p)
    PROVE  LitterGood'
BY DEF LitterGood, Quiet, Through, Swept, Unswept

\* Which steps are quiet.
LEMMA QuietSteps ==
    ASSUME TypeOK, NEW p \in Pids,
           \/ ReadFlags(p) \/ SeeToOrphan(p) \/ RestoreSession(p) \/ FinishRestore(p)
           \/ Quit(p) \/ SaveTimer(p)
           \/ Use(p) /\ temp' = temp
    PROVE  Quiet(p)
<1> DEFINE me == proc[p]
<1>0. me \in Instance
  BY DEF TypeOK
<1>a. proc \in [Pids -> Instance]
  BY DEF TypeOK
<1>b. ASSUME NEW r, Put(p, r), Through(p), r.phase \in Swept, r.at = me.at,
             r.found = me.found, UNCHANGED <<lock, temp>>
      PROVE  Quiet(p)
  BY <1>b, OneChanges DEF Quiet
<1>c. \A x : /\ [me EXCEPT !.phase = x].phase = x
             /\ [me EXCEPT !.phase = x].at = me.at
             /\ [me EXCEPT !.phase = x].found = me.found
  BY <1>0 DEF Instance
<1>d. ASSUME NEW n, Load(p, n), Through(p), UNCHANGED <<lock, temp>> PROVE Quiet(p)
  <2> DEFINE r == [me EXCEPT !.phase = "restore", !.child = NoSlot, !.loaded = restore[n],
                             !.source = n, !.todo = @ \ {n}]
  <2>1. r.phase = "restore" /\ r.at = me.at /\ r.found = me.found
    BY <1>0 DEF Instance
  <2>2. Put(p, r)
    BY <1>d DEF Load
  <2> HIDE DEF r
  <2> QED
    BY <1>b, <1>d, <2>1, <2>2 DEF Swept
<1>e. \A t : /\ [me EXCEPT !.todo = t].phase = me.phase
             /\ [me EXCEPT !.todo = t].at = me.at
             /\ [me EXCEPT !.todo = t].found = me.found
  BY <1>0 DEF Instance
<1>1. CASE ReadFlags(p)
  <2>1. Through(p) /\ UNCHANGED <<lock, temp>>
    BY <1>1 DEF ReadFlags, Through, Swept
  <2>2. CASE Load(p, me.child)
    BY <1>d, <2>1, <2>2
  <2>3. CASE Go(p, "run")
    BY <1>b, <1>c, <2>1, <2>3 DEF Go, Swept
  <2>4. CASE Put(p, [me EXCEPT !.phase = "orphans", !.todo = Orphans(p)])
    <3> DEFINE r == [me EXCEPT !.phase = "orphans", !.todo = Orphans(p)]
    <3>1. r.phase = "orphans" /\ r.at = me.at /\ r.found = me.found
      BY <1>0 DEF Instance
    <3> HIDE DEF r
    <3> QED
      BY <1>b, <2>1, <2>4, <3>1 DEF Swept, r
  <2> QED
    BY <1>1, <2>2, <2>3, <2>4 DEF ReadFlags
<1>2. CASE SeeToOrphan(p)
  <2>1. Through(p) /\ UNCHANGED <<lock, temp>> /\ me.phase \in Swept
    BY <1>2 DEF SeeToOrphan, Through, Swept
  <2>2. CASE Go(p, "run")
    BY <1>b, <1>c, <2>1, <2>2 DEF Go, Swept
  <2>3. CASE \E n \in me.todo : Load(p, n)
    BY <1>d, <2>1, <2>3
  <2>4. CASE \E n \in me.todo : Put(p, [me EXCEPT !.todo = @ \ {n}])
    BY <1>b, <1>e, <2>1, <2>4
  <2> QED
    BY <1>2, <2>2, <2>3, <2>4 DEF SeeToOrphan
<1>3. CASE RestoreSession(p)
  <2>1. Through(p) /\ UNCHANGED <<lock, temp>> /\ me.phase \in Swept
    BY <1>3 DEF RestoreSession, Through, Swept
  <2>2. \A l, t : /\ [me EXCEPT !.loaded = l, !.sessions = t].phase = me.phase
                  /\ [me EXCEPT !.loaded = l, !.sessions = t].at = me.at
                  /\ [me EXCEPT !.loaded = l, !.sessions = t].found = me.found
                  /\ [me EXCEPT !.loaded = l].phase = me.phase
                  /\ [me EXCEPT !.loaded = l].at = me.at
                  /\ [me EXCEPT !.loaded = l].found = me.found
    BY <1>0 DEF Instance
  <2>3. PICK u \in me.loaded :
           \/ Put(p, [me EXCEPT !.loaded = @ \ {u}, !.sessions = @ \union {u}])
           \/ Put(p, [me EXCEPT !.loaded = @ \ {u}])
    BY <1>3 DEF RestoreSession
  <2> QED
    BY <1>b, <2>1, <2>2, <2>3
<1>4. CASE FinishRestore(p)
  BY <1>0, <1>4, <1>a DEF FinishRestore, Put, Quiet, Through, Swept, Instance
<1>5. CASE Quit(p)
  <2> DEFINE r == [me EXCEPT !.phase = "closed", !.sessions = {}]
  <2>1. Through(p) /\ UNCHANGED <<lock, temp>> /\ Put(p, r)
    BY <1>5 DEF Quit, Running, Through, Swept
  <2>2. r.phase = "closed" /\ r.at = me.at /\ r.found = me.found
    BY <1>0 DEF Instance
  <2> HIDE DEF r
  <2> QED
    BY <1>b, <2>1, <2>2 DEF Swept
<1>6. CASE SaveTimer(p)
  BY <1>6 DEF SaveTimer, Quiet, Through, Swept
<1>7. CASE Use(p) /\ temp' = temp
  <2>1. me.phase = "run" /\ lock' = lock
    BY <1>7 DEF Use, NewSession, CloseSession, SaveNamedWorkspace, DeleteNamedWorkspace,
           RestoreNamedWorkspace, CloseWindow, SaveRestoreState, RestoreWorkspaceFromMenu,
           MakeTemp, RemoveTemp, Running
  <2>2. CASE UNCHANGED proc
    BY <1>7, <2>1, <2>2 DEF Quiet, Through, Swept
  <2>3. CASE \E r : Put(p, r) /\ r.phase \in {"run", "restore"} /\ r.at = me.at /\ r.found = me.found
    BY <1>7, <2>1, <2>3, OneChanges DEF Quiet, Through, Swept
  <2>4. \/ UNCHANGED proc
        \/ \E r : Put(p, r) /\ r.phase \in {"run", "restore"} /\ r.at = me.at /\ r.found = me.found
    <3>1. \A u : /\ [me EXCEPT !.sessions = u].phase = me.phase
                 /\ [me EXCEPT !.sessions = u].at = me.at
                 /\ [me EXCEPT !.sessions = u].found = me.found
      BY <1>0 DEF Instance
    <3>2. \A u : /\ [me EXCEPT !.phase = "restore", !.loaded = u].phase = "restore"
                 /\ [me EXCEPT !.phase = "restore", !.loaded = u].at = me.at
                 /\ [me EXCEPT !.phase = "restore", !.loaded = u].found = me.found
      BY <1>0 DEF Instance
    <3>3. CASE \E u \in Uuids : NewSession(p, u) \/ CloseSession(p, u)
      BY <2>1, <3>1, <3>3 DEF NewSession, CloseSession
    <3>4. CASE \E n \in Names : RestoreNamedWorkspace(p, n)
      BY <3>2, <3>4 DEF RestoreNamedWorkspace
    <3>5. CASE CloseWindow(p)
      BY <2>1, <3>1, <3>5 DEF CloseWindow
    <3>6. CASE RestoreWorkspaceFromMenu(p)
      BY <3>2, <3>6 DEF RestoreWorkspaceFromMenu
    <3>7. CASE \/ \E n \in Names : SaveNamedWorkspace(p, n) \/ DeleteNamedWorkspace(p, n)
               \/ SaveRestoreState(p) \/ MakeTemp(p) \/ RemoveTemp(p)
      BY <3>7 DEF SaveNamedWorkspace, DeleteNamedWorkspace, SaveRestoreState, MakeTemp, RemoveTemp
    <3> QED
      BY <1>7, <3>3, <3>4, <3>5, <3>6, <3>7 DEF Use
  <2> QED
    BY <2>2, <2>3, <2>4
<1> QED
  BY <1>1, <1>2, <1>3, <1>4, <1>5, <1>6, <1>7

\* The purge, the sweeps and the making of temporary files keep the slot.
LEMMA SweepHoldsOn ==
    ASSUME TypeOK, NEW p \in Pids,
           \/ PurgeOrphanedScrollback(p) \/ CollectOrphans(p) \/ RemoveOrphan(p)
           \/ MakeTemp(p) \/ RemoveTemp(p)
    PROVE  /\ Claimed(p) /\ Claimed(p)' /\ proc'[p].at = proc[p].at
           /\ \A q \in Pids \ {p} : proc'[q] = proc[q]
           /\ UNCHANGED lock
<1> DEFINE me == proc[p]
<1>0. me \in Instance
  BY DEF TypeOK
<1>4. CASE PurgeOrphanedScrollback(p)
  BY <1>4, MovesOn DEF PurgeOrphanedScrollback, Claimed
<1>5. CASE CollectOrphans(p)
  <2> DEFINE r == [me EXCEPT !.phase = "sweep", !.found = {f \in temp : ~OwnerIsLive(p, f[1])}]
  <2>1. r.phase = "sweep" /\ r.at = me.at
    BY <1>0 DEF Instance
  <2>2. Put(p, r) /\ me.phase = "collect" /\ UNCHANGED lock
    BY <1>5 DEF CollectOrphans
  <2> HIDE DEF r
  <2> QED
    BY <2>1, <2>2, OneChanges DEF Claimed
<1>6. CASE RemoveOrphan(p)
  <2>1. UNCHANGED lock /\ me.phase = "sweep"
    BY <1>6 DEF RemoveOrphan
  <2>2. PICK f \in me.found : Put(p, [me EXCEPT !.found = @ \ {f}])
    BY <1>6 DEF RemoveOrphan
  <2> DEFINE r == [me EXCEPT !.found = @ \ {f}]
  <2>3. r.phase = me.phase /\ r.at = me.at
    BY <1>0 DEF Instance
  <2>4. Put(p, r)
    BY <2>2
  <2> HIDE DEF r
  <2> QED
    BY <2>1, <2>3, <2>4, OneChanges DEF Claimed
<1>7. CASE MakeTemp(p) \/ RemoveTemp(p)
  BY <1>7 DEF MakeTemp, RemoveTemp, Running, Claimed
<1> QED
  BY <1>4, <1>5, <1>6, <1>7

\* Whoever looks at a slot, or takes it, has one.
LEMMA PlacedStep == ASSUME TypeOK, Placed, [Next]_vars PROVE Placed'
<1>1. CASE UNCHANGED vars
  BY <1>1 DEF vars, Placed
<1>2. ASSUME NEW p \in Pids, Launch(p) \/ Start(p) \/ Use(p) \/ End(p) PROVE Placed'
  <2> DEFINE me == proc[p]
  <2>0. me \in Instance
    BY DEF TypeOK
  <2>a. ASSUME proc'[p].phase \in {"look"} \union Claiming => proc'[p].at \in Slots,
               \A q \in Pids \ {p} : proc'[q] = proc[q]
        PROVE  Placed'
    BY <2>a DEF Placed
  <2>1. CASE Launch(p)
    <3>1. 0 \in Slots
      BY InstancesAssumption DEF Slots
    <3>2. \A n : [Blank EXCEPT !.phase = "look"].at = 0 /\ [Blank EXCEPT !.phase = "look", !.child = n].at = 0
      BY DEF Blank
    <3>3. PICK r : Put(p, r) /\ r.at = 0
      BY <2>1, <3>2 DEF Launch
    <3> QED
      BY <2>a, <3>1, <3>3, OneChanges
  <2>2. CASE TryClaimSlot(p) /\ NextSlot(p)
    <3> DEFINE r == [me EXCEPT !.at = @ + 1,
                               !.phase = IF me.at + 1 = MaxSlots THEN "purge" ELSE "look"]
    <3>1. r.phase = (IF me.at + 1 = MaxSlots THEN "purge" ELSE "look") /\ r.at = me.at + 1
      BY <2>0 DEF Instance
    <3>2. Put(p, r)
      BY <2>2 DEF NextSlot
    <3>3. me.at \in Slots
      BY <2>2 DEF TryClaimSlot, Placed
    <3> HIDE DEF r
    <3> QED
      BY <2>a, <3>1, <3>2, <3>3, OneChanges, SlotFacts DEF Claiming
  <2>3. CASE me.phase \in {"look"} \union Claiming /\ \E x \in Phases : Go(p, x)
    <3>1. proc'[p].at = me.at /\ \A q \in Pids \ {p} : proc'[q] = proc[q]
      BY <2>3, MovesOn
    <3> QED
      BY <2>a, <2>3, <3>1 DEF Placed
  <2>4. CASE \/ PurgeOrphanedScrollback(p) \/ CollectOrphans(p) \/ RemoveOrphan(p)
             \/ MakeTemp(p) \/ RemoveTemp(p)
    BY <2>a, <2>4, SweepHoldsOn DEF Claimed, Claiming
  <2>5. CASE OnExit(p) \/ Crash(p)
    <3>1. Put(p, Blank) /\ Blank.phase = "off"
      BY <2>5 DEF OnExit, Crash, Ended, Blank
    <3> QED
      BY <2>a, <3>1, OneChanges DEF Claiming
  <2>6. CASE \/ ReadFlags(p) \/ SeeToOrphan(p) \/ RestoreSession(p) \/ FinishRestore(p)
             \/ Quit(p) \/ SaveTimer(p)
             \/ Use(p) /\ temp' = temp
    BY <2>a, <2>6, QuietSteps DEF Quiet, Swept, Claiming
  <2>7. Use(p) => temp' = temp \/ MakeTemp(p) \/ RemoveTemp(p)
    BY DEF Use, NewSession, CloseSession, SaveNamedWorkspace, DeleteNamedWorkspace,
           RestoreNamedWorkspace, CloseWindow, SaveRestoreState, RestoreWorkspaceFromMenu
  <2>8. TryClaimSlot(p) \/ OpenLock(p) \/ WriteLock(p)
          => \/ TryClaimSlot(p) /\ NextSlot(p)
             \/ me.phase \in {"look"} \union Claiming /\ \E x \in Phases : Go(p, x)
    BY PhaseFacts DEF TryClaimSlot, OpenLock, WriteLock, Claiming
  <2> QED
    BY <1>2, <2>1, <2>2, <2>3, <2>4, <2>5, <2>6, <2>7, <2>8 DEF Start, End
<1> QED
  BY <1>1, <1>2 DEF Next

-----------------------------------------------------------------------------
(* Instances: Slots *)

\* A race is over only when nobody has the slot any more ...
LEMMA StaysRaced ==
    ASSUME Contest, NEW p \in Pids, NEW n \in Slots, n \in raced, Takes(p, n)'
    PROVE  n \in raced'
BY DEF Contest

\* ... and two that claim one slot race for it.
LEMMA RivalsRace ==
    ASSUME Contest, NEW p \in Pids, NEW q \in Pids, NEW n \in Slots, p # q,
           proc'[p].at = n, proc'[q].at = n, proc'[p].phase \in Claiming, proc'[q].phase \in Claiming
    PROVE  n \in raced'
<1>1. Claims(p, n)' /\ Claims(q, n)' /\ Takes(p, n)'
  BY DEF Claims, Takes, Claiming
<1> QED
  BY <1>1 DEF Contest

\* What a step of one instance has to respect to leave every slot with its owner: it
\* begins to claim a slot that is nobody's or raced for, holds a slot it held or has
\* just written its number to, and writes over nobody else's number.
LEMMA Respects ==
    ASSUME SlotsGood, Placed', Contest, NEW p \in Pids,
           \A q \in Pids \ {p} : proc'[q] = proc[q],
           proc'[p].phase \in Claiming =>
              \A q \in Pids \ {p} : Claimed(q) /\ proc[q].at = proc'[p].at => proc[q].at \in raced,
           Claimed(p)' /\ proc'[p].at \in Slots =>
              /\ proc'[p].at = proc[p].at
              /\ Claimed(p) \/ proc[p].phase \in Claiming
              /\ ~Claimed(p) => lock'[proc[p].at] = p,
           \A q \in Pids : Claimed(q) /\ Claimed(q)' /\ proc[q].at \in Slots \ raced
              => lock'[proc[q].at] = q
    PROVE  SlotsGood'
<1> DEFINE At(q) == proc'[q].at
<1>1. \A q \in Pids : \A n \in Slots : Claimed(q)' /\ At(q) = n => Takes(q, n)'
  BY DEF Claimed, Takes
<1>2. \A q \in Pids : \A n \in Slots : Claimed(q)' /\ At(q) = n /\ n \in raced => n \in raced'
  BY <1>1, StaysRaced
<1>3. \A q \in Pids : proc'[q].phase \in Claiming => At(q) \in Slots
  BY DEF Placed
<1>4. OneClaims'
  BY <1>3, RivalsRace DEF OneClaims
<1>5. StillFree'
  <2> SUFFICES ASSUME NEW q \in Pids, NEW r \in Pids, proc'[q].phase \in Claiming, Claimed(r)',
                      At(q) = At(r)
               PROVE  At(r) \in raced
    BY <1>2, <1>3 DEF StillFree
  <2>1. At(r) \in Slots /\ q # r
    BY <1>3 DEF Claimed, Claiming
  <2>2. CASE q = p
    BY <2>1, <2>2 DEF Claimed
  <2>3. CASE r = p
    <3>1. proc[q].phase \in Claiming /\ At(r) = proc[r].at /\ proc[q].at = proc[r].at
      BY <2>1, <2>3
    <3>2. CASE Claimed(r)
      BY <3>1, <3>2 DEF SlotsGood, StillFree
    <3>3. CASE proc[r].phase \in Claiming
      BY <2>1, <3>1, <3>3 DEF SlotsGood, OneClaims
    <3> QED
      BY <2>1, <2>3, <3>2, <3>3
  <2>4. CASE q # p /\ r # p
    BY <2>4 DEF SlotsGood, StillFree, Claimed
  <2> QED
    BY <2>2, <2>3, <2>4
<1>6. SlotsAreOwned'
  <2> SUFFICES ASSUME NEW q \in Pids, Claimed(q)', At(q) \in Slots, At(q) \notin raced'
               PROVE  lock'[At(q)] = q
    BY DEF SlotsAreOwned
  <2>1. At(q) \notin raced
    BY <1>2
  <2>2. CASE q # p
    BY <2>1, <2>2 DEF Claimed
  <2>3. CASE q = p
    BY <2>1, <2>3
  <2> QED
    BY <2>2, <2>3
<1> QED
  BY <1>4, <1>5, <1>6 DEF SlotsGood

\* A step of an instance that keeps its slot and no lock changes: nothing is lost.
LEMMA HoldsOn ==
    ASSUME SlotsGood, Placed', Contest, NEW p \in Pids, Claimed(p), Claimed(p)',
           proc'[p].at = proc[p].at, \A q \in Pids \ {p} : proc'[q] = proc[q], UNCHANGED lock
    PROVE  SlotsGood'
<1>1. proc'[p].phase \notin Claiming
  BY DEF Claimed, Claiming
<1>2. \A q \in Pids : Claimed(q) /\ proc[q].at \in Slots \ raced => lock'[proc[q].at] = q
  BY DEF SlotsGood, SlotsAreOwned
<1> QED
  BY <1>1, <1>2, Respects

\* An instance that ends, with or without its lock, leaves the others what they hold.
LEMMA LetsGo ==
    ASSUME TypeOK, SlotsGood, Placed', Contest, NEW p \in Pids, OnExit(p) \/ Crash(p)
    PROVE  SlotsGood'
<1>1. proc'[p] = Blank /\ \A q \in Pids \ {p} : proc'[q] = proc[q]
  BY OneChanges DEF OnExit, Crash, Ended
<1>2. proc'[p].phase \notin Claiming /\ ~Claimed(p)'
  BY <1>1 DEF Blank, Claimed, Claiming
<1>3. ASSUME NEW q \in Pids, q # p, Claimed(q), proc[q].at \in Slots \ raced
      PROVE  lock'[proc[q].at] = q
  <2>1. lock[proc[q].at] = q
    BY <1>3 DEF SlotsGood, SlotsAreOwned
  <2>2. CASE Crash(p)
    BY <2>1, <2>2 DEF Crash
  <2>3. CASE OnExit(p)
    <3>1. Claimed(p)
      BY <2>3 DEF OnExit, Claimed
    <3>2. proc[q].at # proc[p].at
      BY <1>3, <2>1, <3>1 DEF SlotsGood, SlotsAreOwned
    <3> QED
      BY <1>3, <2>1, <2>3, <3>2 DEF OnExit, TypeOK
  <2> QED
    BY <2>2, <2>3
<1> QED
  BY <1>1, <1>2, <1>3, Respects

\* A look at a slot: it is passed over or, if no live instance's number is in it, about
\* to be taken.
LEMMA LookKeeps ==
    ASSUME TypeOK, SlotsGood, Placed', Contest, NEW p \in Pids, TryClaimSlot(p)
    PROVE  SlotsGood'
<1> DEFINE me == proc[p]
<1>0. me \in Instance /\ me.at \in Slots /\ me.phase = "look" /\ UNCHANGED lock
  BY DEF TypeOK, TryClaimSlot, SlotsGood, Placed
<1>1. \A q \in Pids : Claimed(q) /\ proc[q].at \in Slots \ raced => lock'[proc[q].at] = q
  BY <1>0 DEF SlotsGood, SlotsAreOwned
<1>2. CASE NextSlot(p)
  <2> DEFINE r == [me EXCEPT !.at = @ + 1,
                             !.phase = IF me.at + 1 = MaxSlots THEN "purge" ELSE "look"]
  <2>1. /\ r.at = me.at + 1
        /\ r.phase = IF me.at + 1 = MaxSlots THEN "purge" ELSE "look"
    BY <1>0 DEF Instance
  <2>2. proc'[p] = r /\ \A q \in Pids \ {p} : proc'[q] = proc[q]
    BY <1>2, OneChanges DEF NextSlot
  <2> HIDE DEF r
  <2>3. /\ proc'[p].phase \in {"look", "purge"}
        /\ proc'[p].phase = "purge" => proc'[p].at \notin Slots
    BY <1>0, <2>1, <2>2, SlotFacts
  <2>4. proc'[p].phase \notin Claiming /\ ~(Claimed(p)' /\ proc'[p].at \in Slots)
    BY <2>3 DEF Claimed, Claiming
  <2> QED
    BY <1>1, <2>2, <2>4, Respects
<1>3. CASE ~Alive(lock[me.at]) /\ Go(p, "open")
  <2>1. /\ proc'[p].phase = "open" /\ proc'[p].at = me.at
        /\ \A q \in Pids \ {p} : proc'[q] = proc[q]
    BY <1>3, MovesOn
  <2>2. ASSUME NEW q \in Pids, Claimed(q), proc[q].at = me.at PROVE proc[q].at \in raced
    <3> SUFFICES ASSUME proc[q].at \notin raced PROVE FALSE
      OBVIOUS
    <3>1. lock[me.at] = q
      BY <1>0, <2>2 DEF SlotsGood, SlotsAreOwned
    <3>2. Alive(q)
      BY <2>2 DEF Claimed, Alive
    <3> QED
      BY <1>3, <3>1, <3>2
  <2>3. ~Claimed(p)'
    BY <2>1 DEF Claimed
  <2> QED
    BY <1>1, <2>1, <2>2, <2>3, Respects
<1> QED
  BY <1>2, <1>3 DEF TryClaimSlot

\* The lock is emptied and written: nobody else's, unless it is raced for.
LEMMA ClaimKeeps ==
    ASSUME TypeOK, SlotsGood, Placed', Contest, NEW p \in Pids, OpenLock(p) \/ WriteLock(p)
    PROVE  SlotsGood'
<1> DEFINE me == proc[p]
<1>0. me \in Instance /\ me.phase \in Claiming /\ me.at \in Slots /\ ~Claimed(p)
  BY DEF TypeOK, OpenLock, WriteLock, SlotsGood, Placed, Claiming, Claimed
<1>1. /\ proc'[p].phase = IF OpenLock(p) THEN "write" ELSE "purge"
      /\ proc'[p].at = me.at /\ \A q \in Pids \ {p} : proc'[q] = proc[q]
  <2>1. CASE OpenLock(p)
    BY <2>1, MovesOn DEF OpenLock
  <2>2. CASE ~OpenLock(p) /\ WriteLock(p)
    BY <2>2, MovesOn DEF WriteLock
  <2> QED
    BY <2>1, <2>2
<1>2. /\ \A n \in Slots : n # me.at => lock'[n] = lock[n]
      /\ ~OpenLock(p) => lock'[me.at] = p
  BY <1>0 DEF OpenLock, WriteLock, TypeOK
<1>3. OpenLock(p) => ~Claimed(p)'
  BY <1>1 DEF Claimed
<1>4. \A q \in Pids : Claimed(q) /\ proc[q].at = me.at => proc[q].at \in raced
  BY <1>0 DEF SlotsGood, StillFree
<1>5. \A q \in Pids : Claimed(q) /\ proc[q].at \in Slots \ raced => lock'[proc[q].at] = q
  BY <1>2, <1>4 DEF SlotsGood, SlotsAreOwned
<1> QED
  BY <1>0, <1>1, <1>2, <1>3, <1>4, <1>5, Respects

\* A new instance holds nothing yet.
LEMMA LaunchKeeps ==
    ASSUME TypeOK, SlotsGood, Placed', Contest, NEW p \in Pids, Launch(p)
    PROVE  SlotsGood'
<1>a. \A n : /\ [Blank EXCEPT !.phase = "look"].phase = "look"
             /\ [Blank EXCEPT !.phase = "look", !.child = n].phase = "look"
  BY DEF Blank
<1>1. PICK r : Put(p, r) /\ r.phase = "look"
  BY <1>a DEF Launch
<1>2. proc'[p].phase = "look" /\ \A q \in Pids \ {p} : proc'[q] = proc[q]
  BY <1>1, OneChanges
<1>3. proc'[p].phase \notin Claiming /\ ~Claimed(p)'
  BY <1>2 DEF Claimed, Claiming
<1>4. \A q \in Pids : Claimed(q) /\ proc[q].at \in Slots \ raced => lock'[proc[q].at] = q
  BY DEF SlotsGood, SlotsAreOwned, Launch
<1> QED
  BY <1>2, <1>3, <1>4, Respects

\* Every step of an instance keeps the slots with their owners.
LEMMA SlotStep ==
    ASSUME TypeOK, SlotsGood, [Next]_vars
    PROVE  SlotsGood'
<1>1. CASE UNCHANGED vars
  BY <1>1 DEF vars, SlotsGood, Placed, OneClaims, StillFree, SlotsAreOwned, Claimed, Claiming
<1>2. ASSUME Contest, Placed', NEW p \in Pids, Launch(p) \/ Start(p) \/ Use(p) \/ End(p)
      PROVE  SlotsGood'
  <2>1. CASE Launch(p)
    BY <1>2, <2>1, LaunchKeeps
  <2>2. CASE TryClaimSlot(p) \/ OpenLock(p) \/ WriteLock(p)
    BY <1>2, <2>2, LookKeeps, ClaimKeeps
  <2>3. CASE \/ PurgeOrphanedScrollback(p) \/ CollectOrphans(p) \/ RemoveOrphan(p)
             \/ MakeTemp(p) \/ RemoveTemp(p)
    BY <1>2, <2>3, SweepHoldsOn, HoldsOn
  <2>4. CASE OnExit(p) \/ Crash(p)
    BY <1>2, <2>4, LetsGo
  <2>5. CASE \/ ReadFlags(p) \/ SeeToOrphan(p) \/ RestoreSession(p) \/ FinishRestore(p)
             \/ Quit(p) \/ SaveTimer(p)
             \/ Use(p) /\ temp' = temp
    <3>1. Quiet(p)
      BY <2>5, QuietSteps
    <3>2. Claimed(p) /\ Claimed(p)'
      BY <3>1 DEF Quiet, Through, Swept, Claimed
    <3> QED
      BY <1>2, <3>1, <3>2, HoldsOn DEF Quiet
  <2>6. Use(p) => temp' = temp \/ MakeTemp(p) \/ RemoveTemp(p)
    BY DEF Use, NewSession, CloseSession, SaveNamedWorkspace, DeleteNamedWorkspace,
           RestoreNamedWorkspace, CloseWindow, SaveRestoreState, RestoreWorkspaceFromMenu
  <2> QED
    BY <1>2, <2>1, <2>2, <2>3, <2>4, <2>5, <2>6 DEF Start, End
<1>3. Placed'
  BY PlacedStep DEF SlotsGood
<1> QED
  BY <1>1, <1>2, <1>3 DEF Next

-----------------------------------------------------------------------------
(* Instances: Temporary files *)

\* What LitterGood says of one instance.
Tidy(p) ==
    /\ proc[p].phase \in Unswept => <<p, "living">> \notin temp
    /\ \A f \in proc[p].found : f[2] = "dead"
    /\ proc[p].phase = "sweep" /\ <<p, "dead">> \in temp => <<p, "dead">> \in proc[p].found
    /\ proc[p].phase \in Swept => <<p, "dead">> \notin temp

\* A living instance's file that goes is removed by itself, or goes with it.
Spared ==
    \A p \in Pids : <<p, "living">> \in temp /\ <<p, "living">> \notin temp'
        => proc'[p].phase = "off" \/ RemoveTemp(p)

\* A step of one instance that makes no file tagged with another number.
LEMMA TidyStep ==
    ASSUME LitterGood, NEW p \in Pids, Tidy(p)',
           \A q \in Pids \ {p} : /\ proc'[q] = proc[q]
                                 /\ \A x : <<q, x>> \in temp' => <<q, x>> \in temp
    PROVE  LitterGood'
<1>1. \A q \in Pids \ {p} : Tidy(q)'
  BY DEF LitterGood, Tidy
<1> QED
  BY <1>1 DEF LitterGood, Tidy

\* Before its sweep an instance only moves from one early phase to the next.
LEMMA EarlyTidy ==
    ASSUME TypeOK, LitterGood, NEW p \in Pids,
           \/ Launch(p) \/ TryClaimSlot(p) \/ OpenLock(p) \/ WriteLock(p)
           \/ PurgeOrphanedScrollback(p)
    PROVE  LitterGood' /\ Spared
<1> DEFINE me == proc[p]
<1>0. me \in Instance
  BY DEF TypeOK
<1>1. UNCHANGED temp /\ me.phase \in Unswept
  BY DEF Launch, TryClaimSlot, OpenLock, WriteLock, PurgeOrphanedScrollback, Unswept
<1>2. /\ proc'[p].phase \in Unswept \ {"off"} /\ proc'[p].found \subseteq me.found
      /\ \A q \in Pids \ {p} : proc'[q] = proc[q]
  <2>1. CASE Launch(p)
    <3>1. \A n : /\ [Blank EXCEPT !.phase = "look"].phase = "look"
                 /\ [Blank EXCEPT !.phase = "look"].found = {}
                 /\ [Blank EXCEPT !.phase = "look", !.child = n].phase = "look"
                 /\ [Blank EXCEPT !.phase = "look", !.child = n].found = {}
      BY DEF Blank
    <3>2. PICK r : Put(p, r) /\ r.phase = "look" /\ r.found = {}
      BY <2>1, <3>1 DEF Launch
    <3> QED
      BY <3>2, OneChanges DEF Unswept
  <2>2. CASE NextSlot(p)
    <3> DEFINE r == [me EXCEPT !.at = @ + 1,
                               !.phase = IF me.at + 1 = MaxSlots THEN "purge" ELSE "look"]
    <3>1. r.phase \in {"look", "purge"} /\ r.found = me.found
      BY <1>0 DEF Instance
    <3>2. Put(p, r)
      BY <2>2 DEF NextSlot
    <3> HIDE DEF r
    <3> QED
      BY <3>1, <3>2, OneChanges DEF Unswept
  <2>3. CASE \E x \in {"open", "write", "purge", "collect"} : Go(p, x)
    BY <2>3, MovesOn DEF Unswept
  <2> QED
    BY <2>1, <2>2, <2>3 DEF TryClaimSlot, OpenLock, WriteLock, PurgeOrphanedScrollback
<1>3. Tidy(p)'
  BY <1>1, <1>2 DEF LitterGood, Tidy, Unswept, Swept
<1> QED
  BY <1>1, <1>2, <1>3, TidyStep DEF Spared

\* The walk of the sweep finds dead files only, and all its dead namesakes'.
LEMMA CollectTidy ==
    ASSUME TypeOK, LitterGood, NEW p \in Pids, CollectOrphans(p)
    PROVE  LitterGood' /\ Spared
<1> DEFINE me == proc[p]
           all == {f \in temp : ~OwnerIsLive(p, f[1])}
           r == [me EXCEPT !.phase = "sweep", !.found = all]
<1>0. me \in Instance /\ me.phase = "collect" /\ UNCHANGED temp
  BY DEF TypeOK, CollectOrphans
<1>1. r.phase = "sweep" /\ r.found = all
  BY <1>0 DEF Instance
<1>2. Put(p, r)
  BY DEF CollectOrphans
<1>3. \A f \in all : f[2] = "dead"
  <2> SUFFICES ASSUME NEW f \in all, f[2] # "dead" PROVE FALSE
    OBVIOUS
  <2>1. PICK q \in Pids : f = <<q, "living">>
    BY DEF TypeOK
  <2>2. q = p \/ proc[q].phase = "off"
    BY <2>1 DEF OwnerIsLive, Alive
  <2> QED
    BY <1>0, <2>1, <2>2 DEF LitterGood, Unswept
<1>4. <<p, "dead">> \in temp => <<p, "dead">> \in all
  BY DEF OwnerIsLive
<1> HIDE DEF r, all
<1>5. proc'[p] = r /\ \A q \in Pids \ {p} : proc'[q] = proc[q]
  BY <1>2, OneChanges
<1>6. Tidy(p)'
  BY <1>0, <1>1, <1>3, <1>4, <1>5 DEF Tidy, Unswept, Swept
<1> QED
  BY <1>0, <1>5, <1>6, TidyStep DEF Spared

\* What it removes was found dead.
LEMMA RemoveTidy ==
    ASSUME TypeOK, LitterGood, NEW p \in Pids, RemoveOrphan(p)
    PROVE  LitterGood' /\ Spared
<1> DEFINE me == proc[p]
<1>0. me \in Instance /\ me.phase = "sweep" /\ \A f \in me.found : f[2] = "dead"
  BY DEF TypeOK, RemoveOrphan, LitterGood
<1>1. PICK f \in me.found : temp' = temp \ {f} /\ Put(p, [me EXCEPT !.found = @ \ {f}])
  BY DEF RemoveOrphan
<1> DEFINE r == [me EXCEPT !.found = @ \ {f}]
<1>2. r.phase = "sweep" /\ r.found = me.found \ {f}
  BY <1>0 DEF Instance
<1>3. Put(p, r)
  BY <1>1
<1> HIDE DEF r
<1>4. proc'[p] = r /\ \A q \in Pids \ {p} : proc'[q] = proc[q]
  BY <1>3, OneChanges
<1>5. <<p, "dead">> \in temp => <<p, "dead">> \in me.found
  BY <1>0 DEF LitterGood
<1>6. Tidy(p)'
  BY <1>0, <1>1, <1>2, <1>4, <1>5 DEF Tidy, Unswept, Swept
<1>7. \A q \in Pids : f # <<q, "living">>
  BY <1>0
<1> QED
  BY <1>1, <1>4, <1>6, <1>7, TidyStep DEF Spared

\* A file is made and removed by a running instance, under its own number.
LEMMA UseTidy ==
    ASSUME TypeOK, LitterGood, NEW p \in Pids, MakeTemp(p) \/ RemoveTemp(p)
    PROVE  LitterGood' /\ Spared
<1>1. proc' = proc /\ proc[p].phase = "run"
  BY DEF MakeTemp, RemoveTemp, Running
<1>2. \A q \in Pids \ {p} : \A x : <<q, x>> \in temp' <=> <<q, x>> \in temp
  BY DEF MakeTemp, RemoveTemp
<1>3. <<p, "dead">> \notin temp /\ <<p, "dead">> \notin temp'
  BY <1>1 DEF LitterGood, Swept, MakeTemp, RemoveTemp
<1>4. Tidy(p)'
  BY <1>1, <1>3 DEF LitterGood, Tidy, Unswept
<1>5. <<p, "living">> \in temp /\ <<p, "living">> \notin temp' => RemoveTemp(p)
  BY DEF MakeTemp
<1> QED
  BY <1>1, <1>2, <1>4, <1>5, TidyStep DEF Spared

\* What an instance leaves is dead from then on, and its number is nobody's.
LEMMA EndTidy ==
    ASSUME TypeOK, LitterGood, NEW p \in Pids, OnExit(p) \/ Crash(p)
    PROVE  LitterGood' /\ Spared
<1>1. /\ Put(p, Blank) /\ temp' = {IF f[1] = p THEN <<p, "dead">> ELSE f : f \in temp}
  BY DEF OnExit, Crash, Ended
<1>2. proc'[p] = Blank /\ \A q \in Pids \ {p} : proc'[q] = proc[q]
  BY <1>1, OneChanges
<1>3. <<p, "living">> \notin temp'
  BY <1>1
<1>4. \A q \in Pids \ {p} : \A x : <<q, x>> \in temp' <=> <<q, x>> \in temp
  BY <1>1
<1>5. Tidy(p)'
  BY <1>2, <1>3 DEF Tidy, Blank, Unswept, Swept
<1>6. proc'[p].phase = "off"
  BY <1>2 DEF Blank
<1> QED
  BY <1>2, <1>4, <1>5, <1>6, TidyStep DEF Spared

\* Every step keeps the temporary files apart.
LEMMA LitterStep ==
    ASSUME TypeOK, LitterGood, [Next]_vars
    PROVE  LitterGood' /\ Spared
<1>1. CASE UNCHANGED vars
  BY <1>1 DEF vars, LitterGood, Spared
<1>2. ASSUME NEW p \in Pids, Launch(p) \/ Start(p) \/ Use(p) \/ End(p)
      PROVE  LitterGood' /\ Spared
  <2>1. CASE \/ Launch(p) \/ TryClaimSlot(p) \/ OpenLock(p) \/ WriteLock(p)
             \/ PurgeOrphanedScrollback(p)
    BY <2>1, EarlyTidy
  <2>2. CASE CollectOrphans(p) \/ RemoveOrphan(p)
    BY <2>2, CollectTidy, RemoveTidy
  <2>3. CASE MakeTemp(p) \/ RemoveTemp(p) \/ OnExit(p) \/ Crash(p)
    BY <2>3, UseTidy, EndTidy
  <2>4. CASE \/ ReadFlags(p) \/ SeeToOrphan(p) \/ RestoreSession(p) \/ FinishRestore(p)
             \/ Quit(p) \/ SaveTimer(p)
             \/ Use(p) /\ temp' = temp
    <3>1. Quiet(p)
      BY <2>4, QuietSteps
    <3>2. UNCHANGED temp
      BY <3>1 DEF Quiet
    <3> QED
      BY <3>1, <3>2, QuietKeeps DEF Spared
  <2>5. Use(p) => temp' = temp \/ MakeTemp(p) \/ RemoveTemp(p)
    BY DEF Use, NewSession, CloseSession, SaveNamedWorkspace, DeleteNamedWorkspace,
           RestoreNamedWorkspace, CloseWindow, SaveRestoreState, RestoreWorkspaceFromMenu
  <2> QED
    BY <1>2, <2>1, <2>2, <2>3, <2>4, <2>5 DEF Start, End
<1> QED
  BY <1>1, <1>2 DEF Next

-----------------------------------------------------------------------------
(* Instances: The theorems *)

\* The invariant holds throughout, for any number of launches, racing or not.
LEMMA Invariance == Spec => []IInv
<1>1. Init => IInv
  BY InitTyped DEF Init, IInv, Placed, Claiming, LitterGood, Blank, Swept
<1>2. IInv /\ [Next]_vars => IInv'
  BY NextTyped, PlacedStep, LitterStep DEF IInv
<1> QED
  BY <1>1, <1>2, PTL DEF Spec

\* Every slot, file and list is what it should be, for any number of instances.
THEOREM InstancesTyped == Spec => []TypeOK
<1>1. IInv => TypeOK
  BY DEF IInv
<1> QED
  BY <1>1, Invariance, PTL

\* The lock of a slot names the instance that holds it, however many launches, crashes
\* and reused numbers there are.  Launches that claim one slot at once share that slot,
\* and no race ever takes another slot from its owner.
THEOREM SlotsOwned == Spec => []SlotsAreOwned
<1>1. Init => TypeOK /\ SlotsGood
  BY InitTyped DEF Init, SlotsGood, Placed, OneClaims, StillFree, SlotsAreOwned, Claimed,
         Claiming, Blank
<1>2. TypeOK /\ SlotsGood /\ [Next]_vars => (TypeOK /\ SlotsGood)'
  BY SlotStep, NextTyped DEF SlotsGood
<1>3. TypeOK /\ SlotsGood => SlotsAreOwned
  BY DEF SlotsGood
<1> QED
  BY <1>1, <1>2, <1>3, PTL DEF Spec

\* When the sweep is over nothing of a dead namesake is left, and nothing new comes.
THEOREM NumbersClean == Spec => []NumbersAreClean
<1>1. IInv => NumbersAreClean
  <2> SUFFICES ASSUME IInv, NEW p \in Pids, Claimed(p), proc[p].phase \notin Starting
               PROVE  <<p, "dead">> \notin temp
    BY DEF NumbersAreClean
  <2>1. proc[p].phase \in Phases
    BY Fields DEF IInv, TypeOK
  <2>2. proc[p].phase \in Swept
    BY <2>1 DEF Phases, Starting, Claimed, Swept
  <2> QED
    BY <2>2 DEF IInv, LitterGood
<1> QED
  BY <1>1, Invariance, PTL

\* No sweep, crash or launch ever removes the temporary file of a living instance.
THEOREM LivingSpared == Spec => SweepsSpareTheLiving
<1>1. IInv /\ [Next]_vars => [Spared]_vars
  BY LitterStep DEF IInv
<1>2. [Spared]_vars
      <=> [\A p \in Pids : <<p, "living">> \in temp /\ <<p, "living">> \notin temp'
             => proc'[p].phase = "off" \/ RemoveTemp(p)]_vars
  BY DEF Spared
<1> QED
  BY <1>1, <1>2, Invariance, PTL DEF Spec, SweepsSpareTheLiving

-----------------------------------------------------------------------------
(* Scrollback: the lines that the stream and its files hold *)

\* Sequences of lines, as far as their elements do not matter.
LineSeqs == Seq(Lines)

Disks == UNION {[S -> Seq(Lines)] : S \in SUBSET Files}

Streams == [disk : Disks, current : {"none", "seg0", "seg1"},
            buffer : Seq(Lines), idx : {0, 1}, count : Nat]

\* A stream whose file has been removed, or written, from outside.
Without(o, f) == [o EXCEPT !.disk = Erase(@, f)]
With(o, f, s) == [o EXCEPT !.disk = Replace(@, f, s)]

\* What the lines of file f are once the stream's buffer has been written out.
Held(o, f) == IF f = o.current THEN Read(o.disk, f) \o o.buffer ELSE Read(o.disk, f)

OnSegment(o) ==
    \/ o.current = "none" /\ o.buffer = <<>>
    \/ o.current = SegPath(o.idx) /\ o.current \in DOMAIN o.disk

Sound(o) == o \in Streams /\ OnSegment(o)

Segs == {"seg0", "seg1"}
Live == {"created", "loaded", "start", "running", "closing"}
Merging == {"copying", "renaming", "remove0", "remove1"}
Clearing == {"clear1", "clear2"}
Stages == Live \union Merging \union Clearing \union {"off"}

ScrollbackTyped ==
    /\ Sound(out)
    /\ stage \in Stages /\ next \in {"off", "running", "closing"}
    /\ todo \in Seq(Lines) /\ recent \in Seq(Lines)
    /\ limit \in Limits
    /\ runs \in 0..MaxRuns /\ clearedAt \in 0..written /\ saved \in BOOLEAN
    /\ written \in Nat /\ written <= MaxLines + runs
    /\ stage = "created" => runs > 0 /\ written < MaxLines + runs

\* What the stages of a restore, a merge and a clear leave behind for the next.
StagesAgree ==
    /\ stage \notin {"loaded", "start"} => todo = <<>>
    /\ stage \notin Live => out.current = "none"
    /\ stage = "start" => out.current # "none"
    /\ stage \in {"remove1"} \union Clearing => Read(out.disk, "seg0") = <<>>
    /\ stage = "clear2" => Read(out.disk, "seg1") = <<>>
    /\ stage \in Merging => next \in {"running", "closing"}
    /\ stage = "renaming" =>
           "tmp" \in DOMAIN out.disk /\ out.disk["tmp"] = Merged(out.disk)

\* The count is that of the open segment, also after a merge there was no room for.
SegmentsCounted ==
    /\ out.current # "none" =>
           out.count = Len(Held(out, out.current)) /\ out.count < limit
    /\ stage \in Live /\ out.current = "none" => out.count = 0 /\ recent = <<>>
    /\ stage = "running" /\ out.current = "none" =>
           \A f \in Segs : Held(out, f) = <<>>
    /\ \A f \in Segs : \E n \in Limits : Len(Held(out, f)) <= n

\* The last lines are held: the last out.count by the open segment, those
\* before them by the other one.
RecentHeld ==
    stage \in Live =>
        /\ Len(recent) <= limit
        /\ \A i \in 1..Len(recent) :
               recent[i] \in IF i + out.count > Len(recent)
                             THEN ToSet(Held(out, SegPath(out.idx)))
                             ELSE ToSet(Held(out, SegPath(1 - out.idx)))

\* Whatever could be restored was printed after the last clear.
ClearedGone ==
    /\ \A f \in Files \ {"tmp"} : \A line \in ToSet(Held(out, f)) : line > clearedAt
    /\ \A line \in ToSet(todo) : line > clearedAt

ScrollbackInv ==
    ScrollbackTyped /\ StagesAgree /\ SegmentsCounted /\ RecentHeld /\ ClearedGone

\* No lines are lines, and one more line makes lines.
LEMMA SomeLines ==
    /\ <<>> \in Seq(Lines)
    /\ \A s \in Seq(Lines), line \in Lines : Append(s, line) \in Seq(Lines)
    /\ \A s, t \in Seq(Lines) : s \o t \in Seq(Lines)
OBVIOUS

\* Appending to the second of two sequences appends to both.
LEMMA AppendToBoth ==
    ASSUME NEW s \in Seq(Lines), NEW t \in Seq(Lines), NEW line \in Lines
    PROVE  s \o Append(t, line) = Append(s \o t, line)
OBVIOUS

\* The first element of one sequence may as well be the last of the one before it.
LEMMA HeadMoves ==
    ASSUME NEW s \in Seq(Lines), NEW t \in Seq(Lines), t # <<>>
    PROVE  /\ Append(s, Head(t)) \in Seq(Lines) /\ Tail(t) \in Seq(Lines)
           /\ Append(s, Head(t)) \o Tail(t) = s \o t
<1> DEFINE a == Append(s, Head(t))
           b == Tail(t)
<1>1. /\ a \in Seq(Lines) /\ b \in Seq(Lines) /\ Len(a) = Len(s) + 1 /\ Len(b) = Len(t) - 1
      /\ Len(s) \in Nat /\ Len(t) \in Nat \ {0}
      /\ a[Len(s) + 1] = t[1] /\ \A i \in 1..Len(s) : a[i] = s[i]
      /\ \A i \in 1..Len(b) : b[i] = t[i + 1]
  OBVIOUS
<1> HIDE DEF a, b
<1>2. a \o b \in Seq(Lines) /\ s \o t \in Seq(Lines) /\ Len(a \o b) = Len(s \o t)
  <2>1. a \o b \in Seq(Lines) /\ Len(a \o b) = Len(a) + Len(b)
    BY <1>1, ConcatProperties
  <2>2. s \o t \in Seq(Lines) /\ Len(s \o t) = Len(s) + Len(t)
    BY ConcatProperties
  <2>3. Len(a) + Len(b) = Len(s) + Len(t)
    BY <1>1
  <2> QED
    BY <2>1, <2>2, <2>3, Zenon
<1>3. ASSUME NEW i \in 1..Len(a \o b) PROVE (a \o b)[i] = (s \o t)[i]
  <2>1. CASE i <= Len(s) + 1
    BY <1>1, <1>2, <2>1
  <2>2. CASE i > Len(s) + 1
    <3>1. (a \o b)[i] = b[i - Len(a)] /\ (s \o t)[i] = t[i - Len(s)]
      BY <1>1, <1>2, <2>2
    <3>2. i - Len(a) \in 1..Len(b) /\ (i - Len(a)) + 1 = i - Len(s)
      BY <1>1, <1>2, <2>2
    <3> QED
      BY <1>1, <3>1, <3>2
  <2> QED
    BY <1>1, <1>2, <2>1, <2>2
<1> QED
  BY <1>1, <1>2, <1>3, SeqEqual DEF a, b

\* What is in a file is a sequence of lines (ReadNdjson).
LEMMA ReadTyped ==
    ASSUME NEW d \in Disks, NEW f
    PROVE  /\ DOMAIN d \subseteq Files
           /\ Read(d, f) \in Seq(Lines)
           /\ f \notin DOMAIN d => Read(d, f) = <<>>
           /\ f \in DOMAIN d => Read(d, f) = d[f]
<1>1. PICK S \in SUBSET Files : d \in [S -> Seq(Lines)]
  BY DEF Disks
<1>2. DOMAIN d = S
  BY <1>1
<1>3. <<>> \in Seq(Lines)
  OBVIOUS
<1>4. CASE f \in DOMAIN d
  BY <1>1, <1>2, <1>4 DEF Read
<1>5. CASE f \notin DOMAIN d
  BY <1>1, <1>2, <1>3, <1>5 DEF Read
<1> QED
  BY <1>1, <1>2, <1>4, <1>5

\* A file that is removed has nothing in it, and the others what they had.
LEMMA EraseReads ==
    ASSUME NEW d \in Disks, NEW f
    PROVE  /\ Erase(d, f) \in Disks
           /\ DOMAIN Erase(d, f) = DOMAIN d \ {f}
           /\ \A g : Read(Erase(d, f), g) = IF g = f THEN <<>> ELSE Read(d, g)
<1>1. PICK S \in SUBSET Files : d \in [S -> Seq(Lines)]
  BY DEF Disks
<1>2. Erase(d, f) = [g \in DOMAIN d \ {f} |-> d[g]]
  BY DEF Erase, Restrict
<1>3. Erase(d, f) \in [S \ {f} -> Seq(Lines)]
  BY <1>1, <1>2
<1>4. S \ {f} \in SUBSET Files
  BY <1>1
<1>5. Erase(d, f) \in Disks
  BY <1>3, <1>4 DEF Disks
<1> QED
  BY <1>2, <1>5 DEF Read

\* A file that is written is one of the files, and has what was written in it.
LEMMA ReplaceTyped ==
    ASSUME NEW d \in Disks, NEW f \in Files, NEW s \in LineSeqs
    PROVE  /\ Replace(d, f, s) \in Disks
           /\ DOMAIN Replace(d, f, s) = DOMAIN d \union {f}
<1>1. PICK S \in SUBSET Files : d \in [S -> Seq(Lines)]
  BY DEF Disks
<1>2. Replace(d, f, s) = [g \in DOMAIN d \union {f} |-> IF g = f THEN s ELSE d[g]]
  BY DEF Replace
<1>3. Replace(d, f, s) \in [S \union {f} -> Seq(Lines)]
  BY <1>1, <1>2 DEF LineSeqs
<1>4. S \union {f} \in SUBSET Files
  BY <1>1
<1>5. Replace(d, f, s) \in Disks
  BY <1>3, <1>4 DEF Disks
<1> QED
  BY <1>2, <1>5

\* What is read of it afterwards, and of the others.
LEMMA ReplaceReads ==
    ASSUME NEW d, NEW f, NEW s
    PROVE  \A g : Read(Replace(d, f, s), g) = IF g = f THEN s ELSE Read(d, g)
BY DEF Replace, Read

\* A file that is there and is written to is one that is replaced.
LEMMA UpdateReplaces ==
    ASSUME NEW d \in Disks, NEW f \in DOMAIN d, NEW s
    PROVE  [d EXCEPT ![f] = s] = Replace(d, f, s)
<1>1. PICK S \in SUBSET Files : d \in [S -> Seq(Lines)]
  BY DEF Disks
<1>2. DOMAIN d \union {f} = DOMAIN d
  OBVIOUS
<1> QED
  BY <1>1, <1>2 DEF Replace

\* So it is one of the files, and what is read of it is what was written.
LEMMA UpdateReads ==
    ASSUME NEW d \in Disks, NEW f \in DOMAIN d, NEW s \in LineSeqs
    PROVE  /\ Replace(d, f, s) \in Disks
           /\ DOMAIN Replace(d, f, s) = DOMAIN d
           /\ \A g : Read(Replace(d, f, s), g) = IF g = f THEN s ELSE Read(d, g)
<1>1. PICK S \in SUBSET Files : d \in [S -> Seq(Lines)]
  BY DEF Disks
<1>2. f \in Files /\ DOMAIN d \union {f} = DOMAIN d
  BY <1>1
<1>3. Replace(d, f, s) \in Disks /\ DOMAIN Replace(d, f, s) = DOMAIN d
  BY <1>2, ReplaceTyped
<1> QED
  BY <1>3, ReplaceReads

\* The names of the two segments.
LEMMA SegPaths ==
    ASSUME NEW i \in {0, 1}
    PROVE  /\ SegPath(i) \in {"seg0", "seg1"} /\ SegPath(i) \in Files
           /\ 1 - i \in {0, 1} /\ SegPath(1 - i) # SegPath(i)
           /\ {SegPath(i), SegPath(1 - i)} = {"seg0", "seg1"}
           /\ SegPath(i) \notin {"none", "tmp", "compact"}
<1>1. CASE i = 0
  BY <1>1 DEF SegPath, Files
<1>2. CASE i = 1
  BY <1>2 DEF SegPath, Files
<1> QED
  BY <1>1, <1>2

\* What a sound stream holds are lines, and its buffer belongs to an open file.
LEMMA HeldTyped ==
    ASSUME NEW o, Sound(o), NEW f
    PROVE  /\ Held(o, f) \in Seq(Lines)
           /\ f # o.current => Held(o, f) = Read(o.disk, f)
           /\ f = o.current => Held(o, f) = Read(o.disk, f) \o o.buffer
           /\ o.buffer = <<>> => Held(o, f) = Read(o.disk, f)
<1>1. o.disk \in Disks /\ o.buffer \in Seq(Lines)
  BY DEF Sound, Streams
<1>2. Read(o.disk, f) \in Seq(Lines)
  BY <1>1, ReadTyped
<1>3. Read(o.disk, f) \o o.buffer \in Seq(Lines)
  BY <1>1, <1>2
<1>4. o.buffer = <<>> => Read(o.disk, f) \o o.buffer = Read(o.disk, f)
  BY <1>2
<1> QED
  BY <1>2, <1>3, <1>4 DEF Held

\* Flushing moves the buffer into the file and nothing else.
LEMMA FlushHolds ==
    ASSUME NEW o, Sound(o)
    PROVE  /\ Sound(Flush(o))
           /\ Flush(o).current = o.current /\ Flush(o).idx = o.idx /\ Flush(o).count = o.count
           /\ Flush(o).buffer = <<>>
           /\ DOMAIN Flush(o).disk = DOMAIN o.disk
           /\ \A f : Read(Flush(o).disk, f) = Held(o, f)
<1>1. o \in Streams /\ o.disk \in Disks /\ o.buffer \in Seq(Lines)
  BY DEF Sound, Streams
<1>2. CASE o.current = "none"
  <2>1. Flush(o) = o /\ o.buffer = <<>>
    BY <1>1, <1>2, SegPaths DEF Flush, Sound, OnSegment, Streams
  <2> QED
    BY <2>1, HeldTyped
<1>3. CASE o.current # "none"
  <2>1. o.current = SegPath(o.idx) /\ o.current \in DOMAIN o.disk
    BY <1>3 DEF Sound, OnSegment
  <2> DEFINE s == o.disk[o.current] \o o.buffer
             d == [o.disk EXCEPT ![o.current] = s]
  <2>2. Read(o.disk, o.current) = o.disk[o.current] /\ o.disk[o.current] \in Seq(Lines)
    BY <1>1, <2>1, ReadTyped
  <2>3. s \in Seq(Lines)
    BY <1>1, <2>2
  <2>4. Flush(o) = [o EXCEPT !.disk = d, !.buffer = <<>>]
    BY <1>1, <1>3 DEF Flush, Streams
  <2> HIDE DEF s
  <2>5. /\ d \in Disks /\ DOMAIN d = DOMAIN o.disk
        /\ \A g : Read(d, g) = IF g = o.current THEN s ELSE Read(o.disk, g)
    <3>1. o.disk \in Disks /\ o.current \in DOMAIN o.disk /\ s \in LineSeqs
      BY <1>1, <2>1, <2>3 DEF LineSeqs, Streams
    <3>2. d = Replace(o.disk, o.current, s)
      BY <3>1, UpdateReplaces
    <3> QED
      BY <3>1, <3>2, UpdateReads
  <2> HIDE DEF d
  <2>6. /\ Flush(o) \in Streams /\ Flush(o).disk = d /\ Flush(o).buffer = <<>>
        /\ Flush(o).current = o.current /\ Flush(o).idx = o.idx /\ Flush(o).count = o.count
    BY <1>1, <2>4, <2>5, SomeLines DEF Streams
  <2>7. \A f : Held(o, f) = IF f = o.current THEN s ELSE Read(o.disk, f)
    BY <2>2 DEF Held, s
  <2> QED
    BY <2>1, <2>5, <2>6, <2>7 DEF Sound, OnSegment
<1> QED
  BY <1>2, <1>3

\* Closing leaves in the files what the stream held.
LEMMA CloseHolds ==
    ASSUME NEW o, Sound(o)
    PROVE  /\ Sound(Close(o))
           /\ Close(o).current = "none" /\ Close(o).idx = o.idx /\ Close(o).count = o.count
           /\ Close(o).buffer = <<>>
           /\ DOMAIN Close(o).disk = DOMAIN o.disk
           /\ \A f : Read(Close(o).disk, f) = Held(o, f)
<1> DEFINE c == Flush(o)
<1>1. /\ Sound(c) /\ c.idx = o.idx /\ c.count = o.count /\ c.buffer = <<>>
      /\ DOMAIN c.disk = DOMAIN o.disk
      /\ \A f : Read(c.disk, f) = Held(o, f)
  BY FlushHolds
<1>2. Close(o) = [c EXCEPT !.current = "none"]
  BY DEF Close
<1> HIDE DEF c
<1>3. c \in Streams
  BY <1>1 DEF Sound
<1>4. /\ Close(o) \in Streams /\ Close(o).disk = c.disk /\ Close(o).buffer = c.buffer
      /\ Close(o).current = "none" /\ Close(o).idx = c.idx /\ Close(o).count = c.count
  BY <1>2, <1>3 DEF Streams
<1> QED
  BY <1>1, <1>4 DEF Sound, OnSegment

\* Opening empties the segment whose turn it is and no other file.
LEMMA OpenHolds ==
    ASSUME NEW o, Sound(o), o.current = "none"
    PROVE  /\ Sound(Open(o))
           /\ Open(o).current = SegPath(o.idx) /\ Open(o).idx = o.idx /\ Open(o).count = o.count
           /\ Open(o).buffer = <<>>
           /\ DOMAIN Open(o).disk = DOMAIN o.disk \union {SegPath(o.idx)}
           /\ \A f : Read(Open(o).disk, f) = IF f = SegPath(o.idx) THEN <<>> ELSE Read(o.disk, f)
<1>1. o \in Streams /\ o.disk \in Disks /\ o.idx \in {0, 1} /\ o.buffer = <<>>
  BY SegPaths DEF Sound, Streams, OnSegment
<1>2. SegPath(o.idx) \in Files /\ SegPath(o.idx) \in {"seg0", "seg1"}
  BY <1>1, SegPaths
<1> DEFINE d == Replace(o.disk, SegPath(o.idx), <<>>)
<1>3. Open(o) = [o EXCEPT !.current = SegPath(o.idx), !.disk = d]
  BY <1>1 DEF Open, Streams
<1>4. /\ d \in Disks /\ DOMAIN d = DOMAIN o.disk \union {SegPath(o.idx)}
      /\ \A g : Read(d, g) = IF g = SegPath(o.idx) THEN <<>> ELSE Read(o.disk, g)
  <2>1. o.disk \in Disks /\ SegPath(o.idx) \in Files /\ <<>> \in Seq(Lines)
    BY <1>1, <1>2, SomeLines
  <2>2. PICK t \in LineSeqs, f \in Files, e \in Disks : t = <<>> /\ f = SegPath(o.idx) /\ e = o.disk
    BY <2>1 DEF LineSeqs
  <2>3. Replace(e, f, t) \in Disks /\ DOMAIN Replace(e, f, t) = DOMAIN e \union {f}
    BY ReplaceTyped
  <2>4. \A g : Read(Replace(e, f, t), g) = IF g = f THEN t ELSE Read(e, g)
    BY ReplaceReads
  <2> QED
    BY <2>2, <2>3, <2>4
<1> HIDE DEF d
<1>5. /\ Open(o) \in Streams /\ Open(o).disk = d /\ Open(o).buffer = o.buffer
      /\ Open(o).current = SegPath(o.idx) /\ Open(o).idx = o.idx /\ Open(o).count = o.count
  BY <1>1, <1>2, <1>3, <1>4 DEF Streams
<1> QED
  BY <1>1, <1>4, <1>5 DEF Sound, OnSegment

\* Starting to count afresh changes no file.
LEMMA ResetHolds ==
    ASSUME NEW o, Sound(o), o.current = "none"
    PROVE  /\ Sound(Reset(o))
           /\ Reset(o).current = "none" /\ Reset(o).idx = 0 /\ Reset(o).count = 0
           /\ Reset(o).buffer = <<>>
           /\ Reset(o).disk = o.disk
<1>1. o \in Streams /\ o.buffer = <<>>
  BY SegPaths DEF Sound, Streams, OnSegment
<1>2. /\ Reset(o) \in Streams /\ Reset(o).disk = o.disk /\ Reset(o).buffer = o.buffer
      /\ Reset(o).current = o.current /\ Reset(o).idx = 0 /\ Reset(o).count = 0
  BY <1>1 DEF Reset, Streams
<1> QED
  BY <1>1, <1>2 DEF Sound, OnSegment

\* Rotating empties the other segment; the one that was open is on disk.
LEMMA RotateHolds ==
    ASSUME NEW o, Sound(o), o.current # "none"
    PROVE  /\ Sound(Rotate(o))
           /\ Rotate(o).current = SegPath(1 - o.idx) /\ Rotate(o).idx = 1 - o.idx
           /\ Rotate(o).count = 0 /\ Rotate(o).buffer = <<>>
           /\ \A f : Held(Rotate(o), f) = IF f = SegPath(1 - o.idx) THEN <<>> ELSE Held(o, f)
<1> DEFINE c == Close(o)
           t == [c EXCEPT !.idx = 1 - @, !.count = 0]
<1>1. /\ Sound(c) /\ c.current = "none" /\ c.idx = o.idx /\ c.buffer = <<>>
      /\ \A f : Read(c.disk, f) = Held(o, f)
  BY CloseHolds
<1>2. Rotate(o) = Open(t)
  BY DEF Rotate
<1> HIDE DEF c
<1>3. c \in Streams /\ 1 - c.idx \in {0, 1}
  BY <1>1 DEF Sound, Streams
<1>4. t \in Streams /\ t.disk = c.disk /\ t.buffer = <<>> /\ t.current = "none" /\ t.idx = 1 - c.idx /\ t.count = 0
  BY <1>1, <1>3 DEF Streams
<1> HIDE DEF t
<1>5. Sound(t)
  BY <1>4 DEF Sound, OnSegment
<1>6. /\ Sound(Open(t)) /\ Open(t).current = SegPath(t.idx) /\ Open(t).idx = t.idx
      /\ Open(t).count = t.count /\ Open(t).buffer = <<>>
      /\ \A f : Read(Open(t).disk, f) = IF f = SegPath(t.idx) THEN <<>> ELSE Read(t.disk, f)
  BY <1>4, <1>5, OpenHolds
<1>7. \A f : Held(Open(t), f) = Read(Open(t).disk, f)
  BY <1>6, HeldTyped
<1> QED
  BY <1>1, <1>2, <1>4, <1>6, <1>7

\* A line that is put is held by the open segment, the last of its lines.
LEMMA PutLineHolds ==
    ASSUME NEW o, Sound(o), NEW line \in Lines
    PROVE  LET p == PutLine(o, line)
               s == SegPath(o.idx)
           IN /\ Sound(p)
              /\ p.current = s /\ p.idx = o.idx /\ p.count = o.count + 1
              /\ Held(p, s) = Append(IF o.current = "none" THEN <<>> ELSE Held(o, s), line)
              /\ \A f : f # s => Held(p, f) = Held(o, f)
<1> DEFINE q == IF o.current = "none" THEN Open(o) ELSE o
           s == SegPath(o.idx)
           p == PutLine(o, line)
<1>1. /\ Sound(q) /\ q.current = s /\ q.idx = o.idx /\ q.count = o.count
      /\ Held(q, s) = IF o.current = "none" THEN <<>> ELSE Held(o, s)
      /\ \A f : f # s => Held(q, f) = Held(o, f)
  <2>1. CASE o.current = "none"
    <3>1. /\ Sound(Open(o)) /\ Open(o).current = s /\ Open(o).idx = o.idx
          /\ Open(o).count = o.count /\ Open(o).buffer = <<>>
          /\ \A f : Read(Open(o).disk, f) = IF f = s THEN <<>> ELSE Read(o.disk, f)
      BY <2>1, OpenHolds
    <3>2. \A f : Held(Open(o), f) = Read(Open(o).disk, f)
      BY <3>1, HeldTyped
    <3>3. o.buffer = <<>>
      BY <2>1, SegPaths DEF Sound, OnSegment, Streams
    <3>4. \A f : Held(o, f) = Read(o.disk, f)
      BY <3>3, HeldTyped
    <3> QED
      BY <2>1, <3>1, <3>2, <3>4
  <2>2. CASE o.current # "none"
    BY <2>2 DEF Sound, OnSegment
  <2> QED
    BY <2>1, <2>2
<1>2. p = [q EXCEPT !.buffer = Append(@, line), !.count = @ + 1]
  BY DEF PutLine
<1> HIDE DEF q, p
<1>3. q \in Streams /\ q.disk \in Disks /\ q.buffer \in Seq(Lines)
  BY <1>1 DEF Sound, Streams
<1>4. /\ p \in Streams /\ p.disk = q.disk /\ p.current = q.current /\ p.idx = q.idx
      /\ p.count = q.count + 1 /\ p.buffer = Append(q.buffer, line)
  <2>1. Append(q.buffer, line) \in Seq(Lines) /\ q.count + 1 \in Nat
    BY <1>3, SomeLines DEF Streams
  <2> DEFINE b == Append(q.buffer, line)
             n == q.count + 1
  <2>2. p = [q EXCEPT !.buffer = b, !.count = n]
    BY <1>2, <1>3 DEF Streams
  <2>3. b \in Seq(Lines) /\ n \in Nat
    BY <2>1
  <2> HIDE DEF b, n
  <2>4. /\ p \in Streams /\ p.disk = q.disk /\ p.current = q.current /\ p.idx = q.idx
        /\ p.count = n /\ p.buffer = b
    BY <1>3, <2>2, <2>3 DEF Streams
  <2> QED
    BY <2>4 DEF b, n
<1>5. q.current # "none" /\ OnSegment(q)
  <2>1. o.idx \in {0, 1}
    BY DEF Sound, Streams
  <2> QED
    BY <1>1, <2>1, SegPaths DEF Sound
<1>6. Sound(p)
  BY <1>4, <1>5 DEF Sound, OnSegment
<1>7. Read(q.disk, s) \in Seq(Lines)
  BY <1>3, ReadTyped
<1>8. Held(p, s) = Append(Held(q, s), line)
  BY <1>1, <1>3, <1>4, <1>7, AppendToBoth DEF Held
<1>9. \A f : f # s => Held(p, f) = Held(q, f)
  BY <1>1, <1>4 DEF Held
<1> QED
  BY <1>1, <1>4, <1>6, <1>8, <1>9 DEF p

\* A written line is held by the segment that was open, which is full when the
\* other one is begun.
LEMMA WriteLineHolds ==
    ASSUME NEW o, Sound(o), NEW line \in Lines, limit \in Nat \ {0}
    PROVE  LET w == WriteLine(o, line)
               s == SegPath(o.idx)
               t == SegPath(1 - o.idx)
           IN /\ Sound(w) /\ w.current # "none"
              /\ Held(w, s) = Append(IF o.current = "none" THEN <<>> ELSE Held(o, s), line)
              /\ \A f : f \notin {s, t} => Held(w, f) = Held(o, f)
              /\ o.count + 1 < limit =>
                     /\ w.idx = o.idx /\ w.count = o.count + 1
                     /\ Held(w, t) = Held(o, t)
              /\ o.count + 1 >= limit =>
                     /\ w.idx = 1 - o.idx /\ w.count = 0
                     /\ Held(w, t) = <<>>
<1> DEFINE p == PutLine(o, line)
           s == SegPath(o.idx)
           t == SegPath(1 - o.idx)
<1>1. /\ Sound(p) /\ p.current = s /\ p.idx = o.idx /\ p.count = o.count + 1
      /\ Held(p, s) = Append(IF o.current = "none" THEN <<>> ELSE Held(o, s), line)
      /\ \A f : f # s => Held(p, f) = Held(o, f)
  BY PutLineHolds
<1>2. o.idx \in {0, 1} /\ o.count \in Nat
  BY DEF Sound, Streams
<1>3. s # t /\ s # "none" /\ t # "none"
  BY <1>2, SegPaths
<1>4. /\ Sound(Rotate(p)) /\ Rotate(p).current = SegPath(1 - p.idx) /\ Rotate(p).idx = 1 - p.idx
      /\ Rotate(p).count = 0
      /\ \A f : Held(Rotate(p), f) = IF f = SegPath(1 - p.idx) THEN <<>> ELSE Held(p, f)
  BY <1>1, <1>3, RotateHolds
<1>5. WriteLine(o, line) = IF p.count >= limit THEN Rotate(p) ELSE p
  BY DEF WriteLine
<1> HIDE DEF p, s, t
<1>6. CASE o.count + 1 >= limit
  <2>1. WriteLine(o, line) = Rotate(p)
    BY <1>1, <1>5, <1>6
  <2> QED
    BY <1>1, <1>2, <1>3, <1>4, <1>6, <2>1 DEF s, t
<1>7. CASE o.count + 1 < limit
  <2>1. WriteLine(o, line) = p
    BY <1>1, <1>2, <1>5, <1>7
  <2> QED
    BY <1>1, <1>2, <1>3, <1>7, <2>1 DEF s, t
<1> QED
  BY <1>2, <1>6, <1>7

\* The elements of a sequence that one element, or another sequence, is added to.
LEMMA ToSetGrows ==
    ASSUME NEW s \in Seq(Lines)
    PROVE  /\ ToSet(s) \subseteq Lines
           /\ \A line \in Lines : ToSet(Append(s, line)) = ToSet(s) \union {line}
           /\ \A t \in Seq(Lines) : ToSet(s \o t) = ToSet(s) \union ToSet(t)
           /\ s = <<>> => ToSet(s) = {}
<1>1. ToSet(s) \subseteq Lines
  BY DEF ToSet
<1>2. ASSUME NEW line \in Lines
      PROVE  ToSet(Append(s, line)) = ToSet(s) \union {line}
  <2> DEFINE a == Append(s, line)
  <2>1. /\ Len(a) = Len(s) + 1 /\ a[Len(s) + 1] = line
        /\ \A i \in 1..Len(s) : a[i] = s[i]
        /\ DOMAIN a = 1..(Len(s) + 1) /\ DOMAIN s = 1..Len(s) /\ Len(s) \in Nat
    OBVIOUS
  <2> HIDE DEF a
  <2> QED
    BY <2>1 DEF ToSet
<1>3. ASSUME NEW t \in Seq(Lines)
      PROVE  ToSet(s \o t) = ToSet(s) \union ToSet(t)
  <2> DEFINE c == s \o t
  <2>1. /\ DOMAIN c = 1..(Len(s) + Len(t)) /\ DOMAIN s = 1..Len(s) /\ DOMAIN t = 1..Len(t)
        /\ Len(s) \in Nat /\ Len(t) \in Nat
        /\ \A i \in 1..Len(s) : c[i] = s[i]
        /\ \A i \in 1..Len(t) : c[i + Len(s)] = t[i]
    OBVIOUS
  <2> HIDE DEF c
  <2>2. ToSet(s) \subseteq ToSet(c)
    BY <2>1 DEF ToSet
  <2>3. ToSet(t) \subseteq ToSet(c)
    <3> SUFFICES ASSUME NEW i \in 1..Len(t) PROVE t[i] \in ToSet(c)
      BY <2>1 DEF ToSet
    <3>1. i + Len(s) \in DOMAIN c /\ c[i + Len(s)] = t[i]
      BY <2>1
    <3> QED
      BY <3>1 DEF ToSet
  <2>4. ToSet(c) \subseteq ToSet(s) \union ToSet(t)
    <3> SUFFICES ASSUME NEW i \in DOMAIN c PROVE c[i] \in ToSet(s) \union ToSet(t)
      BY DEF ToSet
    <3>1. CASE i <= Len(s)
      BY <2>1, <3>1 DEF ToSet
    <3>2. CASE i > Len(s)
      <4>1. i - Len(s) \in 1..Len(t) /\ c[i - Len(s) + Len(s)] = t[i - Len(s)]
        BY <2>1, <3>2
      <4>2. i - Len(s) + Len(s) = i
        BY <2>1
      <4> QED
        BY <2>1, <4>1, <4>2 DEF ToSet
    <3> QED
      BY <2>1, <3>1, <3>2
  <2> QED
    BY <2>2, <2>3, <2>4 DEF c
<1>4. s = <<>> => ToSet(s) = {}
  BY DEF ToSet
<1> QED
  BY <1>1, <1>2, <1>3, <1>4

\* The last lines of a sequence are lines of it, in its order (Load, maxLines).
LEMMA LastOfKeeps ==
    ASSUME NEW s \in Seq(Lines), NEW n \in Nat
    PROVE  LET l == LastOf(s, n)
           IN /\ l \in Seq(Lines)
              /\ Len(l) = IF Len(s) > n THEN n ELSE Len(s)
              /\ \A i \in 1..Len(l) : l[i] = s[i + Len(s) - Len(l)]
              /\ ToSet(l) \subseteq ToSet(s)
              /\ n > 0 /\ l = <<>> => s = <<>>
<1> DEFINE l == LastOf(s, n)
<1>1. /\ l \in Seq(Lines) /\ Len(l) = IF Len(s) > n THEN n ELSE Len(s)
      /\ \A i \in 1..Len(l) : l[i] = s[i + Len(s) - Len(l)]
  <2>1. CASE Len(s) > n
    <3>1. l = SubSeq(s, Len(s) - n + 1, Len(s))
      BY <2>1 DEF LastOf
    <3>2. Len(s) - n + 1 \in 1..(Len(s) + 1) /\ Len(s) \in Nat
      BY <2>1
    <3> HIDE DEF l
    <3> QED
      BY <2>1, <3>1, <3>2
  <2>2. CASE Len(s) <= n
    <3>1. l = s /\ Len(s) \in Nat
      BY <2>2 DEF LastOf
    <3> HIDE DEF l
    <3>2. ASSUME NEW i \in 1..Len(l) PROVE l[i] = s[i + Len(s) - Len(l)]
      <4>1. i + Len(s) - Len(l) = i
        BY <3>1
      <4> QED
        BY <3>1, <4>1
    <3> QED
      BY <2>2, <3>1, <3>2
  <2> QED
    BY <2>1, <2>2
<1> HIDE DEF l
<1>2. ToSet(l) \subseteq ToSet(s)
  <2> SUFFICES ASSUME NEW i \in 1..Len(l) PROVE l[i] \in ToSet(s)
    BY <1>1 DEF ToSet
  <2>1. i + Len(s) - Len(l) \in 1..Len(s)
    BY <1>1
  <2>2. l[i] = s[i + Len(s) - Len(l)]
    BY <1>1
  <2> QED
    BY <2>1, <2>2 DEF ToSet
<1>3. n > 0 /\ l = <<>> => s = <<>>
  BY <1>1
<1> QED
  BY <1>1, <1>2, <1>3 DEF l

\* What is in a file is held, and what is held is in the file or the buffer.
LEMMA HeldIsThere ==
    ASSUME NEW o, Sound(o), NEW f
    PROVE  /\ ToSet(Read(o.disk, f)) \subseteq ToSet(Held(o, f))
           /\ ToSet(Held(o, f)) \subseteq ToSet(Read(o.disk, f)) \union ToSet(o.buffer)
           /\ Len(Read(o.disk, f)) <= Len(Held(o, f))
<1>1. Read(o.disk, f) \in Seq(Lines) /\ o.buffer \in Seq(Lines)
  BY ReadTyped DEF Sound, Streams
<1>2. CASE f = o.current
  <2> DEFINE r == Read(o.disk, f)
             b == o.buffer
  <2>1. Held(o, f) = r \o b
    BY <1>2, HeldTyped
  <2>2. r \in Seq(Lines) /\ b \in Seq(Lines)
    BY <1>1
  <2> HIDE DEF r, b
  <2>3. ToSet(r \o b) = ToSet(r) \union ToSet(b)
    BY <2>2, ToSetGrows
  <2>4. Len(r) <= Len(r \o b)
    BY <2>2
  <2> QED
    BY <2>1, <2>3, <2>4 DEF r, b
<1>3. CASE f # o.current
  <2>1. Held(o, f) = Read(o.disk, f)
    BY <1>3, HeldTyped
  <2>2. Len(Read(o.disk, f)) \in Nat
    BY <1>1
  <2> QED
    BY <2>1, <2>2
<1> QED
  BY <1>2, <1>3

\* What Load reads is in the segments or the compact file, and all there is.
LEMMA LoadedFrom ==
    ASSUME NEW d \in Disks
    PROVE  /\ Segments(d) \in Seq(Lines) /\ Loaded(d) \in Seq(Lines) /\ Merged(d) \in Seq(Lines)
           /\ \A line \in ToSet(Loaded(d)) : \E f \in Files \ {"tmp"} : line \in ToSet(Read(d, f))
           /\ ToSet(Segments(d)) = ToSet(Read(d, "seg0")) \union ToSet(Read(d, "seg1"))
           /\ ToSet(Merged(d)) \subseteq ToSet(Segments(d))
           /\ Loaded(d) = <<>> => Read(d, "seg0") = <<>> /\ Read(d, "seg1") = <<>>
<1>1. /\ Read(d, "seg0") \in Seq(Lines) /\ Read(d, "seg1") \in Seq(Lines)
      /\ Read(d, "compact") \in Seq(Lines)
      /\ "seg0" \notin DOMAIN d => Read(d, "seg0") = <<>>
      /\ "seg1" \notin DOMAIN d => Read(d, "seg1") = <<>>
  BY ReadTyped
<1>2. /\ Segments(d) = Read(d, "seg0") \o Read(d, "seg1") /\ Segments(d) \in Seq(Lines)
      /\ Segments(d) = <<>> => Read(d, "seg0") = <<>> /\ Read(d, "seg1") = <<>>
  BY <1>1, SomeLines DEF Segments
<1>3. ToSet(Segments(d)) = ToSet(Read(d, "seg0")) \union ToSet(Read(d, "seg1"))
  BY <1>1, <1>2, ToSetGrows
<1>4. <<>> \in Seq(Lines) /\ ToSet(<<>>) = {}
  BY SomeLines, ToSetGrows
<1>5. Merged(d) \in Seq(Lines) /\ ToSet(Merged(d)) \subseteq ToSet(Segments(d))
  BY <1>2, <1>4 DEF Merged
<1>6. {"seg0", "seg1", "compact"} \subseteq Files \ {"tmp"}
  BY DEF Files
<1>7. CASE {"seg0", "seg1"} \intersect DOMAIN d # {}
  <2>1. Loaded(d) = Segments(d)
    BY <1>7 DEF Loaded
  <2> QED
    BY <1>2, <1>3, <1>5, <1>6, <2>1
<1>8. CASE {"seg0", "seg1"} \intersect DOMAIN d = {}
  <2>1. Loaded(d) = Read(d, "compact")
    BY <1>8 DEF Loaded
  <2> QED
    BY <1>1, <1>2, <1>3, <1>5, <1>6, <1>8, <2>1
<1> QED
  BY <1>7, <1>8

\* The parts of the types that most steps need.
LEMMA TypedParts ==
    ASSUME ScrollbackTyped
    PROVE  /\ Sound(out) /\ out \in Streams /\ out.disk \in Disks /\ out.buffer \in Seq(Lines)
           /\ out.idx \in {0, 1} /\ out.count \in Nat
           /\ out.current # "none" => out.current = SegPath(out.idx)
           /\ out.current = "none" => out.buffer = <<>>
           /\ limit \in Nat \ {0} /\ written \in Nat /\ runs \in Nat /\ clearedAt \in Nat
           /\ MaxLines \in Nat /\ MaxRuns \in Nat
<1>1. Sound(out) /\ out \in Streams /\ OnSegment(out)
  BY DEF ScrollbackTyped, Sound
<1>2. out.idx \in {0, 1} /\ out.disk \in Disks /\ out.buffer \in Seq(Lines) /\ out.count \in Nat
  BY <1>1 DEF Streams
<1>3. SegPath(out.idx) # "none"
  BY <1>2, SegPaths
<1> QED
  BY <1>1, <1>2, <1>3, ScrollbackAssumption DEF ScrollbackTyped, OnSegment

\* A line written to a live stream is held, and everything else is as before.
LEMMA WriteKeeps ==
    ASSUME ScrollbackInv, NEW line \in Lines, line > clearedAt, stage \in Live, Write(line),
           limit' = limit, clearedAt' = clearedAt, stage' = stage
    PROVE  /\ Sound(out') /\ out'.current # "none" /\ recent' \in Seq(Lines)
           /\ SegmentsCounted' /\ RecentHeld'
           /\ \A f \in Files \ {"tmp"} : \A l \in ToSet(Held(out', f)) : l > clearedAt
<1> DEFINE s == SegPath(out.idx)
           t == SegPath(1 - out.idx)
           h == IF out.current = "none" THEN <<>> ELSE Held(out, s)
           n == Len(recent)
<1>1. ScrollbackTyped /\ SegmentsCounted /\ RecentHeld /\ ClearedGone
  BY DEF ScrollbackInv
<1>2. /\ Sound(out) /\ out.idx \in {0, 1} /\ out.count \in Nat /\ limit \in Nat \ {0}
      /\ out.current # "none" => out.current = s
      /\ recent \in Seq(Lines) /\ limit \in Limits /\ clearedAt \in Nat
  BY <1>1, TypedParts DEF ScrollbackTyped
<1>3. /\ Sound(out') /\ out'.current # "none"
      /\ Held(out', s) = Append(h, line)
      /\ \A f : f \notin {s, t} => Held(out', f) = Held(out, f)
      /\ out.count + 1 < limit =>
             out'.idx = out.idx /\ out'.count = out.count + 1 /\ Held(out', t) = Held(out, t)
      /\ out.count + 1 >= limit =>
             out'.idx = 1 - out.idx /\ out'.count = 0 /\ Held(out', t) = <<>>
  BY <1>2, WriteLineHolds DEF Write
<1>4. /\ s \in Files /\ t \in Files /\ s # t /\ {s, t} = Segs /\ SegPath(1 - (1 - out.idx)) = s
      /\ s \notin {"none", "tmp"} /\ t \notin {"none", "tmp"}
  <2>1. 1 - out.idx \in {0, 1} /\ 1 - (1 - out.idx) = out.idx
    BY <1>2
  <2> QED
    BY <1>2, <2>1, SegPaths DEF Segs
<1>5. out'.current = SegPath(out'.idx)
  BY <1>3 DEF Sound, OnSegment
<1> HIDE DEF s, t
<1>6. h \in Seq(Lines) /\ Len(h) = out.count
  <2>1. CASE out.current = "none"
    <3>1. out.count = 0
      BY <1>1, <2>1 DEF SegmentsCounted
    <3> QED
      BY <2>1, <3>1
  <2>2. CASE out.current # "none"
    <3>1. h = Held(out, out.current) /\ out.count = Len(Held(out, out.current))
      BY <1>1, <1>2, <2>2 DEF SegmentsCounted
    <3> QED
      BY <1>2, <3>1, HeldTyped
  <2> QED
    BY <2>1, <2>2
<1>7. out.count < limit
  <2>1. CASE out.current = "none"
    BY <1>1, <1>2, <2>1 DEF SegmentsCounted
  <2>2. CASE out.current # "none"
    BY <1>1, <2>2 DEF SegmentsCounted
  <2> QED
    BY <2>1, <2>2
<1>8. /\ Held(out', s) \in Seq(Lines) /\ Len(Held(out', s)) = out.count + 1
      /\ ToSet(Held(out', s)) = ToSet(h) \union {line}
  <2> HIDE DEF h
  <2>1. Append(h, line) \in Seq(Lines) /\ Len(Append(h, line)) = Len(h) + 1
    BY <1>6
  <2>2. ToSet(Append(h, line)) = ToSet(h) \union {line}
    BY <1>6, ToSetGrows
  <2> QED
    BY <1>3, <1>6, <2>1, <2>2
<1>9. ToSet(h) \subseteq ToSet(Held(out, s))
  <2>1. ToSet(<<>>) = {}
    BY ToSetGrows, SomeLines
  <2> QED
    BY <2>1
<1>10. recent' \in Seq(Lines) /\ RecentHeld'
  <2> DEFINE a == Append(recent, line)
  <2>1. /\ a \in Seq(Lines) /\ Len(a) = n + 1 /\ n \in Nat
        /\ a[n + 1] = line /\ \A i \in 1..n : a[i] = recent[i]
    BY <1>2
  <2>2. recent' = LastOf(a, limit)
    BY DEF Write
  <2>3. /\ n <= limit
        /\ \A i \in 1..n : recent[i] \in IF i + out.count > n THEN ToSet(Held(out, s))
                                                             ELSE ToSet(Held(out, t))
    BY <1>1 DEF RecentHeld, s, t
  <2> HIDE DEF a
  <2>4. /\ recent' \in Seq(Lines) /\ Len(recent') = IF n + 1 > limit THEN limit ELSE n + 1
        /\ \A i \in 1..Len(recent') : recent'[i] = a[i + (n + 1) - Len(recent')]
    <3> DEFINE l == LastOf(a, limit)
    <3>1. /\ l \in Seq(Lines) /\ Len(l) = IF Len(a) > limit THEN limit ELSE Len(a)
          /\ \A i \in 1..Len(l) : l[i] = a[i + Len(a) - Len(l)]
      BY <1>2, <2>1, LastOfKeeps
    <3> HIDE DEF l
    <3> QED
      BY <2>1, <2>2, <3>1 DEF l
  <2> DEFINE m == Len(recent')
  <2>8. m \in Nat /\ (m = limit \/ m = n + 1) /\ m <= limit /\ m <= n + 1
    BY <1>2, <2>1, <2>4
  <2>5. \A i \in 1..(n + 1) : a[i] \in IF i + out.count > n THEN ToSet(Held(out', s))
                                                           ELSE ToSet(Held(out, t))
    <3> SUFFICES ASSUME NEW i \in 1..(n + 1)
                 PROVE  a[i] \in IF i + out.count > n THEN ToSet(Held(out', s))
                                                      ELSE ToSet(Held(out, t))
      OBVIOUS
    <3>1. CASE i = n + 1
      BY <1>2, <1>8, <2>1, <3>1
    <3>2. CASE i \in 1..n
      <4>1. out.current # "none"
        <5>1. recent # <<>>
          BY <2>1, <3>2
        <5> QED
          BY <1>1, <5>1 DEF SegmentsCounted
      <4>2. h = Held(out, s)
        BY <4>1
      <4> QED
        BY <1>8, <2>1, <2>3, <3>2, <4>2
    <3> QED
      BY <2>1, <3>1, <3>2
  <2>9. \A i \in 1..m : recent'[i] = a[i + (n + 1) - m]
    BY <2>4
  <2>10. RecentHeld' <=> (stage' \in Live =>
                /\ m <= limit
                /\ \A i \in 1..m : recent'[i] \in IF i + out'.count > m
                                                  THEN ToSet(Held(out', SegPath(out'.idx)))
                                                  ELSE ToSet(Held(out', SegPath(1 - out'.idx))))
    BY DEF RecentHeld
  <2> HIDE DEF m, n
  <2>6. CASE out.count + 1 < limit
    <3>1. ASSUME NEW i \in 1..m
          PROVE  recent'[i] \in IF i + out'.count > m THEN ToSet(Held(out', s))
                                                      ELSE ToSet(Held(out', t))
      <4>1. i + (n + 1) - m \in 1..(n + 1)
        BY <2>1, <2>8
      <4>2. (i + (n + 1) - m) + out.count > n <=> i + out'.count > m
        BY <1>2, <1>3, <2>1, <2>6, <2>8
      <4>3. Held(out', t) = Held(out, t)
        BY <1>3, <2>6
      <4> QED
        BY <2>5, <2>9, <4>1, <4>2, <4>3
    <3>2. out'.idx = out.idx
      BY <1>3, <2>6
    <3>3. SegPath(out'.idx) = s /\ SegPath(1 - out'.idx) = t
      BY <3>2 DEF s, t
    <3>4. \A i \in 1..m : recent'[i] \in IF i + out'.count > m
                                         THEN ToSet(Held(out', SegPath(out'.idx)))
                                         ELSE ToSet(Held(out', SegPath(1 - out'.idx)))
      BY <3>1, <3>3, Zenon
    <3> QED
      BY <2>4, <2>8, <2>10, <3>4, Zenon
  <2>7. CASE out.count + 1 >= limit
    <3>1. ASSUME NEW i \in 1..m
          PROVE  recent'[i] \in ToSet(Held(out', s)) /\ ~(i + out'.count > m)
      <4>1. i + (n + 1) - m \in 1..(n + 1)
        BY <2>1, <2>8
      <4>2. (i + (n + 1) - m) + out.count > n
        BY <1>2, <2>1, <2>7, <2>8
      <4>3. out'.count = 0
        BY <1>3, <2>7
      <4> QED
        BY <2>1, <2>5, <2>8, <2>9, <4>1, <4>2, <4>3
    <3>2. SegPath(1 - out'.idx) = s
      BY <1>3, <1>4, <2>7
    <3>3. \A i \in 1..m : recent'[i] \in IF i + out'.count > m
                                         THEN ToSet(Held(out', SegPath(out'.idx)))
                                         ELSE ToSet(Held(out', SegPath(1 - out'.idx)))
      BY <3>1, <3>2, Zenon
    <3> QED
      BY <2>4, <2>8, <2>10, <3>3, Zenon
  <2> QED
    BY <1>2, <2>4, <2>6, <2>7
<1>11. SegmentsCounted'
  <2>1. out'.count = Len(Held(out', out'.current)) /\ out'.count < limit
    <3>1. CASE out.count + 1 < limit
      BY <1>2, <1>3, <1>5, <1>8, <3>1 DEF s
    <3>2. CASE out.count + 1 >= limit
      <4>1. out'.current = t
        BY <1>3, <1>5, <3>2 DEF t
      <4> QED
        BY <1>2, <1>3, <3>2, <4>1
    <3> QED
      BY <1>2, <3>1, <3>2
  <2>2. ASSUME NEW f \in Segs PROVE \E k \in Limits : Len(Held(out', f)) <= k
    <3>1. CASE f = s
      BY <1>2, <1>7, <1>8, <3>1
    <3>2. CASE f = t
      <4>1. CASE out.count + 1 < limit
        BY <1>1, <1>3, <3>2, <4>1 DEF SegmentsCounted
      <4>2. CASE out.count + 1 >= limit
        BY <1>2, <1>3, <3>2, <4>2
      <4> QED
        BY <1>2, <4>1, <4>2
    <3> QED
      BY <1>4, <3>1, <3>2
  <2> QED
    BY <1>3, <2>1, <2>2 DEF SegmentsCounted
<1>12. ASSUME NEW f \in Files \ {"tmp"}, NEW l \in ToSet(Held(out', f))
       PROVE  l > clearedAt
  <2>1. CASE f = s
    <3>1. l \in ToSet(Held(out, s)) \/ l = line
      BY <1>8, <1>9, <2>1
    <3> QED
      BY <1>1, <2>1, <3>1 DEF ClearedGone
  <2>2. CASE f = t
    <3>1. Held(out', t) = Held(out, t) \/ Held(out', t) = <<>>
      BY <1>2, <1>3
    <3>2. ToSet(<<>>) = {}
      BY ToSetGrows, SomeLines
    <3> QED
      BY <1>1, <2>2, <3>1, <3>2 DEF ClearedGone
  <2>3. CASE f \notin {s, t}
    BY <1>1, <1>3, <2>3 DEF ClearedGone
  <2> QED
    BY <2>1, <2>2, <2>3
<1> QED
  BY <1>3, <1>10, <1>11, <1>12

\* A step after which no session lives, and the segments hold no more than before.
LEMMA RestKeeps ==
    ASSUME ScrollbackInv, Sound(out'), out'.current = "none", stage' \notin Live,
           clearedAt' = clearedAt, todo' = todo \/ todo' = <<>>,
           \A f \in Segs : Len(Held(out', f)) <= Len(Held(out, f)),
           \A f \in Files \ {"tmp"} : \A l \in ToSet(Held(out', f)) :
               \E g \in Files \ {"tmp"} : l \in ToSet(Held(out, g))
    PROVE  SegmentsCounted' /\ RecentHeld' /\ ClearedGone'
<1>1. Sound(out) /\ SegmentsCounted /\ ClearedGone /\ Limits \subseteq Nat
  BY ScrollbackAssumption DEF ScrollbackInv, ScrollbackTyped
<1>2. RecentHeld'
  BY DEF RecentHeld
<1>3. SegmentsCounted'
  <2>1. ASSUME NEW f \in Segs PROVE \E n \in Limits : Len(Held(out', f)) <= n
    <3>1. PICK n \in Limits : Len(Held(out, f)) <= n
      BY <1>1 DEF SegmentsCounted
    <3>2. Held(out, f) \in Seq(Lines) /\ Held(out', f) \in Seq(Lines)
      BY <1>1, HeldTyped
    <3>3. Len(Held(out, f)) \in Nat /\ Len(Held(out', f)) \in Nat /\ n \in Nat
      BY <1>1, <3>2
    <3> QED
      BY <3>1, <3>3
  <2> QED
    BY <2>1 DEF SegmentsCounted, Live
<1>4. ClearedGone'
  <2>1. \A l \in ToSet(todo') : l > clearedAt
    <3>1. ToSet(<<>>) = {}
      BY ToSetGrows, SomeLines
    <3> QED
      BY <1>1, <3>1 DEF ClearedGone
  <2>2. ASSUME NEW f \in Files \ {"tmp"}, NEW l \in ToSet(Held(out', f))
        PROVE  l > clearedAt
    BY <1>1 DEF ClearedGone
  <2> QED
    BY <2>1, <2>2 DEF ClearedGone
<1> QED
  BY <1>2, <1>3, <1>4

\* A step of a live session that moves no line out of reach.
LEMMA SegmentsQuiet ==
    ASSUME ScrollbackInv, stage \in Live, Sound(out'),
           out'.idx = out.idx, out'.count = out.count, recent' = recent, limit' = limit,
           \/ out'.current = out.current
           \/ stage = "running" /\ out.current = "none" /\ out'.current = SegPath(out.idx),
           \A f \in Files : Held(out', f) = Held(out, f),
           stage' = "running" /\ out'.current = "none" => \A f \in Segs : Held(out, f) = <<>>
    PROVE  SegmentsCounted' /\ RecentHeld'
<1>1. /\ Sound(out) /\ SegmentsCounted /\ RecentHeld /\ out.idx \in {0, 1} /\ limit \in Nat \ {0}
      /\ Segs \subseteq Files /\ SegPath(out.idx) \in Segs /\ SegPath(1 - out.idx) \in Segs
      /\ out.current \in {"none"} \union Segs
  BY TypedParts, SegPaths DEF ScrollbackInv, Segs, Files
<1>2. RecentHeld'
  BY <1>1 DEF RecentHeld
<1>3. out'.current # "none" => out'.count = Len(Held(out', out'.current)) /\ out'.count < limit'
  <2>1. CASE out'.current = out.current
    BY <1>1, <2>1 DEF SegmentsCounted
  <2>2. CASE stage = "running" /\ out.current = "none" /\ out'.current = SegPath(out.idx)
    <3>1. Held(out, SegPath(out.idx)) = <<>> /\ out.count = 0
      BY <1>1, <2>2 DEF SegmentsCounted
    <3> QED
      BY <1>1, <2>2, <3>1
  <2> QED
    BY <2>1, <2>2
<1>4. out'.current = "none" => out'.count = 0 /\ recent' = <<>>
  BY <1>1, SegPaths DEF SegmentsCounted, Segs
<1>5. \A f \in Segs : \E n \in Limits : Len(Held(out', f)) <= n
  BY <1>1 DEF SegmentsCounted
<1> QED
  BY <1>1, <1>2, <1>3, <1>4, <1>5 DEF SegmentsCounted

\* A step that begins the segments afresh.
LEMMA FreshKeeps ==
    ASSUME ScrollbackInv, Sound(out'), out'.count = 0, recent' = <<>>, limit' \in Limits,
           out'.current # "none" => Held(out', out'.current) = <<>>,
           stage' = "running" /\ out'.current = "none" => \A f \in Segs : Held(out', f) = <<>>,
           \A f \in Segs : Len(Held(out', f)) <= Len(Held(out, f))
    PROVE  SegmentsCounted' /\ RecentHeld'
<1>1. Sound(out) /\ SegmentsCounted /\ Limits \subseteq Nat \ {0}
  BY ScrollbackAssumption DEF ScrollbackInv, ScrollbackTyped
<1>2. RecentHeld'
  BY <1>1 DEF RecentHeld
<1>3. ASSUME NEW f \in Segs PROVE \E n \in Limits : Len(Held(out', f)) <= n
  <2>1. PICK n \in Limits : Len(Held(out, f)) <= n
    BY <1>1 DEF SegmentsCounted
  <2>2. Held(out, f) \in Seq(Lines) /\ Held(out', f) \in Seq(Lines)
    BY <1>1, HeldTyped
  <2>3. Len(Held(out, f)) \in Nat /\ Len(Held(out', f)) \in Nat /\ n \in Nat
    BY <1>1, <2>2
  <2> QED
    BY <2>1, <2>3
<1>4. out'.current # "none" => out'.count = Len(Held(out', out'.current)) /\ out'.count < limit'
  BY <1>1
<1> QED
  BY <1>2, <1>3, <1>4 DEF SegmentsCounted

\* Lines that were there before are still newer than the last clear.
LEMMA StillGone ==
    ASSUME ScrollbackInv, clearedAt' = clearedAt,
           \A l \in ToSet(todo') : l > clearedAt,
           \A f \in Files \ {"tmp"} : \A l \in ToSet(Held(out', f)) :
               \E g \in Files \ {"tmp"} : l \in ToSet(Held(out, g))
    PROVE  ClearedGone'
BY DEF ClearedGone, ScrollbackInv

\* A file left as it is or emptied has no more and no other lines than before.
LEMMA SameOrEmpty ==
    ASSUME NEW s \in Seq(Lines), NEW t, t = s \/ t = <<>>
    PROVE  Len(t) <= Len(s) /\ ToSet(t) \subseteq ToSet(s)
<1>1. ToSet(<<>>) = {}
  BY ToSetGrows, SomeLines
<1>2. Len(s) \in Nat /\ Len(<<>>) = 0
  OBVIOUS
<1>3. CASE t = s
  BY <1>2, <1>3
<1>4. CASE t = <<>>
  BY <1>1, <1>2, <1>4
<1> QED
  BY <1>3, <1>4

-----------------------------------------------------------------------------
(* Scrollback: each step keeps the invariant *)

\* Before the program ever ran there is no file and nothing is cleared.
LEMMA ScrollbackInit == InitScrollback => ScrollbackInv
<1> SUFFICES ASSUME InitScrollback PROVE ScrollbackInv
  OBVIOUS
<1>1. /\ out = [disk |-> <<>>, current |-> "none", buffer |-> <<>>, idx |-> 0, count |-> 0]
      /\ stage = "off" /\ next = "off" /\ todo = <<>> /\ limit \in Limits
      /\ written = 0 /\ runs = 0 /\ recent = <<>> /\ clearedAt = 0 /\ saved = FALSE
  BY DEF InitScrollback
<1>2. <<>> \in Disks
  <2>1. <<>> \in [{} -> Seq(Lines)] /\ {} \in SUBSET Files
    OBVIOUS
  <2> QED
    BY <2>1 DEF Disks
<1>3. /\ out.disk = <<>> /\ out.current = "none" /\ out.buffer = <<>> /\ out.idx = 0
      /\ out.count = 0
  BY <1>1
<1>4. out \in Streams
  BY <1>1, <1>2, SomeLines DEF Streams
<1>5. Sound(out)
  BY <1>3, <1>4 DEF Sound, OnSegment
<1>6. \A f : Held(out, f) = <<>>
  <2>1. DOMAIN out.disk = {}
    BY <1>3
  <2>2. \A f : Read(out.disk, f) = <<>>
    BY <2>1 DEF Read
  <2> QED
    BY <1>3, <1>5, <2>2, HeldTyped
<1>7. ToSet(<<>>) = {} /\ Len(<<>>) = 0
  BY ToSetGrows, SomeLines
<1>8. ScrollbackTyped
  <2>1. todo \in Seq(Lines) /\ recent \in Seq(Lines)
    BY <1>1, SomeLines
  <2>2. runs \in 0..MaxRuns /\ clearedAt \in 0..written /\ written <= MaxLines + runs /\ written \in Nat
    BY <1>1, ScrollbackAssumption
  <2> QED
    BY <1>1, <1>5, <2>1, <2>2 DEF ScrollbackTyped, Stages
<1>9. StagesAgree
  BY <1>1, <1>3 DEF StagesAgree, Merging, Clearing
<1>10. SegmentsCounted
  BY <1>1, <1>3, <1>6, <1>7, ScrollbackAssumption DEF SegmentsCounted, Live
<1>11. RecentHeld /\ ClearedGone
  BY <1>1, <1>6, <1>7 DEF RecentHeld, ClearedGone, Live
<1> QED
  BY <1>8, <1>9, <1>10, <1>11 DEF ScrollbackInv

\* A new writer for the session.
LEMMA CreateSessionKeeps ==
    ASSUME ScrollbackInv, NEW n \in Limits, CreateSession(n)
    PROVE  ScrollbackInv'
<1>1. /\ ScrollbackTyped /\ StagesAgree /\ stage = "off" /\ stage' = "created"
      /\ out' = Reset(out) /\ recent' = <<>> /\ limit' = n /\ runs' = runs + 1 /\ runs < MaxRuns
      /\ next' = next /\ todo' = todo /\ written' = written /\ clearedAt' = clearedAt
      /\ saved' = saved
  BY DEF CreateSession, ScrollbackInv
<1>2. Sound(out) /\ out.current = "none" /\ out.buffer = <<>>
  BY <1>1, TypedParts DEF StagesAgree, Live
<1>3. /\ Sound(out') /\ out'.current = "none" /\ out'.count = 0 /\ out'.buffer = <<>>
      /\ out'.disk = out.disk
  BY <1>1, <1>2, ResetHolds
<1>4. \A f : Held(out', f) = Held(out, f)
  BY <1>2, <1>3, HeldTyped
<1>5. \A f : Held(out, f) \in Seq(Lines)
  BY <1>2, HeldTyped
<1>6. ScrollbackTyped'
  BY <1>1, <1>3, TypedParts, SomeLines DEF ScrollbackTyped, Stages, Live
<1>7. StagesAgree'
  BY <1>1, <1>3 DEF StagesAgree, Live, Merging, Clearing
<1>8. SegmentsCounted' /\ RecentHeld'
  BY <1>1, <1>3, <1>4, <1>5, SameOrEmpty, FreshKeeps
<1>9. ClearedGone'
  BY <1>1, <1>4, StillGone DEF ScrollbackInv, ClearedGone
<1> QED
  BY <1>6, <1>7, <1>8, <1>9 DEF ScrollbackInv

\* A line printed while the session lives.
LEMMA PrintLineKeeps ==
    ASSUME ScrollbackInv, PrintLine
    PROVE  ScrollbackInv'
<1>1. /\ ScrollbackTyped /\ StagesAgree /\ ClearedGone
      /\ stage \in {"created", "loaded", "running", "closing"} /\ stage' = stage
      /\ written < MaxLines /\ written' = written + 1 /\ Write(written')
      /\ next' = next /\ todo' = todo /\ limit' = limit /\ runs' = runs
      /\ clearedAt' = clearedAt /\ saved' = saved
  BY DEF PrintLine, ScrollbackInv
<1>2. written' \in Lines /\ written' > clearedAt
  BY <1>1, TypedParts DEF Lines, ScrollbackTyped
<1>3. /\ Sound(out') /\ out'.current # "none" /\ recent' \in Seq(Lines)
      /\ SegmentsCounted' /\ RecentHeld'
      /\ \A f \in Files \ {"tmp"} : \A l \in ToSet(Held(out', f)) : l > clearedAt
  BY <1>1, <1>2, WriteKeeps DEF Live
<1>4. ScrollbackTyped'
  BY <1>1, <1>2, <1>3, TypedParts DEF ScrollbackTyped
<1>5. StagesAgree'
  BY <1>1, <1>3 DEF StagesAgree, Live, Merging, Clearing
<1>6. ClearedGone'
  BY <1>1, <1>3 DEF ClearedGone
<1> QED
  BY <1>3, <1>4, <1>5, <1>6 DEF ScrollbackInv

\* A line of the snapshot that Start writes back.
LEMMA StartLineKeeps ==
    ASSUME ScrollbackInv, StartLine
    PROVE  ScrollbackInv'
<1>1. /\ ScrollbackTyped /\ StagesAgree /\ ClearedGone
      /\ stage = "start" /\ stage' = stage /\ todo # <<>>
      /\ Write(Head(todo)) /\ todo' = Tail(todo)
      /\ next' = next /\ written' = written /\ limit' = limit /\ runs' = runs
      /\ clearedAt' = clearedAt /\ saved' = saved
  BY DEF StartLine, ScrollbackInv
<1>2. todo \in Seq(Lines)
  BY <1>1 DEF ScrollbackTyped
<1>3. /\ Head(todo) \in Lines /\ Head(todo) \in ToSet(todo)
      /\ Tail(todo) \in Seq(Lines) /\ ToSet(Tail(todo)) \subseteq ToSet(todo)
  <2>1. 1 \in 1..Len(todo) /\ Head(todo) = todo[1] /\ DOMAIN todo = 1..Len(todo)
    BY <1>1, <1>2
  <2>2. /\ Tail(todo) \in Seq(Lines) /\ Len(Tail(todo)) = Len(todo) - 1 /\ Len(todo) \in Nat
        /\ DOMAIN Tail(todo) = 1..(Len(todo) - 1)
        /\ \A i \in 1..(Len(todo) - 1) : Tail(todo)[i] = todo[i + 1]
    BY <1>1, <1>2
  <2>3. \A i \in 1..(Len(todo) - 1) : i + 1 \in DOMAIN todo
    BY <2>1, <2>2
  <2> QED
    BY <1>2, <2>1, <2>2, <2>3 DEF ToSet
<1>4. Head(todo) > clearedAt
  BY <1>1, <1>3 DEF ClearedGone
<1>5. /\ Sound(out') /\ out'.current # "none" /\ recent' \in Seq(Lines)
      /\ SegmentsCounted' /\ RecentHeld'
      /\ \A f \in Files \ {"tmp"} : \A l \in ToSet(Held(out', f)) : l > clearedAt
  BY <1>1, <1>3, <1>4, WriteKeeps DEF Live
<1>6. ScrollbackTyped'
  BY <1>1, <1>3, <1>5 DEF ScrollbackTyped
<1>7. StagesAgree'
  BY <1>1, <1>5 DEF StagesAgree, Live, Merging, Clearing
<1>8. ClearedGone'
  BY <1>1, <1>3, <1>5 DEF ClearedGone
<1> QED
  BY <1>5, <1>6, <1>7, <1>8 DEF ScrollbackInv

\* The stream writes out a line of its buffer: it holds what it held.
LEMMA SpillHolds ==
    ASSUME ScrollbackTyped, Spill
    PROVE  /\ Sound(out') /\ out'.current = out.current /\ out'.idx = out.idx
           /\ out'.count = out.count /\ out.current # "none"
           /\ \A f : Held(out', f) = Held(out, f)
<1>1. /\ Sound(out) /\ out \in Streams /\ out.disk \in Disks /\ out.buffer \in Seq(Lines)
      /\ out.buffer # <<>> /\ out.current = SegPath(out.idx) /\ out.current \in DOMAIN out.disk
      /\ out.current # "none"
  <2>1. out.buffer # <<>>
    BY DEF Spill
  <2> QED
    BY <2>1, TypedParts DEF Sound, OnSegment
<1> DEFINE c == out.current
           a == Append(out.disk[c], Head(out.buffer))
           d == [out.disk EXCEPT ![c] = a]
           b == Tail(out.buffer)
<1>2. Read(out.disk, c) = out.disk[c] /\ out.disk[c] \in Seq(Lines)
  BY <1>1, ReadTyped
<1>3. a \in Seq(Lines) /\ b \in Seq(Lines) /\ a \o b = out.disk[c] \o out.buffer
  BY <1>1, <1>2, HeadMoves
<1>4. out' = [out EXCEPT !.disk = d, !.buffer = b]
  BY <1>1 DEF Spill, Streams
<1> HIDE DEF a, b
<1>5. d \in Disks /\ DOMAIN d = DOMAIN out.disk
      /\ \A g : Read(d, g) = IF g = c THEN a ELSE Read(out.disk, g)
  <2>1. out.disk \in Disks /\ c \in DOMAIN out.disk /\ a \in LineSeqs
    BY <1>1, <1>3 DEF LineSeqs
  <2>2. d = Replace(out.disk, c, a)
    BY <2>1, UpdateReplaces
  <2> HIDE DEF d, c
  <2> QED
    BY <2>1, <2>2, UpdateReads
<1> HIDE DEF d
<1>6. /\ out' \in Streams /\ out'.disk = d /\ out'.buffer = b /\ out'.current = out.current
      /\ out'.idx = out.idx /\ out'.count = out.count
  BY <1>1, <1>3, <1>4, <1>5 DEF Streams
<1>7. Sound(out')
  BY <1>1, <1>5, <1>6 DEF Sound, OnSegment
<1>8. ASSUME NEW f PROVE Held(out', f) = Held(out, f)
  <2>1. CASE f = c
    BY <1>2, <1>3, <1>5, <1>6, <2>1 DEF Held
  <2>2. CASE f # c
    BY <1>5, <1>6, <2>2 DEF Held
  <2> QED
    BY <2>1, <2>2
<1> QED
  BY <1>1, <1>6, <1>7, <1>8

\* A line leaves the buffer for the file.
LEMMA SpillKeeps ==
    ASSUME ScrollbackInv, Spill
    PROVE  ScrollbackInv'
<1>1. /\ ScrollbackTyped /\ StagesAgree /\ ClearedGone /\ stage' = stage /\ next' = next
      /\ todo' = todo /\ limit' = limit /\ written' = written /\ runs' = runs
      /\ recent' = recent /\ clearedAt' = clearedAt /\ saved' = saved
  BY DEF Spill, ScrollbackInv
<1>2. /\ Sound(out') /\ out'.current = out.current /\ out'.idx = out.idx
      /\ out'.count = out.count /\ out.current # "none"
      /\ \A f : Held(out', f) = Held(out, f)
  BY <1>1, SpillHolds
<1>3. stage \in Live
  BY <1>1, <1>2 DEF StagesAgree
<1>4. ScrollbackTyped'
  BY <1>1, <1>2 DEF ScrollbackTyped
<1>5. StagesAgree'
  BY <1>1, <1>2, <1>3 DEF StagesAgree, Live, Merging, Clearing
<1>6. SegmentsCounted' /\ RecentHeld'
  BY <1>1, <1>2, <1>3, SegmentsQuiet
<1>7. ClearedGone'
  BY <1>1, <1>2 DEF ClearedGone
<1> QED
  BY <1>4, <1>5, <1>6, <1>7 DEF ScrollbackInv

\* A file removed while the stream is closed.
LEMMA ClosedErase ==
    ASSUME NEW o, Sound(o), o.current = "none", NEW f
    PROVE  LET e == Without(o, f) IN
           /\ Sound(e) /\ e.current = "none" /\ e.idx = o.idx /\ e.count = o.count
           /\ e.disk = Erase(o.disk, f) /\ e.buffer = <<>>
           /\ \A g : Held(e, g) = IF g = f THEN <<>> ELSE Held(o, g)
<1>1. o \in Streams /\ o.disk \in Disks /\ o.buffer = <<>>
  BY SegPaths DEF Sound, Streams, OnSegment
<1> DEFINE d == Erase(o.disk, f)
           e == Without(o, f)
<1>2. d \in Disks
  BY <1>1, EraseReads
<1>3. \A g : Read(d, g) = IF g = f THEN <<>> ELSE Read(o.disk, g)
  BY EraseReads, <1>1
<1>4. e = [o EXCEPT !.disk = d]
  BY <1>1 DEF Streams, With, Without
<1> HIDE DEF d, e
<1>5. /\ e \in Streams /\ e.disk = d /\ e.buffer = <<>> /\ e.current = "none"
      /\ e.idx = o.idx /\ e.count = o.count
  BY <1>1, <1>2, <1>4 DEF Streams
<1>6. Sound(e)
  BY <1>5 DEF Sound, OnSegment
<1>7. \A g : Held(e, g) = Read(d, g) /\ Held(o, g) = Read(o.disk, g)
  BY <1>1, <1>5, <1>6, HeldTyped
<1>8. \A g : Held(e, g) = IF g = f THEN <<>> ELSE Held(o, g)
  BY <1>3, <1>7
<1>9. e.disk = Erase(o.disk, f)
  BY <1>5 DEF d
<1> QED
  BY <1>5, <1>6, <1>8, <1>9, Zenon DEF e

\* A file written while the stream is closed.
LEMMA ClosedReplace ==
    ASSUME NEW o, Sound(o), o.current = "none", NEW f \in Files, NEW s \in LineSeqs
    PROVE  LET e == With(o, f, s) IN
           /\ Sound(e) /\ e.current = "none" /\ e.idx = o.idx /\ e.count = o.count
           /\ e.disk = Replace(o.disk, f, s) /\ e.buffer = <<>>
           /\ \A g : Held(e, g) = IF g = f THEN s ELSE Held(o, g)
<1>1. o \in Streams /\ o.disk \in Disks /\ o.buffer = <<>>
  BY SegPaths DEF Sound, Streams, OnSegment
<1> DEFINE d == Replace(o.disk, f, s)
           e == With(o, f, s)
<1>2. d \in Disks
  BY <1>1, ReplaceTyped, ReplaceReads
<1>3. \A g : Read(d, g) = IF g = f THEN s ELSE Read(o.disk, g)
  BY ReplaceReads
<1>4. e = [o EXCEPT !.disk = d]
  BY <1>1 DEF Streams, With, Without
<1> HIDE DEF d, e
<1>5. /\ e \in Streams /\ e.disk = d /\ e.buffer = <<>> /\ e.current = "none"
      /\ e.idx = o.idx /\ e.count = o.count
  BY <1>1, <1>2, <1>4 DEF Streams
<1>6. Sound(e)
  BY <1>5 DEF Sound, OnSegment
<1>7. \A g : Held(e, g) = Read(d, g) /\ Held(o, g) = Read(o.disk, g)
  BY <1>1, <1>5, <1>6, HeldTyped
<1>8. \A g : Held(e, g) = IF g = f THEN s ELSE Held(o, g)
  BY <1>3, <1>7
<1>9. e.disk = Replace(o.disk, f, s)
  BY <1>5 DEF d
<1> QED
  BY <1>5, <1>6, <1>8, <1>9, Zenon DEF e

\* What a restore reads was printed after the last clear.
LEMMA LoadSnapshotKeeps ==
    ASSUME ScrollbackInv, LoadSnapshot
    PROVE  ScrollbackInv'
<1> DEFINE lines == LastOf(Loaded(out.disk), limit)
<1>1. /\ ScrollbackTyped /\ StagesAgree /\ ClearedGone /\ stage = "created" /\ todo = <<>>
      /\ out' = out /\ next' = next /\ limit' = limit /\ runs' = runs /\ recent' = recent
      /\ clearedAt' = clearedAt /\ saved' = saved
  BY DEF LoadSnapshot, ScrollbackInv, StagesAgree
<1>2. /\ Sound(out) /\ out.disk \in Disks /\ limit \in Nat \ {0}
      /\ out.current = "none" => out.buffer = <<>>
  BY <1>1, TypedParts
<1>3. Loaded(out.disk) \in Seq(Lines)
  BY <1>2, LoadedFrom
<1>4. /\ lines \in Seq(Lines) /\ ToSet(lines) \subseteq ToSet(Loaded(out.disk))
      /\ lines = <<>> => Loaded(out.disk) = <<>>
  BY <1>2, <1>3, LastOfKeeps
<1>5. \/ /\ lines = <<>> /\ stage' = "running" /\ todo' = todo /\ written' = written
      \/ /\ stage' = "loaded" /\ written' = written + 1 /\ todo' = Append(lines, written')
  BY DEF LoadSnapshot
<1> HIDE DEF lines
<1>6. CASE lines = <<>> /\ stage' = "running" /\ todo' = todo /\ written' = written
  <2>1. ScrollbackTyped'
    BY <1>1, <1>6 DEF ScrollbackTyped, Stages, Live
  <2>2. StagesAgree'
    BY <1>1, <1>6 DEF StagesAgree, Live, Merging, Clearing
  <2>3. out.current = "none" => \A f \in Segs : Held(out, f) = <<>>
    BY <1>2, <1>4, <1>6, LoadedFrom, HeldTyped DEF Segs
  <2>4. SegmentsCounted' /\ RecentHeld'
    BY <1>1, <1>2, <1>6, <2>3, SegmentsQuiet DEF Live
  <2>5. ClearedGone'
    BY <1>1, <1>6 DEF ClearedGone
  <2> QED
    BY <2>1, <2>2, <2>4, <2>5 DEF ScrollbackInv
<1>7. CASE stage' = "loaded" /\ written' = written + 1 /\ todo' = Append(lines, written')
  <2>1. written' \in Lines /\ written' > clearedAt /\ written' <= MaxLines + runs
        /\ clearedAt \in 0..written' /\ written' \in Nat
    BY <1>1, <1>7, TypedParts DEF ScrollbackTyped, Lines
  <2>2. todo' \in Seq(Lines) /\ ToSet(todo') = ToSet(lines) \union {written'}
    BY <1>4, <1>7, <2>1, ToSetGrows, SomeLines
  <2>3. ASSUME NEW l \in ToSet(lines) PROVE l > clearedAt
    <3>1. PICK f \in Files \ {"tmp"} : l \in ToSet(Read(out.disk, f))
      BY <1>2, <1>4, LoadedFrom
    <3>2. l \in ToSet(Held(out, f))
      BY <1>2, <3>1, HeldIsThere
    <3> QED
      BY <1>1, <3>2 DEF ClearedGone
  <2>4. ScrollbackTyped'
    BY <1>1, <1>7, <2>1, <2>2 DEF ScrollbackTyped, Stages, Live
  <2>5. StagesAgree'
    BY <1>1, <1>7 DEF StagesAgree, Live, Merging, Clearing
  <2>6. SegmentsCounted' /\ RecentHeld'
    BY <1>1, <1>2, <1>7, SegmentsQuiet DEF Live
  <2>7. ClearedGone'
    BY <1>1, <2>1, <2>2, <2>3 DEF ClearedGone
  <2> QED
    BY <2>4, <2>5, <2>6, <2>7 DEF ScrollbackInv
<1> QED
  BY <1>5, <1>6, <1>7

\* The restored session begins its segments again.
LEMMA StartWriterKeeps ==
    ASSUME ScrollbackInv, StartWriter
    PROVE  ScrollbackInv'
<1> DEFINE c == Close(out)
           r == Reset(c)
<1>1. /\ ScrollbackTyped /\ StagesAgree /\ ClearedGone /\ stage = "loaded" /\ stage' = "start"
      /\ out' = Open(r) /\ recent' = <<>>
      /\ next' = next /\ todo' = todo /\ limit' = limit /\ written' = written /\ runs' = runs
      /\ clearedAt' = clearedAt /\ saved' = saved /\ limit \in Limits
  BY DEF StartWriter, ScrollbackInv, ScrollbackTyped
<1>2. Sound(out)
  BY <1>1, TypedParts
<1>3. /\ Sound(c) /\ c.current = "none" /\ \A f : Read(c.disk, f) = Held(out, f)
  BY <1>2, CloseHolds
<1>4. /\ Sound(r) /\ r.current = "none" /\ r.idx = 0 /\ r.count = 0 /\ r.disk = c.disk
  BY <1>3, ResetHolds
<1> HIDE DEF c, r
<1>5. /\ Sound(out') /\ out'.current = SegPath(0) /\ out'.count = 0 /\ out'.buffer = <<>>
      /\ \A f : Read(out'.disk, f) = IF f = SegPath(0) THEN <<>> ELSE Read(r.disk, f)
  BY <1>1, <1>4, OpenHolds
<1>6. \A f : Held(out', f) = IF f = SegPath(0) THEN <<>> ELSE Held(out, f)
  BY <1>3, <1>4, <1>5, HeldTyped
<1>7. \A f : Held(out, f) \in Seq(Lines)
  BY <1>2, HeldTyped
<1>8. \A f : /\ Len(Held(out', f)) <= Len(Held(out, f))
             /\ ToSet(Held(out', f)) \subseteq ToSet(Held(out, f))
  BY <1>6, <1>7, SameOrEmpty
<1>9. ScrollbackTyped'
  BY <1>1, <1>5, SomeLines DEF ScrollbackTyped, Stages, Live
<1>10. out'.current # "none"
  BY <1>5 DEF SegPath
<1>11. StagesAgree'
  BY <1>1, <1>10 DEF StagesAgree, Live, Merging, Clearing
<1>12. SegmentsCounted' /\ RecentHeld'
  BY <1>1, <1>5, <1>6, <1>8, <1>10, FreshKeeps
<1>13. ClearedGone'
  BY <1>1, <1>8, StillGone DEF ClearedGone
<1> QED
  BY <1>9, <1>11, <1>12, <1>13 DEF ScrollbackInv

\* The snapshot is flushed.
LEMMA StartFlushKeeps ==
    ASSUME ScrollbackInv, StartFlush
    PROVE  ScrollbackInv'
<1>1. /\ ScrollbackTyped /\ StagesAgree /\ ClearedGone /\ stage = "start" /\ todo = <<>>
      /\ stage' = "running" /\ out' = Flush(out) /\ out.current # "none"
      /\ next' = next /\ todo' = todo /\ limit' = limit /\ written' = written /\ runs' = runs
      /\ recent' = recent /\ clearedAt' = clearedAt /\ saved' = saved
  BY DEF StartFlush, ScrollbackInv, StagesAgree
<1>2. Sound(out)
  BY <1>1, TypedParts
<1>3. /\ Sound(out') /\ out'.current = out.current /\ out'.idx = out.idx
      /\ out'.count = out.count /\ out'.buffer = <<>>
      /\ \A f : Read(out'.disk, f) = Held(out, f)
  BY <1>1, <1>2, FlushHolds
<1>4. \A f : Held(out', f) = Held(out, f)
  BY <1>3, HeldTyped
<1>5. ScrollbackTyped'
  BY <1>1, <1>3 DEF ScrollbackTyped, Stages, Live
<1>6. StagesAgree'
  BY <1>1, <1>3 DEF StagesAgree, Live, Merging, Clearing
<1>7. SegmentsCounted' /\ RecentHeld'
  BY <1>1, <1>3, <1>4, SegmentsQuiet DEF Live
<1>8. ClearedGone'
  BY <1>1, <1>4 DEF ClearedGone
<1> QED
  BY <1>5, <1>6, <1>7, <1>8 DEF ScrollbackInv

\* The session is closed, or its process is killed.
LEMMA EndKeeps ==
    ASSUME ScrollbackInv, Exit \/ ProcessDies
    PROVE  ScrollbackInv'
<1>1. /\ ScrollbackTyped /\ StagesAgree /\ ClearedGone /\ stage' = "off"
      /\ todo' = <<>>
      /\ next' = next /\ limit' = limit /\ written' = written /\ runs' = runs
      /\ recent' = recent /\ clearedAt' = clearedAt /\ saved' = saved
      /\ \/ out' = Close(out)
         \/ out' = [out EXCEPT !.current = "none", !.buffer = <<>>]
  BY DEF Exit, ProcessDies, ScrollbackInv, StagesAgree
<1>2. Sound(out) /\ out \in Streams
  BY <1>1, TypedParts
<1>3. /\ Sound(out') /\ out'.current = "none"
      /\ \A f : Held(out', f) = Held(out, f) \/ Held(out', f) = Read(out.disk, f)
  <2>1. CASE out' = Close(out)
    <3>1. /\ Sound(out') /\ out'.current = "none" /\ out'.buffer = <<>>
          /\ \A f : Read(out'.disk, f) = Held(out, f)
      BY <1>2, <2>1, CloseHolds
    <3> QED
      BY <3>1, HeldTyped
  <2>2. CASE out' = [out EXCEPT !.current = "none", !.buffer = <<>>]
    <3>1. out' \in Streams /\ out'.current = "none" /\ out'.buffer = <<>> /\ out'.disk = out.disk
      BY <1>2, <2>2, SomeLines DEF Streams
    <3>2. Sound(out')
      BY <3>1 DEF Sound, OnSegment
    <3> QED
      BY <3>1, <3>2, HeldTyped
  <2> QED
    BY <1>1, <2>1, <2>2
<1>4. ASSUME NEW f
      PROVE  /\ Len(Held(out', f)) <= Len(Held(out, f))
             /\ ToSet(Held(out', f)) \subseteq ToSet(Held(out, f))
  <2>1. Len(Held(out, f)) \in Nat
    BY <1>2, HeldTyped
  <2> QED
    BY <1>2, <1>3, <2>1, HeldIsThere
<1>5. ScrollbackTyped'
  BY <1>1, <1>3, SomeLines DEF ScrollbackTyped, Stages
<1>6. StagesAgree'
  BY <1>1, <1>3 DEF StagesAgree, Live, Merging, Clearing
<1>7. SegmentsCounted' /\ RecentHeld' /\ ClearedGone'
  BY <1>1, <1>3, <1>4, RestKeeps DEF Live
<1> QED
  BY <1>5, <1>6, <1>7 DEF ScrollbackInv

\* A merge begins, or the segment is opened again because there is no room for one.
LEMMA CompactKeeps ==
    ASSUME ScrollbackInv, NEW after \in {"running", "closing"}, Compact(after)
    PROVE  ScrollbackInv'
<1> DEFINE c == Close(out)
           f == SegPath(out.idx)
<1>1. /\ ScrollbackTyped /\ StagesAgree /\ SegmentsCounted /\ ClearedGone /\ stage = "running"
      /\ todo = <<>> /\ next' = after /\ todo' = todo /\ limit' = limit /\ written' = written
      /\ runs' = runs /\ recent' = recent /\ clearedAt' = clearedAt /\ saved' = saved
  BY DEF Compact, ScrollbackInv, StagesAgree
<1>2. \/ out' = [c EXCEPT !.disk = Replace(@, "tmp", <<>>)] /\ stage' = "copying"
      \/ /\ out' = [c EXCEPT !.current = f, !.disk = Replace(@, f, Read(c.disk, f))]
         /\ stage' = after
  BY DEF Compact
<1>3. /\ Sound(out) /\ out.idx \in {0, 1} /\ f \in Files /\ f \in Segs
      /\ out.current # "none" => out.current = f
  BY <1>1, TypedParts, SegPaths DEF Segs
<1>4. /\ Sound(c) /\ c.current = "none" /\ c.idx = out.idx /\ c.count = out.count
      /\ c.buffer = <<>> /\ \A g : Read(c.disk, g) = Held(out, g)
  BY <1>3, CloseHolds
<1>5. \A g : Held(c, g) = Held(out, g) /\ Held(out, g) \in Seq(Lines)
  BY <1>3, <1>4, HeldTyped
<1> HIDE DEF c, f
<1>6. ASSUME out' = [c EXCEPT !.disk = Replace(@, "tmp", <<>>)], stage' = "copying"
      PROVE  ScrollbackInv'
  <2>1. "tmp" \in Files /\ <<>> \in LineSeqs
    BY SomeLines DEF Files, LineSeqs
  <2>2. /\ Sound(out') /\ out'.current = "none"
        /\ \A g : Held(out', g) = IF g = "tmp" THEN <<>> ELSE Held(out, g)
    <3> DEFINE t == <<>>
    <3>1. t \in LineSeqs /\ out' = With(c, "tmp", t)
      BY <1>6, <2>1 DEF With
    <3> HIDE DEF t
    <3>2. /\ Sound(out') /\ out'.current = "none"
          /\ \A g : Held(out', g) = IF g = "tmp" THEN t ELSE Held(c, g)
      BY <1>4, <2>1, <3>1, ClosedReplace
    <3> QED
      BY <1>5, <3>2 DEF t
  <2>3. ScrollbackTyped'
    BY <1>1, <1>6, <2>2 DEF ScrollbackTyped, Stages, Merging
  <2>4. StagesAgree'
    BY <1>1, <1>6, <2>2 DEF StagesAgree, Live, Merging, Clearing
  <2>5. \A g \in Files \ {"tmp"} : Held(out', g) = Held(out, g)
    BY <2>2
  <2>6. \A g \in Segs : Len(Held(out', g)) <= Len(Held(out, g))
    BY <1>5, <2>2, SameOrEmpty
  <2>7. SegmentsCounted' /\ RecentHeld' /\ ClearedGone'
    BY <1>1, <1>6, <2>2, <2>5, <2>6, RestKeeps DEF Live
  <2> QED
    BY <2>3, <2>4, <2>7 DEF ScrollbackInv
<1>7. ASSUME out' = [c EXCEPT !.current = f, !.disk = Replace(@, f, Read(c.disk, f))],
             stage' = after
      PROVE  ScrollbackInv'
  <2> DEFINE s == Read(c.disk, f)
             d == Replace(c.disk, f, s)
  <2>1. c \in Streams /\ c.disk \in Disks /\ s \in Seq(Lines)
    BY <1>4, ReadTyped DEF Sound, Streams
  <2>2. d \in Disks /\ DOMAIN d = DOMAIN c.disk \union {f} /\ \A g : Read(d, g) = Read(c.disk, g)
    <3>1. PICK e \in Disks, t \in LineSeqs : e = c.disk /\ t = s
      BY <2>1 DEF LineSeqs
    <3>2. /\ Replace(e, f, t) \in Disks /\ DOMAIN Replace(e, f, t) = DOMAIN e \union {f}
      BY <1>3, <3>1, ReplaceTyped
    <3>3. \A g : Read(Replace(e, f, t), g) = IF g = f THEN t ELSE Read(e, g)
      BY ReplaceReads
    <3> QED
      BY <3>1, <3>2, <3>3
  <2>3. out' = [c EXCEPT !.current = f, !.disk = d]
    BY <1>7, <2>1 DEF Streams
  <2> HIDE DEF d, s
  <2>4. /\ out' \in Streams /\ out'.disk = d /\ out'.current = f /\ out'.buffer = <<>>
        /\ out'.idx = out.idx /\ out'.count = out.count
    BY <1>3, <1>4, <2>1, <2>2, <2>3 DEF Streams, Segs
  <2>5. Sound(out')
    BY <2>2, <2>4 DEF Sound, OnSegment, f
  <2>6. \A g : Held(out', g) = Held(out, g)
    BY <1>4, <2>2, <2>4, <2>5, HeldTyped
  <2>7. f # "none"
    BY <1>3 DEF Segs
  <2>8. ScrollbackTyped'
    BY <1>1, <1>7, <2>5 DEF ScrollbackTyped, Stages, Live
  <2>9. StagesAgree'
    BY <1>1, <1>7, <2>4, <2>7 DEF StagesAgree, Live, Merging, Clearing
  <2>10. SegmentsCounted' /\ RecentHeld'
    BY <1>1, <1>3, <2>4, <2>5, <2>6, <2>7, SegmentsQuiet DEF Live, f
  <2>11. ClearedGone'
    BY <1>1, <2>6 DEF ClearedGone
  <2> QED
    BY <2>8, <2>9, <2>10, <2>11 DEF ScrollbackInv
<1> QED
  BY <1>2, <1>6, <1>7

\* Both segments are copied to the temporary file.
LEMMA CompactCopyKeeps ==
    ASSUME ScrollbackInv, CompactCopy
    PROVE  ScrollbackInv'
<1>1. /\ ScrollbackTyped /\ StagesAgree /\ ClearedGone /\ stage = "copying"
      /\ stage' = "renaming" /\ todo = <<>> /\ out.current = "none"
      /\ next \in {"running", "closing"}
      /\ out' = With(out, "tmp", Merged(out.disk))
      /\ next' = next /\ todo' = todo /\ limit' = limit /\ written' = written
      /\ runs' = runs /\ recent' = recent /\ clearedAt' = clearedAt /\ saved' = saved
  <2>1. ScrollbackTyped /\ StagesAgree /\ ClearedGone /\ stage = "copying"
    BY DEF CompactCopy, ScrollbackInv
  <2>2. out' = With(out, "tmp", Merged(out.disk))
    BY DEF CompactCopy, With
  <2> QED
    BY <2>1, <2>2 DEF CompactCopy, StagesAgree, Live, Merging
<1>2. /\ Sound(out) /\ out.disk \in Disks /\ "tmp" \in Files
      /\ Merged(out.disk) \in LineSeqs
  BY <1>1, TypedParts, LoadedFrom DEF Files, LineSeqs
<1>3. /\ Sound(out') /\ out'.current = "none" /\ out'.disk = Replace(out.disk, "tmp", Merged(out.disk))
      /\ \A g : Held(out', g) = IF g = "tmp" THEN Merged(out.disk) ELSE Held(out, g)
  BY <1>1, <1>2, ClosedReplace
<1>4. "tmp" \in DOMAIN out'.disk /\ out'.disk["tmp"] = Merged(out'.disk)
  <2> DEFINE m == Merged(out.disk)
             d == out'.disk
  <2>1. /\ d = [g \in DOMAIN out.disk \union {"tmp"} |-> IF g = "tmp" THEN m ELSE out.disk[g]]
    BY <1>3 DEF Replace
  <2> HIDE DEF m, d
  <2>2. /\ DOMAIN d = DOMAIN out.disk \union {"tmp"} /\ d["tmp"] = m
        /\ \A g \in DOMAIN out.disk \ {"tmp"} : d[g] = out.disk[g]
    BY <2>1
  <2>3. Segments(d) = Segments(out.disk)
    BY <2>2 DEF Segments, Read
  <2>4. Merged(d) = Merged(out.disk)
    BY <2>2, <2>3 DEF Merged
  <2> QED
    BY <2>2, <2>4 DEF m, d
<1>5. ScrollbackTyped'
  BY <1>1, <1>3 DEF ScrollbackTyped, Stages, Merging
<1>6. StagesAgree'
  BY <1>1, <1>3, <1>4 DEF StagesAgree, Live, Merging, Clearing
<1>7. \A g \in Files \ {"tmp"} : Held(out', g) = Held(out, g)
  BY <1>3
<1>8. \A g \in Segs : Len(Held(out', g)) <= Len(Held(out, g))
  <2>1. \A g : Held(out, g) \in Seq(Lines)
    BY <1>2, HeldTyped
  <2>2. Segs \subseteq Files \ {"tmp"}
    BY DEF Segs, Files
  <2> QED
    BY <1>7, <2>1, <2>2, SameOrEmpty
<1>9. SegmentsCounted' /\ RecentHeld' /\ ClearedGone'
  BY <1>1, <1>3, <1>7, <1>8, RestKeeps DEF Live
<1> QED
  BY <1>5, <1>6, <1>9 DEF ScrollbackInv

\* What the rename does to the files.
LEMMA RenameHolds ==
    ASSUME ScrollbackInv, CompactRename, out' # out
    PROVE  /\ Sound(out') /\ out'.current = "none"
           /\ \A g : Held(out', g) = IF g = "tmp" THEN <<>>
                                     ELSE IF g = "compact" THEN Merged(out.disk)
                                     ELSE Held(out, g)
           /\ Read(out'.disk, "compact") = Merged(out.disk)
<1> DEFINE e == Without(out, "tmp")
           m == Merged(out.disk)
<1>1. /\ Sound(out) /\ out \in Streams /\ out.disk \in Disks /\ out.current = "none"
      /\ out.disk["tmp"] = m
      /\ out' = [out EXCEPT !.disk = Replace(Erase(@, "tmp"), "compact", out.disk["tmp"])]
  BY TypedParts DEF CompactRename, ScrollbackInv, StagesAgree, Live
<1>2. m \in LineSeqs /\ {"tmp", "compact"} \subseteq Files
  BY <1>1, LoadedFrom DEF Files, LineSeqs
<1>3. /\ Sound(e) /\ e.current = "none" /\ e.buffer = <<>>
      /\ \A g : Held(e, g) = IF g = "tmp" THEN <<>> ELSE Held(out, g)
  BY <1>1, <1>2, ClosedErase
<1>4. out' = With(e, "compact", m)
  BY <1>1 DEF Streams, With, Without
<1> HIDE DEF e, m
<1>5. /\ Sound(out') /\ out'.current = "none" /\ out'.buffer = <<>>
      /\ \A g : Held(out', g) = IF g = "compact" THEN m ELSE Held(e, g)
  BY <1>2, <1>3, <1>4, ClosedReplace
<1>6. Read(out'.disk, "compact") = m
  BY <1>5, HeldTyped
<1> QED
  BY <1>3, <1>5, <1>6 DEF m

\* The temporary file replaces the compact one, or stays where it is.
LEMMA CompactRenameKeeps ==
    ASSUME ScrollbackInv, CompactRename
    PROVE  ScrollbackInv'
<1>1. /\ ScrollbackTyped /\ StagesAgree /\ ClearedGone /\ stage = "renaming"
      /\ stage' = "remove0" /\ todo = <<>> /\ out.current = "none"
      /\ next \in {"running", "closing"} /\ saved' \in BOOLEAN
      /\ next' = next /\ todo' = todo /\ limit' = limit /\ written' = written
      /\ runs' = runs /\ recent' = recent /\ clearedAt' = clearedAt
  BY DEF CompactRename, ScrollbackInv, ScrollbackTyped, StagesAgree, Live, Merging
<1>2. Sound(out) /\ out.disk \in Disks /\ \A g : Held(out, g) \in Seq(Lines)
  BY <1>1, TypedParts, HeldTyped
<1>3. /\ Sound(out') /\ out'.current = "none"
      /\ \A g \in Segs : Held(out', g) = Held(out, g)
      /\ \A g \in Files \ {"tmp"} :
             Held(out', g) = Held(out, g) \/ Held(out', g) = Merged(out.disk)
  <2>1. CASE out' = out
    BY <1>1, <1>2, <2>1
  <2>2. CASE out' # out
    BY <2>2, RenameHolds DEF Segs
  <2> QED
    BY <2>1, <2>2
<1>4. ASSUME NEW l \in ToSet(Merged(out.disk))
      PROVE  \E g \in Files \ {"tmp"} : l \in ToSet(Held(out, g))
  <2>1. l \in ToSet(Read(out.disk, "seg0")) \/ l \in ToSet(Read(out.disk, "seg1"))
    BY <1>2, LoadedFrom
  <2>2. l \in ToSet(Held(out, "seg0")) \/ l \in ToSet(Held(out, "seg1"))
    BY <1>2, <2>1, HeldIsThere
  <2> QED
    BY <2>2 DEF Files
<1>5. ScrollbackTyped'
  BY <1>1, <1>3 DEF ScrollbackTyped, Stages, Merging
<1>6. StagesAgree'
  BY <1>1, <1>3 DEF StagesAgree, Live, Merging, Clearing
<1>7. \A g \in Segs : Len(Held(out', g)) <= Len(Held(out, g))
  BY <1>2, <1>3, SameOrEmpty
<1>8. \A g \in Files \ {"tmp"} : \A l \in ToSet(Held(out', g)) :
          \E k \in Files \ {"tmp"} : l \in ToSet(Held(out, k))
  BY <1>3, <1>4
<1>9. SegmentsCounted' /\ RecentHeld' /\ ClearedGone'
  BY <1>1, <1>3, <1>7, <1>8, RestKeeps DEF Live
<1> QED
  BY <1>5, <1>6, <1>9 DEF ScrollbackInv

\* The segments are removed one after the other, and the session goes on.
LEMMA CompactRemoveKeeps ==
    ASSUME ScrollbackInv, CompactRemove
    PROVE  ScrollbackInv'
<1>1. /\ ScrollbackTyped /\ StagesAgree /\ ClearedGone /\ stage \in {"remove0", "remove1"}
      /\ todo = <<>> /\ out.current = "none" /\ next \in {"running", "closing"}
      /\ next' = next /\ todo' = todo /\ limit' = limit /\ written' = written
      /\ runs' = runs /\ clearedAt' = clearedAt /\ saved' = saved /\ limit \in Limits
  BY DEF CompactRemove, ScrollbackInv, ScrollbackTyped, StagesAgree, Live, Merging
<1>2. Sound(out) /\ \A g : Held(out, g) \in Seq(Lines)
  BY <1>1, TypedParts, HeldTyped
<1>3. CASE /\ stage = "remove0" /\ Deleted("seg0") /\ stage' = "remove1" /\ recent' = recent
  <2>1. out' = Without(out, "seg0")
    BY <1>3 DEF Deleted, Without
  <2>2. /\ Sound(out') /\ out'.current = "none" /\ out'.buffer = <<>>
        /\ \A g : Held(out', g) = IF g = "seg0" THEN <<>> ELSE Held(out, g)
    BY <1>1, <1>2, <2>1, ClosedErase
  <2>3. \A g : /\ Len(Held(out', g)) <= Len(Held(out, g))
               /\ ToSet(Held(out', g)) \subseteq ToSet(Held(out, g))
    BY <1>2, <2>2, SameOrEmpty
  <2>4. Read(out'.disk, "seg0") = <<>>
    BY <2>2, HeldTyped
  <2>5. ScrollbackTyped'
    BY <1>1, <1>3, <2>2 DEF ScrollbackTyped, Stages, Merging
  <2>6. StagesAgree'
    BY <1>1, <1>3, <2>2, <2>4 DEF StagesAgree, Live, Merging, Clearing
  <2>7. SegmentsCounted' /\ RecentHeld' /\ ClearedGone'
    BY <1>1, <1>3, <2>2, <2>3, RestKeeps DEF Live
  <2> QED
    BY <2>5, <2>6, <2>7 DEF ScrollbackInv
<1>4. CASE /\ stage = "remove1" /\ out' = [Reset(out) EXCEPT !.disk = Erase(@, "seg1")]
           /\ recent' = <<>> /\ stage' = next
  <2> DEFINE r == Reset(out)
  <2>1. /\ Sound(r) /\ r.current = "none" /\ r.count = 0 /\ r.buffer = <<>> /\ r.disk = out.disk
    BY <1>1, <1>2, ResetHolds
  <2>2. \A g : Held(r, g) = Held(out, g)
    <3>1. out.buffer = <<>>
      BY <1>1, TypedParts
    <3> HIDE DEF r
    <3> QED
      BY <1>2, <2>1, <3>1, HeldTyped
  <2>3. out' = Without(r, "seg1")
    BY <1>4 DEF Without
  <2> HIDE DEF r
  <2>4. /\ Sound(out') /\ out'.current = "none" /\ out'.buffer = <<>> /\ out'.count = 0
        /\ \A g : Held(out', g) = IF g = "seg1" THEN <<>> ELSE Held(out, g)
    BY <2>1, <2>2, <2>3, ClosedErase
  <2>5. \A g : /\ Len(Held(out', g)) <= Len(Held(out, g))
               /\ ToSet(Held(out', g)) \subseteq ToSet(Held(out, g))
    BY <1>2, <2>4, SameOrEmpty
  <2>6. \A g \in Segs : Held(out', g) = <<>>
    <3>1. Held(out, "seg0") = <<>>
      <4>1. Read(out.disk, "seg0") = <<>> /\ out.current # "seg0"
        BY <1>1, <1>4 DEF StagesAgree
      <4> QED
        BY <1>2, <4>1, HeldTyped
    <3> QED
      BY <2>4, <3>1 DEF Segs
  <2>7. ScrollbackTyped'
    BY <1>1, <1>4, <2>4, SomeLines DEF ScrollbackTyped, Stages, Live
  <2>8. StagesAgree'
    BY <1>1, <1>4, <2>4 DEF StagesAgree, Live, Merging, Clearing
  <2>9. SegmentsCounted' /\ RecentHeld'
    BY <1>1, <1>4, <2>4, <2>5, <2>6, FreshKeeps
  <2>10. ClearedGone'
    BY <1>1, <2>5, StillGone DEF ClearedGone
  <2> QED
    BY <2>7, <2>8, <2>9, <2>10 DEF ScrollbackInv
<1> QED
  BY <1>3, <1>4 DEF CompactRemove

\* The segments of a cleared terminal are removed first.
LEMMA TruncateKeeps ==
    ASSUME ScrollbackInv, Truncate
    PROVE  ScrollbackInv'
<1> DEFINE c == Close(out)
<1>1. /\ ScrollbackTyped /\ StagesAgree /\ ClearedGone /\ stage = "running"
      /\ stage' = "clear1" /\ todo = <<>> /\ out' = Without(c, "seg0")
      /\ next' = next /\ todo' = todo /\ limit' = limit /\ written' = written
      /\ runs' = runs /\ recent' = recent /\ clearedAt' = clearedAt /\ saved' = saved
  BY DEF Truncate, Without, ScrollbackInv, StagesAgree
<1>2. Sound(out) /\ \A g : Held(out, g) \in Seq(Lines)
  BY <1>1, TypedParts, HeldTyped
<1>3. /\ Sound(c) /\ c.current = "none" /\ c.buffer = <<>>
      /\ \A g : Read(c.disk, g) = Held(out, g)
  BY <1>2, CloseHolds
<1>4. \A g : Held(c, g) = Held(out, g)
  BY <1>3, HeldTyped
<1> HIDE DEF c
<1>5. /\ Sound(out') /\ out'.current = "none" /\ out'.buffer = <<>>
      /\ \A g : Held(out', g) = IF g = "seg0" THEN <<>> ELSE Held(out, g)
  BY <1>1, <1>3, <1>4, ClosedErase
<1>6. \A g : /\ Len(Held(out', g)) <= Len(Held(out, g))
             /\ ToSet(Held(out', g)) \subseteq ToSet(Held(out, g))
  BY <1>2, <1>5, SameOrEmpty
<1>7. Read(out'.disk, "seg0") = <<>>
  BY <1>5, HeldTyped
<1>8. ScrollbackTyped'
  BY <1>1, <1>5 DEF ScrollbackTyped, Stages, Clearing
<1>9. StagesAgree'
  BY <1>1, <1>5, <1>7 DEF StagesAgree, Live, Merging, Clearing
<1>10. SegmentsCounted' /\ RecentHeld' /\ ClearedGone'
  BY <1>1, <1>5, <1>6, RestKeeps DEF Live
<1> QED
  BY <1>8, <1>9, <1>10 DEF ScrollbackInv

\* Then the second one.
LEMMA TruncateOlderKeeps ==
    ASSUME ScrollbackInv, TruncateOlder
    PROVE  ScrollbackInv'
<1>1. /\ ScrollbackTyped /\ StagesAgree /\ ClearedGone /\ stage = "clear1"
      /\ stage' = "clear2" /\ todo = <<>> /\ out.current = "none"
      /\ Read(out.disk, "seg0") = <<>>
      /\ out' = Without(out, "seg1")
      /\ next' = next /\ todo' = todo /\ limit' = limit /\ written' = written
      /\ runs' = runs /\ recent' = recent /\ clearedAt' = clearedAt /\ saved' = saved
  BY DEF TruncateOlder, Deleted, Without, ScrollbackInv, StagesAgree, Live, Clearing
<1>2. Sound(out) /\ \A g : Held(out, g) \in Seq(Lines)
  BY <1>1, TypedParts, HeldTyped
<1>3. /\ Sound(out') /\ out'.current = "none" /\ out'.buffer = <<>>
      /\ \A g : Held(out', g) = IF g = "seg1" THEN <<>> ELSE Held(out, g)
  BY <1>1, <1>2, ClosedErase
<1>4. \A g : /\ Len(Held(out', g)) <= Len(Held(out, g))
             /\ ToSet(Held(out', g)) \subseteq ToSet(Held(out, g))
  BY <1>2, <1>3, SameOrEmpty
<1>5. Read(out'.disk, "seg0") = <<>> /\ Read(out'.disk, "seg1") = <<>>
  <2>1. Held(out, "seg0") = <<>>
    BY <1>1, <1>2, HeldTyped
  <2> QED
    BY <1>3, <2>1, HeldTyped
<1>6. ScrollbackTyped'
  BY <1>1, <1>3 DEF ScrollbackTyped, Stages, Clearing
<1>7. StagesAgree'
  BY <1>1, <1>3, <1>5 DEF StagesAgree, Live, Merging, Clearing
<1>8. SegmentsCounted' /\ RecentHeld' /\ ClearedGone'
  BY <1>1, <1>3, <1>4, RestKeeps DEF Live
<1> QED
  BY <1>6, <1>7, <1>8 DEF ScrollbackInv

\* With the compact file gone nothing is left of what was printed before.
LEMMA TruncateCompactKeeps ==
    ASSUME ScrollbackInv, TruncateCompact
    PROVE  ScrollbackInv'
<1> DEFINE r == Reset(out)
<1>1. /\ ScrollbackTyped /\ StagesAgree /\ stage = "clear2"
      /\ stage' = "running" /\ todo = <<>> /\ out.current = "none"
      /\ Read(out.disk, "seg0") = <<>> /\ Read(out.disk, "seg1") = <<>>
      /\ out' = Without(r, "compact")
      /\ next' = next /\ todo' = todo /\ limit' = limit /\ written' = written
      /\ runs' = runs /\ recent' = <<>> /\ clearedAt' = written /\ saved' = FALSE
      /\ limit \in Limits /\ written \in Nat
  BY DEF TruncateCompact, Cleared, Without, ScrollbackInv, ScrollbackTyped, StagesAgree, Live, Clearing
<1>2. Sound(out) /\ \A g : Held(out, g) \in Seq(Lines)
  BY <1>1, TypedParts, HeldTyped
<1>3. /\ Sound(r) /\ r.current = "none" /\ r.count = 0 /\ r.buffer = <<>> /\ r.disk = out.disk
  BY <1>1, <1>2, ResetHolds
<1>4. \A g : Held(r, g) = Read(out.disk, g)
  BY <1>3, HeldTyped
<1> HIDE DEF r
<1>5. /\ Sound(out') /\ out'.current = "none" /\ out'.buffer = <<>> /\ out'.count = 0
      /\ \A g : Held(out', g) = IF g = "compact" THEN <<>> ELSE Read(out.disk, g)
  BY <1>1, <1>3, <1>4, ClosedErase
<1>6. \A g \in Files \ {"tmp"} : Held(out', g) = <<>>
  BY <1>1, <1>5 DEF Files
<1>7. \A g \in Segs : Held(out', g) = <<>>
  BY <1>6 DEF Segs, Files
<1>8. \A g \in Segs : Len(Held(out', g)) <= Len(Held(out, g))
  BY <1>2, <1>7, SameOrEmpty
<1>9. ScrollbackTyped'
  <2>1. clearedAt' \in 0..written'
    BY <1>1
  <2>3. saved' \in BOOLEAN
    BY <1>1, Zenon
  <2>2. recent' \in Seq(Lines)
    BY <1>1, SomeLines
  <2> QED
    BY <1>1, <1>5, <2>1, <2>2, <2>3 DEF ScrollbackTyped, Stages, Live
<1>10. StagesAgree'
  BY <1>1, <1>5 DEF StagesAgree, Live, Merging, Clearing
<1>11. SegmentsCounted' /\ RecentHeld'
  BY <1>1, <1>5, <1>7, <1>8, FreshKeeps
<1>12. ClearedGone'
  <2>1. ToSet(<<>>) = {}
    BY ToSetGrows, SomeLines
  <2> QED
    BY <1>1, <1>6, <2>1 DEF ClearedGone
<1> QED
  BY <1>9, <1>10, <1>11, <1>12 DEF ScrollbackInv

\* Every step keeps the invariant, and so does a step that changes nothing.
LEMMA ScrollbackStep == ScrollbackInv /\ [NextScrollback]_scrollbackVars => ScrollbackInv'
<1> SUFFICES ASSUME ScrollbackInv, [NextScrollback]_scrollbackVars PROVE ScrollbackInv'
  OBVIOUS
<1>1. CASE UNCHANGED scrollbackVars
  <2>1. UNCHANGED <<out, stage, next, todo, limit, written, runs, recent, clearedAt, saved>>
    BY <1>1 DEF scrollbackVars
  <2>2. ScrollbackTyped' /\ StagesAgree'
    BY <2>1 DEF ScrollbackInv, ScrollbackTyped, StagesAgree
  <2>3. SegmentsCounted' /\ RecentHeld' /\ ClearedGone'
    BY <2>1 DEF ScrollbackInv, SegmentsCounted, RecentHeld, ClearedGone
  <2> QED
    BY <2>2, <2>3 DEF ScrollbackInv
<1>2. CASE NextScrollback
  BY <1>2, CreateSessionKeeps, PrintLineKeeps, SpillKeeps, LoadSnapshotKeeps,
     StartWriterKeeps, StartLineKeeps, StartFlushKeeps, EndKeeps, CompactKeeps,
     CompactCopyKeeps, CompactRenameKeeps, CompactRemoveKeeps, TruncateKeeps,
     TruncateOlderKeeps, TruncateCompactKeeps DEF NextScrollback
<1> QED
  BY <1>1, <1>2

-----------------------------------------------------------------------------
(* Scrollback: the compact file *)

\* The compact file is what it was, or all the segments held, or gone.
CompactWhole ==
    /\ Sound(out')
    /\ \/ Held(out', "compact") = Held(out, "compact")
       \/ Held(out', "compact") = Merged(out.disk)
       \/ "compact" \notin DOMAIN out'.disk

\* While a session lives or starts its stream does not touch the compact file.
LEMMA StreamLeavesCompact ==
    ASSUME ScrollbackInv,
           \/ \E n \in Limits : CreateSession(n)
           \/ PrintLine \/ StartLine \/ Spill \/ LoadSnapshot \/ StartWriter \/ StartFlush
           \/ Exit \/ ProcessDies
    PROVE  CompactWhole
<1>1. /\ ScrollbackTyped /\ StagesAgree /\ Sound(out) /\ out \in Streams
      /\ out.idx \in {0, 1} /\ limit \in Nat \ {0}
      /\ stage = "off" => out.current = "none" /\ out.buffer = <<>>
  BY TypedParts DEF ScrollbackInv, StagesAgree, Live
<1>2. Sound(out')
  BY CreateSessionKeeps, PrintLineKeeps, StartLineKeeps, SpillKeeps, LoadSnapshotKeeps,
     StartWriterKeeps, StartFlushKeeps, EndKeeps DEF ScrollbackInv, ScrollbackTyped
<1>3. "compact" \notin {SegPath(out.idx), SegPath(1 - out.idx), SegPath(0)}
  BY <1>1, SegPaths
<1>4. ASSUME NEW n \in Limits, CreateSession(n) PROVE Held(out', "compact") = Held(out, "compact")
  <2>1. stage = "off" /\ out' = Reset(out)
    BY <1>4 DEF CreateSession
  <2>2. out'.disk = out.disk /\ out'.buffer = <<>>
    BY <1>1, <2>1, ResetHolds
  <2> QED
    BY <1>1, <1>2, <2>1, <2>2, HeldTyped
<1>5. ASSUME NEW line \in Lines, Write(line) PROVE Held(out', "compact") = Held(out, "compact")
  <2>1. out' = WriteLine(out, line)
    BY <1>5 DEF Write
  <2>2. \A f : f \notin {SegPath(out.idx), SegPath(1 - out.idx)} =>
                   Held(WriteLine(out, line), f) = Held(out, f)
    BY <1>1, WriteLineHolds
  <2> QED
    BY <1>3, <2>1, <2>2
<1>6. CASE PrintLine
  <2>1. written' \in Lines /\ Write(written')
    BY <1>1, <1>6, TypedParts DEF PrintLine, Lines
  <2> QED
    BY <1>2, <1>5, <2>1 DEF CompactWhole
<1>7. CASE StartLine
  <2>1. Head(todo) \in Lines /\ Write(Head(todo))
    BY <1>1, <1>7 DEF StartLine, ScrollbackTyped
  <2> QED
    BY <1>2, <1>5, <2>1 DEF CompactWhole
<1>8. CASE Spill
  BY <1>1, <1>2, <1>8, SpillHolds DEF CompactWhole
<1>9. CASE LoadSnapshot
  BY <1>2, <1>9 DEF LoadSnapshot, CompactWhole
<1>10. CASE StartWriter
  <2> DEFINE c == Close(out)
             t == Reset(c)
  <2>1. Sound(c) /\ c.current = "none" /\ \A f : Read(c.disk, f) = Held(out, f)
    BY <1>1, CloseHolds
  <2>2. Sound(t) /\ t.current = "none" /\ t.idx = 0 /\ t.disk = c.disk
    BY <2>1, ResetHolds
  <2>3. out' = Open(t)
    BY <1>10 DEF StartWriter
  <2> HIDE DEF c, t
  <2>4. /\ out'.buffer = <<>>
        /\ \A f : Read(out'.disk, f) = IF f = SegPath(0) THEN <<>> ELSE Read(t.disk, f)
    BY <2>2, <2>3, OpenHolds
  <2>5. Held(out', "compact") = Held(out, "compact")
    BY <1>2, <1>3, <2>1, <2>2, <2>4, HeldTyped
  <2> QED
    BY <1>2, <2>5 DEF CompactWhole
<1>11. CASE StartFlush
  <2>1. out' = Flush(out)
    BY <1>11 DEF StartFlush
  <2>2. out'.buffer = <<>> /\ \A f : Read(out'.disk, f) = Held(out, f)
    BY <1>1, <2>1, FlushHolds
  <2> QED
    BY <1>2, <2>2, HeldTyped DEF CompactWhole
<1>12. CASE Exit
  <2>1. out' = Close(out)
    BY <1>12 DEF Exit
  <2>2. out'.buffer = <<>> /\ \A f : Read(out'.disk, f) = Held(out, f)
    BY <1>1, <2>1, CloseHolds
  <2> QED
    BY <1>2, <2>2, HeldTyped DEF CompactWhole
<1>13. CASE ProcessDies
  <2>1. out'.disk = out.disk /\ out'.buffer = <<>>
    BY <1>1, <1>13 DEF ProcessDies, Streams
  <2>2. out.current # "compact"
    BY <1>1 DEF Streams
  <2> QED
    BY <1>1, <1>2, <2>1, <2>2, HeldTyped DEF CompactWhole
<1>14. ASSUME NEW n \in Limits, CreateSession(n) PROVE CompactWhole
  BY <1>2, <1>4, <1>14 DEF CompactWhole
<1> QED
  BY <1>6, <1>7, <1>8, <1>9, <1>10, <1>11, <1>12, <1>13, <1>14

\* A merge swaps the compact file for all the segments hold, a clear removes it.
LEMMA MergeSwapsCompact ==
    ASSUME ScrollbackInv,
           \/ \E after \in {"running", "closing"} : Compact(after)
           \/ CompactCopy \/ CompactRename \/ CompactRemove
           \/ Truncate \/ TruncateOlder \/ TruncateCompact
    PROVE  CompactWhole
<1>1. /\ ScrollbackTyped /\ StagesAgree /\ Sound(out) /\ out.disk \in Disks
      /\ out.idx \in {0, 1}
      /\ stage \notin Live => out.current = "none" /\ out.buffer = <<>>
  BY TypedParts DEF ScrollbackInv, StagesAgree
<1>2. Sound(out')
  BY CompactKeeps, CompactCopyKeeps, CompactRenameKeeps, CompactRemoveKeeps, TruncateKeeps,
     TruncateOlderKeeps, TruncateCompactKeeps DEF ScrollbackInv, ScrollbackTyped
<1> DEFINE c == Close(out)
           f == SegPath(out.idx)
           t == Reset(out)
<1>3. /\ Sound(c) /\ c.current = "none" /\ c.buffer = <<>>
      /\ \A g : Held(c, g) = Held(out, g)
      /\ \A g : Read(c.disk, g) = Held(out, g)
  <2>1. /\ Sound(c) /\ c.current = "none" /\ c.buffer = <<>>
        /\ \A g : Read(c.disk, g) = Held(out, g)
    BY <1>1, CloseHolds
  <2> HIDE DEF c
  <2> QED
    BY <2>1, HeldTyped
<1>4. stage \notin Live => /\ Sound(t) /\ t.current = "none"
                           /\ \A g : Held(t, g) = Held(out, g)
  <2> SUFFICES ASSUME stage \notin Live
               PROVE  Sound(t) /\ t.current = "none" /\ \A g : Held(t, g) = Held(out, g)
    OBVIOUS
  <2>1. Sound(t) /\ t.current = "none" /\ t.buffer = <<>> /\ t.disk = out.disk
    BY <1>1, ResetHolds
  <2> HIDE DEF t
  <2> QED
    BY <1>1, <2>1, HeldTyped
<1>5. f # "compact" /\ "compact" \in Files /\ "tmp" \in Files /\ f \in Files
  BY <1>1, SegPaths DEF Files
<1> HIDE DEF c, f, t
<1>6. ASSUME NEW after \in {"running", "closing"}, Compact(after) PROVE CompactWhole
  <2>1. CASE out' = [c EXCEPT !.disk = Replace(@, "tmp", <<>>)]
    <3> DEFINE e == <<>>
    <3>1. e \in LineSeqs /\ out' = With(c, "tmp", e)
      BY <2>1, SomeLines DEF LineSeqs, With
    <3> HIDE DEF e
    <3>2. \A g : Held(out', g) = IF g = "tmp" THEN e ELSE Held(c, g)
      BY <1>3, <1>5, <3>1, ClosedReplace
    <3> QED
      BY <1>2, <1>3, <3>2 DEF CompactWhole
  <2>2. CASE out' = [c EXCEPT !.current = f, !.disk = Replace(@, f, Read(c.disk, f))]
    <3>1. /\ out'.disk = Replace(c.disk, f, Read(c.disk, f)) /\ out'.current = f
      BY <1>3, <2>2 DEF Sound, Streams
    <3>2. Read(out'.disk, "compact") = Read(c.disk, "compact")
      BY <1>5, <3>1, ReplaceReads
    <3>3. Held(out', "compact") = Read(out'.disk, "compact")
      BY <1>2, <1>5, <3>1, HeldTyped
    <3> QED
      BY <1>2, <1>3, <3>2, <3>3 DEF CompactWhole
  <2> QED
    BY <1>6, <2>1, <2>2 DEF Compact, c, f
<1>7. CASE CompactCopy
  <2>1. out' = With(out, "tmp", Merged(out.disk)) /\ stage \notin Live
    BY <1>7 DEF CompactCopy, With, Live
  <2>2. Merged(out.disk) \in LineSeqs
    BY <1>1, LoadedFrom DEF LineSeqs
  <2>3. \A g : Held(out', g) = IF g = "tmp" THEN Merged(out.disk) ELSE Held(out, g)
    BY <1>1, <1>5, <2>1, <2>2, ClosedReplace
  <2> QED
    BY <1>2, <2>3 DEF CompactWhole
<1>8. CASE CompactRename
  <2>1. CASE out' = out
    BY <1>2, <2>1 DEF CompactWhole
  <2>2. CASE out' # out
    BY <1>2, <1>8, <2>2, RenameHolds DEF CompactWhole
  <2> QED
    BY <2>1, <2>2
<1>9. ASSUME NEW g, g \in {"seg0", "seg1"}, NEW o, Sound(o), o.current = "none",
             \A h : Held(o, h) = Held(out, h), out' = Without(o, g)
      PROVE  CompactWhole
  <2>1. \A h : Held(out', h) = IF h = g THEN <<>> ELSE Held(o, h)
    BY <1>9, ClosedErase
  <2> QED
    BY <1>2, <1>9, <2>1 DEF CompactWhole
<1>10. CASE CompactRemove
  <2>1. stage \notin Live /\ (out' = Without(out, "seg0") \/ out' = Without(t, "seg1"))
    BY <1>10 DEF CompactRemove, Deleted, Without, Live, t
  <2> QED
    BY <1>1, <1>4, <1>9, <2>1
<1>11. CASE Truncate
  <2>1. out' = Without(c, "seg0")
    BY <1>11 DEF Truncate, Without, c
  <2> QED
    BY <1>3, <1>9, <2>1
<1>12. CASE TruncateOlder
  <2>1. out' = Without(out, "seg1") /\ stage \notin Live
    BY <1>12 DEF TruncateOlder, Deleted, Without, Live
  <2> QED
    BY <1>1, <1>9, <2>1
<1>13. CASE TruncateCompact
  <2>1. out' = Without(t, "compact") /\ stage \notin Live
    BY <1>13 DEF TruncateCompact, Without, Live, t
  <2>2. out'.disk = Erase(t.disk, "compact") /\ t.disk \in Disks
    BY <1>4, <2>1, ClosedErase DEF Sound, Streams
  <2>3. "compact" \notin DOMAIN out'.disk
    BY <2>2, EraseReads
  <2> QED
    BY <1>2, <2>3 DEF CompactWhole
<1> QED
  BY <1>6, <1>7, <1>8, <1>10, <1>11, <1>12, <1>13

-----------------------------------------------------------------------------
(* Scrollback: theorems *)

\* What is always so of the segments, the lines in them and the last clear.
THEOREM ScrollbackInvariant == ScrollbackSpec => []ScrollbackInv
<1> QED
  BY ScrollbackInit, ScrollbackStep, PTL DEF ScrollbackSpec

\* The stream, its files and the session have their types, for any limits, any
\* number of lines and any number of runs (ScrollbackWriter, its files).
THEOREM ScrollbackTypes == ScrollbackSpec => []ScrollbackTypeOK
<1>1. ScrollbackInv => ScrollbackTypeOK
  <2> SUFFICES ASSUME ScrollbackInv PROVE ScrollbackTypeOK
    OBVIOUS
  <2>1. ScrollbackTyped /\ out \in Streams /\ OnSegment(out) /\ out.disk \in Disks
        /\ out.idx \in {0, 1}
    BY TypedParts DEF ScrollbackInv, Sound
  <2>2. /\ DOMAIN out.disk \subseteq Files
        /\ \A f \in DOMAIN out.disk : out.disk[f] \in Seq(Lines)
    BY <2>1, ReadTyped DEF Read
  <2>3. out.current \in {"none"} \union (DOMAIN out.disk \intersect {"seg0", "seg1"})
    BY <2>1, SegPaths DEF OnSegment
  <2>4. out.buffer \in Seq(Lines) /\ out.count \in Nat
    BY <2>1 DEF Streams
  <2>5. written \in 0..(MaxLines + MaxRuns)
    BY <2>1, ScrollbackAssumption DEF ScrollbackTyped
  <2> QED
    BY <2>1, <2>2, <2>3, <2>4, <2>5
       DEF ScrollbackTypeOK, ScrollbackTyped, Stages, Live, Merging, Clearing
<1> QED
  BY <1>1, ScrollbackInvariant, PTL

\* Neither segment grows past the configured number of lines, whatever a crash, a
\* merge without room or a changed limit left behind (WriteLine, Start, Compact).
THEOREM ScrollbackSegmentsBounded == ScrollbackSpec => []SegmentsBounded
<1>1. ScrollbackInv => SegmentsBounded
  <2> SUFFICES ASSUME ScrollbackInv PROVE SegmentsBounded
    OBVIOUS
  <2>1. /\ Sound(out) /\ out.disk \in Disks /\ out.buffer \in Seq(Lines) /\ SegmentsCounted
        /\ out.current # "none" => out.current \in DOMAIN out.disk
    BY TypedParts DEF ScrollbackInv, Sound, OnSegment
  <2>2. ASSUME out.current # "none"
        PROVE  /\ out.count = Len(out.disk[out.current]) + Len(out.buffer)
               /\ out.count < limit
    <3> DEFINE r == Read(out.disk, out.current)
               b == out.buffer
    <3>1. r \in Seq(Lines) /\ r = out.disk[out.current] /\ b \in Seq(Lines)
      BY <2>1, <2>2, ReadTyped
    <3>2. Held(out, out.current) = r \o b
      BY DEF Held
    <3> HIDE DEF r, b
    <3>3. Len(r \o b) = Len(r) + Len(b)
      BY <3>1
    <3>4. out.count = Len(r \o b) /\ out.count < limit
      BY <2>1, <2>2, <3>2 DEF SegmentsCounted
    <3> QED
      BY <3>1, <3>3, <3>4 DEF b
  <2>3. ASSUME NEW f \in {"seg0", "seg1"}
        PROVE  \E n \in Limits : Len(Read(out.disk, f)) <= n
    <3>1. PICK n \in Limits : Len(Held(out, f)) <= n
      BY <2>1 DEF SegmentsCounted, Segs
    <3>2. Read(out.disk, f) \in Seq(Lines) /\ Held(out, f) \in Seq(Lines)
      BY <2>1, ReadTyped, HeldTyped
    <3>3. Len(Read(out.disk, f)) \in Nat /\ Len(Held(out, f)) \in Nat /\ n \in Nat
      BY <3>2, ScrollbackAssumption
    <3>4. Len(Read(out.disk, f)) <= Len(Held(out, f))
      BY <2>1, HeldIsThere
    <3> QED
      BY <3>1, <3>3, <3>4
  <2> QED
    BY <2>2, <2>3 DEF SegmentsBounded
<1> QED
  BY <1>1, ScrollbackInvariant, PTL

\* The last lines printed are in the segments or the buffer as long as the process
\* lives, however often the segments take turns (Rotate).
THEOREM ScrollbackRecentKept == ScrollbackSpec => []RecentKept
<1>1. ScrollbackInv => RecentKept
  <2> SUFFICES ASSUME ScrollbackInv, stage \in Live
               PROVE  ToSet(recent) \subseteq ToSet(Segments(out.disk)) \union ToSet(out.buffer)
    BY DEF RecentKept, Live
  <2>1. /\ Sound(out) /\ out.disk \in Disks /\ out.idx \in {0, 1} /\ RecentHeld
        /\ recent \in Seq(Lines)
    BY TypedParts DEF ScrollbackInv, ScrollbackTyped
  <2> SUFFICES ASSUME NEW i \in 1..Len(recent)
               PROVE  recent[i] \in ToSet(Segments(out.disk)) \union ToSet(out.buffer)
    BY <2>1 DEF ToSet
  <2>2. PICK f \in Segs : recent[i] \in ToSet(Held(out, f))
    <3>1. SegPath(out.idx) \in Segs /\ SegPath(1 - out.idx) \in Segs
      BY <2>1, SegPaths DEF Segs
    <3> QED
      BY <2>1, <3>1 DEF RecentHeld
  <2>3. recent[i] \in ToSet(Read(out.disk, f)) \union ToSet(out.buffer)
    BY <2>1, <2>2, HeldIsThere
  <2>4. ToSet(Segments(out.disk)) =
            ToSet(Read(out.disk, "seg0")) \union ToSet(Read(out.disk, "seg1"))
    BY <2>1, LoadedFrom
  <2> QED
    BY <2>3, <2>4 DEF Segs
<1> QED
  BY <1>1, ScrollbackInvariant, PTL

\* Nothing printed before the user cleared the terminal can be restored, after any
\* crash, save or restart that follows (Truncate).
THEOREM ScrollbackClearedStaysCleared == ScrollbackSpec => []ClearedStaysCleared
<1>1. ScrollbackInv => ClearedStaysCleared
  <2> SUFFICES ASSUME ScrollbackInv, NEW f \in DOMAIN out.disk \ {"tmp"},
                      NEW line \in ToSet(out.disk[f])
               PROVE  line > clearedAt
    BY DEF ClearedStaysCleared
  <2>1. Sound(out) /\ out.disk \in Disks /\ ClearedGone
    BY TypedParts DEF ScrollbackInv
  <2>2. f \in Files \ {"tmp"} /\ Read(out.disk, f) = out.disk[f]
    BY <2>1, ReadTyped
  <2>3. line \in ToSet(Held(out, f))
    BY <2>1, <2>2, HeldIsThere
  <2> QED
    BY <2>1, <2>2, <2>3 DEF ClearedGone
<1> QED
  BY <1>1, ScrollbackInvariant, PTL

\* A crash leaves no half-written compact file: whenever its content changes it
\* becomes all that merging the segments yields (Compact's rename).
THEOREM ScrollbackSwapsWhole == ScrollbackSpec => CompactSwapsWhole
<1>1. ScrollbackInv /\ [NextScrollback]_scrollbackVars =>
          [(/\ "compact" \in DOMAIN out'.disk
            /\ out'.disk["compact"] # Read(out.disk, "compact"))
               => out'.disk["compact"] = Merged(out.disk)]_scrollbackVars
  <2> SUFFICES ASSUME ScrollbackInv, NextScrollback, "compact" \in DOMAIN out'.disk,
                      out'.disk["compact"] # Read(out.disk, "compact")
               PROVE  out'.disk["compact"] = Merged(out.disk)
    BY Zenon
  <2>1. CompactWhole
    BY StreamLeavesCompact, MergeSwapsCompact DEF NextScrollback
  <2>2. Sound(out) /\ Sound(out') /\ out.current # "compact" /\ out'.current # "compact"
    BY <2>1, TypedParts DEF CompactWhole, ScrollbackInv, Sound, Streams
  <2>3. Held(out, "compact") = Read(out.disk, "compact")
        /\ Held(out', "compact") = Read(out'.disk, "compact")
    BY <2>2, HeldTyped
  <2>4. Read(out'.disk, "compact") = out'.disk["compact"]
    BY DEF Read
  <2> QED
    BY <2>1, <2>3, <2>4 DEF CompactWhole
<1> QED
  BY <1>1, ScrollbackInvariant, PTL DEF ScrollbackSpec, CompactSwapsWhole

=============================================================================
