-------------------------- MODULE FileSystemsProofs --------------------------
(***************************************************************************)
(* Both filesystems keep what the port promises, for any number of         *)
(* operations, copies, paths and files: SshSftpService with its queue,     *)
(* whoever enqueues, cancels and stops while the worker is between its     *)
(* locks, and LocalFileSystem with its copies.                             *)
(***************************************************************************)
EXTENDS FileSystems, SequenceTheorems, TLAPS

Distinct(s) == \A i, j \in 1..Len(s) : s[i] = s[j] => i = j

-----------------------------------------------------------------------------
(* What holds of the SFTP service *)

AllKinds == HandleKinds \union OpSlots
Said == Outcomes \ {"none"}

\* The types of SftpService, to the last field; a task not asked for is untouched.
SftpTyped ==
    /\ kind \in [Tasks -> AllKinds \union {"none"}]
    /\ \A t \in Tasks : kind[t] \in Kinds[t] \union {"none"}
    /\ phase \in [Tasks -> 1..5]
    /\ \A t \in Tasks : /\ kind[t] # "none" => phase[t] \in DOMAIN Program(kind[t])
                        /\ kind[t] = "none" =>
                             phase[t] = 1 /\ outcome[t] = "none" /\ answers[t] = <<>>
    /\ open \in [Tasks -> BOOLEAN] /\ outcome \in [Tasks -> Outcomes]
    /\ answers \in [Tasks -> Seq(Said)]
    /\ queue \in Seq(Tasks) /\ drained \in Seq(Tasks)
    /\ held \in [Tasks -> Slots \union {"none"}] /\ taken \subseteq Slots
    /\ stage \in {"service", "step", "requeue", "latched", "drain", "gone"}
    /\ stepping \in Tasks \union {NoTask}
    /\ running \in BOOLEAN /\ cancelling \in BOOLEAN /\ up \in BOOLEAN
    /\ live \subseteq Tasks /\ cancelled \subseteq Tasks
    /\ wire \in [Slots -> Tasks \union {NoTask}]
    /\ mixed \subseteq Tasks /\ landed \subseteq Tasks

\* The loop ends only once the session has, and Drain comes once.
Ended ==
    /\ stage \in {"latched", "drain", "gone"} => cancelling
    /\ cancelling => ~running
    /\ stage # "drain" => drained = <<>>
    /\ stepping # NoTask <=> stage \in {"step", "requeue"}

\* A task that was asked for and not answered is in one place, once.
Placed ==
    /\ Distinct(queue) /\ Distinct(drained)
    /\ ToSet(queue) \intersect ToSet(drained) = {}
    /\ stepping \notin ToSet(queue)
    /\ \A t \in Tasks : t \in InHand <=> kind[t] # "none" /\ answers[t] = <<>>

\* Past its open a task has a handle, and keeps it until its close: so does one
\* that is about to report success.
Opened(t) == HasHandle(t) /\ Slot(t) \in {"ReadDir", "FStat", "Read", "Write"}

\* What a task is going to report is true already.
Due(t) ==
    /\ Closing(t) => outcome[t] \in Said
    /\ outcome[t] = "cancelled" => t \in cancelled
    /\ outcome[t] = "gone" => ~running
    /\ Opened(t) => open[t]
    /\ Closing(t) /\ outcome[t] = "ok" => open[t]

SftpInv ==
    /\ SftpTyped /\ Ended /\ Placed
    /\ RegistryBounded /\ HeldSlotsHaveHolders
    /\ \A t \in InHand : Due(t)
    /\ SuccessMeansClosed

-----------------------------------------------------------------------------
(* What holds of the local filesystem *)

LocalSaid == {"ok", "failed", "cancelled"}

LocalTyped ==
    /\ at \in [Paths -> Files \union {None, Dir}]
    /\ bytes \in [Files -> [of : Files \union {None}, pieces : 0..Size]]
    /\ copy \in [Copies -> [from : Paths \union {None}, to : Paths \union {None},
                            told : Seq(LocalSaid)]]
    /\ jobs \in Seq(Copies) /\ flags \subseteq Copies /\ wanted \subseteq Copies
    /\ worker \in [stage : {"idle", "open", "copy", "finish", "answer", "over"},
                   job : Copies \union {None}, said : LocalSaid \union {None}]
    /\ stopping \in BOOLEAN

Waits(c) == copy[c] # NotAsked /\ copy[c].told = <<>>

\* A copy is queued once, or at work; the flag outlives neither.
Queued ==
    /\ \A c \in Copies : copy[c] # NotAsked => copy[c].from \in Paths /\ copy[c].to \in Paths
    /\ Distinct(jobs) /\ ToSet(jobs) \subseteq flags
    /\ \A c \in flags : Waits(c)
    /\ worker.stage \in {"open", "copy", "finish", "answer"} =>
         worker.job \in Copies \ ToSet(jobs) /\ Waits(worker.job)
    /\ worker.stage = "answer" => worker.job \notin flags
    /\ worker.stage \in {"finish", "answer"} =>
         worker.said \in LocalSaid /\ (worker.said = "cancelled" => Flagged(worker.job))

From == at[copy[worker.job].from]
To == at[copy[worker.job].to]

\* Paths keep leading to the files they led to at first; a destination is another
\* file than its source, and holds a prefix of it.
Disk ==
    /\ \A p \in Paths : AtFirst[p] \in Files => at[p] = AtFirst[p]
    /\ \A f \in Files : bytes[f].pieces = 0 => bytes[f] = Empty
    /\ \A f \in Files : (\E p \in Paths : AtFirst[p] = f) /\ bytes[f] # [of |-> f, pieces |-> Size] =>
         \E c \in Copies : /\ copy[c] # NotAsked /\ at[copy[c].to] = f
                           /\ at[copy[c].from] \in Files \ {f}
    /\ worker.stage = "copy" =>
         /\ From \in Files /\ To \in Files /\ From # To
         /\ bytes[To] = Empty \/ bytes[To].of = bytes[From].of
         /\ bytes[To].pieces <= bytes[From].pieces
    /\ worker.stage \in {"finish", "answer"} /\ worker.said = "ok" => bytes[To] = bytes[From]

LocalInv == LocalTyped /\ Queued /\ Disk

\* One of the two is called; the other rests.
IInv ==
    /\ which \in {"sftp", "local"}
    /\ which = "local" => kind = [t \in Tasks |-> "none"]
    /\ SftpInv /\ LocalInv

-----------------------------------------------------------------------------
(* Sequences in which nothing occurs twice *)

\* What is appended joins the others.
LEMMA Appended ==
    ASSUME NEW S, NEW s \in Seq(S), NEW x \in S, Distinct(s), x \notin ToSet(s)
    PROVE  /\ Append(s, x) \in Seq(S) /\ Distinct(Append(s, x))
           /\ ToSet(Append(s, x)) = ToSet(s) \union {x}
<1> DEFINE n == Len(s)
           a == Append(s, x)
<1>1. n \in Nat /\ DOMAIN s = 1..n
  BY LenProperties
<1>2. a \in Seq(S) /\ Len(a) = n + 1 /\ a[n + 1] = x /\ \A i \in 1..n : a[i] = s[i]
  OBVIOUS
<1>3. DOMAIN a = 1..(n + 1)
  BY <1>2, LenProperties
<1>4. 1..(n + 1) = 1..n \union {n + 1}
  BY <1>1
<1> HIDE DEF a, n
<1>5. ToSet(a) = {a[i] : i \in 1..n} \union {a[n + 1]}
  BY <1>3, <1>4 DEF ToSet
<1>6. {a[i] : i \in 1..n} = ToSet(s)
  BY <1>1, <1>2 DEF ToSet
<1>7. \A i \in 1..n : s[i] # x
  BY <1>1 DEF ToSet
<1>8. Distinct(a)
  BY <1>1, <1>2, <1>4, <1>7, n = Len(s) DEF Distinct, n
<1> QED
  BY <1>2, <1>5, <1>6, <1>8 DEF a

\* What is taken out leaves the others (RemoveAt).
LEMMA TakenOut ==
    ASSUME NEW S, NEW s \in Seq(S), NEW i \in 1..Len(s), Distinct(s)
    PROVE  /\ RemoveAt(s, i) \in Seq(S) /\ Distinct(RemoveAt(s, i))
           /\ ToSet(RemoveAt(s, i)) = ToSet(s) \ {s[i]}
<1> DEFINE n == Len(s)
           l == SubSeq(s, 1, i - 1)
           r == SubSeq(s, i + 1, n)
           c == RemoveAt(s, i)
<1>1. n \in Nat /\ i \in 1..n /\ DOMAIN s = 1..n /\ \A j \in 1..n : s[j] \in S
  BY LenProperties, ElementOfSeq
<1>2. l \in Seq(S) /\ Len(l) = i - 1 /\ \A j \in 1..(i - 1) : l[j] = s[j]
  <2>1. \A j \in 1..(i - 1) : s[j] \in S
    BY <1>1
  <2> QED
    BY <2>1, <1>1, SubSeqProperties
<1>3. r \in Seq(S) /\ Len(r) = n - i /\ \A j \in 1..(n - i) : r[j] = s[j + i]
  <2>1. \A j \in (i + 1)..n : s[j] \in S
    BY <1>1
  <2>2. /\ r \in Seq(S) /\ Len(r) = IF i + 1 <= n THEN n - (i + 1) + 1 ELSE 0
        /\ \A j \in 1..(n - (i + 1) + 1) : r[j] = s[i + 1 + j - 1]
    BY <2>1, <1>1, SubSeqProperties
  <2> HIDE DEF r, n
  <2> QED
    BY <2>2, <1>1
<1>4. c = l \o r
  BY DEF RemoveAt
<1>5. /\ c \in Seq(S) /\ Len(c) = n - 1
      /\ \A j \in 1..(n - 1) : c[j] = IF j < i THEN s[j] ELSE s[j + 1]
  <2> HIDE DEF l, r, c, n
  <2>1. /\ c \in Seq(S) /\ Len(c) = Len(l) + Len(r)
        /\ \A j \in 1..(Len(l) + Len(r)) : c[j] = IF j <= Len(l) THEN l[j] ELSE r[j - Len(l)]
    BY <1>2, <1>3, <1>4, ConcatProperties
  <2> QED
    BY <1>1, <1>2, <1>3, <2>1
<1> HIDE DEF l, r, c
<1>6. DOMAIN c = 1..(n - 1)
  BY <1>5, LenProperties
<1>7. \A j, k \in 1..n : s[j] = s[k] => j = k
  BY DEF Distinct
<1> HIDE DEF n
<1>8. Distinct(c)
  <2> SUFFICES ASSUME NEW j \in 1..(n - 1), NEW k \in 1..(n - 1), c[j] = c[k] PROVE j = k
    BY <1>5 DEF Distinct
  <2> DEFINE J == IF j < i THEN j ELSE j + 1
             K == IF k < i THEN k ELSE k + 1
  <2>1. J \in 1..n /\ K \in 1..n /\ c[j] = s[J] /\ c[k] = s[K]
    BY <1>1, <1>5
  <2>2. J = K
    BY <2>1, <1>7
  <2> QED
    BY <2>2, <1>1
<1>9. ToSet(c) \subseteq ToSet(s) \ {s[i]}
  <2> SUFFICES ASSUME NEW j \in 1..(n - 1) PROVE c[j] \in ToSet(s) \ {s[i]}
    BY <1>6 DEF ToSet
  <2> DEFINE J == IF j < i THEN j ELSE j + 1
  <2>1. J \in 1..n /\ c[j] = s[J] /\ J # i
    BY <1>1, <1>5
  <2> HIDE DEF J
  <2>2. s[J] # s[i]
    BY <2>1, <1>7, <1>1
  <2> QED
    BY <2>1, <2>2, <1>1 DEF ToSet
<1>10. ToSet(s) \ {s[i]} \subseteq ToSet(c)
  <2> SUFFICES ASSUME NEW j \in 1..n, j # i PROVE s[j] \in ToSet(c)
    BY <1>1 DEF ToSet
  <2> DEFINE J == IF j < i THEN j ELSE j - 1
  <2>1. J \in 1..(n - 1) /\ c[J] = s[j]
    BY <1>1, <1>5
  <2> HIDE DEF J
  <2> QED
    BY <2>1, <1>6 DEF ToSet
<1> QED
  BY <1>5, <1>8, <1>9, <1>10 DEF c

\* The first of them gone, the others remain.
LEMMA HeadGone ==
    ASSUME NEW S, NEW s \in Seq(S), s # <<>>, Distinct(s)
    PROVE  /\ Tail(s) \in Seq(S) /\ Distinct(Tail(s))
           /\ Head(s) \in S /\ Head(s) \in ToSet(s)
           /\ ToSet(Tail(s)) = ToSet(s) \ {Head(s)}
<1> DEFINE n == Len(s)
           c == Tail(s)
<1>1. n \in Nat \ {0} /\ DOMAIN s = 1..n /\ Head(s) = s[1]
  BY LenProperties, EmptySeq
<1>2. c \in Seq(S) /\ Len(c) = n - 1 /\ \A j \in 1..(n - 1) : c[j] = s[j + 1]
  BY HeadTailProperties
<1>3. \A j, k \in 1..n : s[j] = s[k] => j = k
  BY DEF Distinct
<1>4. Head(s) \in S
  BY HeadTailProperties
<1> HIDE DEF c
<1>5. DOMAIN c = 1..(n - 1)
  BY <1>2, LenProperties
<1> HIDE DEF n
<1>6. Distinct(c)
  BY <1>1, <1>2, <1>3 DEF Distinct
<1>7. ToSet(c) \subseteq ToSet(s) \ {s[1]}
  <2> SUFFICES ASSUME NEW j \in 1..(n - 1) PROVE c[j] \in ToSet(s) \ {s[1]}
    BY <1>5 DEF ToSet
  <2>1. c[j] = s[j + 1] /\ j + 1 \in 1..n /\ s[j + 1] # s[1]
    BY <1>1, <1>2, <1>3
  <2> QED
    BY <2>1, <1>1 DEF ToSet
<1>8. ToSet(s) \ {s[1]} \subseteq ToSet(c)
  <2> SUFFICES ASSUME NEW j \in 1..n, j # 1 PROVE s[j] \in ToSet(c)
    BY <1>1 DEF ToSet
  <2>1. j - 1 \in 1..(n - 1) /\ c[j - 1] = s[j]
    BY <1>1, <1>2
  <2> QED
    BY <2>1, <1>5 DEF ToSet
<1>9. s[1] \in ToSet(s)
  BY <1>1 DEF ToSet
<1> QED
  BY <1>1, <1>2, <1>4, <1>6, <1>7, <1>8, <1>9 DEF c

\* Nothing is in a sequence that is empty.
LEMMA NothingIn == Distinct(<<>>) /\ ToSet(<<>>) = {}
  BY DEF Distinct, ToSet

-----------------------------------------------------------------------------
(* The programs *)

\* Only the last step of a handle's program is its close, and its open comes
\* before everything that needs the handle.
LEMMA Programs ==
    ASSUME NEW k \in AllKinds, NEW i \in DOMAIN Program(k)
    PROVE  /\ DOMAIN Program(k) = 1..Len(Program(k)) /\ Len(Program(k)) \in 2..5
           /\ i \in 1..5 /\ Program(k)[i] \in Slots
           /\ Program(k)[1] = "Init"
           /\ Program(k)[Len(Program(k))] = (IF k \in HandleKinds THEN "Close" ELSE k)
           /\ Program(k)[i] \in {"Init", "Open", "FStat"} => i + 1 \in DOMAIN Program(k)
           /\ k \in HandleKinds =>
                /\ Program(k)[i] = "Close" => i = Len(Program(k))
                /\ Program(k)[i] = "Init" => Program(k)[i + 1] = "Open"
                /\ Program(k)[i] \in {"Open", "FStat"} => Program(k)[i + 1] # "Close"
           /\ k \notin HandleKinds => Program(k)[i] \notin {"Open", "FStat", "Close"}
<1>1. CASE k = "List"
  <2>1. Program(k) = <<"Init", "Open", "ReadDir", "Close">> /\ k \in HandleKinds
    BY <1>1 DEF Program, HandleKinds
  <2> QED
    BY <2>1 DEF Slots, OpSlots
<1>2. CASE k = "Download"
  <2>1. Program(k) = <<"Init", "Open", "FStat", "Read", "Close">> /\ k \in HandleKinds
    BY <1>2 DEF Program, HandleKinds
  <2> QED
    BY <2>1 DEF Slots, OpSlots
<1>3. CASE k = "Upload"
  <2>1. Program(k) = <<"Init", "Open", "Write", "Close">> /\ k \in HandleKinds
    BY <1>3 DEF Program, HandleKinds
  <2> QED
    BY <2>1 DEF Slots, OpSlots
<1>4. CASE k \in OpSlots
  <2>1. Program(k) = <<"Init", k>> /\ k \notin HandleKinds
    BY <1>4 DEF Program, OpSlots, HandleKinds
  <2> QED
    BY <2>1, <1>4 DEF Slots, OpSlots
<1> QED
  BY <1>1, <1>2, <1>3, <1>4 DEF AllKinds, HandleKinds

-----------------------------------------------------------------------------
(* The service and the port it promises *)

SftpPort == INSTANCE RemoteFileSystem WITH
    Operations <- Tasks, Codes <- Said,
    asked <- Asked, told <- answers, wanted <- cancelled,
    ended <- ~running, lost <- Lost

\* Lost is what was pushed onto a drained queue.
LEMMA LostIs == SftpTyped /\ Placed => Lost = TooLate /\ TooLate \subseteq ToSet(queue)
<1> SUFFICES ASSUME SftpTyped, Placed PROVE Lost = TooLate /\ TooLate \subseteq ToSet(queue)
  OBVIOUS
<1>1. TooLate \subseteq ToSet(queue) /\ ToSet(queue) \subseteq InHand
  BY DEF TooLate, InHand
<1>2. ToSet(queue) \subseteq Tasks
  BY ElementOfSeq, LenProperties DEF SftpTyped, ToSet
<1>3. \A t \in Tasks : t \in InHand <=> t \in Asked /\ answers[t] = <<>>
  BY DEF Placed, Asked
<1> QED
  BY <1>1, <1>2, <1>3 DEF Lost, Asked

\* It is so after a step as well.
LEMMA LostIsToo == (SftpTyped /\ Placed => Lost = TooLate)'
<1>1. SftpTyped /\ Placed => Lost = TooLate
  BY LostIs
<1> QED
  BY <1>1, PTL

\* The sets of what is queued and drained are sets of tasks.
LEMMA HandIsTasks == SftpTyped => InHand \subseteq Tasks
<1> SUFFICES ASSUME SftpTyped PROVE InHand \subseteq Tasks
  OBVIOUS
<1>1. ToSet(queue) \subseteq Tasks /\ ToSet(drained) \subseteq Tasks
  BY ElementOfSeq, LenProperties DEF SftpTyped, ToSet
<1> QED
  BY <1>1 DEF SftpTyped, InHand

\* A step that touches no task leaves true what was.
LEMMA TasksRest ==
    ASSUME SftpInv, UNCHANGED task, landed' = landed, InHand' = InHand,
           live' = live, cancelled \subseteq cancelled', cancelled' \subseteq live',
           ~running => ~running', cancelling => cancelling'
    PROVE  /\ RegistryBounded' /\ (\A t \in InHand : Due(t))' /\ SuccessMeansClosed'
<1> USE DEF task
<1>1. RegistryBounded'
  BY DEF SftpInv, RegistryBounded
<1>2. ASSUME NEW t \in InHand PROVE Due(t)'
  <2>1. Due(t)
    BY DEF SftpInv
  <2>2. Slot(t)' = Slot(t) /\ HasHandle(t)' = HasHandle(t)
    BY DEF Slot, HasHandle
  <2> QED
    BY <2>1, <2>2 DEF Due, Closing, Opened
<1>3. SuccessMeansClosed'
  <2> SUFFICES ASSUME NEW t \in Tasks, "ok" \in ToSet(answers[t]), HasHandle(t)
               PROVE  t \in landed \/ Stopped'
    BY DEF SuccessMeansClosed, HasHandle
  <2> QED
    BY DEF SftpInv, SuccessMeansClosed, Stopped
<1> QED
  BY <1>1, <1>2, <1>3

\* Enqueue: whoever asks, asks the port.
LEMMA EnqueueStep ==
    ASSUME SftpInv, NEW t \in Tasks, NEW k \in Kinds[t], Enqueue(t, k)
    PROVE  SftpInv' /\ SftpPort!Ask(t)
<1> USE DEF task, session
<1>1. SftpTyped /\ Ended /\ Placed
  BY DEF SftpInv
<1>2. k \in AllKinds /\ k # "none" /\ AllKinds \subseteq HandleKinds \union OpSlots
  BY ServiceAssumption DEF AllKinds, HandleKinds, OpSlots
<1>3. kind' = [kind EXCEPT ![t] = k] /\ kind \in [Tasks -> AllKinds \union {"none"}]
  BY <1>1 DEF Enqueue, SftpTyped
<1>4. t \notin InHand /\ t \notin ToSet(queue)
  BY <1>1 DEF Placed, Enqueue, InHand
<1>5. /\ queue' \in Seq(Tasks) /\ Distinct(queue')
      /\ ToSet(queue') = ToSet(queue) \union {t}
  BY <1>1, <1>4, Appended DEF Enqueue, SftpTyped, Placed
<1>6. InHand' = InHand \union {t}
  BY <1>5 DEF InHand, Enqueue
<1>7. phase[t] = 1 /\ outcome[t] = "none" /\ answers[t] = <<>> /\ kind[t] = "none"
  BY <1>1 DEF SftpTyped, Enqueue
<1>8. 1 \in DOMAIN Program(k) /\ Program(k)[1] = "Init"
  <2>1. CASE k \in {"List", "Download", "Upload"}
    BY <2>1 DEF Program
  <2>2. CASE k \notin {"List", "Download", "Upload"}
    <3>1. Program(k) = <<"Init", k>>
      BY <2>2 DEF Program
    <3> QED
      BY <3>1
  <2> QED
    BY <2>1, <2>2
<1>9. SftpTyped'
  <2>1. kind' \in [Tasks -> AllKinds \union {"none"}]
    BY <1>2, <1>3
  <2>2. \A s \in Tasks : kind'[s] \in Kinds[s] \union {"none"}
    BY <1>1, <1>3 DEF SftpTyped
  <2>3. \A s \in Tasks :
          /\ kind'[s] # "none" => phase'[s] \in DOMAIN Program(kind'[s])
          /\ kind'[s] = "none" => phase'[s] = 1 /\ outcome'[s] = "none" /\ answers'[s] = <<>>
    <3> TAKE s \in Tasks
    <3>1. CASE s = t
      BY <1>2, <1>3, <1>7, <1>8, <3>1 DEF Enqueue
    <3>2. CASE s # t
      BY <1>1, <1>3, <3>2 DEF SftpTyped, Enqueue
    <3> QED
      BY <3>1, <3>2
  <2>4. live' \subseteq Tasks
    BY <1>1 DEF Enqueue, SftpTyped
  <2> QED
    BY <1>1, <1>5, <2>1, <2>2, <2>3, <2>4 DEF SftpTyped, Enqueue
<1>10. Ended'
  BY <1>1 DEF Ended, Enqueue
<1>11. stepping # t /\ t \notin ToSet(drained)
  BY <1>4, ServiceAssumption DEF InHand
<1>12. Placed'
  <2>1. \A s \in Tasks : s \in InHand' <=> kind'[s] # "none" /\ answers'[s] = <<>>
    <3> TAKE s \in Tasks
    <3>1. CASE s = t
      BY <1>2, <1>3, <1>6, <1>7, <3>1 DEF Enqueue
    <3>2. CASE s # t
      BY <1>1, <1>3, <1>6, <3>2 DEF Placed, Enqueue
    <3> QED
      BY <3>1, <3>2
  <2> QED
    BY <1>1, <1>5, <1>11, <2>1 DEF Placed, Enqueue
<1>13. RegistryBounded'
  <2>1. live = {s \in InHand : kind[s] \in Transfers} /\ cancelled \subseteq live
    BY DEF SftpInv, RegistryBounded
  <2>2. \A s \in InHand : s # t /\ kind'[s] = kind[s]
    BY <1>3, <1>4, <1>1, HandIsTasks
  <2>3. kind'[t] = k
    BY <1>3
  <2> QED
    BY <1>6, <2>1, <2>2, <2>3 DEF RegistryBounded, Enqueue
<1>14. HeldSlotsHaveHolders'
  BY <1>5 DEF SftpInv, HeldSlotsHaveHolders, Enqueue
<1>15. (\A s \in InHand : Due(s))'
  <2> SUFFICES ASSUME NEW s \in InHand' PROVE Due(s)'
    OBVIOUS
  <2>1. CASE s = t
    <3>1. Slot(s)' = "Init"
      BY <1>3, <1>7, <1>8, <2>1 DEF Slot, Enqueue
    <3>2. outcome'[s] = "none"
      BY <1>7, <2>1 DEF Enqueue
    <3> QED
      BY <3>1, <3>2 DEF Due, Closing, Opened
  <2>2. CASE s # t
    <3>1. s \in Tasks /\ Due(s)
      BY <1>1, <1>6, <2>2, HandIsTasks DEF SftpInv
    <3>2. Slot(s)' = Slot(s) /\ HasHandle(s)' = HasHandle(s)
      BY <1>3, <2>2, <3>1 DEF Slot, HasHandle, Enqueue
    <3> QED
      BY <3>1, <3>2 DEF Due, Closing, Opened, Enqueue
  <2> QED
    BY <2>1, <2>2
<1>16. SuccessMeansClosed'
  <2> SUFFICES ASSUME NEW s \in Tasks, "ok" \in ToSet(answers[s]), HasHandle(s)'
               PROVE  s \in landed \/ Stopped
    BY DEF SuccessMeansClosed, Enqueue, Stopped
  <2>1. s # t
    BY <1>7, NothingIn
  <2>2. HasHandle(s)
    BY <1>3, <2>1 DEF HasHandle
  <2> QED
    BY <2>2 DEF SftpInv, SuccessMeansClosed
<1>17. SftpInv'
  BY <1>9, <1>10, <1>12, <1>13, <1>14, <1>15, <1>16 DEF SftpInv
<1>18. SftpPort!Ask(t)
  <2>1. t \notin Asked /\ Asked' = Asked \union {t}
    BY <1>2, <1>3, <1>7 DEF Asked
  <2>2. Lost = TooLate /\ Lost' = TooLate'
    BY <1>1, <1>9, <1>12, LostIs, LostIsToo
  <2>3. stage \in {"drain", "gone"} => ~running
    BY <1>1 DEF Ended
  <2>4. TooLate' = IF stage \in {"drain", "gone"} THEN TooLate \union {t} ELSE TooLate
    BY <1>5 DEF TooLate, Enqueue
  <2> QED
    BY <2>1, <2>2, <2>3, <2>4 DEF SftpPort!Ask, Enqueue
<1> QED
  BY <1>17, <1>18

\* Cancel: a transfer in hand is noted, one that has finished is not.
LEMMA CancelStep ==
    ASSUME SftpInv, NEW t \in Tasks, Cancel(t)
    PROVE  SftpInv' /\ (SftpPort!Cancel(t) \/ UNCHANGED SftpPort!port)
<1> USE DEF task, session
<1>1. SftpTyped /\ Ended /\ Placed /\ RegistryBounded
  BY DEF SftpInv
<1>2. InHand' = InHand /\ cancelled \subseteq cancelled' /\ cancelled' \subseteq live' /\ live' = live
  BY <1>1 DEF InHand, RegistryBounded, Cancel
<1>3. RegistryBounded' /\ (\A s \in InHand : Due(s))' /\ SuccessMeansClosed'
  BY <1>2, TasksRest DEF Cancel
<1>4. SftpTyped'
  BY <1>1 DEF SftpTyped, Cancel
<1>5. Ended' /\ Placed' /\ HeldSlotsHaveHolders'
  BY <1>1, <1>2 DEF SftpInv, Ended, Placed, HeldSlotsHaveHolders, Cancel
<1>6. Asked' = Asked /\ Lost' = Lost
  BY <1>1, <1>4, <1>5, LostIs, LostIsToo DEF Asked, TooLate, Cancel
<1>7. CASE t \in live
  <2>1. t \in InHand
    BY <1>1, <1>7 DEF RegistryBounded
  <2>2. t \in Asked /\ answers[t] = <<>>
    BY <1>1, <2>1 DEF Placed, Asked
  <2> QED
    BY <1>3, <1>4, <1>5, <1>6, <1>7, <2>2 DEF SftpInv, SftpPort!Cancel, Cancel
<1>8. CASE t \notin live
  BY <1>3, <1>4, <1>5, <1>6, <1>8 DEF SftpInv, SftpPort!port, Cancel
<1> QED
  BY <1>7, <1>8

\* Stop: the session ends.
LEMMA StopStep == ASSUME SftpInv, Stop PROVE SftpInv' /\ SftpPort!End
<1> USE DEF task, session, registry
<1>1. SftpTyped /\ Ended /\ Placed /\ RegistryBounded
  BY DEF SftpInv
<1>2. InHand' = InHand /\ cancelled \subseteq live
  BY <1>1 DEF InHand, RegistryBounded, Stop
<1>3. RegistryBounded' /\ (\A s \in InHand : Due(s))' /\ SuccessMeansClosed'
  BY <1>2, TasksRest DEF Stop
<1>4. SftpTyped'
  BY <1>1 DEF SftpTyped, Stop
<1>5. Ended' /\ Placed' /\ HeldSlotsHaveHolders'
  BY <1>1, <1>2 DEF SftpInv, Ended, Placed, HeldSlotsHaveHolders, Stop
<1>6. Asked' = Asked /\ Lost' = Lost
  BY <1>1, <1>4, <1>5, LostIs, LostIsToo DEF Asked, TooLate, Stop
<1> QED
  BY <1>3, <1>4, <1>5, <1>6 DEF SftpInv, SftpPort!End, Stop

\* Take: the task leaves the queue for the worker's hands.
LEMMA TakeStep ==
    ASSUME SftpInv, NEW i \in 1..Len(queue), Take(i)
    PROVE  SftpInv' /\ UNCHANGED SftpPort!port
<1> USE DEF task, session, registry
<1> DEFINE t == queue[i]
<1>1. SftpTyped /\ Ended /\ Placed /\ RegistryBounded
  BY DEF SftpInv
<1>2. queue \in Seq(Tasks) /\ t \in Tasks /\ t \in ToSet(queue) /\ t # NoTask
  BY <1>1, ElementOfSeq, LenProperties, ServiceAssumption DEF SftpTyped, ToSet
<1>3. /\ queue' \in Seq(Tasks) /\ Distinct(queue') /\ ToSet(queue') = ToSet(queue) \ {t}
  BY <1>1, <1>2, TakenOut DEF Placed, Take
<1> HIDE DEF t
<1>4. stepping = NoTask /\ stepping' = t
  BY <1>1 DEF Ended, Take, t
<1>5. InHand' = InHand
  BY <1>2, <1>3, <1>4 DEF InHand, Take
<1>6. RegistryBounded' /\ (\A s \in InHand : Due(s))' /\ SuccessMeansClosed'
  BY <1>1, <1>5, TasksRest DEF Take, RegistryBounded
<1>7. SftpTyped'
  <2>1. held' \in [Tasks -> Slots \union {"none"}] /\ taken' \subseteq Slots
    BY <1>1 DEF SftpTyped, Take
  <2> QED
    BY <1>1, <1>2, <1>3, <1>4, <2>1 DEF SftpTyped, Take
<1>8. Ended'
  BY <1>1, <1>2, <1>4 DEF Ended, Take
<1>9. Placed'
  BY <1>1, <1>3, <1>4, <1>5 DEF Placed, Take
<1>10. HeldSlotsHaveHolders'
  <2> SUFFICES ASSUME NEW s \in taken' PROVE \E u \in ToSet(queue') : held'[u] = s
    BY DEF HeldSlotsHaveHolders
  <2>1. s \in taken /\ s # held[t]
    BY DEF Take, t
  <2>2. PICK u \in ToSet(queue) : held[u] = s
    BY <2>1 DEF SftpInv, HeldSlotsHaveHolders
  <2>3. u # t /\ u \in Tasks
    BY <1>1, <2>1, <2>2, HandIsTasks DEF InHand
  <2>4. held'[u] = s
    BY <1>1, <2>2, <2>3 DEF Take, SftpTyped, t
  <2> QED
    BY <1>3, <2>2, <2>3, <2>4
<1>11. Asked' = Asked /\ Lost' = Lost
  BY <1>1, <1>7, <1>9, LostIs, LostIsToo DEF Asked, TooLate, Take
<1> QED
  BY <1>6, <1>7, <1>8, <1>9, <1>10, <1>11 DEF SftpInv, SftpPort!port, Take

\* A task's slot is one there is.
LEMMA SlotIsOne ==
    ASSUME SftpTyped, NEW t \in Tasks, kind[t] # "none" PROVE Slot(t) \in Slots
  BY Programs DEF SftpTyped, Slot

\* PutBack: and back again.
LEMMA PutBackStep ==
    ASSUME SftpInv, PutBack
    PROVE  SftpInv' /\ UNCHANGED SftpPort!port
<1> USE DEF task, session, registry
<1> DEFINE t == stepping
<1>1. SftpTyped /\ Ended /\ Placed /\ RegistryBounded
  BY DEF SftpInv
<1>2. t \in Tasks /\ t \notin ToSet(queue) /\ stepping' = NoTask /\ drained = <<>>
  BY <1>1 DEF SftpTyped, Ended, Placed, PutBack
<1>3. queue' \in Seq(Tasks) /\ Distinct(queue') /\ ToSet(queue') = ToSet(queue) \union {t}
  BY <1>1, <1>2, Appended DEF SftpTyped, Placed, PutBack
<1>4. InHand' = InHand
  BY <1>2, <1>3, ServiceAssumption DEF InHand, PutBack
<1>5. RegistryBounded' /\ (\A s \in InHand : Due(s))' /\ SuccessMeansClosed'
  BY <1>1, <1>4, TasksRest DEF PutBack, RegistryBounded
<1>6. Slot(t) \in Slots
  <2>1. t \in InHand
    BY <1>2, ServiceAssumption DEF InHand
  <2>2. kind[t] # "none"
    BY <1>1, <1>2, <2>1 DEF Placed
  <2> QED
    BY <1>1, <1>2, <2>2, SlotIsOne
<1>7. SftpTyped'
  <2>1. held' \in [Tasks -> Slots \union {"none"}] /\ taken' \subseteq Slots
    BY <1>1, <1>6 DEF SftpTyped, PutBack
  <2> QED
    BY <1>1, <1>3, <2>1 DEF SftpTyped, PutBack
<1>8. Ended'
  BY <1>1 DEF Ended, PutBack
<1>9. Placed'
  <2>1. NoTask \notin ToSet(queue') /\ ToSet(drained') = {}
    BY <1>1, <1>2, <1>3, ServiceAssumption, HandIsTasks, NothingIn DEF InHand, PutBack
  <2> QED
    BY <1>1, <1>2, <1>3, <1>4, <2>1 DEF Placed, PutBack
<1>10. HeldSlotsHaveHolders'
  <2> SUFFICES ASSUME NEW s \in taken' PROVE \E u \in ToSet(queue') : held'[u] = s
    BY DEF HeldSlotsHaveHolders
  <2>1. held' = [held EXCEPT ![t] = Slot(t)] /\ taken' = taken \union {Slot(t)}
    BY DEF PutBack
  <2>2. CASE s = Slot(t)
    BY <1>1, <1>2, <1>3, <2>1, <2>2 DEF SftpTyped
  <2>3. CASE s \in taken
    <3>1. PICK u \in ToSet(queue) : held[u] = s
      BY <2>3 DEF SftpInv, HeldSlotsHaveHolders
    <3>2. u # t /\ u \in Tasks
      BY <1>1, <1>2, HandIsTasks DEF InHand
    <3> QED
      BY <1>1, <1>3, <2>1, <3>1, <3>2 DEF SftpTyped
  <2> QED
    BY <2>1, <2>2, <2>3
<1>11. Asked' = Asked /\ Lost' = Lost
  BY <1>1, <1>7, <1>9, LostIs, LostIsToo DEF Asked, TooLate, PutBack
<1> QED
  BY <1>5, <1>7, <1>8, <1>9, <1>10, <1>11 DEF SftpInv, SftpPort!port, PutBack

\* Latch and Shutdown: nothing moves but the worker.
LEMMA LoopEnds ==
    ASSUME SftpInv, Latch \/ Shutdown
    PROVE  SftpInv' /\ UNCHANGED SftpPort!port
<1> USE DEF task, session, registry
<1>1. SftpTyped /\ Ended /\ Placed /\ RegistryBounded
  BY DEF SftpInv
<1>2. InHand' = InHand
  BY DEF InHand, Latch, Shutdown
<1>3. RegistryBounded' /\ (\A s \in InHand : Due(s))' /\ SuccessMeansClosed'
  BY <1>1, <1>2, TasksRest DEF Latch, Shutdown, RegistryBounded
<1>4. SftpTyped'
  BY <1>1 DEF SftpTyped, Latch, Shutdown
<1>5. Ended' /\ Placed' /\ HeldSlotsHaveHolders'
  BY <1>1, <1>2 DEF SftpInv, Ended, Placed, HeldSlotsHaveHolders, Latch, Shutdown
<1>6. Asked' = Asked /\ Lost' = Lost
  BY <1>1, <1>4, <1>5, LostIs, LostIsToo DEF Asked, TooLate, Latch, Shutdown
<1> QED
  BY <1>3, <1>4, <1>5, <1>6 DEF SftpInv, SftpPort!port, Latch, Shutdown

\* Drain: the whole queue changes hands.
LEMMA DrainStep ==
    ASSUME SftpInv, Drain
    PROVE  SftpInv' /\ UNCHANGED SftpPort!port
<1> USE DEF task, session, registry
<1>1. SftpTyped /\ Ended /\ Placed /\ RegistryBounded
  BY DEF SftpInv
<1>2. drained = <<>> /\ stepping = NoTask
  BY <1>1 DEF Ended, Drain
<1>3. InHand' = InHand /\ ToSet(queue') = {} /\ Distinct(queue')
  BY <1>2, NothingIn DEF InHand, Drain
<1>4. RegistryBounded' /\ (\A s \in InHand : Due(s))' /\ SuccessMeansClosed'
  BY <1>1, <1>3, TasksRest DEF Drain, RegistryBounded
<1>5. SftpTyped'
  BY <1>1 DEF SftpTyped, Drain
<1>6. Ended'
  BY <1>1, <1>2 DEF Ended, Drain
<1>7. Placed'
  BY <1>1, <1>3 DEF Placed, Drain
<1>8. HeldSlotsHaveHolders'
  BY DEF HeldSlotsHaveHolders, Drain
<1>9. Asked' = Asked /\ Lost' = Lost
  <2>1. TooLate' = {} /\ TooLate = {}
    BY <1>3 DEF TooLate, Drain
  <2> QED
    BY <1>1, <1>5, <1>7, <2>1, LostIs, LostIsToo DEF Asked, Drain
<1> QED
  BY <1>4, <1>5, <1>6, <1>7, <1>8, <1>9 DEF SftpInv, SftpPort!port, Drain

-----------------------------------------------------------------------------
(* A step of a task *)

\* A step of t moves no other task, and t along its own program.
Steady(t) ==
    /\ phase' \in [Tasks -> 1..5] /\ phase'[t] \in DOMAIN Program(kind[t])
    /\ open' \in [Tasks -> BOOLEAN] /\ outcome' \in [Tasks -> Outcomes]
    /\ \A s \in Tasks \ {t} :
         phase'[s] = phase[s] /\ open'[s] = open[s] /\ outcome'[s] = outcome[s]
    /\ landed \subseteq landed' /\ landed' \subseteq Tasks

\* What it does to the session: nothing the contract is about.
Session ==
    up' \in BOOLEAN /\ wire' \in [Slots -> Tasks \union {NoTask}] /\ mixed' \subseteq Tasks

\* It answers, and truly; or it yields, and what it will answer is true.
Tells(t, c) ==
    /\ Answer(t, c)
    /\ c = "cancelled" => t \in cancelled
    /\ c = "gone" => ~running
    /\ c = "ok" /\ HasHandle(t) => t \in landed' \/ Stopped
Yields(t) == Silent /\ Return(TRUE) /\ ~Stopped /\ Due(t)'
Stepped(t) == Steady(t) /\ (Yields(t) \/ \E c \in Said : Tells(t, c))

\* The task at hand has been asked for and not answered.
LEMMA CurrentIs ==
    ASSUME SftpInv, NEW t \in Tasks, Current(t)
    PROVE  /\ t \in InHand /\ kind[t] \in AllKinds /\ answers[t] = <<>>
           /\ phase[t] \in DOMAIN Program(kind[t]) /\ Due(t)
<1>1. SftpTyped /\ Ended /\ Placed
  BY DEF SftpInv
<1>2. t \in InHand
  <2>1. CASE stage = "step" /\ t = stepping
    BY <2>1, ServiceAssumption DEF InHand
  <2>2. CASE stage = "drain" /\ drained # <<>> /\ t = Head(drained)
    BY <1>1, <2>2, HeadGone DEF SftpTyped, Placed, InHand
  <2> QED
    BY <2>1, <2>2 DEF Current
<1> QED
  BY <1>1, <1>2 DEF SftpInv, SftpTyped, Placed

\* AdvanceClose: an answer, or a close that is pending.
LEMMA Closes ==
    ASSUME SftpInv, NEW t \in Tasks, NEW r \in Said, AdvanceClose(t, r),
           r = "ok" => open[t], r = "cancelled" => t \in cancelled, r = "gone" => ~running
    PROVE  /\ open' \in [Tasks -> BOOLEAN] /\ \A s \in Tasks \ {t} : open'[s] = open[s]
           /\ landed \subseteq landed' /\ landed' \subseteq Tasks
           /\ \/ \E c \in Said : Tells(t, c)
              \/ Silent /\ Return(TRUE) /\ ~Stopped /\ open' = open
<1>1. open \in [Tasks -> BOOLEAN] /\ landed \subseteq Tasks
  BY DEF SftpInv, SftpTyped
<1>2. CASE ~open[t] /\ Answer(t, r) /\ UNCHANGED <<open, landed>>
  BY <1>1, <1>2 DEF Tells
<1>3. CASE /\ open[t] /\ Stopped /\ open' = [open EXCEPT ![t] = FALSE]
           /\ Answer(t, r) /\ UNCHANGED landed
  BY <1>1, <1>3 DEF Tells
<1>4. CASE ~Stopped /\ Silent /\ Return(TRUE) /\ UNCHANGED <<open, landed>>
  BY <1>1, <1>4
<1>5. CASE /\ ~Stopped /\ open' = [open EXCEPT ![t] = FALSE]
           /\ landed' = landed \union {t} /\ Answer(t, r)
  BY <1>1, <1>5 DEF Tells
<1>6. CASE /\ ~Stopped /\ open' = [open EXCEPT ![t] = FALSE]
           /\ Answer(t, IF r = "ok" THEN "failed" ELSE r) /\ UNCHANGED landed
  <2> DEFINE c == IF r = "ok" THEN "failed" ELSE r
  <2>1. c \in Said /\ c # "ok" /\ Answer(t, c)
    BY <1>6 DEF Said, Outcomes
  <2>2. Tells(t, c)
    BY <2>1 DEF Tells
  <2> QED
    BY <1>1, <1>6, <2>1, <2>2
<1> QED
  BY <1>2, <1>3, <1>4, <1>5, <1>6 DEF AdvanceClose

\* A task that keeps its place and its handle will answer what it would have.
LEMMA StaysDue ==
    ASSUME SftpInv, NEW t \in InHand, Silent, Return(TRUE),
           phase'[t] = phase[t], outcome'[t] = outcome[t], open'[t] = open[t]
    PROVE  Due(t)'
<1>1. Due(t) /\ kind' = kind /\ cancelled' = cancelled /\ running' = running
  BY DEF SftpInv, Silent, Return
<1>2. Slot(t)' = Slot(t) /\ HasHandle(t)' = HasHandle(t)
  BY <1>1 DEF Slot, HasHandle
<1> QED
  BY <1>1, <1>2 DEF Due, Closing, Opened

\* Finish: straight on into the close, or an answer.
LEMMA Finishes ==
    ASSUME SftpInv, NEW t \in Tasks, Current(t), NEW r \in Said, Finish(t, r),
           r = "ok" /\ HasHandle(t) => open[t],
           r = "cancelled" => t \in cancelled, r = "gone" => ~running
    PROVE  Stepped(t)
<1>1. /\ t \in InHand /\ kind[t] \in AllKinds /\ phase[t] \in DOMAIN Program(kind[t])
      /\ SftpTyped
  BY CurrentIs DEF SftpInv
<1>2. CASE HasHandle(t)
  <2> DEFINE n == Len(Program(kind[t]))
  <2>1. /\ n \in 1..5 /\ n \in DOMAIN Program(kind[t])
        /\ Program(kind[t])[n] = "Close"
    BY <1>1, <1>2, Programs DEF HasHandle
  <2>2. /\ phase' = [phase EXCEPT ![t] = n] /\ outcome' = [outcome EXCEPT ![t] = r]
        /\ AdvanceClose(t, r)
    BY <1>2 DEF Finish
  <2>3. /\ open' \in [Tasks -> BOOLEAN] /\ \A s \in Tasks \ {t} : open'[s] = open[s]
        /\ landed \subseteq landed' /\ landed' \subseteq Tasks
        /\ \/ \E c \in Said : Tells(t, c)
           \/ Silent /\ Return(TRUE) /\ ~Stopped /\ open' = open
    BY <1>2, <2>2, Closes
  <2>4. r \in Outcomes /\ r # "none"
    BY DEF Said
  <2>5. phase'[t] = n /\ outcome'[t] = r
    BY <1>1, <2>2 DEF SftpTyped
  <2> HIDE DEF n
  <2>6. Steady(t)
    BY <1>1, <2>1, <2>2, <2>3, <2>4, <2>5 DEF Steady, SftpTyped
  <2>7. ASSUME Silent, Return(TRUE), ~Stopped, open' = open PROVE Yields(t)
    <3>1. kind' = kind /\ cancelled' = cancelled /\ running' = running
      BY <2>7 DEF Silent, Return
    <3>2. Slot(t)' = "Close" /\ HasHandle(t)' = HasHandle(t)
      BY <2>1, <2>5, <3>1 DEF Slot, HasHandle
    <3>3. Due(t)'
      BY <1>2, <2>4, <2>5, <2>7, <3>1, <3>2 DEF Due, Closing, Opened
    <3> QED
      BY <2>7, <3>3 DEF Yields
  <2> QED
    BY <2>3, <2>6, <2>7 DEF Stepped
<1>3. CASE ~HasHandle(t)
  <2>1. Answer(t, r) /\ UNCHANGED <<phase, open, outcome, landed>>
    BY <1>3 DEF Finish
  <2>2. Tells(t, r)
    BY <1>3, <2>1 DEF Tells
  <2>3. Steady(t)
    BY <1>1, <2>1 DEF Steady, SftpTyped
  <2> QED
    BY <2>2, <2>3 DEF Stepped
<1> QED
  BY <1>2, <1>3

\* Advance: the handle a task has, or gets, is what its next call needs.
LEMMA Advances ==
    ASSUME SftpInv, NEW t \in Tasks, Current(t), Advance(t), ~Stopped,
           Slot(t) \in {"Init", "Open", "FStat"}, NEW b \in BOOLEAN,
           open' = [open EXCEPT ![t] = b], Slot(t) # "Init" /\ HasHandle(t) => b
    PROVE  Stepped(t)
<1>1. /\ t \in InHand /\ kind[t] \in AllKinds /\ phase[t] \in DOMAIN Program(kind[t])
      /\ SftpTyped /\ Due(t)
  BY CurrentIs DEF SftpInv
<1> DEFINE n == phase[t] + 1
<1>2. n \in 1..5 /\ n \in DOMAIN Program(kind[t])
  <2>1. n \in DOMAIN Program(kind[t])
    BY <1>1, Programs DEF Slot
  <2> QED
    BY <1>1, <2>1, Programs
<1>3. phase' = [phase EXCEPT ![t] = n] /\ phase'[t] = n
  BY <1>1 DEF Advance, SftpTyped
<1>4. HasHandle(t) =>
        /\ Program(kind[t])[n] # "Close"
        /\ Slot(t) = "Init" => Program(kind[t])[n] = "Open"
  BY <1>1, Programs DEF HasHandle, Slot
<1> HIDE DEF n
<1>5. /\ kind' = kind /\ cancelled' = cancelled /\ running' = running
      /\ outcome' = outcome /\ landed' = landed
  BY DEF Advance, Silent, Return
<1>6. open'[t] = b
  BY <1>1 DEF SftpTyped
<1>7. Due(t)'
  <2>1. Slot(t)' = Program(kind[t])[n] /\ HasHandle(t)' = HasHandle(t)
    BY <1>3, <1>5 DEF Slot, HasHandle
  <2>2. outcome'[t] = outcome[t]
    BY <1>5
  <2> QED
    BY <1>1, <1>4, <1>5, <1>6, <2>1, <2>2 DEF Due, Closing, Opened
<1>8. Steady(t)
  BY <1>1, <1>2, <1>3, <1>5 DEF Steady, SftpTyped
<1> QED
  BY <1>7, <1>8 DEF Stepped, Yields, Advance

\* A reply that is pending changes nothing of the task.
LEMMA Waited ==
    ASSUME SftpInv, NEW t \in Tasks, Current(t), Silent, Return(TRUE), ~Stopped,
           UNCHANGED <<phase, outcome, open, landed>>
    PROVE  Stepped(t)
<1>1. t \in InHand /\ SftpTyped /\ phase[t] \in DOMAIN Program(kind[t])
  BY CurrentIs DEF SftpInv
<1>2. Due(t)'
  BY <1>1, StaysDue
<1> QED
  BY <1>1, <1>2 DEF Stepped, Yields, Steady, SftpTyped

\* A step of the close.
LEMMA CloseSteps ==
    ASSUME SftpInv, NEW t \in Tasks, StepClose(t) PROVE Stepped(t) /\ Session
<1>1. /\ t \in InHand /\ SftpTyped /\ phase[t] \in DOMAIN Program(kind[t]) /\ Due(t)
      /\ Current(t) /\ Closing(t) /\ AdvanceClose(t, outcome[t])
      /\ UNCHANGED <<phase, outcome, up, wire, mixed>>
  BY CurrentIs DEF SftpInv, StepClose
<1>2. PICK r \in Said : r = outcome[t]
  BY <1>1 DEF Due
<1>3. /\ open' \in [Tasks -> BOOLEAN] /\ \A s \in Tasks \ {t} : open'[s] = open[s]
      /\ landed \subseteq landed' /\ landed' \subseteq Tasks
      /\ \/ \E c \in Said : Tells(t, c)
         \/ Silent /\ Return(TRUE) /\ ~Stopped /\ open' = open
  BY <1>1, <1>2, Closes DEF Due
<1>4. Steady(t)
  BY <1>1, <1>3 DEF Steady, SftpTyped
<1>5. ASSUME Silent, Return(TRUE), ~Stopped, open' = open PROVE Yields(t)
  BY <1>1, <1>5, StaysDue DEF Yields
<1> QED
  BY <1>1, <1>3, <1>4, <1>5 DEF Stepped, Session, SftpTyped

\* The two checks in front of every other step.
LEMMA ChecksStep ==
    ASSUME SftpInv, NEW t \in Tasks, StepStopped(t) \/ StepCancelled(t)
    PROVE  Stepped(t) /\ Session
<1>1. SftpTyped /\ Ended
  BY DEF SftpInv
<1>2. Session
  BY <1>1 DEF Session, SftpTyped, StepStopped, StepCancelled
<1>3. "gone" \in Said /\ "cancelled" \in Said
  BY DEF Said, Outcomes
<1>4. CASE StepStopped(t)
  <2>1. ~running
    BY <1>1, <1>4 DEF StepStopped, Stopped, Ended
  <2> QED
    BY <1>2, <1>3, <1>4, <2>1, Finishes DEF StepStopped
<1>5. CASE StepCancelled(t)
  BY <1>2, <1>3, <1>5, Finishes DEF StepCancelled
<1> QED
  BY <1>4, <1>5

\* EnsureSftp.
LEMMA InitStep ==
    ASSUME SftpInv, NEW t \in Tasks, NEW reply \in Replies, StepInit(t, reply)
    PROVE  Stepped(t) /\ Session
<1>1. SftpTyped /\ Current(t) /\ ~Stopped /\ Slot(t) = "Init" /\ UNCHANGED <<wire, mixed>>
  BY DEF SftpInv, StepInit, Working
<1>2. "failed" \in Said
  BY DEF Said, Outcomes
<1>3. CASE reply = "ok"
  <2>1. Advance(t) /\ up' = TRUE /\ UNCHANGED open
    BY <1>3 DEF StepInit
  <2>2. open[t] \in BOOLEAN /\ open' = [open EXCEPT ![t] = open[t]]
    BY <1>1, <2>1 DEF SftpTyped
  <2>3. Stepped(t)
    BY <1>1, <2>1, <2>2, Advances
  <2> QED
    BY <1>1, <2>1, <2>3 DEF Session, SftpTyped
<1>4. CASE reply = "pending"
  <2>1. Silent /\ Return(TRUE) /\ UNCHANGED <<phase, outcome, open, landed, up>>
    BY <1>4 DEF StepInit
  <2>2. Stepped(t)
    BY <1>1, <2>1, Waited
  <2> QED
    BY <1>1, <2>1, <2>2 DEF Session, SftpTyped
<1>5. CASE reply = "failed"
  <2>1. up' \in {up, TRUE} /\ Finish(t, "failed")
    BY <1>5 DEF StepInit
  <2>2. Stepped(t)
    BY <1>1, <1>2, <2>1, Finishes
  <2> QED
    BY <1>1, <2>1, <2>2 DEF Session, SftpTyped
<1> QED
  BY <1>3, <1>4, <1>5 DEF Replies

\* A call of the task's program.
LEMMA CallStep ==
    ASSUME SftpInv, NEW t \in Tasks, NEW reply \in Replies, StepCall(t, reply)
    PROVE  Stepped(t) /\ Session
<1>1. /\ SftpTyped /\ Current(t) /\ ~Closing(t) /\ ~Stopped /\ Slot(t) # "Init"
      /\ up' = up /\ t # NoTask
  BY ServiceAssumption DEF SftpInv, StepCall, Working
<1>2. "failed" \in Said /\ "ok" \in Said
  BY DEF Said, Outcomes
<1>3. /\ t \in InHand /\ kind[t] \in AllKinds /\ phase[t] \in DOMAIN Program(kind[t]) /\ Due(t)
  BY <1>1, CurrentIs
<1>4. Slot(t) \in Slots /\ (~HasHandle(t) => Slot(t) \notin {"Open", "FStat", "Close"})
  BY <1>3, Programs DEF Slot, HasHandle
<1>5. HasHandle(t) => Slot(t) \in {"Open", "ReadDir", "FStat", "Read", "Write"}
  <2> SUFFICES ASSUME HasHandle(t)
               PROVE  Slot(t) \in {"Open", "ReadDir", "FStat", "Read", "Write"}
    OBVIOUS
  <2>1. Slot(t) # "Close" /\ Slot(t) # "Init"
    BY <1>1 DEF Closing
  <2>2. CASE kind[t] = "List"
    BY <1>3, <2>1, <2>2 DEF Slot, Program
  <2>3. CASE kind[t] = "Download"
    BY <1>3, <2>1, <2>3 DEF Slot, Program
  <2>4. CASE kind[t] = "Upload"
    BY <1>3, <2>1, <2>4 DEF Slot, Program
  <2> QED
    BY <2>2, <2>3, <2>4 DEF HasHandle, HandleKinds
<1>6. Session
  <2>1. CASE Request(t, Slot(t))
    BY <1>1, <1>4, <2>1 DEF Request, Session, SftpTyped
  <2>2. CASE Receive(t, Slot(t))
    BY <1>1, <1>4, <2>2 DEF Receive, Session, SftpTyped
  <2> QED
    BY <2>1, <2>2 DEF StepCall
<1>7. CASE reply = "pending"
  <2>1. Silent /\ Return(TRUE) /\ UNCHANGED <<phase, outcome, open, landed>>
    BY <1>7 DEF StepCall
  <2> QED
    BY <1>1, <1>6, <2>1, Waited
<1>8. CASE reply = "failed"
  <2>1. CASE Slot(t) = "FStat"
    <3>1. Advance(t) /\ UNCHANGED open
      BY <1>8, <2>1 DEF StepCall
    <3>2. open[t] \in BOOLEAN /\ open' = [open EXCEPT ![t] = open[t]]
      BY <1>1, <3>1 DEF SftpTyped
    <3>3. HasHandle(t) => open[t]
      BY <1>3, <2>1 DEF Due, Opened
    <3> QED
      BY <1>1, <1>6, <2>1, <3>1, <3>2, <3>3, Advances
  <2>2. CASE Slot(t) # "FStat"
    <3>1. Finish(t, "failed")
      BY <1>8, <2>2 DEF StepCall
    <3> QED
      BY <1>1, <1>2, <1>6, <3>1, Finishes
  <2> QED
    BY <2>1, <2>2
<1>9. CASE reply = "ok"
  <2>1. CASE Slot(t) \in {"Open", "FStat"}
    <3>1. Advance(t) /\ open' = [open EXCEPT ![t] = TRUE]
      BY <1>9, <2>1 DEF StepCall
    <3> QED
      BY <1>1, <1>6, <2>1, <3>1, Advances
  <2>2. CASE Slot(t) \notin {"Open", "FStat"}
    <3>1. Finish(t, "ok")
      BY <1>9, <2>2 DEF StepCall
    <3>2. HasHandle(t) => open[t]
      BY <1>3, <1>5, <2>2 DEF Due, Opened
    <3> QED
      BY <1>1, <1>2, <1>6, <3>1, <3>2, Finishes
  <2> QED
    BY <2>1, <2>2
<1> QED
  BY <1>7, <1>8, <1>9 DEF Replies

\* So every step of a task is one of the two.
LEMMA EveryStep ==
    ASSUME SftpInv, NEW t \in Tasks, Step(t) PROVE Stepped(t) /\ Session /\ Current(t)
<1>1. CASE StepClose(t)
  BY <1>1, CloseSteps DEF StepClose
<1>2. CASE StepStopped(t) \/ StepCancelled(t)
  BY <1>2, ChecksStep DEF StepStopped, StepCancelled
<1>3. ASSUME NEW reply \in Replies, StepInit(t, reply) PROVE Stepped(t) /\ Session /\ Current(t)
  BY <1>3, InitStep DEF StepInit, Working
<1>4. ASSUME NEW reply \in Replies, StepCall(t, reply) PROVE Stepped(t) /\ Session /\ Current(t)
  BY <1>4, CallStep DEF StepCall, Working
<1> QED
  BY <1>1, <1>2, <1>3, <1>4 DEF Step

\* What the rest of a step leaves of the invariant: types, and what is due.
LEMMA OthersStay ==
    ASSUME SftpInv, NEW t \in Tasks, Steady(t), Session, kind' = kind, running' = running,
           cancelling' = cancelling, cancelled \ {t} \subseteq cancelled', InHand' \subseteq InHand,
           Due(t)' \/ t \notin InHand',
           \A s \in Tasks \ {t} : answers'[s] = answers[s],
           "ok" \in ToSet(answers'[t]) /\ HasHandle(t) => t \in landed' \/ Stopped
    PROVE  (\A s \in InHand : Due(s))' /\ SuccessMeansClosed'
<1>1. SftpTyped
  BY DEF SftpInv
<1>2. ASSUME NEW s \in InHand', s # t PROVE Due(s)'
  <2>1. s \in Tasks /\ Due(s)
    BY <1>1, <1>2, HandIsTasks DEF SftpInv
  <2>2. Slot(s)' = Slot(s) /\ HasHandle(s)' = HasHandle(s)
    BY <1>2, <2>1 DEF Slot, HasHandle, Steady
  <2> QED
    BY <1>2, <2>1, <2>2 DEF Due, Closing, Opened, Steady
<1>3. ASSUME NEW s \in Tasks, "ok" \in ToSet(answers'[s]), HasHandle(s)'
      PROVE  s \in landed' \/ Stopped'
  <2>1. HasHandle(s) /\ Stopped' = Stopped
    BY <1>3 DEF HasHandle, Stopped
  <2>2. CASE s = t
    BY <1>3, <2>1, <2>2
  <2>3. CASE s # t
    BY <1>3, <2>1, <2>3 DEF SftpInv, SuccessMeansClosed, Steady
  <2> QED
    BY <2>2, <2>3
<1> QED
  BY <1>2, <1>3 DEF SuccessMeansClosed

\* A task that yields is in the worker's hands still.
LEMMA YieldStep ==
    ASSUME SftpInv, NEW t \in Tasks, Current(t), Steady(t), Yields(t), Session
    PROVE  SftpInv' /\ UNCHANGED SftpPort!port
<1>1. SftpTyped /\ Ended /\ Placed /\ RegistryBounded
  BY DEF SftpInv
<1>2. /\ t \in InHand /\ kind[t] \in AllKinds /\ answers[t] = <<>>
  BY CurrentIs
<1>3. stage = "step" /\ t = stepping /\ ~cancelling
  BY <1>1 DEF Yields, Stopped, Ended, Current
<1>4. /\ stage' = "requeue" /\ stepping' = stepping /\ drained' = drained
      /\ UNCHANGED <<kind, queue, held, taken, running, cancelling, answers, live, cancelled>>
  BY <1>3 DEF Yields, Silent, Return
<1>5. InHand' = InHand
  BY <1>4 DEF InHand
<1>6. (\A s \in InHand : Due(s))' /\ SuccessMeansClosed'
  <2>1. "ok" \notin ToSet(answers'[t])
    BY <1>2, <1>4, NothingIn
  <2> QED
    BY <1>4, <1>5, <2>1, OthersStay DEF Yields
<1>7. SftpTyped'
  <2>1. \A s \in Tasks : kind[s] = "none" =>
          s # t /\ phase'[s] = phase[s] /\ outcome'[s] = outcome[s]
    BY <1>2 DEF Steady, AllKinds, HandleKinds, OpSlots
  <2>2. \A s \in Tasks : kind[s] # "none" => phase'[s] \in DOMAIN Program(kind[s])
    BY <1>1 DEF SftpTyped, Steady
  <2> QED
    BY <1>1, <1>3, <1>4, <2>1, <2>2 DEF SftpTyped, Steady, Session
<1>8. Ended' /\ Placed' /\ HeldSlotsHaveHolders' /\ RegistryBounded'
  BY <1>1, <1>3, <1>4, <1>5
     DEF SftpInv, Ended, Placed, HeldSlotsHaveHolders, RegistryBounded
<1>9. Asked' = Asked /\ Lost' = Lost
  BY <1>1, <1>3, <1>4, <1>7, <1>8, LostIs, LostIsToo DEF Asked, TooLate
<1> QED
  BY <1>4, <1>6, <1>7, <1>8, <1>9 DEF SftpInv, SftpPort!port

\* A task that answers is in nobody's hands: the callback is called this once.
LEMMA AnswerStep ==
    ASSUME SftpInv, NEW t \in Tasks, Current(t), Steady(t), NEW c \in Said, Tells(t, c), Session
    PROVE  SftpInv' /\ SftpPort!Tell(t, c)
<1>1. SftpTyped /\ Ended /\ Placed /\ RegistryBounded
  BY DEF SftpInv
<1>2. t \in InHand /\ kind[t] \in AllKinds /\ answers[t] = <<>> /\ t # NoTask
  BY CurrentIs, ServiceAssumption
<1>3. /\ answers' = [answers EXCEPT ![t] = <<c>>]
      /\ live' = live \ {t} /\ cancelled' = cancelled \ {t}
      /\ UNCHANGED <<kind, queue, held, taken, running, cancelling>>
  <2>1. Append(answers[t], c) = <<c>>
    BY <1>2
  <2> QED
    BY <2>1 DEF Tells, Answer, Return
<1>4. /\ t \notin ToSet(queue) /\ InHand' = InHand \ {t}
      /\ drained' \in Seq(Tasks) /\ Distinct(drained')
      /\ ToSet(drained') \subseteq ToSet(drained)
      /\ stage' \in {"service", "drain"} /\ (stage' = "drain" <=> stage = "drain")
      /\ stage \in {"step", "drain"} /\ stepping' = NoTask
      /\ stage' = "service" => drained' = <<>>
  <2>1. CASE stage = "step" /\ t = stepping
    <3>1. stage' = "service" /\ stepping' = NoTask /\ drained' = drained /\ drained = <<>>
      BY <1>1, <2>1 DEF Tells, Answer, Return, Ended
    <3>2. t \notin ToSet(queue) /\ ToSet(drained) = {}
      BY <1>1, <2>1, <3>1, NothingIn DEF Placed
    <3> QED
      BY <1>1, <1>2, <1>3, <2>1, <3>1, <3>2 DEF InHand, SftpTyped, Placed
  <2>2. CASE stage = "drain" /\ drained # <<>> /\ t = Head(drained)
    <3>1. stage' = stage /\ stepping' = stepping /\ drained' = Tail(drained) /\ stepping = NoTask
      BY <1>1, <2>2 DEF Tells, Answer, Return, Ended
    <3>2. /\ Tail(drained) \in Seq(Tasks) /\ Distinct(Tail(drained)) /\ t \in ToSet(drained)
          /\ ToSet(Tail(drained)) = ToSet(drained) \ {t}
      BY <1>1, <2>2, HeadGone DEF SftpTyped, Placed
    <3>3. t \notin ToSet(queue)
      BY <1>1, <3>2 DEF Placed
    <3> QED
      BY <1>2, <1>3, <2>2, <3>1, <3>2, <3>3 DEF InHand
  <2> QED
    BY <2>1, <2>2 DEF Current
<1>5. ToSet(<<c>>) = {c} /\ answers'[t] = <<c>>
  <2>1. DOMAIN <<c>> = {1} /\ <<c>>[1] = c
    OBVIOUS
  <2>2. ToSet(<<c>>) = {c}
    BY <2>1 DEF ToSet
  <2> QED
    BY <1>1, <1>3, <2>2 DEF SftpTyped
<1>6. (\A s \in InHand : Due(s))' /\ SuccessMeansClosed'
  <2>1. "ok" \in ToSet(answers'[t]) /\ HasHandle(t) => t \in landed' \/ Stopped
    BY <1>5 DEF Tells
  <2>2. \A s \in Tasks \ {t} : answers'[s] = answers[s]
    BY <1>1, <1>3 DEF SftpTyped
  <2> QED
    BY <1>3, <1>4, <2>1, <2>2, OthersStay
<1>7. SftpTyped'
  <2>1. \A s \in Tasks : kind[s] = "none" =>
          /\ s # t /\ phase'[s] = phase[s] /\ outcome'[s] = outcome[s]
          /\ answers'[s] = answers[s]
    BY <1>1, <1>2, <1>3 DEF SftpTyped, Steady, AllKinds, HandleKinds, OpSlots
  <2>2. \A s \in Tasks : kind[s] # "none" => phase'[s] \in DOMAIN Program(kind[s])
    BY <1>1 DEF SftpTyped, Steady
  <2>3. answers' \in [Tasks -> Seq(Said)]
    BY <1>1, <1>3 DEF SftpTyped
  <2>4. live' \subseteq Tasks /\ cancelled' \subseteq Tasks
    BY <1>1, <1>3 DEF SftpTyped
  <2> QED
    BY <1>1, <1>3, <1>4, <2>1, <2>2, <2>3, <2>4 DEF SftpTyped, Steady, Session
<1>8. Ended'
  BY <1>1, <1>3, <1>4 DEF Ended
<1>9. Placed'
  <2>1. \A s \in Tasks : s \in InHand' <=> kind'[s] # "none" /\ answers'[s] = <<>>
    BY <1>1, <1>3, <1>4, <1>5 DEF Placed, SftpTyped
  <2>2. NoTask \notin ToSet(queue)
    BY <1>1, ServiceAssumption, HandIsTasks DEF InHand
  <2> QED
    BY <1>1, <1>3, <1>4, <2>1, <2>2 DEF Placed
<1>10. HeldSlotsHaveHolders' /\ RegistryBounded'
  BY <1>1, <1>3, <1>4 DEF SftpInv, HeldSlotsHaveHolders, RegistryBounded
<1>11. Asked' = Asked /\ Lost' = Lost
  BY <1>1, <1>3, <1>4, <1>7, <1>9, LostIs, LostIsToo DEF Asked, TooLate
<1>12. t \in Asked \ Lost
  <2>1. t \notin Lost
    BY <1>1, <1>4, LostIs
  <2>2. t \in Asked
    BY <1>1, <1>2 DEF Asked, Placed
  <2> QED
    BY <2>1, <2>2
<1>13. SftpPort!Tell(t, c)
  BY <1>2, <1>3, <1>11, <1>12 DEF SftpPort!Tell, SftpPort!Waiting, Tells
<1> QED
  BY <1>6, <1>7, <1>8, <1>9, <1>10, <1>13 DEF SftpInv

-----------------------------------------------------------------------------
(* The SFTP service keeps the contract *)

\* It begins so.
LEMMA SftpInitially == Init => SftpInv /\ SftpPort!Init
<1> SUFFICES ASSUME Init PROVE SftpInv /\ SftpPort!Init
  OBVIOUS
<1>1. InHand = {} /\ TooLate = {} /\ Asked = {}
  BY NothingIn DEF Init, InHand, TooLate, Asked
<1>2. SftpTyped
  <2> USE DEF Init
  <2>1. kind \in [Tasks -> AllKinds \union {"none"}] /\ phase \in [Tasks -> 1..5]
    OBVIOUS
  <2>2. \A t \in Tasks : /\ kind[t] = "none" /\ phase[t] = 1
                         /\ outcome[t] = "none" /\ answers[t] = <<>>
    OBVIOUS
  <2>3. open \in [Tasks -> BOOLEAN] /\ outcome \in [Tasks -> Outcomes]
    BY DEF Outcomes
  <2>4. answers \in [Tasks -> Seq(Said)] /\ queue \in Seq(Tasks) /\ drained \in Seq(Tasks)
    BY EmptySeq
  <2>5. /\ held \in [Tasks -> Slots \union {"none"}] /\ taken \subseteq Slots
        /\ wire \in [Slots -> Tasks \union {NoTask}]
    OBVIOUS
  <2> QED
    BY <2>1, <2>2, <2>3, <2>4, <2>5 DEF SftpTyped
<1>3. Ended /\ Placed /\ RegistryBounded /\ HeldSlotsHaveHolders
  BY <1>1, NothingIn, ServiceAssumption
     DEF Init, Ended, Placed, RegistryBounded, HeldSlotsHaveHolders
<1>4. SuccessMeansClosed
  BY NothingIn DEF Init, SuccessMeansClosed
<1>5. SftpInv
  BY <1>1, <1>2, <1>3, <1>4 DEF SftpInv
<1>6. Lost = {}
  BY <1>1, <1>2, <1>3, LostIs
<1> QED
  BY <1>1, <1>5, <1>6 DEF Init, SftpPort!Init

\* Every step of the service keeps the invariant, and is a step of the port or none.
LEMMA SftpNext ==
    ASSUME SftpInv, [Next]_vars
    PROVE  SftpInv' /\ [SftpPort!Next]_(SftpPort!port)
<1>1. ASSUME NEW t \in Tasks, NEW k \in Kinds[t], Enqueue(t, k)
      PROVE  SftpInv' /\ SftpPort!Next
  BY <1>1, EnqueueStep DEF SftpPort!Next
<1>2. ASSUME NEW t \in Tasks, Cancel(t)
      PROVE  SftpInv' /\ [SftpPort!Next]_(SftpPort!port)
  BY <1>2, CancelStep DEF SftpPort!Next
<1>3. CASE Stop
  BY <1>3, StopStep DEF SftpPort!Next
<1>4. ASSUME NEW i \in 1..Len(queue), Take(i)
      PROVE  SftpInv' /\ UNCHANGED SftpPort!port
  BY <1>4, TakeStep
<1>5. CASE PutBack \/ Latch \/ Drain \/ Shutdown
  BY <1>5, PutBackStep, LoopEnds, DrainStep
<1>6. ASSUME NEW t \in Tasks, Step(t)
      PROVE  SftpInv' /\ [SftpPort!Next]_(SftpPort!port)
  <2>1. Stepped(t) /\ Session /\ Current(t)
    BY <1>6, EveryStep
  <2>2. CASE Yields(t)
    BY <2>1, <2>2, YieldStep DEF Stepped
  <2>3. ASSUME NEW c \in Said, Tells(t, c) PROVE SftpInv' /\ SftpPort!Next
    <3>1. SftpInv' /\ SftpPort!Tell(t, c)
      BY <2>1, <2>3, AnswerStep DEF Stepped
    <3> QED
      BY <3>1 DEF SftpPort!Next, SftpPort!Answer
  <2> QED
    BY <2>1, <2>2, <2>3 DEF Stepped
<1>7. CASE UNCHANGED vars
  <2> USE <1>7 DEF vars, task, registry, session
  <2>1. SftpTyped /\ Ended /\ Placed /\ RegistryBounded /\ HeldSlotsHaveHolders
    BY DEF SftpInv
  <2>2. InHand' = InHand /\ cancelled \subseteq live
    BY <2>1 DEF InHand, RegistryBounded
  <2>3. RegistryBounded' /\ (\A s \in InHand : Due(s))' /\ SuccessMeansClosed'
    BY <2>2, TasksRest
  <2>4. SftpTyped'
    BY <2>1 DEF SftpTyped
  <2>5. Ended' /\ Placed' /\ HeldSlotsHaveHolders'
    BY <2>1, <2>2 DEF Ended, Placed, HeldSlotsHaveHolders
  <2>6. Asked' = Asked /\ Lost' = Lost
    BY <2>1, <2>4, <2>5, LostIs, LostIsToo DEF Asked, TooLate
  <2> QED
    BY <2>3, <2>4, <2>5, <2>6 DEF SftpInv, SftpPort!port
<1> QED
  BY <1>1, <1>2, <1>3, <1>4, <1>5, <1>6, <1>7 DEF Next, Callers, Worker

\* The service by itself keeps the port's promises: whatever is asked for is
\* answered once, in whatever order callers, the worker and the end of the session
\* come; "cancelled" and "gone" are answers only where they are true; and only what
\* is pushed after the drain is lost.
THEOREM SftpKeepsContract == Spec => SftpPort!Safety
<1>1. Init => SftpInv /\ SftpPort!Init
  BY SftpInitially
<1>2. SftpInv /\ [Next]_vars => SftpInv' /\ [SftpPort!Next]_(SftpPort!port)
  BY SftpNext
<1> QED
  BY <1>1, <1>2, PTL DEF Spec, SftpPort!Safety

-----------------------------------------------------------------------------
(* The local filesystem and the port it promises *)

LocalAsked == {c \in Copies : copy[c] # NotAsked}
LocalPort == INSTANCE RemoteFileSystem WITH
    Operations <- Copies, Codes <- LocalSaid,
    asked <- LocalAsked, told <- [c \in Copies |-> copy[c].told],
    wanted <- {c \in wanted : copy[c].told = <<>>}, ended <- stopping, lost <- {}

\* A copy keeps the paths it was asked for with.
Kept ==
    \A c \in Copies : copy[c] # NotAsked =>
        copy'[c] # NotAsked /\ copy'[c].from = copy[c].from /\ copy'[c].to = copy[c].to

\* Whatever else the worker does, the disk is as it was.
LEMMA DiskStays ==
    ASSUME LocalInv, at' = at, bytes' = bytes, Kept,
           worker'.stage = "copy" => worker' = worker,
           worker'.stage \in {"finish", "answer"} /\ worker'.said = "ok" =>
             /\ worker.stage \in {"finish", "answer"} /\ worker.said = "ok"
             /\ worker'.job = worker.job
    PROVE  Disk'
<1>1. LocalTyped /\ Queued /\ Disk
  BY DEF LocalInv
<1>2. \A p \in Paths : AtFirst[p] \in Files => at'[p] = AtFirst[p]
  BY <1>1 DEF Disk
<1>3. \A f \in Files : bytes'[f].pieces = 0 => bytes'[f] = Empty
  BY <1>1 DEF Disk
<1>4. ASSUME NEW f \in Files, \E p \in Paths : AtFirst[p] = f, bytes'[f] # [of |-> f, pieces |-> Size]
      PROVE  \E c \in Copies : /\ copy'[c] # NotAsked /\ at'[copy'[c].to] = f
                               /\ at'[copy'[c].from] \in Files \ {f}
  <2>1. PICK c \in Copies : /\ copy[c] # NotAsked /\ at[copy[c].to] = f
                            /\ at[copy[c].from] \in Files \ {f}
    BY <1>1, <1>4 DEF Disk
  <2> QED
    BY <2>1 DEF Kept
<1>5. worker.stage \in {"copy", "finish", "answer"} /\ worker'.job = worker.job => From' = From /\ To' = To
  BY <1>1 DEF Queued, Waits, Kept, From, To
<1>6. worker'.stage = "copy" =>
        /\ From' \in Files /\ To' \in Files /\ From' # To'
        /\ bytes'[To'] = Empty \/ bytes'[To'].of = bytes'[From'].of
        /\ bytes'[To'].pieces <= bytes'[From'].pieces
  <2> SUFFICES ASSUME worker'.stage = "copy"
               PROVE  /\ From' \in Files /\ To' \in Files /\ From' # To'
                      /\ bytes'[To'] = Empty \/ bytes'[To'].of = bytes'[From'].of
                      /\ bytes'[To'].pieces <= bytes'[From'].pieces
    OBVIOUS
  <2>1. From' = From /\ To' = To /\ worker.stage = "copy"
    BY <1>5
  <2> QED
    BY <1>1, <2>1 DEF Disk
<1>7. worker'.stage \in {"finish", "answer"} /\ worker'.said = "ok" => bytes'[To'] = bytes'[From']
  BY <1>1, <1>5 DEF Disk
<1> QED
  BY <1>2, <1>3, <1>4, <1>6, <1>7 DEF Disk

\* Download and Upload: a new copy joins the queue.
LEMMA StartCopyStep ==
    ASSUME LocalInv, NEW c \in Copies, NEW p \in Paths, NEW q \in Paths, StartCopy(c, p, q)
    PROVE  LocalInv' /\ LocalPort!Ask(c)
<1>1. LocalTyped /\ Queued /\ Disk
  BY DEF LocalInv
<1>2. /\ copy' = [copy EXCEPT ![c] = [from |-> p, to |-> q, told |-> <<>>]]
      /\ copy[c] = NotAsked /\ copy[c].told = <<>>
  BY DEF StartCopy, NotAsked
<1>3. copy'[c] = [from |-> p, to |-> q, told |-> <<>>] /\ copy'[c] # NotAsked
  <2>1. copy'[c] = [from |-> p, to |-> q, told |-> <<>>]
    BY <1>1, <1>2 DEF LocalTyped
  <2>2. copy'[c].from # None
    BY <2>1, LocalAssumption
  <2> QED
    BY <2>1, <2>2 DEF NotAsked
<1>4. \A d \in Copies \ {c} : copy'[d] = copy[d]
  BY <1>1, <1>2 DEF LocalTyped
<1>5. c \notin flags /\ c \notin ToSet(jobs)
  BY <1>1, <1>2 DEF Queued, Waits
<1>6. /\ jobs' \in Seq(Copies) /\ Distinct(jobs') /\ ToSet(jobs') = ToSet(jobs) \union {c}
      /\ flags' = flags \union {c}
  BY <1>1, <1>5, Appended DEF LocalTyped, Queued, StartCopy
<1>7. LocalTyped'
  <2>1. [from |-> p, to |-> q, told |-> <<>>] \in
          [from : Paths \union {None}, to : Paths \union {None}, told : Seq(LocalSaid)]
    BY EmptySeq
  <2>2. copy' \in [Copies -> [from : Paths \union {None}, to : Paths \union {None},
                              told : Seq(LocalSaid)]]
    BY <1>1, <1>2, <2>1 DEF LocalTyped
  <2> QED
    BY <1>1, <1>6, <2>2 DEF LocalTyped, StartCopy
<1>8. Queued'
  <2>1. \A d \in Copies : copy'[d] # NotAsked => copy'[d].from \in Paths /\ copy'[d].to \in Paths
    BY <1>1, <1>3, <1>4 DEF Queued
  <2>2. \A d \in flags' : copy'[d] # NotAsked /\ copy'[d].told = <<>>
    <3> TAKE d \in flags'
    <3>1. CASE d = c
      BY <1>3, <3>1
    <3>2. CASE d # c
      BY <1>1, <1>4, <1>6, <3>2 DEF Queued, Waits, LocalTyped
    <3> QED
      BY <3>1, <3>2
  <2>3. worker.stage \in {"open", "copy", "finish", "answer"} =>
          worker.job # c /\ copy'[worker.job] = copy[worker.job]
    BY <1>1, <1>2, <1>4 DEF Queued, Waits
  <2> QED
    BY <1>1, <1>6, <2>1, <2>2, <2>3 DEF Queued, Waits, StartCopy, Flagged
<1>9. Disk'
  <2>1. Kept
    BY <1>2, <1>4 DEF Kept
  <2> QED
    BY <2>1, DiskStays DEF StartCopy
<1>10. LocalPort!Ask(c)
  <2>1. c \notin LocalAsked /\ LocalAsked' = LocalAsked \union {c}
    BY <1>2, <1>3, <1>4 DEF LocalAsked
  <2>2. \A d \in Copies : copy'[d].told = copy[d].told
    <3> TAKE d \in Copies
    <3>1. CASE d = c
      BY <1>2, <1>3, <3>1
    <3>2. CASE d # c
      BY <1>4, <3>2
    <3> QED
      BY <3>1, <3>2
  <2>3. [d \in Copies |-> copy'[d].told] = [d \in Copies |-> copy[d].told]
    BY <2>2
  <2>4. {d \in wanted' : copy'[d].told = <<>>} = {d \in wanted : copy[d].told = <<>>}
    BY <1>1, <2>2 DEF LocalTyped, StartCopy
  <2>5. stopping' = stopping
    BY DEF StartCopy
  <2> QED
    BY <2>1, <2>3, <2>4, <2>5 DEF LocalPort!Ask
<1> QED
  BY <1>7, <1>8, <1>9, <1>10 DEF LocalInv

\* Cancel, while the flag is there.
LEMMA CancelCopyStep ==
    ASSUME LocalInv, NEW c \in Copies, CancelCopy(c)
    PROVE  LocalInv' /\ LocalPort!Cancel(c)
<1>1. LocalTyped /\ Queued /\ Disk
  BY DEF LocalInv
<1>2. Disk'
  BY DiskStays DEF CancelCopy, Kept
<1>3. LocalTyped' /\ Queued'
  BY <1>1 DEF LocalTyped, Queued, Waits, Flagged, CancelCopy
<1>4. LocalPort!Cancel(c)
  <2>1. c \in LocalAsked /\ copy[c].told = <<>>
    BY <1>1 DEF LocalAsked, Queued, Waits, CancelCopy
  <2> QED
    BY <2>1 DEF LocalPort!Cancel, CancelCopy, LocalAsked
<1> QED
  BY <1>2, <1>3, <1>4 DEF LocalInv

\* The destructor.
LEMMA DestroyStep == ASSUME LocalInv, Destroy PROVE LocalInv' /\ LocalPort!End
<1>1. LocalTyped /\ Queued /\ Disk
  BY DEF LocalInv
<1>2. Disk'
  BY DiskStays DEF Destroy, Kept
<1>3. LocalTyped' /\ Queued'
  BY <1>1 DEF LocalTyped, Queued, Waits, Flagged, Destroy
<1>4. LocalPort!End
  BY DEF LocalPort!End, Destroy, LocalAsked
<1> QED
  BY <1>2, <1>3, <1>4 DEF LocalInv

\* The worker takes the next copy, or is over.
LEMMA LoopStep == ASSUME LocalInv, WorkerLoop PROVE LocalInv' /\ UNCHANGED LocalPort!port
<1>1. LocalTyped /\ Queued /\ Disk
  BY DEF LocalInv
<1>2. UNCHANGED LocalPort!port
  BY DEF LocalPort!port, WorkerLoop, LocalAsked
<1>3. CASE jobs = <<>>
  <2>1. worker' = [worker EXCEPT !.stage = "over"] /\ jobs' = jobs /\ worker'.stage = "over"
    BY <1>1, <1>3 DEF WorkerLoop, LocalTyped
  <2>2. Disk'
    BY <2>1, DiskStays DEF WorkerLoop, Kept
  <2>3. LocalTyped' /\ Queued'
    BY <1>1, <2>1 DEF LocalTyped, Queued, Waits, Flagged, WorkerLoop
  <2> QED
    BY <1>2, <2>2, <2>3 DEF LocalInv
<1>4. CASE jobs # <<>>
  <2> DEFINE c == Head(jobs)
  <2>1. /\ jobs' = Tail(jobs) /\ worker' \in [stage : {"finish", "open"}, job : {c}, said : {"cancelled", None}]
        /\ worker'.job = c
        /\ worker'.stage = "finish" => worker'.said = "cancelled" /\ stopping
    BY <1>4 DEF WorkerLoop
  <2>2. /\ jobs' \in Seq(Copies) /\ Distinct(jobs') /\ c \in Copies /\ c \in ToSet(jobs)
        /\ ToSet(jobs') = ToSet(jobs) \ {c}
    BY <1>1, <1>4, <2>1, HeadGone DEF LocalTyped, Queued
  <2> HIDE DEF c
  <2>3. worker'.stage \in {"finish", "open"}
    BY <2>1
  <2>4. Disk'
    BY <2>1, <2>3, DiskStays DEF WorkerLoop, Kept
  <2>5. LocalTyped'
    BY <1>1, <2>1, <2>2 DEF LocalTyped, WorkerLoop, LocalSaid
  <2>6. Queued'
    BY <1>1, <2>1, <2>2, <2>3 DEF Queued, Waits, Flagged, WorkerLoop, LocalSaid
  <2> QED
    BY <1>2, <2>4, <2>5, <2>6 DEF LocalInv
<1> QED
  BY <1>3, <1>4

\* A copy that is given up, or done: what will be said is true.
LEMMA SaysStep ==
    ASSUME LocalInv, NEW said \in LocalSaid, Says(said), worker.stage \in {"open", "copy"},
           said = "cancelled" => Flagged(worker.job),
           UNCHANGED <<at, bytes, copy, jobs, flags, wanted, stopping>>
    PROVE  LocalTyped' /\ Queued' /\ (said # "ok" => Disk') /\ UNCHANGED LocalPort!port
<1>1. LocalTyped /\ Queued /\ Disk
  BY DEF LocalInv
<1>2. /\ worker' = [worker EXCEPT !.stage = "finish", !.said = said]
      /\ worker'.stage = "finish" /\ worker'.said = said /\ worker'.job = worker.job
  BY <1>1 DEF Says, LocalTyped
<1>3. said # "ok" => Disk'
  BY <1>2, DiskStays DEF Kept
<1>4. LocalTyped'
  BY <1>1, <1>2 DEF LocalTyped
<1>5. Queued'
  BY <1>1, <1>2 DEF Queued, Waits, Flagged
<1> QED
  BY <1>3, <1>4, <1>5 DEF LocalPort!port, LocalAsked

\* The open that truncates: what the destination held is given up for another
\* file's sake, and the source is not touched.
LEMMA Truncates ==
    ASSUME LocalInv, worker.stage = "open",
           NEW p \in Paths, p = copy[worker.job].from,
           NEW q \in Paths, q = copy[worker.job].to,
           NEW into \in Files, at[p] \in Files, at[p] # at[q],
           (at[q] \in Files /\ into = at[q]) \/ (at[q] \notin Files /\ IsFresh(into)),
           at' = [at EXCEPT ![q] = into], bytes' = [bytes EXCEPT ![into] = Empty],
           worker' = [worker EXCEPT !.stage = "copy"],
           UNCHANGED <<copy, jobs, flags, wanted, stopping>>
    PROVE  LocalInv' /\ UNCHANGED LocalPort!port
<1>1. LocalTyped /\ Queued /\ Disk
  BY DEF LocalInv
<1>2. worker.job \in Copies /\ copy[worker.job] # NotAsked
  BY <1>1 DEF Queued, Waits
<1>3. /\ at'[q] = into /\ \A r \in Paths : r # q => at'[r] = at[r]
      /\ at' \in [Paths -> Files \union {None, Dir}]
  BY <1>1 DEF LocalTyped
<1>4. \A r \in Paths : at[r] \in Files => at'[r] = at[r]
  BY <1>3
<1>5. /\ bytes'[into] = Empty /\ Empty.pieces = 0
      /\ \A f \in Files \ {into} : bytes'[f] = bytes[f]
      /\ bytes' \in [Files -> [of : Files \union {None}, pieces : 0..Size]]
  <2>1. Empty \in [of : Files \union {None}, pieces : 0..Size] /\ Empty.pieces = 0
    BY LocalAssumption DEF Empty
  <2> QED
    BY <1>1, <2>1 DEF LocalTyped
<1>6. worker'.stage = "copy" /\ worker'.job = worker.job
  BY <1>1 DEF LocalTyped
<1>7. at'[p] = at[p] /\ at[p] # into
  BY <1>4 DEF IsFresh
<1>8. LocalTyped'
  BY <1>1, <1>3, <1>5, <1>6 DEF LocalTyped
<1>9. Queued'
  BY <1>1, <1>6 DEF Queued, Waits, Flagged
<1>10. \A r \in Paths : AtFirst[r] \in Files => at'[r] = AtFirst[r]
  BY <1>1, <1>4 DEF Disk
<1>11. \A f \in Files : bytes'[f].pieces = 0 => bytes'[f] = Empty
  BY <1>1, <1>5 DEF Disk
<1>12. ASSUME NEW f \in Files, \E r \in Paths : AtFirst[r] = f,
              bytes'[f] # [of |-> f, pieces |-> Size]
       PROVE  \E d \in Copies : /\ copy[d] # NotAsked /\ at'[copy[d].to] = f
                                /\ at'[copy[d].from] \in Files \ {f}
  <2>1. CASE f = into
    BY <1>2, <1>3, <1>7, <2>1
  <2>2. CASE f # into
    <3>1. PICK d \in Copies : /\ copy[d] # NotAsked /\ at[copy[d].to] = f
                              /\ at[copy[d].from] \in Files \ {f}
      BY <1>1, <1>5, <1>12, <2>2 DEF Disk
    <3>2. copy[d].to \in Paths /\ copy[d].from \in Paths
      BY <1>1, <3>1 DEF Queued
    <3> QED
      BY <1>4, <3>1, <3>2
  <2> QED
    BY <2>1, <2>2
<1>13. From' = at[p] /\ To' = into
  BY <1>3, <1>6, <1>7 DEF From, To
<1>14. bytes'[at[p]].pieces \in Nat
  BY <1>5, LocalAssumption
<1>15. /\ From' \in Files /\ To' \in Files /\ From' # To'
       /\ bytes'[To'] = Empty /\ bytes'[To'].pieces <= bytes'[From'].pieces
  BY <1>5, <1>7, <1>13, <1>14
<1>16. Disk'
  BY <1>6, <1>10, <1>11, <1>12, <1>15 DEF Disk
<1> QED
  BY <1>8, <1>9, <1>16 DEF LocalInv, LocalPort!port, LocalAsked

\* Open: the look at both ends comes before it.
LEMMA OpenStep == ASSUME LocalInv, Open PROVE LocalInv' /\ UNCHANGED LocalPort!port
<1>1. LocalTyped /\ Queued /\ Disk
  BY DEF LocalInv
<1>2. worker.stage = "open" /\ UNCHANGED <<copy, jobs, flags, wanted, stopping>>
  BY DEF Open
<1>3. PICK c \in Copies, p \in Paths, q \in Paths :
        c = worker.job /\ p = copy[c].from /\ q = copy[c].to
  BY <1>1, <1>2 DEF Queued, Waits
<1>4. CASE \E said \in {"cancelled", "failed"} :
             /\ said = "cancelled" => Flagged(c)
             /\ Says(said) /\ UNCHANGED <<at, bytes>>
  <2>1. PICK said \in {"cancelled", "failed"} :
          (said = "cancelled" => Flagged(c)) /\ Says(said) /\ UNCHANGED <<at, bytes>>
    BY <1>4
  <2>2. said \in LocalSaid /\ said # "ok"
    BY DEF LocalSaid
  <2> QED
    BY <1>2, <1>3, <2>1, <2>2, SaysStep DEF LocalInv
<1>5. CASE /\ at[p] \in Files /\ at[q] # Dir /\ ~Same(p, q)
           /\ at[q] = None => \E f \in Files : IsFresh(f)
           /\ at' = [at EXCEPT ![q] = IF at[q] = None THEN Fresh ELSE at[q]]
           /\ bytes' = [bytes EXCEPT ![IF at[q] = None THEN Fresh ELSE at[q]] = Empty]
           /\ worker' = [worker EXCEPT !.stage = "copy"]
  <2>1. None \notin Files /\ at[q] \in Files \union {None} /\ at[p] # at[q]
    BY <1>1, <1>5, LocalAssumption DEF LocalTyped, Same
  <2>2. CASE at[q] = None
    <3>1. PICK into \in Files : into = Fresh /\ IsFresh(into)
      BY <1>5, <2>2 DEF Fresh
    <3> QED
      BY <1>2, <1>3, <1>5, <2>1, <2>2, <3>1, Truncates
  <2>3. CASE at[q] # None
    <3>1. PICK into \in Files : into = at[q]
      BY <2>1, <2>3
    <3> QED
      BY <1>2, <1>3, <1>5, <2>1, <2>3, <3>1, Truncates
  <2> QED
    BY <2>2, <2>3
<1> QED
  BY <1>3, <1>4, <1>5 DEF Open

\* A piece: the destination holds a little more of the source, or all of it.
LEMMA PieceStep == ASSUME LocalInv, CopyPiece PROVE LocalInv' /\ UNCHANGED LocalPort!port
<1> DEFINE c == worker.job
<1>1. LocalTyped /\ Queued /\ Disk
  BY DEF LocalInv
<1>2. worker.stage = "copy" /\ UNCHANGED <<at, copy, jobs, flags, wanted, stopping>>
  BY DEF CopyPiece
<1>3. /\ c \in Copies /\ copy[c] # NotAsked
      /\ From \in Files /\ To \in Files /\ From # To
      /\ bytes[To] = Empty \/ bytes[To].of = bytes[From].of
      /\ bytes[To].pieces <= bytes[From].pieces
  BY <1>1, <1>2 DEF Queued, Waits, Disk
<1>4. /\ bytes \in [Files -> [of : Files \union {None}, pieces : 0..Size]]
      /\ Size \in Nat /\ bytes[From].pieces \in 0..Size /\ bytes[To].pieces \in 0..Size
      /\ bytes[From].of \in Files \union {None}
  BY <1>1, <1>3, LocalAssumption DEF LocalTyped
<1>5. CASE \E said \in {"cancelled", "failed"} :
             (said = "cancelled" => Flagged(c)) /\ Says(said) /\ UNCHANGED bytes
  <2>1. PICK said \in {"cancelled", "failed"} :
          (said = "cancelled" => Flagged(c)) /\ Says(said) /\ UNCHANGED bytes
    BY <1>5
  <2>2. said \in LocalSaid /\ said # "ok"
    BY DEF LocalSaid
  <2> QED
    BY <1>2, <2>1, <2>2, SaysStep DEF LocalInv
<1>6. CASE /\ bytes[To].pieces < bytes[From].pieces /\ UNCHANGED worker
           /\ bytes' = [bytes EXCEPT ![To] =
                          [of |-> bytes[From].of, pieces |-> @.pieces + 1]]
  <2> DEFINE b == [of |-> bytes[From].of, pieces |-> bytes[To].pieces + 1]
  <2>1. b \in [of : Files \union {None}, pieces : 0..Size] /\ b.pieces # 0
        /\ b.of = bytes[From].of /\ b.pieces <= bytes[From].pieces
    BY <1>4, <1>6
  <2>2. bytes' = [bytes EXCEPT ![To] = b]
    BY <1>6
  <2> HIDE DEF b
  <2>3. /\ bytes'[To] = b /\ \A f \in Files \ {To} : bytes'[f] = bytes[f]
        /\ bytes' \in [Files -> [of : Files \union {None}, pieces : 0..Size]]
    BY <1>3, <1>4, <2>1, <2>2
  <2>4. From' = From /\ To' = To
    BY <1>2, <1>6 DEF From, To
  <2>5. LocalTyped' /\ Queued'
    BY <1>1, <1>2, <1>6, <2>3 DEF LocalTyped, Queued, Waits, Flagged
  <2>6. \A f \in Files : bytes'[f].pieces = 0 => bytes'[f] = Empty
    BY <1>1, <2>1, <2>3 DEF Disk
  <2>7. ASSUME NEW f \in Files, \E r \in Paths : AtFirst[r] = f,
               bytes'[f] # [of |-> f, pieces |-> Size]
        PROVE  \E d \in Copies : /\ copy[d] # NotAsked /\ at[copy[d].to] = f
                                 /\ at[copy[d].from] \in Files \ {f}
    <3>1. CASE f = To
      BY <1>3, <3>1 DEF From, To
    <3>2. CASE f # To
      BY <1>1, <2>3, <2>7, <3>2 DEF Disk
    <3> QED
      BY <3>1, <3>2
  <2>8. Disk'
    BY <1>1, <1>2, <1>3, <1>6, <2>1, <2>3, <2>4, <2>6, <2>7 DEF Disk
  <2>9. UNCHANGED LocalPort!port
    BY <1>2 DEF LocalPort!port, LocalAsked
  <2> QED
    BY <2>5, <2>8, <2>9 DEF LocalInv
<1>7. CASE bytes[To].pieces >= bytes[From].pieces /\ Says("ok") /\ UNCHANGED bytes
  <2>1. bytes[To] = bytes[From]
    <3>1. bytes[To].pieces = bytes[From].pieces
      BY <1>3, <1>4, <1>7
    <3>2. CASE bytes[To] = Empty
      <4>1. bytes[From].pieces = 0
        BY <3>1, <3>2 DEF Empty
      <4> QED
        BY <1>1, <1>3, <3>2, <4>1 DEF Disk
    <3>3. CASE bytes[To].of = bytes[From].of
      BY <1>3, <1>4, <3>1, <3>3
    <3> QED
      BY <1>3, <3>2, <3>3
  <2>2. "ok" \in LocalSaid
    BY DEF LocalSaid
  <2>3. LocalTyped' /\ Queued' /\ UNCHANGED LocalPort!port
    BY <1>2, <1>7, <2>2, SaysStep
  <2>4. worker'.stage = "finish" /\ worker'.job = worker.job
    BY <1>1, <1>7 DEF Says, LocalTyped
  <2>5. From' = From /\ To' = To
    BY <1>2, <2>4 DEF From, To
  <2>6. Disk'
    BY <1>1, <1>2, <1>7, <2>1, <2>4, <2>5 DEF Disk
  <2> QED
    BY <2>3, <2>6 DEF LocalInv
<1> QED
  BY <1>5, <1>6, <1>7 DEF CopyPiece, From, To

\* The flag goes.
LEMMA ForgetStep == ASSUME LocalInv, Forget PROVE LocalInv' /\ UNCHANGED LocalPort!port
<1>1. LocalTyped /\ Queued /\ Disk
  BY DEF LocalInv
<1>2. /\ worker.stage = "finish" /\ worker' = [worker EXCEPT !.stage = "answer"]
      /\ worker'.stage = "answer" /\ worker'.job = worker.job /\ worker'.said = worker.said
      /\ flags' = flags \ {worker.job} /\ UNCHANGED <<at, bytes, copy, jobs, wanted, stopping>>
  BY <1>1 DEF Forget, LocalTyped
<1>3. Disk'
  BY <1>2, DiskStays DEF Kept
<1>4. LocalTyped'
  BY <1>1, <1>2 DEF LocalTyped
<1>5. Queued'
  BY <1>1, <1>2 DEF Queued, Waits, Flagged
<1> QED
  BY <1>2, <1>3, <1>4, <1>5 DEF LocalInv, LocalPort!port, LocalAsked

\* The answer: once, true, and for a success with all of the source there.
LEMMA AnswerCopyStep ==
    ASSUME LocalInv, AnswerCopy
    PROVE  /\ LocalInv'
           /\ \E c \in Copies, said \in LocalSaid : LocalPort!Tell(c, said)
           /\ \A c \in Copies : copy'[c].told = <<"ok">> /\ copy[c].told = <<>> =>
                bytes[at[copy[c].to]] = bytes[at[copy[c].from]]
<1>1. LocalTyped /\ Queued /\ Disk
  BY DEF LocalInv
<1> PICK c \in Copies, said \in LocalSaid : c = worker.job /\ said = worker.said
  BY <1>1 DEF Queued, AnswerCopy
<1>2. /\ worker.stage = "answer" /\ worker' = Idle
      /\ copy' = [copy EXCEPT ![c].told = Append(@, said)]
      /\ UNCHANGED <<at, bytes, jobs, flags, wanted, stopping>>
  BY DEF AnswerCopy
<1>3. /\ c \in Copies \ ToSet(jobs) /\ copy[c] # NotAsked /\ copy[c].told = <<>>
      /\ c \notin flags /\ said \in LocalSaid /\ (said = "cancelled" => Flagged(c))
  BY <1>1, <1>2 DEF Queued, Waits
<1>4. copy' = [copy EXCEPT ![c] = [copy[c] EXCEPT !.told = <<said>>]]
  <2>1. Append(copy[c].told, said) = <<said>>
    BY <1>3
  <2> QED
    BY <1>2, <2>1
<1>5. /\ copy'[c].told = <<said>> /\ copy'[c].from = copy[c].from /\ copy'[c].to = copy[c].to
      /\ copy'[c] # NotAsked
      /\ \A d \in Copies \ {c} : copy'[d] = copy[d]
      /\ <<said>> \in Seq(LocalSaid)
      /\ copy' \in [Copies -> [from : Paths \union {None}, to : Paths \union {None},
                               told : Seq(LocalSaid)]]
  <2>1. copy[c] \in [from : Paths \union {None}, to : Paths \union {None}, told : Seq(LocalSaid)]
    BY <1>1, <1>3 DEF LocalTyped
  <2>2. <<said>> \in Seq(LocalSaid) /\ <<said>> # <<>>
    BY <1>3
  <2> DEFINE r == [copy[c] EXCEPT !.told = <<said>>]
  <2>3. /\ r \in [from : Paths \union {None}, to : Paths \union {None}, told : Seq(LocalSaid)]
        /\ r.told = <<said>> /\ r.from = copy[c].from /\ r.to = copy[c].to
    BY <2>1, <2>2
  <2>4. copy' = [copy EXCEPT ![c] = r] /\ NotAsked.told = <<>>
    BY <1>4 DEF NotAsked
  <2> HIDE DEF r
  <2> QED
    BY <1>1, <1>3, <2>2, <2>3, <2>4 DEF LocalTyped
<1>6. LocalTyped'
  BY <1>1, <1>2, <1>5 DEF LocalTyped, Idle
<1>7. Queued'
  <2>1. worker'.stage = "idle"
    BY <1>2 DEF Idle
  <2>2. \A d \in flags : d # c /\ d \in Copies
    BY <1>1, <1>3 DEF LocalTyped
  <2>3. \A d \in Copies : copy'[d] # NotAsked => copy'[d].from \in Paths /\ copy'[d].to \in Paths
    BY <1>1, <1>3, <1>5 DEF Queued
  <2> QED
    BY <1>1, <1>2, <1>5, <2>1, <2>2, <2>3 DEF Queued, Waits
<1>8. Disk'
  <2>1. Kept
    BY <1>5 DEF Kept
  <2>2. worker'.stage = "idle"
    BY <1>2 DEF Idle
  <2> QED
    BY <1>2, <2>1, <2>2, DiskStays
<1>9. LocalPort!Tell(c, said)
  <2>1. c \in LocalAsked \ {} /\ LocalAsked' = LocalAsked
    BY <1>3, <1>5 DEF LocalAsked
  <2>2. [d \in Copies |-> copy[d].told][c] = <<>>
    BY <1>3
  <2>3. [d \in Copies |-> copy'[d].told] = [[d \in Copies |-> copy[d].told] EXCEPT ![c] = <<said>>]
    BY <1>3, <1>5
  <2>4. {d \in wanted' : copy'[d].told = <<>>} = {d \in wanted : copy[d].told = <<>>} \ {c}
    BY <1>1, <1>2, <1>3, <1>5 DEF LocalTyped
  <2>5. said = "cancelled" => c \in {d \in wanted : copy[d].told = <<>>} \/ stopping
    BY <1>3 DEF Flagged
  <2>6. said # "gone"
    BY <1>3 DEF LocalSaid
  <2> QED
    BY <1>2, <2>1, <2>2, <2>3, <2>4, <2>5, <2>6 DEF LocalPort!Tell, LocalPort!Waiting
<1>10. ASSUME NEW d \in Copies, copy'[d].told = <<"ok">>, copy[d].told = <<>>
       PROVE  bytes[at[copy[d].to]] = bytes[at[copy[d].from]]
  <2>1. copy'[d] # copy[d]
    <3>1. <<"ok">> # <<>>
      OBVIOUS
    <3> QED
      BY <1>10, <3>1
  <2>2. d = c
    BY <1>5, <2>1
  <2>3. <<said>> = <<"ok">>
    BY <1>5, <1>10, <2>2
  <2>4. said = "ok"
    BY <2>3
  <2> QED
    BY <1>1, <1>2, <2>2, <2>4 DEF Disk, From, To
<1> QED
  BY <1>3, <1>6, <1>7, <1>8, <1>9, <1>10 DEF LocalInv

-----------------------------------------------------------------------------
(* The local filesystem keeps the contract *)

\* It begins so.
LEMMA LocalInitially == InitLocal => LocalInv /\ LocalPort!Init
<1> SUFFICES ASSUME InitLocal PROVE LocalInv /\ LocalPort!Init
  OBVIOUS
<1> USE DEF InitLocal
<1>1. /\ Empty \in [of : Files \union {None}, pieces : 0..Size]
      /\ \A f \in Files : [of |-> f, pieces |-> Size] \in [of : Files \union {None}, pieces : 0..Size]
      /\ Size # 0
  BY LocalAssumption DEF Empty
<1>2. \A f \in Files : bytes[f] = IF \E p \in Paths : AtFirst[p] = f
                                  THEN [of |-> f, pieces |-> Size] ELSE Empty
  OBVIOUS
<1>3. bytes \in [Files -> [of : Files \union {None}, pieces : 0..Size]]
  BY <1>1
<1>4. NotAsked \in [from : Paths \union {None}, to : Paths \union {None}, told : Seq(LocalSaid)]
  BY EmptySeq DEF NotAsked
<1>5. worker.stage = "idle"
  BY DEF Idle
<1>6. LocalTyped
  <2>1. copy \in [Copies -> [from : Paths \union {None}, to : Paths \union {None},
                             told : Seq(LocalSaid)]]
    BY <1>4
  <2>2. jobs \in Seq(Copies)
    BY EmptySeq
  <2>3. at \in [Paths -> Files \union {None, Dir}]
    BY LocalAssumption
  <2>4. worker \in [stage : {"idle", "open", "copy", "finish", "answer", "over"},
                    job : Copies \union {None}, said : LocalSaid \union {None}]
    BY DEF Idle
  <2> QED
    BY <1>3, <2>1, <2>2, <2>3, <2>4 DEF LocalTyped
<1>7. Queued
  BY <1>5, NothingIn DEF Queued
<1>8. Disk
  <2>1. \A f \in Files : bytes[f].pieces = 0 => bytes[f] = Empty
    <3> TAKE f \in Files
    <3>1. CASE \E p \in Paths : AtFirst[p] = f
      BY <1>1, <1>2, <3>1
    <3>2. CASE ~\E p \in Paths : AtFirst[p] = f
      BY <1>2, <3>2
    <3> QED
      BY <3>1, <3>2
  <2>2. \A f \in Files : (\E p \in Paths : AtFirst[p] = f) => bytes[f] = [of |-> f, pieces |-> Size]
    BY <1>2
  <2>3. \A p \in Paths : at[p] = AtFirst[p]
    OBVIOUS
  <2> QED
    BY <1>5, <2>1, <2>2, <2>3 DEF Disk
<1>9. LocalPort!Init
  <2>1. \A c \in Copies : copy[c] = NotAsked /\ copy[c].told = <<>>
    BY DEF NotAsked
  <2> QED
    BY <2>1 DEF LocalPort!Init, LocalAsked
<1> QED
  BY <1>6, <1>7, <1>8, <1>9 DEF LocalInv

\* A success tells of a destination that holds what the source does.
ToldTruly ==
    \A c \in Copies :
        copy'[c].told = <<"ok">> /\ copy[c].told = <<>> =>
            bytes[at[copy[c].to]] = bytes[at[copy[c].from]]

\* Every step of the adapter keeps the invariant, is a step of the port or none,
\* and tells the truth.
LEMMA LocalStep ==
    ASSUME LocalInv, [LocalNext]_localVars
    PROVE  LocalInv' /\ [LocalPort!Next]_(LocalPort!port) /\ ToldTruly
<1>0. ASSUME copy' = copy PROVE ToldTruly
  <2>1. ASSUME NEW c \in Copies, copy'[c].told = <<"ok">>, copy[c].told = <<>> PROVE FALSE
    <3>1. <<"ok">> = <<>>
      BY <1>0, <2>1
    <3> QED
      BY <3>1
  <2> QED
    BY <2>1 DEF ToldTruly
<1>1. ASSUME NEW c \in Copies, CancelCopy(c)
      PROVE  LocalInv' /\ LocalPort!Next /\ ToldTruly
  BY <1>0, <1>1, CancelCopyStep DEF LocalPort!Next, CancelCopy
<1>2. ASSUME NEW c \in Copies, NEW p \in Paths, NEW q \in Paths, StartCopy(c, p, q)
      PROVE  LocalInv' /\ LocalPort!Next /\ ToldTruly
  <2>1. LocalInv' /\ LocalPort!Ask(c)
    BY <1>2, StartCopyStep
  <2>2. ASSUME NEW d \in Copies, copy[d].told = <<>> PROVE copy'[d].told # <<"ok">>
    <3>1. copy \in [Copies -> [from : Paths \union {None}, to : Paths \union {None},
                               told : Seq(LocalSaid)]]
      BY DEF LocalInv, LocalTyped
    <3>2. copy'[d].told = <<>>
      BY <1>2, <2>2, <3>1 DEF StartCopy
    <3> QED
      BY <3>2
  <2> QED
    BY <2>1, <2>2 DEF LocalPort!Next, ToldTruly
<1>3. CASE Destroy
  BY <1>0, <1>3, DestroyStep DEF LocalPort!Next, Destroy
<1>4. CASE WorkerLoop \/ Open \/ CopyPiece \/ Forget
  <2>1. LocalInv' /\ UNCHANGED LocalPort!port
    BY <1>4, LoopStep, OpenStep, PieceStep, ForgetStep
  <2>2. copy' = copy
    BY <1>4 DEF WorkerLoop, Open, CopyPiece, Forget
  <2> QED
    BY <1>0, <2>1, <2>2
<1>5. CASE AnswerCopy
  <2>1. LocalInv' /\ ToldTruly
    BY <1>5, AnswerCopyStep DEF ToldTruly
  <2>2. PICK c \in Copies, said \in LocalSaid : LocalPort!Tell(c, said)
    BY <1>5, AnswerCopyStep
  <2>3. LocalPort!Answer(c)
    BY <2>2 DEF LocalPort!Answer
  <2> QED
    BY <2>1, <2>3 DEF LocalPort!Next
<1>6. CASE UNCHANGED localVars
  <2> USE <1>6 DEF localVars
  <2>1. LocalTyped' /\ Queued'
    BY DEF LocalInv, LocalTyped, Queued, Waits, Flagged
  <2>2. Disk'
    BY DiskStays DEF Kept
  <2> QED
    BY <1>0, <2>1, <2>2 DEF LocalInv, LocalPort!port, LocalAsked
<1> QED
  BY <1>1, <1>2, <1>3, <1>4, <1>5, <1>6 DEF LocalNext, CopyWorker

-----------------------------------------------------------------------------
(* Either of them *)

\* What a caller sees of the service, when it is the one called.
LEMMA SftpIsPort ==
    ASSUME which = "sftp", which' = which, UNCHANGED localVars, SftpTyped,
           [SftpPort!Next]_(SftpPort!port)
    PROVE  [Port!Next]_(Port!port)
<1> USE DEF localVars
<1>1. AskedOf = Asked /\ AskedOf' = Asked'
  BY DEF AskedOf
<1>2. /\ Told = [c \in Copies \union Tasks |-> IF c \in Tasks THEN answers[c] ELSE <<>>]
      /\ Told' = [c \in Copies \union Tasks |-> IF c \in Tasks THEN answers'[c] ELSE <<>>]
  BY DEF Told
<1>3. \A t \in Tasks : Told[t] = answers[t]
  BY <1>2
<1>4. ASSUME NEW t \in Tasks, SftpPort!Ask(t) PROVE Port!Ask(t)
  BY <1>1, <1>2, <1>4 DEF SftpPort!Ask, Port!Ask
<1>5. ASSUME NEW t \in Tasks, NEW c \in Said, SftpPort!Tell(t, c) PROVE Port!Tell(t, c)
  <2>1. answers' = [answers EXCEPT ![t] = <<c>>] /\ answers \in [Tasks -> Seq(Said)]
    BY <1>5 DEF SftpPort!Tell, SftpTyped
  <2>2. Told' = [Told EXCEPT ![t] = <<c>>]
    BY <1>2, <2>1
  <2> QED
    BY <1>1, <1>3, <1>5, <2>2 DEF SftpPort!Tell, SftpPort!Waiting, Port!Tell, Port!Waiting
<1>6. ASSUME NEW t \in Tasks, SftpPort!Cancel(t) PROVE Port!Cancel(t)
  BY <1>1, <1>2, <1>3, <1>6 DEF SftpPort!Cancel, Port!Cancel
<1>7. ASSUME SftpPort!End PROVE Port!End
  BY <1>1, <1>2, <1>7 DEF SftpPort!End, Port!End
<1>8. CASE UNCHANGED SftpPort!port
  BY <1>1, <1>2, <1>8 DEF SftpPort!port, Port!port
<1>9. CASE SftpPort!Next
  <2>1. ASSUME NEW t \in Tasks, SftpPort!Answer(t) PROVE Port!Next
    <3>1. PICK c \in Said : SftpPort!Tell(t, c)
      BY <2>1 DEF SftpPort!Answer
    <3>2. Port!Answer(t)
      BY <1>5, <3>1 DEF Port!Answer, Said
    <3> QED
      BY <3>2 DEF Port!Next
  <2> QED
    BY <1>4, <1>6, <1>7, <1>9, <2>1 DEF SftpPort!Next, Port!Next
<1> QED
  BY <1>8, <1>9

\* And of the local adapter, when it is that one.
LEMMA LocalIsPort ==
    ASSUME which = "local", which' = which, UNCHANGED vars, Lost = {}, Lost' = {}, LocalTyped,
           [LocalPort!Next]_(LocalPort!port)
    PROVE  [Port!Next]_(Port!port)
<1> USE DEF vars
<1>1. AskedOf = LocalAsked /\ AskedOf' = LocalAsked'
  BY DEF AskedOf, LocalAsked
<1>2. /\ Told = [c \in Copies \union Tasks |-> IF c \in Copies THEN copy[c].told ELSE <<>>]
      /\ Told' = [c \in Copies \union Tasks |-> IF c \in Copies THEN copy'[c].told ELSE <<>>]
  BY DEF Told
<1>3. \A c \in Copies : Told[c] = copy[c].told
  BY <1>2
<1>4. ASSUME [c \in Copies |-> copy'[c].told] = [c \in Copies |-> copy[c].told]
      PROVE  Told' = Told
  <2>1. \A c \in Copies : copy'[c].told = copy[c].told
    BY <1>4
  <2> QED
    BY <1>2, <2>1
<1>5. ASSUME NEW c \in Copies, LocalPort!Ask(c) PROVE Port!Ask(c)
  <2>1. Told' = Told
    BY <1>4, <1>5 DEF LocalPort!Ask
  <2> QED
    BY <1>1, <1>5, <2>1 DEF LocalPort!Ask, Port!Ask
<1>6. ASSUME NEW c \in Copies, NEW code \in LocalSaid, LocalPort!Tell(c, code)
      PROVE  Port!Tell(c, code)
  <2>1. [d \in Copies |-> copy'[d].told] = [[d \in Copies |-> copy[d].told] EXCEPT ![c] = <<code>>]
    BY <1>6 DEF LocalPort!Tell
  <2>2. \A d \in Copies : copy'[d].told = IF d = c THEN <<code>> ELSE copy[d].told
    BY <2>1
  <2>3. Told' = [Told EXCEPT ![c] = <<code>>]
    BY <1>2, <2>2
  <2>4. [d \in Copies |-> copy[d].told][c] = copy[c].told
    OBVIOUS
  <2> QED
    BY <1>1, <1>3, <1>6, <2>3, <2>4
       DEF LocalPort!Tell, LocalPort!Waiting, Port!Tell, Port!Waiting
<1>7. ASSUME NEW c \in Copies, LocalPort!Cancel(c) PROVE Port!Cancel(c)
  <2>1. Told' = Told
    BY <1>4, <1>7 DEF LocalPort!Cancel
  <2>2. [d \in Copies |-> copy[d].told][c] = copy[c].told
    OBVIOUS
  <2> QED
    BY <1>1, <1>3, <1>7, <2>1, <2>2 DEF LocalPort!Cancel, Port!Cancel
<1>8. ASSUME LocalPort!End PROVE Port!End
  <2>1. Told' = Told
    BY <1>4, <1>8 DEF LocalPort!End
  <2> QED
    BY <1>1, <1>8, <2>1 DEF LocalPort!End, Port!End
<1>9. CASE UNCHANGED LocalPort!port
  <2>1. Told' = Told
    BY <1>4, <1>9 DEF LocalPort!port
  <2> QED
    BY <1>1, <1>9, <2>1 DEF LocalPort!port, Port!port
<1>10. CASE LocalPort!Next
  <2>1. ASSUME NEW c \in Copies, LocalPort!Answer(c) PROVE Port!Next
    <3>1. PICK code \in LocalSaid : LocalPort!Tell(c, code)
      BY <2>1 DEF LocalPort!Answer
    <3>2. code \in Outcomes \ {"none"}
      BY DEF LocalSaid, Outcomes
    <3>3. Port!Answer(c)
      BY <1>6, <3>1, <3>2 DEF Port!Answer
    <3> QED
      BY <3>3 DEF Port!Next
  <2> QED
    BY <1>5, <1>7, <1>8, <1>10, <2>1 DEF LocalPort!Next, Port!Next
<1> QED
  BY <1>9, <1>10

\* Both begin so.
LEMMA BothInitially == BothInit => IInv /\ Port!Init
<1> SUFFICES ASSUME BothInit PROVE IInv /\ Port!Init
  OBVIOUS
<1>1. SftpInv /\ LocalInv /\ SftpPort!Init /\ LocalPort!Init
  BY SftpInitially, LocalInitially DEF BothInit
<1>2. which \in {"sftp", "local"} /\ kind = [t \in Tasks |-> "none"]
  BY DEF BothInit, Init
<1>3. copy = [c \in Copies |-> NotAsked] /\ answers = [t \in Tasks |-> <<>>]
      /\ running = TRUE /\ stopping = FALSE /\ cancelled = {} /\ wanted = {}
  BY DEF BothInit, Init, InitLocal
<1>4. Lost = {} /\ AskedOf = {}
  BY <1>1, <1>2, <1>3 DEF SftpPort!Init, AskedOf, Asked
<1>5. Told = [c \in Copies \union Tasks |-> <<>>]
  BY <1>2, <1>3 DEF Told, NotAsked
<1> QED
  BY <1>1, <1>2, <1>3, <1>4, <1>5 DEF IInv, Port!Init

\* Nothing is lost of what nobody asked for.
LEMMA NothingLost == kind = [t \in Tasks |-> "none"] => Lost = {}
  BY DEF Lost, Asked

\* A step is one of the filesystem that is called; the other one's part stays.
LEMMA BothNextStep ==
    ASSUME IInv, [BothNext]_allVars
    PROVE  IInv' /\ [Port!Next]_(Port!port) /\ ToldTruly
<1> USE DEF allVars
<1>1. SftpInv /\ LocalInv /\ SftpTyped /\ LocalTyped
  BY DEF IInv, SftpInv, LocalInv
<1>2. CASE Sftp
  <2>1. Next /\ UNCHANGED localVars /\ which = "sftp" /\ which' = which
    BY <1>2 DEF Sftp
  <2>2. SftpInv' /\ [SftpPort!Next]_(SftpPort!port)
    BY <1>1, <2>1, SftpNext
  <2>3. LocalInv' /\ ToldTruly
    BY <1>1, <2>1, LocalStep
  <2>4. [Port!Next]_(Port!port)
    BY <1>1, <2>1, <2>2, SftpIsPort
  <2> QED
    BY <2>1, <2>2, <2>3, <2>4 DEF IInv
<1>3. CASE which = "local" /\ [LocalNext]_localVars /\ UNCHANGED <<vars, which>>
  <2>1. SftpInv'
    BY <1>1, <1>3, SftpNext
  <2>2. LocalInv' /\ ToldTruly /\ [LocalPort!Next]_(LocalPort!port)
    BY <1>1, <1>3, LocalStep
  <2>3. kind = [t \in Tasks |-> "none"] /\ kind' = kind
    BY <1>3 DEF IInv, vars, task
  <2>4. Lost = {}
    BY <2>3, NothingLost
  <2>5. Lost' = {}
    BY <2>3 DEF Lost, Asked
  <2>6. [Port!Next]_(Port!port)
    BY <1>1, <1>3, <2>2, <2>4, <2>5, LocalIsPort
  <2> QED
    BY <1>3, <2>1, <2>2, <2>3, <2>6 DEF IInv
<1>4. CASE UNCHANGED allVars /\ which = "sftp"
  <2>1. SftpInv' /\ LocalInv' /\ ToldTruly /\ [SftpPort!Next]_(SftpPort!port)
    BY <1>1, <1>4, SftpNext, LocalStep
  <2>2. [Port!Next]_(Port!port)
    BY <1>1, <1>4, <2>1, SftpIsPort
  <2> QED
    BY <1>4, <2>1, <2>2 DEF IInv
<1> QED
  BY <1>2, <1>3, <1>4 DEF BothNext, Local, IInv

\* What holds of both at any time.
THEOREM FileSystemsGood == BothSpec => []IInv
<1>1. BothInit => IInv
  BY BothInitially
<1>2. IInv /\ [BothNext]_allVars => IInv'
  BY BothNextStep
<1> QED
  BY <1>1, <1>2, PTL DEF BothSpec

\* Either filesystem keeps what IRemoteFileSystem.h promises of safety: what is
\* asked for is answered once, "cancelled" and "gone" only where they are true, and
\* only what is asked of a drained queue is lost.
THEOREM ContractIsKept == BothSpec => Port!Safety
<1>1. BothInit => IInv /\ Port!Init
  BY BothInitially
<1>2. IInv /\ [BothNext]_allVars => IInv' /\ [Port!Next]_(Port!port)
  BY BothNextStep
<1> QED
  BY <1>1, <1>2, PTL DEF BothSpec, Port!Safety

\* A transfer that reports success has done all of it: the server has confirmed the
\* close, unless the session was ending (UploadTask::Finish); the destination on
\* this machine holds what the source does (RunCopy).
THEOREM SuccessIsDone == BothSpec => SuccessMeansDone
<1>1. IInv => SuccessMeansClosed
  BY DEF IInv, SftpInv
<1>2. IInv /\ IInv' /\ [BothNext]_allVars =>
        [/\ SuccessMeansClosed'
         /\ \A c \in Copies :
              copy'[c].told = <<"ok">> /\ copy[c].told = <<>> =>
                  bytes[at[copy[c].to]] = bytes[at[copy[c].from]]]_allVars
  <2>1. (IInv => SuccessMeansClosed)'
    BY <1>1, PTL
  <2>. QED
    BY <2>1, BothNextStep DEF ToldTruly
<1> QED
  BY <1>2, FileSystemsGood, PTL DEF BothSpec, SuccessMeansDone

\* No copy destroys its own source, by whatever names the two are called
\* (RunCopy's comparison, before the open that truncates).
THEOREM SourcesAreKept == BothSpec => []CopyKeepsItsSource
<1>1. IInv => CopyKeepsItsSource
  BY DEF IInv, LocalInv, Disk, CopyKeepsItsSource
<1> QED
  BY <1>1, FileSystemsGood, PTL

\* What has been answered leaves neither an entry in the cancellation registry nor
\* a marked slot behind (ForgetCancellation, RunNext).
THEOREM AnsweredIsForgotten == BothSpec => []NothingLeftBehind
<1>1. IInv => NothingLeftBehind
  BY DEF IInv, SftpInv, NothingLeftBehind
<1> QED
  BY <1>1, FileSystemsGood, PTL

\* Types: every task is at a slot of its own program, every copy queued has a flag.
THEOREM FileSystemsTyped == BothSpec => []BothTypeOK
<1>1. ASSUME IInv PROVE TypeOK
  BY <1>1 DEF IInv, SftpInv, SftpTyped, TypeOK, Said
<1>2. ASSUME IInv PROVE LocalTypeOK
  <2>1. LocalTyped /\ ToSet(jobs) \subseteq flags
    BY <1>2 DEF IInv, LocalInv, Queued
  <2>2. {jobs[i] : i \in DOMAIN jobs} \subseteq flags
    BY <2>1 DEF ToSet
  <2> QED
    BY <2>1, <2>2 DEF LocalTyped, LocalTypeOK
<1>3. IInv => BothTypeOK
  BY <1>1, <1>2 DEF BothTypeOK
<1> QED
  BY <1>3, FileSystemsGood, PTL
=============================================================================
