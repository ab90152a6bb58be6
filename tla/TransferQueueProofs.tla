------------------------ MODULE TransferQueueProofs ------------------------
EXTENDS TransferQueue, TLAPS, WellFoundedInduction, FiniteSetTheorems

\* Every set of naturals with a member has a least one: Queued(s), toMake and
\* toVisit are read through Min.
LEMMA MinMember ==
    ASSUME NEW S, S \subseteq Nat, S # {}
    PROVE  Min(S) \in S
<1> DEFINE R == {p \in Nat \X Nat : p[1] < p[2]}
<1>1. IsWellFoundedOn(R, Nat)
  BY NatLessThanWellFounded, Zenon DEF OpToRel
<1>2. PICK x \in S : \A y \in S : ~(<<y, x>> \in R)
  <2> HIDE DEF R
  <2>1. QED  BY <1>1, WFMin, Zenon
<1>3. \A y \in S : x =< y
  <2> SUFFICES ASSUME NEW y \in S PROVE x =< y
    OBVIOUS
  <2>1. x \in Nat /\ y \in Nat
    OBVIOUS
  <2>2. ~(<<y, x>> \in {p \in Nat \X Nat : p[1] < p[2]})
    BY <1>2
  <2>3. ~(y < x)
    BY <2>1, <2>2
  <2>4. QED
    BY <2>1, <2>3
<1>4. QED
  BY <1>3 DEF Min

-----------------------------------------------------------------------------
(* The inductive invariant *)

\* Queued jobs name both endpoints.
Addressed(s) ==
    \A i \in Queued(s) : s.job[i].src \in Fs /\ s.job[i].dst \in Fs

\* A job has been weighed before it starts, and so has every job a callback
\* may still wake.
Covered(s, i) == s.state[i] # "Absent" => s.job[i].weighed # NoFs

Weighed(s) ==
    \A i \in JobIds :
        (s.state[i] \in InFlight \union {"Completed", "Failed"}
            \/ s.call[i] # "none")
        => Covered(s, i)

\* Ids not given out yet are untouched.
Fresh(s) ==
    \A i \in JobIds :
        i >= s.nextId => s.state[i] = "Absent" /\ s.call[i] = "none"

\* Before the first check nothing is weighed; during one, exactly one query or
\* warning is out, except while a declined warning is being carried out.
CheckCount(s) ==
    /\ s.preflight = "Pending" => \A i \in JobIds : s.job[i].weighed = NoFs
    /\ s.loop = "batch" => s.preflight = "Checking"
    /\ IF s.preflight = "Checking" /\ s.loop # "batch"
       THEN \E c \in Check : s.checks = {c}
       ELSE s.checks = {}

Good(s) ==
    /\ s \in Queue
    /\ Addressed(s)
    /\ Weighed(s)
    /\ Fresh(s)
    /\ CheckCount(s)

\* The invariant reads these fields only.
LEMMA GoodFrame ==
    ASSUME NEW s, Good(s), NEW t \in Queue,
           t.state = s.state, t.job = s.job, t.call = s.call,
           t.nextId = s.nextId, t.preflight = s.preflight,
           t.checks = s.checks, t.loop = s.loop
    PROVE  Good(t)
BY DEF Good, Addressed, Queued, Weighed, Covered, Fresh, CheckCount

\* What typing says about identifiers, counters and bounds.
LEMMA Ids ==
    ASSUME NEW s \in Queue
    PROVE  /\ JobIds \subseteq Nat /\ DirIds \subseteq Nat
           /\ Queued(s) \subseteq JobIds /\ Unchecked(s) \subseteq JobIds
           /\ s.toMake \subseteq DirIds /\ s.toVisit \subseteq DirIds
           /\ MaxJobs \in Nat /\ MaxDirs \in Nat /\ MaxSpaceProbes \in Nat
           /\ MaxTreeDepth \in Nat /\ MaxRenameAttempts \in Nat
           /\ s.nextId \in Nat /\ s.nextDir \in Nat
<1>1. {MaxJobs, MaxDirs, MaxTreeDepth, MaxRenameAttempts, MaxSpaceProbes} \subseteq Nat
  BY QueueAssumption
<1>2. MaxJobs \in Nat /\ MaxDirs \in Nat /\ MaxSpaceProbes \in Nat
  BY <1>1
<1>3. MaxTreeDepth \in Nat /\ MaxRenameAttempts \in Nat
  BY <1>1
<1>4. JobIds \subseteq Nat /\ DirIds \subseteq Nat
  BY <1>2 DEF JobIds, DirIds
<1>5. Queued(s) \subseteq JobIds /\ Unchecked(s) \subseteq JobIds
  BY DEF Queued, Unchecked
<1>6. s.toMake \subseteq DirIds /\ s.toVisit \subseteq DirIds
  BY DEF Queue
<1>7. s.nextId \in 1..(MaxJobs + 1) /\ s.nextDir \in 1..(MaxDirs + 1)
  BY DEF Queue
<1>8. s.nextId \in Nat /\ s.nextDir \in Nat
  BY <1>2, <1>7
<1>9. QED
  BY <1>2, <1>3, <1>4, <1>5, <1>6, <1>8

-----------------------------------------------------------------------------
(* Calls on an endpoint *)

\* A call on a job's behalf keeps the invariant if the job has been weighed.
LEMMA IssueGood ==
    ASSUME NEW s, Good(s), NEW i \in JobIds, NEW f, NEW op \in CallOps,
           Covered(s, i), i < s.nextId
    PROVE  Good(Issue(s, i, f, op))
<1> DEFINE x == IF f \in s.stopped THEN "lost" ELSE op
           y == Fault(s, f)
           t == [s EXCEPT !.call[i] = x, !.fault = y]
<1>1. s \in Queue /\ x \in CallOps /\ y \in BOOLEAN
  BY DEF CallOps, Fault, Queue, Good
<1>2. Issue(s, i, f, op) = t
  BY DEF Issue
<1> HIDE DEF x, y
<1>3. t \in Queue
  <2>1. [s EXCEPT !.call[i] = x] \in Queue
    BY SMTT(60), <1>1 DEF Queue
  <2>2. [[s EXCEPT !.call[i] = x] EXCEPT !.fault = y] \in Queue
    BY ZenonT(60), <1>1, <2>1 DEF Queue
  <2>3. QED
    BY <2>2
<1>4. /\ t.state = s.state /\ t.job = s.job /\ t.nextId = s.nextId
      /\ t.preflight = s.preflight /\ t.checks = s.checks
      /\ t.loop = s.loop
      /\ \A j \in JobIds : j # i => t.call[j] = s.call[j]
  BY <1>1 DEF Queue
<1> HIDE DEF t
<1>5. Addressed(t) /\ CheckCount(t)
  BY <1>4 DEF Good, Addressed, Queued, CheckCount
<1>6. Weighed(t)
  BY <1>4 DEF Good, Weighed, Covered
<1>7. Fresh(t)
  BY <1>1, <1>4, Ids DEF Good, Fresh
<1>8. QED
  BY <1>2, <1>3, <1>5, <1>6, <1>7 DEF Good

\* Making the next directory concerns no job.
LEMMA CreateNextDirectoryGood ==
    ASSUME NEW s, Good(s), s.toMake # {}
    PROVE  Good(CreateNextDirectory(s))
<1> DEFINE d == Min(s.toMake)
           f == s.dir[d].dst
           x == s.toMake \ {d}
           m == IF f \in s.stopped THEN s.making ELSE s.making \union {d}
           y == Fault(s, f)
           t == [s EXCEPT !.toMake = x, !.making = m, !.fault = y]
<1>1. s \in Queue
  BY DEF Good
<1>2. d \in DirIds
  <2>1. s.toMake \subseteq Nat /\ s.toMake \subseteq DirIds
    BY <1>1, Ids
  <2>2. QED
    BY <2>1, MinMember
<1> HIDE DEF d
<1>3. x \in SUBSET DirIds /\ m \in SUBSET DirIds /\ y \in BOOLEAN
  BY <1>1, <1>2 DEF Queue, Fault
<1>4. CreateNextDirectory(s) = t
  BY DEF CreateNextDirectory, d
<1> HIDE DEF x, m, y
<1>5. t \in Queue
  <2>1. [s EXCEPT !.toMake = x] \in Queue
    BY SMTT(60), <1>1, <1>3 DEF Queue
  <2>2. [[s EXCEPT !.toMake = x] EXCEPT !.making = m] \in Queue
    BY ZenonT(60), <1>3, <2>1 DEF Queue
  <2>3. [[[s EXCEPT !.toMake = x] EXCEPT !.making = m] EXCEPT !.fault = y]
          \in Queue
    BY ZenonT(60), <1>3, <2>2 DEF Queue
  <2>4. QED
    BY <2>3
<1>6. /\ t.state = s.state /\ t.job = s.job /\ t.call = s.call
      /\ t.nextId = s.nextId /\ t.preflight = s.preflight
      /\ t.checks = s.checks /\ t.loop = s.loop
  BY <1>1 DEF Queue
<1> HIDE DEF t
<1>7. QED
  BY <1>4, <1>5, <1>6, GoodFrame

\* What QuerySpaceFrom changes, for its two callers: neither is left with a
\* check already out.
LEMMA QuerySpaceFromAdds ==
    ASSUME NEW s \in Queue, NEW f \in Fs, NEW climb \in 0..MaxSpaceProbes,
           s.checks = {}
    PROVE  LET t == QuerySpaceFrom(s, f, climb)
           IN  /\ t \in Queue
               /\ \E c \in Check : t.checks = {c}
               /\ t.state = s.state /\ t.job = s.job /\ t.call = s.call
               /\ t.nextId = s.nextId /\ t.preflight = s.preflight
               /\ t.loop = s.loop
<1> DEFINE kind == IF f \in s.stopped THEN "lost" ELSE "query"
           c == [kind |-> kind, fs |-> f, climb |-> climb]
           x == s.checks \union {c}
           y == Fault(s, f)
           t == [s EXCEPT !.checks = x, !.fault = y]
<1>1. c \in Check /\ y \in BOOLEAN
  BY DEF Check, Fault, Queue
<1> HIDE DEF c
<1>2. x = {c} /\ x \in SUBSET Check
  BY <1>1 DEF Queue
<1>3. QuerySpaceFrom(s, f, climb) = t
  BY DEF QuerySpaceFrom, c
<1> HIDE DEF x, y
<1>4. t \in Queue
  <2>1. [s EXCEPT !.checks = x] \in Queue
    BY SMTT(60), <1>2 DEF Queue
  <2>2. [[s EXCEPT !.checks = x] EXCEPT !.fault = y] \in Queue
    BY ZenonT(60), <1>1, <2>1 DEF Queue
  <2>3. QED
    BY <2>2
<1>5. /\ t.state = s.state /\ t.job = s.job /\ t.call = s.call
      /\ t.nextId = s.nextId /\ t.preflight = s.preflight
      /\ t.loop = s.loop /\ t.checks = x
  BY DEF Queue
<1> HIDE DEF t
<1>6. QED
  BY <1>1, <1>2, <1>3, <1>4, <1>5

-----------------------------------------------------------------------------
(* Scheduling *)

\* A check begins when none is out, and puts one query out.
LEMMA BeginPreflightGood ==
    ASSUME NEW s, Good(s), Unchecked(s) # {}, s.preflight # "Checking"
    PROVE  Good(BeginPreflight(s))
<1> DEFINE i == Min(Unchecked(s))
           f == s.job[i].dst
           u == [s EXCEPT !.preflight = "Checking"]
           t == QuerySpaceFrom(u, f, MaxSpaceProbes)
<1>1. s \in Queue /\ s.checks = {} /\ s.loop # "batch"
  BY DEF Good, CheckCount
<1>2. i \in Queued(s)
  <2>1. Unchecked(s) \subseteq Nat /\ Unchecked(s) \subseteq Queued(s)
    BY <1>1, Ids DEF Unchecked
  <2>2. QED
    BY <2>1, MinMember
<1>3. f \in Fs
  BY <1>2 DEF Good, Addressed
<1>4. MaxSpaceProbes \in 0..MaxSpaceProbes
  BY <1>1, Ids
<1>5. u \in Queue
  BY SMTT(60), <1>1 DEF Queue
<1>6. /\ u.state = s.state /\ u.job = s.job /\ u.call = s.call
      /\ u.nextId = s.nextId /\ u.preflight = "Checking"
      /\ u.checks = {} /\ u.loop = s.loop
  BY <1>1 DEF Queue
<1>7. BeginPreflight(s) = t
  BY DEF BeginPreflight
<1> HIDE DEF f, u
<1>8. /\ t \in Queue
      /\ \E c \in Check : t.checks = {c}
      /\ t.state = s.state /\ t.job = s.job /\ t.call = s.call
      /\ t.nextId = s.nextId /\ t.preflight = "Checking"
      /\ t.loop = s.loop
  BY <1>3, <1>4, <1>5, <1>6, QuerySpaceFromAdds
<1> HIDE DEF t
<1>9. Addressed(t) /\ Weighed(t) /\ Fresh(t) /\ CheckCount(t)
  BY <1>1, <1>8 DEF Good, Addressed, Queued, Weighed, Covered, Fresh, CheckCount
<1>10. QED
  BY <1>7, <1>8, <1>9 DEF Good

\* A job changes state without becoming queued.
LEMMA SetStateGood ==
    ASSUME NEW s, Good(s), NEW i \in JobIds, NEW st \in InFlight \union Terminal,
           i < s.nextId,
           st \in InFlight \union {"Completed", "Failed"} =>
               s.job[i].weighed # NoFs,
           s.state[i] # "Absent"
    PROVE  Good([s EXCEPT !.state[i] = st])
<1> DEFINE t == [s EXCEPT !.state[i] = st]
<1>1. s \in Queue /\ st \in JobStates /\ st # "Queued" /\ st # "Absent"
  BY DEF Good, JobStates, InFlight, Terminal
<1>2. t \in Queue
  BY SMTT(60), <1>1 DEF Queue
<1>3. /\ t.state[i] = st
      /\ \A j \in JobIds : j # i => t.state[j] = s.state[j]
      /\ t.job = s.job /\ t.call = s.call
      /\ t.nextId = s.nextId /\ t.preflight = s.preflight
      /\ t.checks = s.checks /\ t.loop = s.loop
  BY <1>1 DEF Queue
<1> HIDE DEF t
<1>4. Addressed(t)
  BY <1>1, <1>3 DEF Good, Addressed, Queued
<1>5. Weighed(t)
  <2> SUFFICES ASSUME NEW j \in JobIds,
                      t.state[j] \in InFlight \union {"Completed", "Failed"}
                        \/ t.call[j] # "none"
               PROVE  Covered(t, j)
    BY DEF Weighed
  <2>1. CASE j = i
    BY <1>1, <1>3, <2>1 DEF Good, Weighed, Covered
  <2>2. CASE j # i
    BY <1>3, <2>2 DEF Good, Weighed, Covered
  <2>3. QED
    BY <2>1, <2>2
<1>6. Fresh(t) /\ CheckCount(t)
  BY <1>1, <1>3, Ids DEF Good, Fresh, CheckCount
<1>7. QED
  BY <1>2, <1>4, <1>5, <1>6 DEF Good, t

\* The queue starts a job the verdict covers.
LEMMA BeginJobGood ==
    ASSUME NEW s, Good(s), NEW i \in Queued(s), s.job[i].weighed # NoFs
    PROVE  Good(BeginJob(s, i))
<1> DEFINE u == [s EXCEPT !.state[i] = "Checking"]
           t == [u EXCEPT !.activeId = i]
<1>1. s \in Queue /\ i \in JobIds /\ s.state[i] = "Queued" /\ i \in 0..MaxJobs
  BY QueueAssumption DEF Good, Queued, JobIds
<1>2. i < s.nextId
  BY <1>1, Ids DEF Good, Fresh
<1>3. Good(u)
  BY <1>1, <1>2, SetStateGood DEF InFlight
<1>4. u \in Queue /\ u.state[i] = "Checking" /\ u.job = s.job /\ u.nextId = s.nextId
  BY <1>1, <1>3 DEF Queue, Good
<1>5. BeginJob(s, i) = Issue(t, i, s.job[i].dst, "stat")
  BY DEF BeginJob
<1> HIDE DEF u
<1>6. t \in Queue
  BY SMTT(60), <1>1, <1>4 DEF Queue
<1>7. /\ t.state = u.state /\ t.job = u.job /\ t.call = u.call
      /\ t.nextId = u.nextId /\ t.preflight = u.preflight
      /\ t.checks = u.checks /\ t.loop = u.loop
  BY <1>4 DEF Queue
<1> HIDE DEF t
<1>8. Good(t)
  BY <1>3, <1>6, <1>7, GoodFrame
<1>9. QED
  BY <1>1, <1>2, <1>4, <1>5, <1>7, <1>8, IssueGood DEF Covered, CallOps

\* Pump keeps the invariant from wherever it is called.
LEMMA PumpGood ==
    ASSUME NEW s, Good(s)
    PROVE  Good(Pump(s))
<1>1. s \in Queue
  BY DEF Good
<1>2. Good(PumpDrained(s))
  <2>1. [s EXCEPT !.unreadable = {}] \in Queue
    BY SMTT(60), <1>1 DEF Queue
  <2>2. Good([s EXCEPT !.unreadable = {}])
    <3> DEFINE t == [s EXCEPT !.unreadable = {}]
    <3>1. /\ t.state = s.state /\ t.job = s.job /\ t.call = s.call
          /\ t.nextId = s.nextId /\ t.preflight = s.preflight
          /\ t.checks = s.checks /\ t.loop = s.loop
      BY <1>1 DEF Queue
    <3> HIDE DEF t
    <3>2. QED
      BY <2>1, <3>1, GoodFrame DEF t
  <2>3. QED
    BY <2>2, CreateNextDirectoryGood DEF PumpDrained
<1>3. ASSUME Queued(s) # {}, Unchecked(s) = {}
      PROVE  Good(PumpCleared(s))
  <2>1. Min(Queued(s)) \in Queued(s)
    <3>1. Queued(s) \subseteq Nat
      BY <1>1, Ids
    <3>2. QED
      BY <1>3, <3>1, MinMember
  <2>2. s.job[Min(Queued(s))].weighed # NoFs
    BY <1>3, <2>1 DEF Unchecked
  <2>3. QED
    BY <2>1, <2>2, BeginJobGood, CreateNextDirectoryGood DEF PumpCleared
<1>4. s.preflight \in {"Pending", "Checking", "Cleared"}
  BY <1>1 DEF Queue
<1>5. s.preflight = "Pending" /\ Queued(s) # {} => Unchecked(s) # {}
  BY DEF Good, CheckCount, Unchecked, Queued
<1>6. QED
  BY <1>2, <1>3, <1>4, <1>5, BeginPreflightGood DEF Pump

\* The verdict is in: the check that asked for it is no longer out.
LEMMA ClearPreflightGood ==
    ASSUME NEW s \in Queue, Addressed(s), Weighed(s), Fresh(s),
           s.checks = {}, s.loop # "batch"
    PROVE  Good(ClearPreflight(s))
<1> DEFINE t == [s EXCEPT !.preflight = "Cleared"]
<1>1. t \in Queue
  BY SMTT(60) DEF Queue
<1>2. /\ t.state = s.state /\ t.job = s.job /\ t.call = s.call
      /\ t.nextId = s.nextId /\ t.preflight = "Cleared"
      /\ t.checks = {} /\ t.loop = s.loop
  BY DEF Queue
<1>3. ClearPreflight(s) = Pump(t)
  BY DEF ClearPreflight
<1> HIDE DEF t
<1>4. Good(t)
  BY <1>1, <1>2 DEF Good, Addressed, Queued, Weighed, Covered, Fresh, CheckCount
<1>5. QED
  BY <1>3, <1>4, PumpGood

\* A handler that finds its job gone frees the place and pumps.
LEMMA AbandonGood ==
    ASSUME NEW s, Good(s)
    PROVE  Good(Abandon(s))
<1> DEFINE t == [s EXCEPT !.activeId = 0]
<1>1. s \in Queue /\ 0 \in 0..MaxJobs
  BY Ids DEF Good
<1>2. t \in Queue
  BY SMTT(60), <1>1 DEF Queue
<1>3. /\ t.state = s.state /\ t.job = s.job /\ t.call = s.call
      /\ t.nextId = s.nextId /\ t.preflight = s.preflight
      /\ t.checks = s.checks /\ t.loop = s.loop
  BY <1>1 DEF Queue
<1>4. Abandon(s) = Pump(t)
  BY DEF Abandon
<1> HIDE DEF t
<1>5. QED
  BY <1>2, <1>3, <1>4, GoodFrame, PumpGood

\* The fields of the transfer in flight are outside the invariant.
LEMMA ReleaseGood ==
    ASSUME NEW s, Good(s), NEW i
    PROVE  Good(Release(s, i))
<1> DEFINE t == [s EXCEPT !.activeId = 0, !.handle = 0, !.owner = NoFs,
                          !.cancelling = FALSE]
<1>1. s \in Queue /\ 0 \in 0..MaxJobs
  BY Ids DEF Good
<1>2. t \in Queue
  <2>1. [s EXCEPT !.activeId = 0] \in Queue
    BY SMTT(60), <1>1 DEF Queue
  <2>2. [[s EXCEPT !.activeId = 0] EXCEPT !.handle = 0] \in Queue
    BY ZenonT(60), <1>1, <2>1 DEF Queue
  <2>3. [[[s EXCEPT !.activeId = 0] EXCEPT !.handle = 0]
            EXCEPT !.owner = NoFs] \in Queue
    BY ZenonT(60), <2>2 DEF Queue
  <2>4. [[[[s EXCEPT !.activeId = 0] EXCEPT !.handle = 0]
            EXCEPT !.owner = NoFs] EXCEPT !.cancelling = FALSE] \in Queue
    BY ZenonT(60), <2>3 DEF Queue
  <2>5. QED
    BY <2>4
<1>3. /\ t.state = s.state /\ t.job = s.job /\ t.call = s.call
      /\ t.nextId = s.nextId /\ t.preflight = s.preflight
      /\ t.checks = s.checks /\ t.loop = s.loop
  BY <1>1 DEF Queue
<1>4. Release(s, i) \in {s, t}
  BY DEF Release
<1> HIDE DEF t
<1>5. QED
  BY <1>2, <1>3, <1>4, GoodFrame

\* A job may be cancelled or skipped before anything was weighed, but only a
\* weighed one completes or fails.
LEMMA FinishJobGood ==
    ASSUME NEW s, Good(s), NEW i \in JobIds, NEW st \in Terminal,
           st \in {"Completed", "Failed"} => Covered(s, i)
    PROVE  Good(FinishJob(s, i, st))
<1> DEFINE t == IF s.state[i] = "Absent" THEN s ELSE [s EXCEPT !.state[i] = st]
<1>1. Good(t)
  <2>1. CASE s.state[i] = "Absent"
    BY <2>1
  <2>2. CASE s.state[i] # "Absent"
    <3>1. i < s.nextId
      BY <2>2, Ids DEF Good, Fresh
    <3>2. st \in {"Completed", "Failed"} => s.job[i].weighed # NoFs
      BY <2>2 DEF Covered
    <3>3. st \in InFlight => FALSE
      BY DEF InFlight, Terminal
    <3>4. Good([s EXCEPT !.state[i] = st])
      BY <2>2, <3>1, <3>2, <3>3, SetStateGood
    <3>5. QED
      BY <2>2, <3>4
  <2>3. QED
    BY <2>1, <2>2
<1>2. FinishJob(s, i, st) = Pump(Release(t, i))
  BY DEF FinishJob
<1> HIDE DEF t
<1>3. QED
  BY <1>1, <1>2, ReleaseGood, PumpGood

-----------------------------------------------------------------------------
(* Running one job *)

\* One leg of a transfer, for a weighed job.
LEMMA StartLegGood ==
    ASSUME NEW s, Good(s), NEW i \in JobIds, NEW f \in Fs \union {NoFs},
           NEW leg \in Legs, Covered(s, i), i < s.nextId
    PROVE  Good(StartLeg(s, i, f, leg))
<1> DEFINE h == IF s.activeId = i THEN i ELSE s.handle
           t == [s EXCEPT !.owner = f, !.handle = h]
<1>1. s \in Queue
  BY DEF Good
<1>2. h \in 0..MaxJobs
  BY <1>1, QueueAssumption DEF Queue, JobIds
<1>3. StartLeg(s, i, f, leg) = Issue(t, i, f, leg)
  BY DEF StartLeg
<1> HIDE DEF h
<1>4. t \in Queue
  <2>1. [s EXCEPT !.owner = f] \in Queue
    BY SMTT(60), <1>1 DEF Queue
  <2>2. [[s EXCEPT !.owner = f] EXCEPT !.handle = h] \in Queue
    BY ZenonT(60), <1>2, <2>1 DEF Queue
  <2>3. QED
    BY <2>2
<1>5. /\ t.state = s.state /\ t.job = s.job /\ t.call = s.call
      /\ t.nextId = s.nextId /\ t.preflight = s.preflight
      /\ t.checks = s.checks /\ t.loop = s.loop
  BY <1>1 DEF Queue
<1> HIDE DEF t
<1>6. Good(t)
  BY <1>4, <1>5, GoodFrame
<1>7. QED
  BY <1>3, <1>5, <1>6, IssueGood DEF Covered, CallOps

\* The transfer of a weighed job, by whichever route.
LEMMA StartTransferGood ==
    ASSUME NEW s, Good(s), NEW i \in JobIds, Covered(s, i), i < s.nextId
    PROVE  Good(StartTransfer(s, i))
<1> DEFINE t == [s EXCEPT !.state[i] = "Active"]
           src == s.job[i].src
           dst == s.job[i].dst
<1>1. CASE s.state[i] = "Absent"
  BY <1>1, AbandonGood DEF StartTransfer
<1>2. CASE s.state[i] # "Absent"
  <2>1. Good(t)
    BY <1>2, SetStateGood DEF Covered, InFlight
  <2>2. s \in Queue /\ t.job = s.job /\ t.nextId = s.nextId
    BY DEF Good, Queue
  <2>3. Covered(t, i) /\ i < t.nextId
    BY <1>2, <2>2 DEF Covered
  <2>4. StartTransfer(s, i) =
          IF s.job[i].kind = "Link" THEN Issue(t, i, src, "readlink")
          ELSE IF dst = Local THEN StartLeg(t, i, src, "lastLeg")
          ELSE IF src = Local THEN StartLeg(t, i, dst, "lastLeg")
          ELSE IF ~s.relay THEN FinishJob(t, i, "Failed")
          ELSE StartLeg(t, i, src, "firstLeg")
    BY <1>2 DEF StartTransfer
  <2>8. src \in Fs \union {NoFs} /\ dst \in Fs \union {NoFs}
    BY <2>2 DEF Queue, Job
  <2> HIDE DEF t, src, dst
  <2>5. Good(Issue(t, i, src, "readlink"))
    BY <2>1, <2>3, IssueGood DEF CallOps
  <2>6. Good(FinishJob(t, i, "Failed"))
    BY <2>1, <2>3, FinishJobGood DEF Terminal
  <2>7. QED
    BY <2>1, <2>3, <2>4, <2>5, <2>6, <2>8, StartLegGood DEF Legs
<1>3. QED
  BY <1>1, <1>2

\* A probe for a free name, for a weighed job.
LEMMA ResolveFreeNameGood ==
    ASSUME NEW s, Good(s), NEW i \in JobIds, NEW attempt \in Nat \ {0},
           Covered(s, i), i < s.nextId
    PROVE  Good(ResolveFreeName(s, i, attempt))
<1> DEFINE t == [s EXCEPT !.attempt[i] = attempt]
<1>1. s \in Queue
  BY DEF Good
<1>2. CASE attempt > MaxRenameAttempts
  BY <1>2, AbandonGood, FinishJobGood DEF ResolveFreeName, Terminal
<1>3. CASE ~(attempt > MaxRenameAttempts)
  <2>1. attempt \in 0..MaxRenameAttempts
    BY <1>1, <1>3, Ids
  <2>2. t \in Queue
    BY SMTT(60), <1>1, <2>1 DEF Queue
  <2>3. /\ t.state = s.state /\ t.job = s.job /\ t.call = s.call
        /\ t.nextId = s.nextId /\ t.preflight = s.preflight
        /\ t.checks = s.checks /\ t.loop = s.loop
    BY <1>1 DEF Queue
  <2>4. ResolveFreeName(s, i, attempt) =
          IF s.state[i] = "Absent" THEN Abandon(s)
          ELSE Issue(t, i, s.job[i].dst, "probe")
    BY <1>3 DEF ResolveFreeName
  <2> HIDE DEF t
  <2>5. Good(t) /\ Covered(t, i) /\ i < t.nextId
    BY <2>2, <2>3, GoodFrame DEF Covered
  <2>6. Good(Issue(t, i, s.job[i].dst, "probe"))
    BY <2>5, IssueGood DEF CallOps
  <2>7. QED
    BY <2>4, <2>6, AbandonGood
<1>4. QED
  BY <1>2, <1>3

\* Each answer to a collision.
LEMMA ApplyResolutionGood ==
    ASSUME NEW s, Good(s), NEW i \in JobIds,
           NEW resolution \in Policies \ {"Ask"},
           Covered(s, i), i < s.nextId
    PROVE  Good(ApplyResolution(s, i, resolution))
<1>1. Good(FinishJob(s, i, "Skipped"))
  BY FinishJobGood DEF Terminal
<1>2. Good(ResolveFreeName(s, i, 1)) /\ Good(StartTransfer(s, i))
  BY ResolveFreeNameGood, StartTransferGood
<1>3. resolution \in {"Overwrite", "Skip", "Rename"}
  BY DEF Policies
<1>4. QED
  BY <1>1, <1>2, <1>3 DEF ApplyResolution

\* Whether a copy will replace something is not among the fields the
\* invariant reads.
LEMMA SetExistedGood ==
    ASSUME NEW s, Good(s), NEW i \in JobIds, NEW b \in BOOLEAN
    PROVE  LET t == [s EXCEPT !.job[i].existed = b]
           IN  /\ Good(t)
               /\ t.state = s.state /\ t.nextId = s.nextId /\ t.call = s.call
               /\ t.policy = s.policy
               /\ \A j \in JobIds : t.job[j].weighed = s.job[j].weighed
<1> DEFINE t == [s EXCEPT !.job[i].existed = b]
<1>1. s \in Queue
  BY DEF Good
<1>2. t \in Queue
  <2>1. [s.job[i] EXCEPT !.existed = b] \in Job
    BY <1>1 DEF Queue, Job
  <2>2. [s.job EXCEPT ![i].existed = b] \in [JobIds -> Job]
    BY <1>1, <2>1 DEF Queue
  <2>3. QED
    BY <1>1, <2>2 DEF Queue
<1>3. /\ t.state = s.state /\ t.call = s.call
      /\ t.nextId = s.nextId /\ t.preflight = s.preflight
      /\ t.checks = s.checks /\ t.loop = s.loop /\ t.policy = s.policy
      /\ t.job = [s.job EXCEPT ![i].existed = b]
  BY <1>1 DEF Queue
<1>4. \A j \in JobIds :
        /\ t.job[j].weighed = s.job[j].weighed
        /\ t.job[j].src = s.job[j].src
        /\ t.job[j].dst = s.job[j].dst
  BY <1>1, <1>3 DEF Queue, Job
<1> HIDE DEF t
<1>5. Addressed(t) /\ Weighed(t)
  BY <1>3, <1>4 DEF Good, Addressed, Queued, Weighed, Covered
<1>6. Fresh(t) /\ CheckCount(t)
  BY <1>3, <1>4 DEF Good, Fresh, CheckCount
<1>7. QED
  BY <1>2, <1>3, <1>4, <1>5, <1>6 DEF Good, t

\* The conflict check's answer, also one that comes too late.
LEMMA OnConflictKnownGood ==
    ASSUME NEW s, Good(s), NEW i \in JobIds, NEW exists \in BOOLEAN,
           Covered(s, i), i < s.nextId
    PROVE  Good(OnConflictKnown(s, i, exists))
<1> DEFINE t == [s EXCEPT !.job[i].existed = TRUE]
           u == [t EXCEPT !.state[i] = "AwaitingResolution"]
           v == [u EXCEPT !.call[i] = "prompt"]
<1>1. CASE s.state[i] # "Checking" \/ ~exists
  BY <1>1, AbandonGood, StartTransferGood DEF OnConflictKnown
<1>2. CASE s.state[i] = "Checking" /\ exists
  <2>1. /\ Good(t)
        /\ t.state = s.state /\ t.nextId = s.nextId /\ t.call = s.call
        /\ t.policy = s.policy
        /\ t.job[i].weighed = s.job[i].weighed
    BY SetExistedGood
  <2>2. Covered(t, i) /\ i < t.nextId /\ t.job[i].weighed # NoFs
    BY <1>2, <2>1 DEF Covered
  <2>3. OnConflictKnown(s, i, exists) =
          IF s.policy # "Ask" THEN ApplyResolution(t, i, s.policy) ELSE v
    BY <1>2 DEF OnConflictKnown
  <2> HIDE DEF t
  <2>4. Good(u)
    BY <1>2, <2>1, <2>2, SetStateGood DEF InFlight
  <2>5. u.state[i] = "AwaitingResolution" /\ u.job = t.job /\ u.nextId = t.nextId
        /\ u \in Queue
    BY <2>1, <2>4 DEF Good, Queue
  <2> HIDE DEF u
  <2>6. v \in Queue
    BY <2>5 DEF Queue, CallOps
  <2>7. /\ v.state = u.state /\ v.job = u.job /\ v.nextId = u.nextId
        /\ v.preflight = u.preflight /\ v.checks = u.checks
        /\ v.loop = u.loop
        /\ \A j \in JobIds : j # i => v.call[j] = u.call[j]
    BY <2>5 DEF Queue
  <2> HIDE DEF v
  <2>8. Addressed(v) /\ CheckCount(v)
    BY <2>4, <2>7 DEF Good, Addressed, Queued, CheckCount
  <2>9. Weighed(v)
    BY <2>2, <2>4, <2>5, <2>7 DEF Good, Weighed, Covered
  <2>10. Fresh(v)
    BY <2>1, <2>2, <2>4, <2>5, <2>7, Ids DEF Good, Fresh
  <2>11. Good(v)
    BY <2>6, <2>8, <2>9, <2>10 DEF Good
  <2>12. s.policy \in Policies
    BY DEF Good, Queue
  <2>13. QED
    BY <2>1, <2>2, <2>3, <2>11, <2>12, ApplyResolutionGood
<1>3. QED
  BY <1>1, <1>2

\* The end of a leg, also of a job that is gone.
LEMMA OnLegDoneGood ==
    ASSUME NEW s, Good(s), NEW i \in JobIds, NEW result,
           NEW leg \in Legs, Covered(s, i), i < s.nextId
    PROVE  Good(OnLegDone(s, i, result, leg))
<1>1. s.job[i].dst \in Fs \union {NoFs}
  BY DEF Good, Queue, Job
<1>2. Good(StartLeg(s, i, s.job[i].dst, "lastLeg"))
  BY <1>1, StartLegGood DEF Legs
<1>3. \A st \in {"Failed", "Cancelled", "Completed"} : Good(FinishJob(s, i, st))
  BY FinishJobGood DEF Terminal
<1>4. QED
  BY <1>2, <1>3, AbandonGood DEF OnLegDone

\* Writing the link, for a weighed job.
LEMMA WriteLinkGood ==
    ASSUME NEW s, Good(s), NEW i \in JobIds, Covered(s, i), i < s.nextId
    PROVE  Good(WriteLink(s, i)) /\ Good(OnLinkRead(s, i))
<1>1. Good(Issue(s, i, s.job[i].dst, "symlink"))
  BY IssueGood DEF CallOps
<1>2. Good(Issue(s, i, s.job[i].dst, "remove"))
  BY IssueGood DEF CallOps
<1>3. QED
  BY <1>1, <1>2, AbandonGood DEF WriteLink, OnLinkRead

-----------------------------------------------------------------------------
(* Enqueueing and walking *)

\* What one listing or selection adds: queued jobs that name both endpoints,
\* and links recorded as skipped.
LEMMA AddJobsGood ==
    ASSUME NEW s, Good(s), NEW src \in Fs, NEW dst \in Fs, NEW n \in Nat,
           NEW kinds \in [1..n -> LeafKinds], s.nextId + n =< MaxJobs + 1
    PROVE  Good(AddJobs(s, src, dst, n, kinds))
<1> DEFINE new == s.nextId .. (s.nextId + n - 1)
           kind(i) == kinds[i - s.nextId + 1]
           st == [i \in JobIds |->
                    IF i \notin new THEN s.state[i]
                    ELSE IF kind(i) = "skippedLink" THEN "Skipped" ELSE "Queued"]
           jb == [i \in JobIds |->
                    IF i \notin new THEN s.job[i]
                    ELSE [kind |-> IF kind(i) = "file" THEN "Copy" ELSE "Link",
                          src |-> src, dst |-> dst, weighed |-> NoFs,
                          existed |-> FALSE]]
           m == s.nextId + n
           t == [s EXCEPT !.state = st, !.job = jb, !.nextId = m]
<1>1. s \in Queue /\ s.nextId \in Nat \ {0} /\ MaxJobs \in Nat
  <2>1. s \in Queue
    BY DEF Good
  <2>2. s.nextId \in 1..(MaxJobs + 1) /\ MaxJobs \in Nat
    BY <2>1, Ids DEF Queue
  <2>3. QED
    BY <2>1, <2>2
<1>2. m \in 1..(MaxJobs + 1) /\ m >= s.nextId
  BY <1>1
<1>3. /\ \A i \in JobIds : i \notin new =>
             st[i] = s.state[i] /\ jb[i] = s.job[i]
      /\ \A i \in JobIds : i \in new =>
             /\ st[i] \in {"Queued", "Skipped"}
             /\ jb[i].src = src /\ jb[i].dst = dst /\ jb[i].weighed = NoFs
  OBVIOUS
<1>4. st \in [JobIds -> JobStates]
  BY <1>1 DEF Queue, JobStates, Terminal
<1>5. jb \in [JobIds -> Job]
  BY <1>1 DEF Queue, Job
<1>6. AddJobs(s, src, dst, n, kinds) = t
  BY DEF AddJobs
<1>7. \A i \in JobIds : i \in new => i >= s.nextId /\ i < m
  BY <1>1, Ids
<1> HIDE DEF st, jb, m, new, kind
<1>8. t \in Queue
  <2>1. [s EXCEPT !.state = st] \in Queue
    BY ZenonT(60), <1>1, <1>4 DEF Queue
  <2>2. [[s EXCEPT !.state = st] EXCEPT !.job = jb] \in Queue
    BY ZenonT(60), <1>5, <2>1 DEF Queue
  <2>3. [[[s EXCEPT !.state = st] EXCEPT !.job = jb] EXCEPT !.nextId = m]
            \in Queue
    BY ZenonT(60), <1>2, <2>2 DEF Queue
  <2>4. QED
    BY <2>3
<1>9. /\ t.state = st /\ t.job = jb /\ t.call = s.call /\ t.nextId = m
      /\ t.preflight = s.preflight /\ t.checks = s.checks
      /\ t.loop = s.loop
  BY <1>1 DEF Queue
<1> HIDE DEF t
<1>10. Addressed(t)
  <2> SUFFICES ASSUME NEW i \in Queued(t)
               PROVE  t.job[i].src \in Fs /\ t.job[i].dst \in Fs
    BY DEF Addressed
  <2>1. CASE i \in new
    BY <1>3, <1>9, <2>1 DEF Queued
  <2>2. CASE i \notin new
    BY <1>3, <1>9, <2>2 DEF Good, Addressed, Queued
  <2>3. QED
    BY <2>1, <2>2
<1>11. Weighed(t)
  <2> SUFFICES ASSUME NEW i \in JobIds,
                      t.state[i] \in InFlight \union {"Completed", "Failed"}
                        \/ t.call[i] # "none"
               PROVE  Covered(t, i)
    BY DEF Weighed
  <2>1. i \notin new
    BY <1>1, <1>3, <1>7, <1>9 DEF Good, Fresh, InFlight
  <2>2. QED
    BY <1>3, <1>9, <2>1 DEF Good, Weighed, Covered
<1>12. Fresh(t)
  <2> SUFFICES ASSUME NEW i \in JobIds, i >= m
               PROVE  t.state[i] = "Absent" /\ t.call[i] = "none"
    BY <1>9 DEF Fresh
  <2>1. i \notin new /\ i >= s.nextId
    BY <1>1, <1>2, <1>7, Ids
  <2>2. QED
    BY <1>3, <1>9, <2>1 DEF Good, Fresh
<1>13. CheckCount(t)
  BY <1>3, <1>9 DEF Good, CheckCount
<1>14. QED
  BY <1>6, <1>8, <1>10, <1>11, <1>12, <1>13 DEF Good

\* Directories found concern no job.
LEMMA AddDirsGood ==
    ASSUME NEW s, Good(s), NEW src \in Fs, NEW dst \in Fs,
           NEW depth \in 0..MaxTreeDepth, NEW n \in Nat,
           s.nextDir + n =< MaxDirs + 1
    PROVE  Good(AddDirs(s, src, dst, depth, n))
<1> DEFINE new == s.nextDir .. (s.nextDir + n - 1)
           dr == [d \in DirIds |->
                    IF d \in new THEN [src |-> src, dst |-> dst, depth |-> depth]
                    ELSE s.dir[d]]
           visit == s.toVisit \union new
           make == s.toMake \union new
           m == s.nextDir + n
           t == [s EXCEPT !.dir = dr, !.toVisit = visit, !.toMake = make,
                          !.nextDir = m]
<1>1. s \in Queue
  BY DEF Good
<1>2. s.nextDir \in 1..(MaxDirs + 1) /\ MaxDirs \in Nat
  BY <1>1, Ids DEF Queue
<1>3. m \in 1..(MaxDirs + 1) /\ new \subseteq DirIds
  BY <1>2 DEF DirIds
<1>4. dr \in [DirIds -> Dir]
  BY <1>1 DEF Queue, Dir
<1>5. visit \in SUBSET DirIds /\ make \in SUBSET DirIds
  BY <1>1, <1>3 DEF Queue
<1>6. AddDirs(s, src, dst, depth, n) = t
  BY DEF AddDirs
<1> HIDE DEF dr, visit, make, m, new
<1>7. t \in Queue
  <2>1. [s EXCEPT !.dir = dr] \in Queue
    BY SMTT(60), <1>1, <1>4 DEF Queue
  <2>2. [[s EXCEPT !.dir = dr] EXCEPT !.toVisit = visit] \in Queue
    BY ZenonT(60), <1>5, <2>1 DEF Queue
  <2>3. [[[s EXCEPT !.dir = dr] EXCEPT !.toVisit = visit]
            EXCEPT !.toMake = make] \in Queue
    BY ZenonT(60), <1>5, <2>2 DEF Queue
  <2>4. [[[[s EXCEPT !.dir = dr] EXCEPT !.toVisit = visit]
            EXCEPT !.toMake = make] EXCEPT !.nextDir = m] \in Queue
    BY ZenonT(60), <1>3, <2>3 DEF Queue
  <2>5. QED
    BY <2>4
<1>8. /\ t.state = s.state /\ t.job = s.job /\ t.call = s.call
      /\ t.nextId = s.nextId /\ t.preflight = s.preflight
      /\ t.checks = s.checks /\ t.loop = s.loop
  BY <1>1 DEF Queue
<1> HIDE DEF t
<1>9. QED
  BY <1>6, <1>7, <1>8, GoodFrame

\* The walk's next listing, or its end.
LEMMA StepEnumerationGood ==
    ASSUME NEW s, Good(s)
    PROVE  Good(StepEnumeration(s))
<1>1. s \in Queue
  BY DEF Good
<1>2. Good(FinishEnumeration(s))
  <2> DEFINE t == [s EXCEPT !.enumerating = FALSE, !.enumCancelled = FALSE,
                            !.owed = {}]
  <2>1. t \in Queue
    <3>1. [s EXCEPT !.enumerating = FALSE] \in Queue
      BY ZenonT(60), <1>1 DEF Queue
    <3>2. [[s EXCEPT !.enumerating = FALSE] EXCEPT !.enumCancelled = FALSE]
            \in Queue
      BY ZenonT(60), <3>1 DEF Queue
    <3>3. [[[s EXCEPT !.enumerating = FALSE] EXCEPT !.enumCancelled = FALSE]
              EXCEPT !.owed = {}] \in Queue
      BY ZenonT(60), <3>2 DEF Queue
    <3>4. QED
      BY <3>3
  <2>2. /\ t.state = s.state /\ t.job = s.job /\ t.call = s.call
        /\ t.nextId = s.nextId /\ t.preflight = s.preflight
        /\ t.checks = s.checks /\ t.loop = s.loop
    BY <1>1 DEF Queue
  <2>3. FinishEnumeration(s) = Pump(t)
    BY DEF FinishEnumeration
  <2> HIDE DEF t
  <2>4. QED
    BY <2>1, <2>2, <2>3, GoodFrame, PumpGood
<1>3. ASSUME s.toVisit # {}
      PROVE  Good(StepEnumeration(s))
  <2> DEFINE d == Min(s.toVisit)
             f == s.dir[d].src
             visit == s.toVisit \ {d}
             x == IF f \in s.stopped THEN s.listings
                  ELSE s.listings \union {d}
             y == IF f \in s.stopped THEN s.lostListings \union {d}
                  ELSE s.lostListings
             z == Fault(s, f)
             t == [s EXCEPT !.toVisit = visit, !.listings = x,
                            !.lostListings = y, !.fault = z]
  <2>1. d \in DirIds
    <3>1. s.toVisit \subseteq Nat /\ s.toVisit \subseteq DirIds
      BY <1>1, Ids
    <3>2. QED
      BY <1>3, <3>1, MinMember
  <2>2. StepEnumeration(s) = t
    BY <1>3 DEF StepEnumeration
  <2> HIDE DEF d
  <2>3. /\ visit \in SUBSET DirIds /\ x \in SUBSET DirIds
        /\ y \in SUBSET DirIds /\ z \in BOOLEAN
    BY <1>1, <2>1 DEF Queue, Fault
  <2> HIDE DEF visit, x, y, z
  <2>4. t \in Queue
    <3>1. [s EXCEPT !.toVisit = visit] \in Queue
      BY SMTT(60), <1>1, <2>3 DEF Queue
    <3>2. [[s EXCEPT !.toVisit = visit] EXCEPT !.listings = x] \in Queue
      BY ZenonT(60), <2>3, <3>1 DEF Queue
    <3>3. [[[s EXCEPT !.toVisit = visit] EXCEPT !.listings = x]
              EXCEPT !.lostListings = y] \in Queue
      BY ZenonT(60), <2>3, <3>2 DEF Queue
    <3>4. [[[[s EXCEPT !.toVisit = visit] EXCEPT !.listings = x]
              EXCEPT !.lostListings = y] EXCEPT !.fault = z] \in Queue
      BY ZenonT(60), <2>3, <3>3 DEF Queue
    <3>5. QED
      BY <3>4
  <2>5. /\ t.state = s.state /\ t.job = s.job /\ t.call = s.call
        /\ t.nextId = s.nextId /\ t.preflight = s.preflight
        /\ t.checks = s.checks /\ t.loop = s.loop
    BY <1>1 DEF Queue
  <2> HIDE DEF t
  <2>6. QED
    BY <2>2, <2>4, <2>5, GoodFrame
<1>4. QED
  BY <1>2, <1>3 DEF StepEnumeration

\* A listing adds jobs nobody has weighed or waits for.
LEMMA AbsorbListingGood ==
    ASSUME NEW s, Good(s), NEW d \in DirIds, NEW n \in Nat,
           NEW kinds \in [1..n -> LeafKinds], NEW subdirs \in Nat, NEW err,
           s.nextId + n =< MaxJobs + 1, s.nextDir + subdirs =< MaxDirs + 1
    PROVE  Good(AbsorbListing(s, d, n, kinds, subdirs, err))
<1> DEFINE r == s.dir[d]
           visit == IF err = "gone" THEN {} ELSE s.toVisit
           unread == IF err = "none" THEN s.unreadable ELSE s.unreadable \union {d}
           t == [s EXCEPT !.toVisit = visit, !.unreadable = unread]
           u == AddJobs(t, r.src, r.dst, n, kinds)
<1>1. s \in Queue
  BY DEF Good
<1>2. visit \in SUBSET DirIds /\ unread \in SUBSET DirIds
  BY <1>1 DEF Queue
<1>3. r \in Dir
  BY <1>1 DEF Queue
<1>4. r.src \in Fs /\ r.dst \in Fs /\ r.depth \in 0..MaxTreeDepth
  BY <1>3 DEF Dir
<1>5. AbsorbListing(s, d, n, kinds, subdirs, err) =
        IF r.depth + 1 >= MaxTreeDepth THEN u
        ELSE AddDirs(u, r.src, r.dst, r.depth + 1, subdirs)
  BY DEF AbsorbListing
<1> HIDE DEF visit, unread, r
<1>6. t \in Queue
  <2>1. [s EXCEPT !.toVisit = visit] \in Queue
    BY ZenonT(60), <1>1, <1>2 DEF Queue
  <2>2. [[s EXCEPT !.toVisit = visit] EXCEPT !.unreadable = unread] \in Queue
    BY ZenonT(60), <1>2, <2>1 DEF Queue
  <2>3. QED
    BY <2>2
<1>7. /\ t.state = s.state /\ t.job = s.job /\ t.call = s.call
      /\ t.nextId = s.nextId /\ t.preflight = s.preflight
      /\ t.checks = s.checks /\ t.loop = s.loop /\ t.nextDir = s.nextDir
  BY <1>1 DEF Queue
<1> HIDE DEF t
<1>8. Good(t)
  BY <1>6, <1>7, GoodFrame
<1>9. Good(u)
  BY <1>4, <1>7, <1>8, AddJobsGood
<1>10. u.nextDir = s.nextDir
  BY <1>6, <1>7 DEF AddJobs, Queue
<1> HIDE DEF u
<1>11. CASE r.depth + 1 >= MaxTreeDepth
  BY <1>5, <1>9, <1>11
<1>12. CASE ~(r.depth + 1 >= MaxTreeDepth)
  <2>1. MaxTreeDepth \in Nat
    BY <1>1, Ids
  <2>2. r.depth + 1 \in 0..MaxTreeDepth
    <3> DEFINE e == r.depth
    <3>1. e \in 0..MaxTreeDepth /\ ~(e + 1 >= MaxTreeDepth)
      BY <1>4, <1>12
    <3> HIDE DEF e
    <3>2. e + 1 \in 0..MaxTreeDepth
      BY <2>1, <3>1
    <3>3. QED
      BY <3>2 DEF e
  <2>3. QED
    BY <1>4, <1>5, <1>9, <1>10, <1>12, <2>2, AddDirsGood
<1>13. QED
  BY <1>11, <1>12

\* A tree is added to the walk or begins one.
LEMMA EnqueueTreeGood ==
    ASSUME NEW s, Good(s), NEW src \in Fs, NEW dst \in Fs, s.nextDir =< MaxDirs
    PROVE  Good(EnqueueTree(s, src, dst))
<1> DEFINE v == AddDirs(s, src, dst, 0, 1)
           x == v.owed \union {s.nextDir}
           t == [v EXCEPT !.owed = x]
           u == [t EXCEPT !.enumerating = TRUE]
<1>1. s \in Queue
  BY DEF Good
<1>2. s.nextDir \in DirIds /\ s.nextDir + 1 =< MaxDirs + 1
  <2>1. s.nextDir \in 1..(MaxDirs + 1) /\ MaxDirs \in Nat
    BY <1>1, Ids DEF Queue
  <2>2. QED
    BY <2>1 DEF DirIds
<1>3. 0 \in 0..MaxTreeDepth /\ 1 \in Nat
  BY <1>1, Ids
<1>4. Good(v)
  BY <1>2, <1>3, AddDirsGood
<1>5. EnqueueTree(s, src, dst) =
        IF s.enumerating THEN t ELSE StepEnumeration(u)
  BY DEF EnqueueTree
<1> HIDE DEF v
<1>6. v \in Queue /\ x \in SUBSET DirIds
  BY <1>2, <1>4 DEF Good, Queue
<1> HIDE DEF x
<1>7. t \in Queue
  BY SMTT(60), <1>6 DEF Queue
<1>8. /\ t.state = v.state /\ t.job = v.job /\ t.call = v.call
      /\ t.nextId = v.nextId /\ t.preflight = v.preflight
      /\ t.checks = v.checks /\ t.loop = v.loop
  BY <1>6 DEF Queue
<1> HIDE DEF t
<1>9. Good(t)
  BY <1>4, <1>7, <1>8, GoodFrame
<1>10. u \in Queue
  BY ZenonT(60), <1>7 DEF Queue
<1>11. /\ u.state = t.state /\ u.job = t.job /\ u.call = t.call
       /\ u.nextId = t.nextId /\ u.preflight = t.preflight
       /\ u.checks = t.checks /\ u.loop = t.loop
  BY <1>7 DEF Queue
<1> HIDE DEF u
<1>12. QED
  BY <1>5, <1>9, <1>10, <1>11, GoodFrame, StepEnumerationGood

-----------------------------------------------------------------------------
(* The space check *)

\* The answer is handled with its query taken off the list and the check still
\* under way.
LEMMA OnPreflightSpaceGood ==
    ASSUME NEW s \in Queue, Addressed(s), Weighed(s), Fresh(s),
           s.preflight = "Checking", s.checks = {}, s.loop # "batch",
           NEW measured \in Fs, NEW short \in BOOLEAN
    PROVE  Good(OnPreflightSpace(s, measured, short))
<1> DEFINE volume == s.job[Min(Unchecked(s))].dst
           jb == [i \in JobIds |->
                    IF i \in Queued(s) /\ s.job[i].dst = volume
                    THEN [s.job[i] EXCEPT !.weighed = measured]
                    ELSE s.job[i]]
           t == [s EXCEPT !.job = jb, !.unreadable = {}]
           c == [kind |-> "prompt", fs |-> volume, climb |-> 0]
           u == [t EXCEPT !.checks = t.checks \union {c}]
<1>1. CASE Unchecked(s) = {}
  BY <1>1, ClearPreflightGood DEF OnPreflightSpace
<1>2. CASE Unchecked(s) # {}
  <2>1. Min(Unchecked(s)) \in Queued(s)
    <3>1. Unchecked(s) \subseteq Nat /\ Unchecked(s) \subseteq Queued(s)
      BY Ids DEF Unchecked
    <3>2. QED
      BY <1>2, <3>1, MinMember
  <2>2. volume \in Fs
    BY <2>1 DEF Addressed
  <2>3. OnPreflightSpace(s, measured, short) =
          IF ~short /\ s.unreadable = {} THEN ClearPreflight(t) ELSE u
    BY <1>2 DEF OnPreflightSpace
  <2> HIDE DEF volume
  <2>4. jb \in [JobIds -> Job]
    BY DEF Queue, Job
  <2>5. \A i \in JobIds :
          /\ jb[i].src = s.job[i].src /\ jb[i].dst = s.job[i].dst
          /\ jb[i].weighed \in {s.job[i].weighed, measured}
    BY DEF Queue, Job
  <2>6. measured # NoFs
    BY QueueAssumption
  <2> HIDE DEF jb
  <2>7. t \in Queue
    <3>1. [s EXCEPT !.job = jb] \in Queue
      BY SMTT(60), <2>4 DEF Queue
    <3>2. [[s EXCEPT !.job = jb] EXCEPT !.unreadable = {}] \in Queue
      BY ZenonT(60), <3>1 DEF Queue
    <3>3. QED
      BY <3>2
  <2>8. /\ t.state = s.state /\ t.job = jb /\ t.call = s.call
        /\ t.nextId = s.nextId /\ t.preflight = "Checking"
        /\ t.checks = {} /\ t.loop = s.loop
    BY DEF Queue
  <2> HIDE DEF t
  <2>9. Addressed(t) /\ Weighed(t) /\ Fresh(t)
    BY <2>5, <2>6, <2>8 DEF Addressed, Queued, Weighed, Covered, Fresh
  <2>10. Good(ClearPreflight(t))
    BY <2>7, <2>8, <2>9, ClearPreflightGood
  <2>11. c \in Check
    BY <2>2, Ids DEF Check
  <2> HIDE DEF c
  <2>12. u \in Queue
    BY SMTT(60), <2>7, <2>11 DEF Queue
  <2>13. /\ u.state = t.state /\ u.job = t.job /\ u.call = t.call
         /\ u.nextId = t.nextId /\ u.preflight = t.preflight
         /\ u.checks = {c} /\ u.loop = t.loop
    BY <2>7, <2>8 DEF Queue
  <2> HIDE DEF u
  <2>14. Good(u)
    BY <2>8, <2>9, <2>11, <2>12, <2>13
       DEF Good, Addressed, Queued, Weighed, Covered, Fresh, CheckCount
  <2>15. QED
    BY <2>3, <2>10, <2>14
<1>3. QED
  BY <1>1, <1>2

\* Reached from a warning that was declined: nothing is out any more, and the
\* verdict is still pending.
LEMMA CancelBatchForGood ==
    ASSUME NEW s \in Queue, Addressed(s), Weighed(s), Fresh(s),
           s.preflight = "Checking", s.checks = {}, NEW volume \in Fs
    PROVE  Good(CancelBatchFor(s, volume))
<1> DEFINE make == {d \in s.toMake : s.dir[d].dst # volume}
           visit == {d \in s.toVisit : s.dir[d].dst # volume}
           ids == {i \in Unfinished(s) : s.job[i].dst = volume}
           t == [s EXCEPT !.toMake = make, !.toVisit = visit, !.loop = "batch",
                          !.volume = volume, !.todo = ids]
<1>1. /\ make \in SUBSET DirIds /\ visit \in SUBSET DirIds
      /\ ids \in SUBSET JobIds
  BY DEF Queue, Unfinished
<1>2. CancelBatchFor(s, volume) = t
  BY DEF CancelBatchFor
<1> HIDE DEF make, visit, ids
<1>3. t \in Queue
  <2>1. [s EXCEPT !.toMake = make] \in Queue
    BY SMTT(60), <1>1 DEF Queue
  <2>2. [[s EXCEPT !.toMake = make] EXCEPT !.toVisit = visit] \in Queue
    BY ZenonT(60), <1>1, <2>1 DEF Queue
  <2>3. [[[s EXCEPT !.toMake = make] EXCEPT !.toVisit = visit]
            EXCEPT !.loop = "batch"] \in Queue
    BY ZenonT(60), <2>2 DEF Queue
  <2>4. [[[[s EXCEPT !.toMake = make] EXCEPT !.toVisit = visit]
            EXCEPT !.loop = "batch"] EXCEPT !.volume = volume] \in Queue
    BY ZenonT(60), <2>3 DEF Queue
  <2>5. [[[[[s EXCEPT !.toMake = make] EXCEPT !.toVisit = visit]
            EXCEPT !.loop = "batch"] EXCEPT !.volume = volume]
            EXCEPT !.todo = ids] \in Queue
    BY ZenonT(60), <1>1, <2>4 DEF Queue
  <2>6. QED
    BY <2>5
<1>4. /\ t.state = s.state /\ t.job = s.job /\ t.call = s.call
      /\ t.nextId = s.nextId /\ t.preflight = s.preflight
      /\ t.checks = s.checks /\ t.loop = "batch"
  BY DEF Queue
<1> HIDE DEF t
<1>5. QED
  BY <1>2, <1>3, <1>4
     DEF Good, Addressed, Queued, Weighed, Covered, Fresh, CheckCount

-----------------------------------------------------------------------------
(* Control *)

\* A cancel asks the endpoint or retires the job.
LEMMA CancelJobGood ==
    ASSUME NEW s, Good(s), NEW i \in JobIds
    PROVE  Good(CancelJob(s, i))
<1> DEFINE told == s.asked \union {j \in {s.handle} \ {0} :
                       s.call[j] \in Legs /\ Carrier(s, j) = s.owner}
           y == Fault(s, s.owner)
           t == [s EXCEPT !.cancelling = TRUE, !.asked = told, !.fault = y]
<1>1. s \in Queue
  BY DEF Good
<1>2. told \in SUBSET JobIds /\ y \in BOOLEAN
  <2>1. s.handle \in 0..MaxJobs /\ s.asked \in SUBSET JobIds /\ y \in BOOLEAN
    BY <1>1 DEF Queue, Fault
  <2>2. s.handle # 0 => s.handle \in JobIds
    BY <1>1, <2>1, Ids DEF JobIds
  <2>3. QED
    BY <2>1, <2>2
<1> HIDE DEF told, y
<1>3. t \in Queue
  <2>1. [s EXCEPT !.cancelling = TRUE] \in Queue
    BY ZenonT(60), <1>1 DEF Queue
  <2>2. [[s EXCEPT !.cancelling = TRUE] EXCEPT !.asked = told] \in Queue
    BY ZenonT(60), <1>2, <2>1 DEF Queue
  <2>3. [[[s EXCEPT !.cancelling = TRUE] EXCEPT !.asked = told]
            EXCEPT !.fault = y] \in Queue
    BY ZenonT(60), <1>2, <2>2 DEF Queue
  <2>4. QED
    BY <2>3
<1>4. /\ t.state = s.state /\ t.job = s.job /\ t.call = s.call
      /\ t.nextId = s.nextId /\ t.preflight = s.preflight
      /\ t.checks = s.checks /\ t.loop = s.loop
  BY <1>1 DEF Queue
<1>5. CancelJob(s, i) \in {s, t, FinishJob(s, i, "Cancelled")}
  BY DEF CancelJob, told, y
<1> HIDE DEF t
<1>6. Good(t)
  BY <1>3, <1>4, GoodFrame
<1>7. Good(FinishJob(s, i, "Cancelled"))
  BY FinishJobGood DEF Terminal
<1>8. QED
  BY <1>5, <1>6, <1>7

\* The job that loses an endpoint leaves the queue in the same step, so only the
\* other queued jobs have to name theirs.
LEMMA RetireForSessionGood ==
    ASSUME NEW s, Good(s), NEW i \in JobIds
    PROVE  Good(RetireForSession(s, i))
<1> DEFINE drop(f) == IF f = s.volume THEN NoFs ELSE f
           x == drop(s.job[i].src)
           y == drop(s.job[i].dst)
           b == [s.job[i] EXCEPT !.src = x, !.dst = y]
           t == [s EXCEPT !.job[i].src = x, !.job[i].dst = y]
<1>1. s \in Queue /\ s.job[i] \in Job
  BY DEF Good, Queue
<1>2. x \in Fs \union {NoFs} /\ y \in Fs \union {NoFs}
  BY <1>1 DEF Job
<1>3. RetireForSession(s, i) = FinishJob(t, i, "Cancelled")
  BY <1>1 DEF RetireForSession, Queue, Job
<1> HIDE DEF x, y
<1>4. b \in Job /\ b.weighed = s.job[i].weighed
  BY <1>1, <1>2 DEF Job
<1> HIDE DEF b
<1>5. t = [s EXCEPT !.job[i] = b]
  BY ZenonT(60), <1>1 DEF b, Queue, Job
<1>6. t \in Queue
  BY SMTT(60), <1>1, <1>4, <1>5 DEF Queue
<1>7. /\ t.state = s.state /\ t.call = s.call
      /\ t.nextId = s.nextId /\ t.preflight = s.preflight
      /\ t.checks = s.checks /\ t.loop = s.loop
      /\ t.job = [s.job EXCEPT ![i] = b]
  BY ZenonT(60), <1>1, <1>5 DEF Queue
<1>8. /\ \A j \in JobIds : t.job[j].weighed = s.job[j].weighed
      /\ \A j \in JobIds : j # i => t.job[j] = s.job[j]
  BY <1>1, <1>4, <1>7 DEF Queue
<1> HIDE DEF t
<1>9. Weighed(t) /\ Fresh(t) /\ CheckCount(t)
  BY <1>7, <1>8 DEF Good, Weighed, Covered, Fresh, CheckCount
<1>10. CASE s.state[i] = "Absent"
  <2>1. Addressed(t)
    BY <1>7, <1>8, <1>10 DEF Good, Addressed, Queued
  <2>2. Good(t)
    BY <1>6, <1>9, <2>1 DEF Good
  <2>3. QED
    BY <1>3, <2>2, FinishJobGood DEF Terminal
<1>11. CASE s.state[i] # "Absent"
  <2> DEFINE v == [t EXCEPT !.state[i] = "Cancelled"]
  <2>1. v \in Queue
    BY ZenonT(60), <1>6 DEF Queue, JobStates, Terminal
  <2>2. /\ v.call = t.call /\ v.job = t.job
        /\ v.nextId = t.nextId /\ v.preflight = t.preflight
        /\ v.checks = t.checks /\ v.loop = t.loop
        /\ v.state[i] = "Cancelled"
        /\ \A j \in JobIds : j # i => v.state[j] = t.state[j]
    BY <1>6 DEF Queue
  <2>3. RetireForSession(s, i) = Pump(Release(v, i))
    BY <1>3, <1>7, <1>11 DEF FinishJob
  <2> HIDE DEF v
  <2>4. Addressed(v)
    BY <1>7, <1>8, <2>2 DEF Good, Addressed, Queued
  <2>5. Weighed(v)
    <3> SUFFICES ASSUME NEW j \in JobIds,
                        v.state[j] \in InFlight \union {"Completed", "Failed"}
                          \/ v.call[j] # "none"
                 PROVE  Covered(v, j)
      BY DEF Weighed
    <3>1. CASE j = i
      BY <1>7, <1>8, <1>9, <1>11, <2>2, <3>1 DEF Weighed, Covered, InFlight
    <3>2. CASE j # i
      BY <1>9, <2>2, <3>2 DEF Weighed, Covered
    <3>3. QED
      BY <3>1, <3>2
  <2>6. Fresh(v) /\ CheckCount(v)
    BY <1>7, <1>9, <1>11, <2>2 DEF Fresh, CheckCount
  <2>7. Good(v)
    BY <2>1, <2>4, <2>5, <2>6 DEF Good
  <2>8. QED
    BY <2>3, <2>7, ReleaseGood, PumpGood
<1>12. QED
  BY <1>10, <1>11

-----------------------------------------------------------------------------
(* The steps *)

\* The invariant holds at the start.
LEMMA InitGood == Init => Good(q)
<1> SUFFICES ASSUME Init PROVE Good(q)
  OBVIOUS
<1>1. q \in Queue
  <2>1. {Local} \subseteq Fs /\ RelayRoots \subseteq BOOLEAN
    BY QueueAssumption DEF Fs
  <2>2. MaxJobs \in Nat /\ MaxDirs \in Nat /\ MaxTreeDepth \in Nat
        /\ MaxRenameAttempts \in Nat
    BY QueueAssumption
  <2>3. NoJob \in Job
    BY DEF NoJob, Job
  <2>4. [src |-> Local, dst |-> Local, depth |-> 0] \in Dir
    BY <2>1, <2>2 DEF Dir
  <2>5. QED
    BY <2>1, <2>2, <2>3, <2>4 DEF Init, Queue, JobStates, CallOps, Policies
<1>2. /\ \A i \in JobIds : /\ q.state[i] = "Absent" /\ q.call[i] = "none"
                           /\ q.job[i].weighed = NoFs
      /\ q.checks = {} /\ q.preflight = "Pending" /\ q.loop = "none"
  BY DEF Init, NoJob
<1>3. Addressed(q) /\ Weighed(q) /\ Fresh(q) /\ CheckCount(q)
  BY <1>2 DEF Addressed, Queued, Weighed, Covered, Fresh, CheckCount, InFlight
<1>4. QED
  BY <1>1, <1>3 DEF Good

\* A selection is queued.
LEMMA UserEnqueueGood ==
    ASSUME Good(q), NEW r \in Routes, NEW kind \in LeafKinds,
           UserEnqueue(r, kind)
    PROVE  Good(q')
<1> DEFINE kinds == [i \in {1} |-> kind]
<1>1. r[1] \in Fs /\ r[2] \in Fs
  BY QueueAssumption
<1>2. q.nextId + 1 =< MaxJobs + 1 /\ 1 \in Nat
  <2>1. q.nextId \in Nat /\ MaxJobs \in Nat
    BY Ids DEF Good
  <2>2. QED
    BY <2>1 DEF UserEnqueue
<1>3. kinds \in [1..1 -> LeafKinds]
  OBVIOUS
<1>4. q' = Pump(AddJobs(q, r[1], r[2], 1, kinds))
  BY DEF UserEnqueue
<1> HIDE DEF kinds
<1>5. QED
  BY <1>1, <1>2, <1>3, <1>4, AddJobsGood, PumpGood

\* A directory is queued.
LEMMA UserEnqueueTreeGood ==
    ASSUME Good(q), NEW r \in Routes, UserEnqueueTree(r)
    PROVE  Good(q')
<1>1. r[1] \in Fs /\ r[2] \in Fs
  BY QueueAssumption
<1>2. QED
  BY <1>1, EnqueueTreeGood DEF UserEnqueueTree

\* Steps that only touch what the invariant does not read.
LEMMA PauseResumeGood ==
    ASSUME Good(q), Pause \/ Resume
    PROVE  Good(q')
<1>1. q \in Queue
  BY DEF Good
<1>2. \A b \in BOOLEAN : Good([q EXCEPT !.paused = b])
  <2> TAKE b \in BOOLEAN
  <2> DEFINE t == [q EXCEPT !.paused = b]
  <2>1. t \in Queue
    BY SMTT(60), <1>1 DEF Queue
  <2>2. /\ t.state = q.state /\ t.job = q.job /\ t.call = q.call
        /\ t.nextId = q.nextId /\ t.preflight = q.preflight
        /\ t.checks = q.checks /\ t.loop = q.loop
    BY <1>1 DEF Queue
  <2> HIDE DEF t
  <2>3. Good(t)
    BY <2>1, <2>2, GoodFrame
  <2>4. QED
    BY <2>3 DEF t
<1>3. QED
  BY <1>2, PumpGood DEF Pause, Resume

\* Cancel All up to its loop.
LEMMA CancelAllGood ==
    ASSUME Good(q), CancelAll
    PROVE  Good(q')
<1> DEFINE e == q.enumCancelled \/ q.enumerating
           ids == Unfinished(q)
           t == [q EXCEPT !.toVisit = {}, !.toMake = {}, !.enumCancelled = e,
                          !.loop = "all", !.todo = ids]
<1>1. q \in Queue
  BY DEF Good
<1>2. e \in BOOLEAN /\ ids \in SUBSET JobIds
  BY <1>1 DEF Queue, Unfinished
<1>3. q' = t /\ q.loop = "none"
  BY <1>1 DEF CancelAll, Ready
<1> HIDE DEF e, ids
<1>4. t \in Queue
  <2>1. [q EXCEPT !.toVisit = {}] \in Queue
    BY SMTT(60), <1>1 DEF Queue
  <2>2. [[q EXCEPT !.toVisit = {}] EXCEPT !.toMake = {}] \in Queue
    BY ZenonT(60), <2>1 DEF Queue
  <2>3. [[[q EXCEPT !.toVisit = {}] EXCEPT !.toMake = {}]
            EXCEPT !.enumCancelled = e] \in Queue
    BY ZenonT(60), <1>2, <2>2 DEF Queue
  <2>4. [[[[q EXCEPT !.toVisit = {}] EXCEPT !.toMake = {}]
            EXCEPT !.enumCancelled = e] EXCEPT !.loop = "all"] \in Queue
    BY ZenonT(60), <2>3 DEF Queue
  <2>5. [[[[[q EXCEPT !.toVisit = {}] EXCEPT !.toMake = {}]
            EXCEPT !.enumCancelled = e] EXCEPT !.loop = "all"]
            EXCEPT !.todo = ids] \in Queue
    BY ZenonT(60), <1>2, <2>4 DEF Queue
  <2>6. QED
    BY <2>5
<1>5. /\ t.state = q.state /\ t.job = q.job /\ t.call = q.call
      /\ t.nextId = q.nextId /\ t.preflight = q.preflight
      /\ t.checks = q.checks /\ t.loop = "all"
  BY <1>1 DEF Queue
<1> HIDE DEF t
<1>6. QED
  BY <1>3, <1>4, <1>5
     DEF Good, Addressed, Queued, Weighed, Covered, Fresh, CheckCount

\* Erasing finished jobs leaves callbacks of jobs that are gone.
LEMMA ClearFinishedGood ==
    ASSUME Good(q), ClearFinished
    PROVE  Good(q')
<1> DEFINE kept(i) == q.state[i] \notin Terminal
           st == [i \in JobIds |-> IF kept(i) THEN q.state[i] ELSE "Absent"]
           jb == [i \in JobIds |-> IF kept(i) THEN q.job[i] ELSE NoJob]
           t == [q EXCEPT !.state = st, !.job = jb]
<1>1. q \in Queue
  BY DEF Good
<1>2. q' = t
  BY DEF ClearFinished
<1>3. st \in [JobIds -> JobStates]
  BY <1>1 DEF Queue, JobStates
<1>4. jb \in [JobIds -> Job]
  <2>1. NoJob \in Job
    BY DEF NoJob, Job
  <2>2. QED
    BY <1>1, <2>1 DEF Queue
<1>5. \A i \in JobIds :
        \/ st[i] = q.state[i] /\ jb[i] = q.job[i]
        \/ st[i] = "Absent" /\ jb[i].weighed = NoFs
  BY DEF NoJob
<1> HIDE DEF st, jb
<1>6. t \in Queue
  <2>1. [q EXCEPT !.state = st] \in Queue
    BY SMTT(60), <1>1, <1>3 DEF Queue
  <2>2. [[q EXCEPT !.state = st] EXCEPT !.job = jb] \in Queue
    BY ZenonT(60), <1>4, <2>1 DEF Queue
  <2>3. QED
    BY <2>2
<1>7. /\ t.state = st /\ t.job = jb /\ t.call = q.call
      /\ t.nextId = q.nextId /\ t.preflight = q.preflight
      /\ t.checks = q.checks /\ t.loop = q.loop
  BY <1>1 DEF Queue
<1> HIDE DEF t
<1>8. Addressed(t) /\ Weighed(t)
  BY <1>5, <1>7 DEF Good, Addressed, Queued, Weighed, Covered
<1>9. Fresh(t) /\ CheckCount(t)
  BY <1>5, <1>7 DEF Good, Fresh, CheckCount
<1>10. QED
  BY <1>2, <1>6, <1>8, <1>9 DEF Good

\* A link drops, or a session begins to close.
LEMMA SessionEventGood ==
    ASSUME Good(q), NEW f \in Mortal, DropLink(f) \/ EndSession(f)
    PROVE  Good(q')
<1> DEFINE x == q.stopped \union {f}
           ids == {i \in Unfinished(q) : Uses(q, i, f)}
           t == [q EXCEPT !.stopped = x]
           u == [q EXCEPT !.stopped = x, !.loop = "session", !.volume = f,
                          !.todo = ids]
<1>1. q \in Queue
  BY DEF Good
<1>2. f \in Fs
  BY QueueAssumption DEF Fs
<1>3. x \in SUBSET Fs /\ ids \in SUBSET JobIds
  BY <1>1, <1>2 DEF Queue, Unfinished
<1>4. (q' = t \/ q' = u) /\ q.loop = "none"
  BY DEF DropLink, EndSession, Ready
<1> HIDE DEF x, ids
<1>5. t \in Queue
  BY SMTT(60), <1>1, <1>3 DEF Queue
<1>6. /\ t.state = q.state /\ t.job = q.job /\ t.call = q.call
      /\ t.nextId = q.nextId /\ t.preflight = q.preflight
      /\ t.checks = q.checks /\ t.loop = q.loop
  BY <1>1 DEF Queue
<1>7. u \in Queue
  <2>1. [t EXCEPT !.loop = "session"] \in Queue
    BY ZenonT(60), <1>5 DEF Queue
  <2>2. [[t EXCEPT !.loop = "session"] EXCEPT !.volume = f] \in Queue
    BY ZenonT(60), <1>2, <2>1 DEF Queue
  <2>3. [[[t EXCEPT !.loop = "session"] EXCEPT !.volume = f]
            EXCEPT !.todo = ids] \in Queue
    BY ZenonT(60), <1>3, <2>2 DEF Queue
  <2>4. QED
    BY <2>3
<1>8. /\ u.state = q.state /\ u.job = q.job /\ u.call = q.call
      /\ u.nextId = q.nextId /\ u.preflight = q.preflight
      /\ u.checks = q.checks /\ u.loop = "session"
  BY <1>1 DEF Queue
<1> HIDE DEF t, u
<1>9. Good(t)
  BY <1>5, <1>6, GoodFrame
<1>10. Good(u)
  BY <1>4, <1>7, <1>8
     DEF Good, Addressed, Queued, Weighed, Covered, Fresh, CheckCount
<1>11. QED
  BY <1>4, <1>9, <1>10

\* A turn or the end of a cancel loop; a declined warning clears the check.
LEMMA LoopGood ==
    ASSUME Good(q), Loop
    PROVE  Good(q')
<1>1. q \in Queue
  BY DEF Good
<1>2. CASE CancelNext
  <2> DEFINE i == Min(q.todo)
             x == q.todo \ {i}
             t == [q EXCEPT !.todo = x]
  <2>1. i \in JobIds
    <3>1. q.todo \subseteq JobIds /\ q.todo \subseteq Nat /\ q.todo # {}
      BY <1>1, <1>2, Ids DEF Queue, CancelNext
    <3>2. QED
      BY <3>1, MinMember
  <2>2. q' = RetireForSession(t, i) \/ q' = CancelJob(t, i)
    BY <1>2 DEF CancelNext
  <2> HIDE DEF i
  <2>3. x \in SUBSET JobIds
    BY <1>1 DEF Queue
  <2> HIDE DEF x
  <2>4. t \in Queue
    BY SMTT(60), <1>1, <2>3 DEF Queue
  <2>5. /\ t.state = q.state /\ t.job = q.job /\ t.call = q.call
        /\ t.nextId = q.nextId /\ t.preflight = q.preflight
        /\ t.checks = q.checks /\ t.loop = q.loop
    BY <1>1 DEF Queue
  <2> HIDE DEF t
  <2>6. QED
    BY <2>1, <2>2, <2>4, <2>5, GoodFrame, RetireForSessionGood, CancelJobGood
<1>3. CASE CancelDone
  <2> DEFINE t == [q EXCEPT !.loop = "none", !.volume = NoFs]
             x == q.alive \ {q.volume}
             u == [t EXCEPT !.alive = x]
  <2>1. q.loop \in {"all", "batch", "session"}
    BY <1>1, <1>3 DEF Queue, CancelDone
  <2>2. t \in Queue
    <3>1. [q EXCEPT !.loop = "none"] \in Queue
      BY SMTT(60), <1>1 DEF Queue
    <3>2. [[q EXCEPT !.loop = "none"] EXCEPT !.volume = NoFs] \in Queue
      BY ZenonT(60), <3>1 DEF Queue
    <3>3. QED
      BY <3>2
  <2>3. /\ t.state = q.state /\ t.job = q.job /\ t.call = q.call
        /\ t.nextId = q.nextId /\ t.preflight = q.preflight
        /\ t.checks = q.checks /\ t.loop = "none" /\ t.alive = q.alive
    BY <1>1 DEF Queue
  <2>4. q' = IF q.loop = "all" THEN t
             ELSE IF q.loop = "batch" THEN ClearPreflight(t)
             ELSE u
    BY <1>3, <2>1, <2>3 DEF CancelDone
  <2> HIDE DEF t
  <2>5. x \in SUBSET Fs
    BY <1>1 DEF Queue
  <2> HIDE DEF x
  <2>6. u \in Queue
    BY SMTT(60), <2>2, <2>5 DEF Queue
  <2>7. /\ u.state = t.state /\ u.job = t.job /\ u.call = t.call
        /\ u.nextId = t.nextId /\ u.preflight = t.preflight
        /\ u.checks = t.checks /\ u.loop = t.loop
    BY <2>2 DEF Queue
  <2> HIDE DEF u
  <2>8. Addressed(t) /\ Weighed(t) /\ Fresh(t)
    BY <2>3 DEF Good, Addressed, Queued, Weighed, Covered, Fresh
  <2>9. CASE q.loop = "batch"
    <3>1. t.checks = {}
      BY <2>3, <2>9 DEF Good, CheckCount
    <3>2. QED
      BY <2>2, <2>3, <2>4, <2>8, <2>9, <3>1, ClearPreflightGood
  <2>10. CASE q.loop # "batch"
    <3>1. CheckCount(t)
      BY <2>3, <2>10 DEF Good, CheckCount
    <3>2. Good(t)
      BY <2>2, <2>8, <3>1 DEF Good
    <3>3. QED
      BY <2>4, <2>6, <2>7, <2>10, <3>2, GoodFrame
  <2>11. QED
    BY <2>9, <2>10
<1>4. QED
  BY <1>2, <1>3 DEF Loop

\* A callback only ever wakes a job that was queued and weighed, if it wakes
\* one at all; handing the answer over forgets the call.
LEMMA ConsumedGood ==
    ASSUME Good(q), NEW i \in JobIds, q.call[i] # "none"
    PROVE  LET t == Consumed(i)
           IN  /\ Good(t)
               /\ Covered(t, i) /\ i < t.nextId
               /\ t.state = q.state /\ t.job = q.job /\ t.asked = q.asked
               /\ t.policy = q.policy
<1> DEFINE t == [q EXCEPT !.call[i] = "none"]
<1>1. q \in Queue
  BY DEF Good
<1>2. Covered(q, i) /\ i < q.nextId
  BY <1>1, Ids DEF Good, Weighed, Fresh
<1>3. t \in Queue
  BY ZenonT(60), <1>1 DEF Queue, CallOps
<1>4. /\ t.state = q.state /\ t.job = q.job /\ t.nextId = q.nextId
      /\ t.preflight = q.preflight /\ t.checks = q.checks
      /\ t.loop = q.loop /\ t.asked = q.asked /\ t.policy = q.policy
      /\ t.call[i] = "none"
      /\ \A j \in JobIds : j # i => t.call[j] = q.call[j]
  BY <1>1 DEF Queue
<1>5. Consumed(i) = t
  BY DEF Consumed
<1> HIDE DEF t
<1>6. Addressed(t) /\ CheckCount(t)
  BY <1>4 DEF Good, Addressed, Queued, CheckCount
<1>7. Weighed(t)
  <2> SUFFICES ASSUME NEW j \in JobIds,
                      t.state[j] \in InFlight \union {"Completed", "Failed"}
                        \/ t.call[j] # "none"
               PROVE  Covered(t, j)
    BY DEF Weighed
  <2>1. CASE j = i
    BY <1>2, <1>4, <2>1 DEF Covered
  <2>2. CASE j # i
    BY <1>4, <2>2 DEF Good, Weighed, Covered
  <2>3. QED
    BY <2>1, <2>2
<1>8. Fresh(t)
  BY <1>1, <1>2, <1>4, Ids DEF Good, Fresh
<1>9. QED
  BY <1>2, <1>3, <1>4, <1>5, <1>6, <1>7, <1>8 DEF Good, Covered

\* The answer to Stat.
LEMMA StatReplyGood ==
    ASSUME Good(q), NEW i \in JobIds, NEW exists \in BOOLEAN,
           StatReply(i, exists)
    PROVE  Good(q')
<1>1. q.call[i] # "none" /\ q' = OnConflictKnown(Consumed(i), i, exists)
  BY DEF StatReply, Answered
<1>2. QED
  BY <1>1, ConsumedGood, OnConflictKnownGood

\* The user's answer to a collision.
LEMMA PromptReplyGood ==
    ASSUME Good(q), NEW i \in JobIds, NEW resolution \in Policies \ {"Ask"},
           NEW all \in BOOLEAN, PromptReply(i, resolution, all)
    PROVE  Good(q')
<1> DEFINE p == IF all THEN resolution ELSE Consumed(i).policy
           t == [Consumed(i) EXCEPT !.policy = p]
<1>1. /\ q.call[i] # "none"
      /\ q' \in {ApplyResolution(t, i, resolution), Consumed(i)}
  BY DEF PromptReply, Answered
<1>2. /\ Good(Consumed(i)) /\ Consumed(i) \in Queue
      /\ Covered(Consumed(i), i) /\ i < Consumed(i).nextId
  BY <1>1, ConsumedGood DEF Good
<1>3. p \in Policies
  BY <1>2 DEF Queue
<1> HIDE DEF p
<1>4. t \in Queue
  BY SMTT(60), <1>2, <1>3 DEF Queue
<1>5. /\ t.state = Consumed(i).state /\ t.job = Consumed(i).job
      /\ t.call = Consumed(i).call /\ t.nextId = Consumed(i).nextId
      /\ t.preflight = Consumed(i).preflight
      /\ t.checks = Consumed(i).checks /\ t.loop = Consumed(i).loop
  BY <1>2 DEF Queue
<1> HIDE DEF t
<1>6. Good(t) /\ Covered(t, i) /\ i < t.nextId
  BY <1>2, <1>4, <1>5, GoodFrame DEF Covered
<1>7. QED
  BY <1>1, <1>2, <1>6, ApplyResolutionGood

\* The answer to a probe for a free name.
LEMMA ProbeReplyGood ==
    ASSUME Good(q), NEW i \in JobIds, NEW taken \in BOOLEAN,
           ProbeReply(i, taken)
    PROVE  Good(q')
<1> DEFINE s == Consumed(i)
           t == [s EXCEPT !.job[i].existed = FALSE]
<1>1. /\ q.call[i] # "none"
      /\ q' \in {ResolveFreeName(s, i, q.attempt[i] + 1), StartTransfer(s, i),
                 StartTransfer(t, i)}
  BY DEF ProbeReply, Answered
<1>2. Good(s) /\ Covered(s, i) /\ i < s.nextId
  BY <1>1, ConsumedGood
<1> HIDE DEF s
<1>3. Good(t) /\ Covered(t, i) /\ i < t.nextId
  BY <1>2, SetExistedGood DEF Covered
<1>4. q.attempt[i] + 1 \in Nat \ {0}
  <2>1. q.attempt[i] \in Nat
    BY QueueAssumption DEF Good, Queue
  <2>2. QED
    BY <2>1
<1> HIDE DEF t
<1>5. QED
  BY <1>1, <1>2, <1>3, <1>4, ResolveFreeNameGood, StartTransferGood

\* The end of a Download or Upload.
LEMMA LegReplyGood ==
    ASSUME Good(q), NEW i \in JobIds, NEW result, LegReply(i, result)
    PROVE  Good(q')
<1> DEFINE s == Consumed(i)
           x == s.asked \ {i}
           t == [s EXCEPT !.asked = x]
<1>1. /\ q.call[i] # "none" /\ q.call[i] \in Legs
      /\ q' = OnLegDone(t, i, result, q.call[i])
  BY DEF LegReply, Legs
<1>2. Good(s) /\ s \in Queue /\ Covered(s, i) /\ i < s.nextId
  BY <1>1, ConsumedGood DEF Good
<1> HIDE DEF s
<1>3. x \in SUBSET JobIds
  BY <1>2 DEF Queue
<1> HIDE DEF x
<1>4. t \in Queue
  BY SMTT(60), <1>2, <1>3 DEF Queue
<1>5. /\ t.state = s.state /\ t.job = s.job /\ t.call = s.call
      /\ t.nextId = s.nextId /\ t.preflight = s.preflight
      /\ t.checks = s.checks /\ t.loop = s.loop
  BY <1>2 DEF Queue
<1> HIDE DEF t
<1>6. Good(t) /\ Covered(t, i) /\ i < t.nextId
  BY <1>2, <1>4, <1>5, GoodFrame DEF Covered
<1>7. QED
  BY <1>1, <1>6, OnLegDoneGood

\* The answers to ReadLink, Remove and CreateSymlink.
LEMMA LinkReplyGood ==
    ASSUME Good(q), NEW i \in JobIds, NEW ok \in BOOLEAN, LinkReply(i, ok)
    PROVE  Good(q')
<1> DEFINE s == Consumed(i)
<1>1. /\ q.call[i] # "none"
      /\ q' \in {FinishJob(s, i, "Failed"), OnLinkRead(s, i), WriteLink(s, i),
                 FinishJob(s, i, "Completed")}
  BY DEF LinkReply
<1>2. Good(s) /\ Covered(s, i) /\ i < s.nextId
  BY <1>1, ConsumedGood
<1> HIDE DEF s
<1>3. Good(FinishJob(s, i, "Failed")) /\ Good(FinishJob(s, i, "Completed"))
  BY <1>2, FinishJobGood DEF Terminal
<1>4. QED
  BY <1>1, <1>2, <1>3, WriteLinkGood

\* A space query's answer finds exactly that query out.
LEMMA CheckReplyGood ==
    ASSUME Good(q), CheckReply
    PROVE  Good(q')
<1>1. PICK c \in q.checks :
        \/ \E answer \in {"fits", "short", "climb"} : SpaceReply(c, answer)
        \/ \E proceed \in BOOLEAN : WarningReply(c, proceed)
  BY DEF CheckReply
<1> DEFINE x == q.checks \ {c}
           t == [q EXCEPT !.checks = x]
<1>2. q \in Queue /\ q.loop = "none"
  BY <1>1 DEF Good, SpaceReply, WarningReply, Ready
<1>3. /\ q.preflight = "Checking" /\ q.checks = {c} /\ c \in Check
  BY <1>2 DEF Good, CheckCount
<1>4. x = {}
  BY <1>3
<1> HIDE DEF x
<1>5. t \in Queue
  BY SMTT(60), <1>2, <1>4 DEF Queue
<1>6. /\ t.state = q.state /\ t.job = q.job /\ t.call = q.call
      /\ t.nextId = q.nextId /\ t.preflight = "Checking"
      /\ t.checks = {} /\ t.loop = "none"
  BY <1>2, <1>3, <1>4 DEF Queue
<1>7. /\ \/ \E short \in BOOLEAN : q' = OnPreflightSpace(t, c.fs, short)
         \/ c.climb > 0 /\ q' = QuerySpaceFrom(t, c.fs, c.climb - 1)
         \/ q' = ClearPreflight(t)
         \/ q' = CancelBatchFor(t, c.fs)
  <2>1. ASSUME NEW answer \in {"fits", "short", "climb"}, SpaceReply(c, answer)
        PROVE  \/ \E short \in BOOLEAN : q' = OnPreflightSpace(t, c.fs, short)
               \/ c.climb > 0 /\ q' = QuerySpaceFrom(t, c.fs, c.climb - 1)
    <3>1. (answer = "short") \in BOOLEAN
      OBVIOUS
    <3>2. CASE answer = "climb"
      BY <2>1, <3>2 DEF SpaceReply, x
    <3>3. CASE answer # "climb"
      <4>1. q' = OnPreflightSpace(t, c.fs, answer = "short")
        BY <2>1, <3>3 DEF SpaceReply, x
      <4>2. QED
        BY <4>1, <3>1
    <3>4. QED
      BY <3>2, <3>3
  <2>2. ASSUME NEW proceed \in BOOLEAN, WarningReply(c, proceed)
        PROVE  q' = ClearPreflight(t) \/ q' = CancelBatchFor(t, c.fs)
    BY <2>2 DEF WarningReply, x
  <2>3. QED
    BY <1>1, <2>1, <2>2
<1> HIDE DEF t
<1>8. Addressed(t) /\ Weighed(t) /\ Fresh(t)
  BY <1>6 DEF Good, Addressed, Queued, Weighed, Covered, Fresh
<1>9. c.fs \in Fs /\ c.climb \in 0..MaxSpaceProbes
  BY <1>3 DEF Check
<1>10. \A short \in BOOLEAN : Good(OnPreflightSpace(t, c.fs, short))
  BY <1>5, <1>6, <1>8, <1>9, OnPreflightSpaceGood
<1>11. c.climb > 0 => Good(QuerySpaceFrom(t, c.fs, c.climb - 1))
  <2> SUFFICES ASSUME c.climb > 0
               PROVE  Good(QuerySpaceFrom(t, c.fs, c.climb - 1))
    OBVIOUS
  <2> DEFINE u == QuerySpaceFrom(t, c.fs, c.climb - 1)
  <2>1. c.climb - 1 \in 0..MaxSpaceProbes
    BY <1>2, <1>9, Ids
  <2>2. /\ u \in Queue
        /\ \E b \in Check : u.checks = {b}
        /\ u.state = t.state /\ u.job = t.job /\ u.call = t.call
        /\ u.nextId = t.nextId /\ u.preflight = t.preflight
        /\ u.loop = t.loop
    BY <1>5, <1>6, <1>9, <2>1, QuerySpaceFromAdds
  <2> HIDE DEF u
  <2>3. Good(u)
    BY <1>6, <1>8, <2>2
       DEF Good, Addressed, Queued, Weighed, Covered, Fresh, CheckCount
  <2>4. QED
    BY <2>3 DEF u
<1>12. Good(ClearPreflight(t))
  BY <1>5, <1>6, <1>8, ClearPreflightGood
<1>13. Good(CancelBatchFor(t, c.fs))
  BY <1>5, <1>6, <1>8, <1>9, CancelBatchForGood
<1>14. QED
  BY <1>7, <1>10, <1>11, <1>12, <1>13

\* A directory has been made.
LEMMA MakeReplyGood ==
    ASSUME Good(q), MakeReply
    PROVE  Good(q')
<1>1. PICK d \in DirIds : MakeDirectoryReply(d)
  BY DEF MakeReply
<1> DEFINE x == q.making \ {d}
           t == [q EXCEPT !.making = x]
<1>2. q \in Queue /\ q' = Pump(t)
  BY <1>1 DEF Good, MakeDirectoryReply
<1>3. x \in SUBSET DirIds
  BY <1>2 DEF Queue
<1> HIDE DEF x
<1>4. t \in Queue
  BY SMTT(60), <1>2, <1>3 DEF Queue
<1>5. /\ t.state = q.state /\ t.job = q.job /\ t.call = q.call
      /\ t.nextId = q.nextId /\ t.preflight = q.preflight
      /\ t.checks = q.checks /\ t.loop = q.loop
  BY <1>2 DEF Queue
<1> HIDE DEF t
<1>6. QED
  BY <1>2, <1>4, <1>5, GoodFrame, PumpGood

\* A listing has come.
LEMMA WalkReplyGood ==
    ASSUME Good(q), WalkReply
    PROVE  Good(q')
<1>1. PICK d \in DirIds, n \in 0..MaxLeaves, subdirs \in 0..MaxSubdirs,
           err \in {"none", "failed", "gone"} :
        \E kinds \in [1..n -> LeafKinds] : ListReply(d, n, kinds, subdirs, err)
  BY DEF WalkReply
<1>2. PICK kinds \in [1..n -> LeafKinds] : ListReply(d, n, kinds, subdirs, err)
  BY <1>1
<1> DEFINE x == q.listings \ {d}
           t == [q EXCEPT !.listings = x]
<1>3. /\ q \in Queue
      /\ q.nextId + n =< MaxJobs + 1 /\ q.nextDir + subdirs =< MaxDirs + 1
      /\ q' = StepEnumeration(IF q.enumCancelled THEN t
                              ELSE AbsorbListing(t, d, n, kinds, subdirs, err))
  BY <1>2 DEF Good, ListReply
<1>4. n \in Nat /\ subdirs \in Nat
  BY QueueAssumption
<1>5. x \in SUBSET DirIds
  BY <1>3 DEF Queue
<1> HIDE DEF x
<1>6. t \in Queue
  BY ZenonT(60), <1>3, <1>5 DEF Queue
<1>7. /\ t.state = q.state /\ t.job = q.job /\ t.call = q.call
      /\ t.nextId = q.nextId /\ t.preflight = q.preflight
      /\ t.checks = q.checks /\ t.loop = q.loop /\ t.nextDir = q.nextDir
  BY <1>3 DEF Queue
<1> HIDE DEF t
<1>8. Good(t)
  BY <1>6, <1>7, GoodFrame
<1>9. Good(AbsorbListing(t, d, n, kinds, subdirs, err))
  BY <1>3, <1>4, <1>7, <1>8, AbsorbListingGood
<1>10. QED
  BY <1>3, <1>8, <1>9, StepEnumerationGood

\* Every step keeps the invariant.
LEMMA NextGood == Good(q) /\ [Next]_vars => Good(q')
<1> SUFFICES ASSUME Good(q), [Next]_vars PROVE Good(q')
  OBVIOUS
<1>1. CASE User
  <2>1. ASSUME NEW i \in JobIds, UserCancelJob(i) PROVE Good(q')
    BY <2>1, CancelJobGood DEF UserCancelJob
  <2>2. QED
    BY <1>1, <2>1, UserEnqueueGood, UserEnqueueTreeGood, PauseResumeGood,
       CancelAllGood, ClearFinishedGood DEF User
<1>2. CASE SessionEvent
  BY <1>2, SessionEventGood DEF SessionEvent
<1>3. ASSUME NEW i \in JobIds, Reply(i) PROVE Good(q')
  BY <1>3, StatReplyGood, PromptReplyGood, ProbeReplyGood, LegReplyGood,
     LinkReplyGood DEF Reply
<1>4. CASE CheckReply \/ WalkReply \/ MakeReply \/ Loop
  BY <1>4, CheckReplyGood, WalkReplyGood, MakeReplyGood, LoopGood
<1>5. CASE UNCHANGED vars
  BY <1>5 DEF vars
<1>6. QED
  BY <1>1, <1>2, <1>3, <1>4, <1>5 DEF Next

Inv == Good(q)

\* The invariant holds of every behaviour, for any endpoints, routes and bounds.
THEOREM AlwaysGood == Spec => []Inv
<1>1. Init => Inv
  BY InitGood DEF Inv
<1>2. Inv /\ [Next]_vars => Inv'
  BY NextGood DEF Inv
<1>3. QED
  BY <1>1, <1>2, PTL DEF Spec

\* Every handler leaves a well-formed queue: in particular, every call it makes
\* and every id, directory and volume it records is one that exists (BeginJob,
\* BeginPreflight, CreateNextDirectory, StepEnumeration take the least member of
\* a set that is never empty when they do).
THEOREM TypeCorrect == Spec => []TypeOK
<1>1. Inv => TypeOK
  BY DEF Inv, Good, TypeOK
<1>2. QED
  BY <1>1, AlwaysGood, PTL

\* A queued job names both its endpoints whatever sessions have closed, because
\* CancelJobsUsing retires a job in the same step that clears its pointers.
THEOREM QueuedJobsAddressed == Spec => []QueuedIsAddressed
<1>1. Inv => QueuedIsAddressed
  BY DEF Inv, Good, Addressed, QueuedIsAddressed
<1>2. QED
  BY <1>1, AlwaysGood, PTL

\* No job reaches an endpoint before a space verdict has covered it: not a job
\* queued while another batch drains, and not one a late answer wakes (Pump,
\* ResolveFreeName, StartTransfer).
THEOREM WeighedFirst == Spec => []WeighedBeforeStart
<1>1. Inv => WeighedBeforeStart
  <2> SUFFICES ASSUME Inv, NEW i \in JobIds,
                      q.state[i] \in InFlight \union {"Completed", "Failed"}
               PROVE  q.job[i].weighed # NoFs
    BY DEF WeighedBeforeStart
  <2>1. q.state[i] # "Absent"
    BY DEF InFlight
  <2>2. QED
    BY <2>1 DEF Inv, Good, Weighed, Covered
<1>2. QED
  BY <1>1, AlwaysGood, PTL

\* A check under way has exactly one query or warning out, and no other time has
\* one: its answer is never handled twice and never missing (BeginPreflight,
\* QuerySpaceFrom, OnPreflightSpace).
THEOREM SingleCheck == Spec => []OneCheckOut
<1>1. Inv => OneCheckOut
  <2> SUFFICES ASSUME Inv PROVE OneCheckOut
    OBVIOUS
  <2>1. CASE q.preflight = "Checking" /\ q.loop # "batch"
    <3>1. PICK c \in Check : q.checks = {c}
      BY <2>1 DEF Inv, Good, CheckCount
    <3>2. Cardinality({c}) = 1
      BY FS_Singleton
    <3>3. QED
      BY <2>1, <3>1, <3>2 DEF OneCheckOut
  <2>2. CASE ~(q.preflight = "Checking" /\ q.loop # "batch")
    <3>1. q.checks = {}
      BY <2>2 DEF Inv, Good, CheckCount
    <3>2. QED
      BY <2>2, <3>1, FS_EmptySet DEF OneCheckOut
  <2>3. QED
    BY <2>1, <2>2
<1>2. QED
  BY <1>1, AlwaysGood, PTL

-----------------------------------------------------------------------------
(***************************************************************************)
(* The queue keeps moving and its loops are thorough: what is in flight is *)
(* awaited, what is queued will be pumped, and what a cancel or a closing  *)
(* session is about is gone when its loop has run.  The invariant is added *)
(* to Good.                                                                *)
(***************************************************************************)

\* What each state of a job in flight may wait for.
Awaits(state, call) ==
    /\ state = "Checking" => call \in {"stat", "probe", "lost"}
    /\ state = "AwaitingResolution" => call \in {"prompt", "probe", "lost"}
    /\ state = "Active" => call \in Legs \union {"readlink", "remove", "symlink", "lost"}

\* Every job but those whose answer is being handled waits for such a call, and
\* the active job is in flight.
Awaited(s, handled) ==
    /\ \A i \in JobIds \ handled : Awaits(s.state[i], s.call[i])
    /\ s.activeId # 0 => s.state[s.activeId] \in InFlight

\* A walk has one listing out, and nothing is owed without a walk.
Walk(s) ==
    IF s.enumerating
    THEN \E d \in DirIds : {s.listings, s.lostListings} = {{}, {d}}
    ELSE s.listings = {} /\ s.lostListings = {} /\ s.owed = {}

\* With work queued, something will pump the queue again; this holds in the middle
\* of a loop too.
Alert(s) ==
    (~s.paused /\ Queued(s) # {} /\ s.stopped = {}) =>
        s.enumerating \/ s.preflight = "Checking" \/ s.activeId # 0 \/ s.making # {}

\* What a loop has come past is gone, or has been told to stop.
Swept(s) ==
    LET covered(f) == s.loop = "all" \/ f = s.volume
    IN  /\ s.loop \in {"all", "batch"} =>
             /\ \A i \in Unfinished(s) :
                   covered(s.job[i].dst) => i \in s.todo \/ (i = s.activeId /\ s.cancelling)
             /\ \A d \in s.toMake : ~covered(s.dir[d].dst)
        /\ s.loop = "session" =>
             \A i \in JobIds : i \in s.todo <=> i \in Unfinished(s) /\ Uses(s, i, s.volume)

Flows(s) == Awaited(s, {}) /\ Walk(s) /\ Alert(s) /\ Swept(s)

-----------------------------------------------------------------------------
(* What the operators change of it *)

\* The fields no handler between two loops touches, ...
Steady(s, t) ==
    /\ t.loop = s.loop /\ t.volume = s.volume /\ t.todo = s.todo
    /\ t.paused = s.paused /\ t.stopped = s.stopped

\* ... those of the walk, ...
Walks(s, t) ==
    /\ t.enumerating = s.enumerating /\ t.listings = s.listings
    /\ t.lostListings = s.lostListings /\ t.owed = s.owed

\* ... and those of the jobs' progress.
Alike(s, t) ==
    /\ Steady(s, t) /\ Walks(s, t)
    /\ t.state = s.state /\ t.call = s.call /\ t.activeId = s.activeId
    /\ t.making = s.making /\ t.preflight = s.preflight

\* What a handler of an answer leaves.
Handled(s, t) == Awaited(t, {}) /\ Alert(t) /\ Steady(s, t) /\ Walks(s, t)

\* Pump starts one job of the queue or none.
Started(state, call, active, t) ==
    \/ t.state = state /\ t.call = call /\ t.activeId = active
    \/ /\ active = 0
       /\ \E j \in JobIds, x \in {"stat", "lost"} :
             /\ state[j] = "Queued"
             /\ t.state = [state EXCEPT ![j] = "Checking"]
             /\ t.call = [call EXCEPT ![j] = x]
             /\ t.activeId = j

\* The jobs' part of the invariant reads these fields only.
LEMMA AlikeFlows ==
    ASSUME NEW s, NEW t, NEW h, Alike(s, t)
    PROVE  /\ Awaited(s, h) => Awaited(t, h)
           /\ Alert(s) => Alert(t)
           /\ \A u : Handled(t, u) => Handled(s, u)
BY DEF Alike, Steady, Walks, Awaited, Alert, Queued, Handled

\* A job that starts waits for its Stat.
LEMMA StartedAwaits ==
    ASSUME NEW state \in [JobIds -> JobStates], NEW call \in [JobIds -> CallOps],
           NEW active, NEW t, NEW h, Started(state, call, active, t),
           \A i \in JobIds \ h : Awaits(state[i], call[i]),
           active # 0 => state[active] \in InFlight
    PROVE  Awaited(t, h)
<1>1. CASE t.state = state /\ t.call = call /\ t.activeId = active
  BY <1>1 DEF Awaited
<1>2. ASSUME NEW j \in JobIds, NEW x \in {"stat", "lost"},
             t.state = [state EXCEPT ![j] = "Checking"],
             t.call = [call EXCEPT ![j] = x], t.activeId = j
      PROVE  Awaited(t, h)
  <2>1. \A i \in JobIds : i # j => t.state[i] = state[i] /\ t.call[i] = call[i]
    BY <1>2
  <2>2. t.state[j] = "Checking" /\ t.call[j] = x
    BY <1>2
  <2> QED
    BY <1>2, <2>1, <2>2 DEF Awaited, Awaits, InFlight
<1> QED
  BY <1>1, <1>2 DEF Started

\* A call on a job's behalf changes what that job waits for.
LEMMA IssueDoes ==
    ASSUME NEW s \in Queue, NEW i \in JobIds, NEW f, NEW op
    PROVE  LET t == Issue(s, i, f, op)
           IN  /\ \E x \in {op, "lost"} : t.call = [s.call EXCEPT ![i] = x]
               /\ t.state = s.state /\ t.activeId = s.activeId /\ t.job = s.job
               /\ t.making = s.making /\ t.preflight = s.preflight
               /\ t.toMake = s.toMake /\ t.dir = s.dir /\ t.cancelling = s.cancelling
               /\ Steady(s, t) /\ Walks(s, t)
<1> DEFINE x == IF f \in s.stopped THEN "lost" ELSE op
           y == Fault(s, f)
           t == [s EXCEPT !.call[i] = x, !.fault = y]
<1>1. Issue(s, i, f, op) = t /\ x \in {op, "lost"}
  BY DEF Issue
<1> HIDE DEF x, y
<1>2. /\ t.call = [s.call EXCEPT ![i] = x]
      /\ t.state = s.state /\ t.activeId = s.activeId /\ t.job = s.job
      /\ t.making = s.making /\ t.preflight = s.preflight
      /\ t.toMake = s.toMake /\ t.dir = s.dir /\ t.cancelling = s.cancelling
      /\ Steady(s, t) /\ Walks(s, t)
  BY DEF Queue, Steady, Walks
<1> QED
  BY <1>1, <1>2

\* Making a directory takes it off the list; its answer will pump the queue,
\* unless the link has dropped.
LEMMA CreateNextDirectoryDoes ==
    ASSUME NEW s \in Queue
    PROVE  LET t == CreateNextDirectory(s)
           IN  /\ t.making # {} \/ t.stopped # {}
               /\ t.state = s.state /\ t.call = s.call /\ t.activeId = s.activeId
               /\ t.job = s.job /\ t.preflight = s.preflight
               /\ t.toMake \subseteq s.toMake /\ t.dir = s.dir
               /\ t.cancelling = s.cancelling
               /\ Steady(s, t) /\ Walks(s, t)
<1> DEFINE d == Min(s.toMake)
           f == s.dir[d].dst
           x == s.toMake \ {d}
           m == IF f \in s.stopped THEN s.making ELSE s.making \union {d}
           y == Fault(s, f)
           t == [s EXCEPT !.toMake = x, !.making = m, !.fault = y]
<1>1. CreateNextDirectory(s) = t
  BY DEF CreateNextDirectory
<1>2. x \subseteq s.toMake /\ (m # {} \/ s.stopped # {})
  OBVIOUS
<1> HIDE DEF x, y, m
<1>3. /\ t.making = m /\ t.stopped = s.stopped /\ t.toMake = x
      /\ t.state = s.state /\ t.call = s.call /\ t.activeId = s.activeId
      /\ t.job = s.job /\ t.preflight = s.preflight
      /\ t.dir = s.dir /\ t.cancelling = s.cancelling
      /\ Steady(s, t) /\ Walks(s, t)
  BY DEF Queue, Steady, Walks
<1> QED
  BY <1>1, <1>2, <1>3

\* A space check changes nothing but that it is under way.
LEMMA BeginPreflightDoes ==
    ASSUME NEW s \in Queue
    PROVE  LET t == BeginPreflight(s)
           IN  /\ t.preflight = "Checking" /\ t.making = s.making
               /\ t.state = s.state /\ t.call = s.call /\ t.activeId = s.activeId
               /\ t.job = s.job /\ t.toMake = s.toMake /\ t.dir = s.dir
               /\ t.cancelling = s.cancelling
               /\ Steady(s, t) /\ Walks(s, t)
<1> DEFINE f == s.job[Min(Unchecked(s))].dst
           u == [s EXCEPT !.preflight = "Checking"]
           x == u.checks \union {[kind |-> IF f \in u.stopped THEN "lost" ELSE "query",
                                  fs |-> f, climb |-> MaxSpaceProbes]}
           y == Fault(u, f)
           t == [u EXCEPT !.checks = x, !.fault = y]
<1>1. BeginPreflight(s) = t
  BY DEF BeginPreflight, QuerySpaceFrom
<1>2. u \in Queue
  BY SMTT(60) DEF Queue
<1>3. /\ u.preflight = "Checking" /\ u.making = s.making
      /\ u.state = s.state /\ u.call = s.call /\ u.activeId = s.activeId
      /\ u.job = s.job /\ u.toMake = s.toMake /\ u.dir = s.dir
      /\ u.cancelling = s.cancelling
      /\ Steady(s, u) /\ Walks(s, u)
  BY DEF Queue, Steady, Walks
<1> HIDE DEF x, y, u
<1>4. /\ t.preflight = u.preflight /\ t.making = u.making
      /\ t.state = u.state /\ t.call = u.call /\ t.activeId = u.activeId
      /\ t.job = u.job /\ t.toMake = u.toMake /\ t.dir = u.dir
      /\ t.cancelling = u.cancelling
      /\ Steady(u, t) /\ Walks(u, t)
  BY <1>2 DEF Queue, Steady, Walks
<1> HIDE DEF t
<1> QED
  BY <1>1, <1>3, <1>4 DEF Steady, Walks

\* The queue starts a job: it is active and waits for its Stat.
LEMMA BeginJobDoes ==
    ASSUME NEW s \in Queue, NEW i \in JobIds
    PROVE  LET t == BeginJob(s, i)
           IN  /\ t.state = [s.state EXCEPT ![i] = "Checking"] /\ t.activeId = i
               /\ \E x \in {"stat", "lost"} : t.call = [s.call EXCEPT ![i] = x]
               /\ t.job = s.job /\ t.toMake = s.toMake /\ t.dir = s.dir
               /\ t.cancelling = s.cancelling
               /\ Steady(s, t) /\ Walks(s, t)
<1> DEFINE u == [s EXCEPT !.state[i] = "Checking"]
           v == [u EXCEPT !.activeId = i]
<1>0. i \in 0..MaxJobs
  BY QueueAssumption DEF JobIds
<1>1. BeginJob(s, i) = Issue(v, i, s.job[i].dst, "stat")
  BY DEF BeginJob
<1>2. u \in Queue
  BY SMTT(60) DEF Queue, JobStates, InFlight
<1>3. /\ u.state = [s.state EXCEPT ![i] = "Checking"] /\ u.call = s.call
      /\ u.job = s.job /\ u.toMake = s.toMake /\ u.dir = s.dir
      /\ u.cancelling = s.cancelling
      /\ Steady(s, u) /\ Walks(s, u)
  BY DEF Queue, Steady, Walks
<1> HIDE DEF u
<1>4. v \in Queue
  BY SMTT(60), <1>0, <1>2 DEF Queue
<1>5. /\ v.state = u.state /\ v.call = u.call /\ v.activeId = i
      /\ v.job = u.job /\ v.toMake = u.toMake /\ v.dir = u.dir
      /\ v.cancelling = u.cancelling
      /\ Steady(u, v) /\ Walks(u, v)
  BY <1>2 DEF Queue, Steady, Walks
<1> HIDE DEF v
<1> QED
  BY <1>1, <1>3, <1>4, <1>5, IssueDoes DEF Steady, Walks

\* What Pump does, from wherever it is called: afterwards the queue is awake.
LEMMA PumpDoes ==
    ASSUME NEW s, Good(s)
    PROVE  LET t == Pump(s)
           IN  /\ Started(s.state, s.call, s.activeId, t) /\ Alert(t)
               /\ t.job = s.job /\ t.toMake \subseteq s.toMake /\ t.dir = s.dir
               /\ t.cancelling = s.cancelling
               /\ Steady(s, t) /\ Walks(s, t)
<1> DEFINE Does(t) == /\ Started(s.state, s.call, s.activeId, t)
                      /\ t.job = s.job /\ t.toMake \subseteq s.toMake /\ t.dir = s.dir
                      /\ t.cancelling = s.cancelling
                      /\ Steady(s, t) /\ Walks(s, t)
<1>1. s \in Queue /\ Pump(s) \in Queue
  BY PumpGood DEF Good
<1>2. Does(s)
  BY DEF Started, Steady, Walks
<1>3. Does(BeginPreflight(s)) /\ BeginPreflight(s).preflight = "Checking"
  BY <1>1, BeginPreflightDoes DEF Started
<1>4. /\ Does(CreateNextDirectory(s))
      /\ CreateNextDirectory(s).making # {} \/ CreateNextDirectory(s).stopped # {}
  BY <1>1, CreateNextDirectoryDoes DEF Started
<1>5. CASE s.enumerating
  BY <1>2, <1>5 DEF Pump, Alert
<1>6. CASE ~s.enumerating /\ Queued(s) = {}
  <2> DEFINE u == [s EXCEPT !.unreadable = {}]
  <2>1. Pump(s) = PumpDrained(s)
    BY <1>6 DEF Pump
  <2>2. /\ u.state = s.state /\ u.call = s.call /\ u.activeId = s.activeId
        /\ u.job = s.job /\ u.toMake = s.toMake /\ u.dir = s.dir
        /\ u.cancelling = s.cancelling
        /\ Steady(s, u) /\ Walks(s, u)
    BY <1>1 DEF Queue, Steady, Walks
  <2> HIDE DEF u
  <2>3. Does(u)
    BY <2>2 DEF Started
  <2>4. PumpDrained(s) \in {s, u, CreateNextDirectory(s)}
    BY DEF PumpDrained, u
  <2>5. Pump(s).state = s.state
    BY <1>1, <2>1, <2>2, <2>4, CreateNextDirectoryDoes
  <2>6. Queued(Pump(s)) = {}
    BY <1>6, <2>5 DEF Queued
  <2>7. Alert(Pump(s))
    BY <2>6 DEF Alert
  <2> QED
    BY <1>2, <1>4, <2>1, <2>3, <2>4, <2>7
<1>7. CASE /\ ~s.enumerating /\ Queued(s) # {}
           /\ s.preflight = "Pending" \/ (s.preflight = "Cleared" /\ Unchecked(s) # {})
  BY <1>3, <1>7 DEF Pump, Alert
<1>8. CASE ~s.enumerating /\ Queued(s) # {} /\ s.preflight = "Checking"
  BY <1>2, <1>8 DEF Pump, Alert
<1>9. CASE /\ ~s.enumerating /\ Queued(s) # {} /\ s.preflight = "Cleared" /\ Unchecked(s) = {}
  <2>1. Pump(s) = PumpCleared(s)
    BY <1>9 DEF Pump
  <2>2. CASE s.paused \/ s.activeId # 0
    BY <1>2, <2>1, <2>2 DEF PumpCleared, Alert
  <2>3. CASE ~s.paused /\ s.activeId = 0 /\ s.toMake # {}
    BY <1>4, <2>1, <2>3 DEF PumpCleared, Alert
  <2>4. CASE ~s.paused /\ s.activeId = 0 /\ s.toMake = {}
    <3> DEFINE i == Min(Queued(s))
    <3>1. i \in Queued(s) /\ i \in JobIds /\ s.state[i] = "Queued"
      <4>1. Queued(s) \subseteq Nat
        BY <1>1, Ids
      <4> QED
        BY <1>9, <4>1, MinMember DEF Queued
    <3>2. Pump(s) = BeginJob(s, i)
      BY <2>1, <2>4 DEF PumpCleared
    <3> HIDE DEF i
    <3>3. i # 0
      BY <3>1 DEF JobIds
    <3>4. LET t == BeginJob(s, i)
          IN  /\ t.state = [s.state EXCEPT ![i] = "Checking"] /\ t.activeId = i
              /\ \E x \in {"stat", "lost"} : t.call = [s.call EXCEPT ![i] = x]
              /\ t.job = s.job /\ t.toMake = s.toMake /\ t.dir = s.dir
              /\ t.cancelling = s.cancelling
              /\ Steady(s, t) /\ Walks(s, t)
      BY <1>1, <3>1, BeginJobDoes
    <3> DEFINE t == BeginJob(s, i)
    <3> HIDE DEF t
    <3>5. Alert(t)
      BY <3>3, <3>4 DEF Alert, t
    <3>6. Started(s.state, s.call, s.activeId, t)
      BY <2>4, <3>1, <3>4 DEF Started, t
    <3> QED
      BY <3>2, <3>4, <3>5, <3>6 DEF t
  <2> QED
    BY <2>2, <2>3, <2>4
<1> QED
  BY <1>1, <1>5, <1>6, <1>7, <1>8, <1>9 DEF Queue

-----------------------------------------------------------------------------
(* The end of a job *)

\* A finished job gives up its place, and the queue is pumped.
LEMMA FinishJobDoes ==
    ASSUME NEW s, Good(s), NEW i \in JobIds, NEW st \in Terminal,
           st \in {"Completed", "Failed"} => Covered(s, i)
    PROVE  LET t == FinishJob(s, i, st)
               state == IF s.state[i] = "Absent" THEN s.state
                        ELSE [s.state EXCEPT ![i] = st]
               active == IF s.activeId = i THEN 0 ELSE s.activeId
           IN  /\ Started(state, s.call, active, t) /\ Alert(t)
               /\ t.job = s.job /\ t.toMake \subseteq s.toMake /\ t.dir = s.dir
               /\ t.cancelling = IF s.activeId = i THEN FALSE ELSE s.cancelling
               /\ Steady(s, t) /\ Walks(s, t)
<1> DEFINE u == IF s.state[i] = "Absent" THEN s ELSE [s EXCEPT !.state[i] = st]
           v == Release(u, i)
           freed == [u EXCEPT !.activeId = 0, !.handle = 0, !.owner = NoFs,
                              !.cancelling = FALSE]
           state == IF s.state[i] = "Absent" THEN s.state ELSE [s.state EXCEPT ![i] = st]
<1>1. FinishJob(s, i, st) = Pump(v)
  BY DEF FinishJob
<1>2. Good(u) /\ u \in Queue
  <2>1. CASE s.state[i] = "Absent"
    BY <2>1 DEF Good
  <2>2. CASE s.state[i] # "Absent"
    <3>1. i < s.nextId
      BY <2>2, Ids DEF Good, Fresh
    <3>2. st \in {"Completed", "Failed"} => s.job[i].weighed # NoFs
      BY <2>2 DEF Covered
    <3>3. st \in InFlight => FALSE
      BY DEF InFlight, Terminal
    <3>4. Good([s EXCEPT !.state[i] = st])
      BY <2>2, <3>1, <3>2, <3>3, SetStateGood
    <3> QED
      BY <2>2, <3>4 DEF Good
  <2> QED
    BY <2>1, <2>2
<1>3. /\ u.state = state /\ u.call = s.call /\ u.activeId = s.activeId
      /\ u.job = s.job /\ u.toMake = s.toMake /\ u.dir = s.dir
      /\ u.cancelling = s.cancelling
      /\ Steady(s, u) /\ Walks(s, u)
  BY DEF Good, Queue, Steady, Walks
<1> HIDE DEF u, state
<1>4. Good(v)
  BY <1>2, ReleaseGood
<1>5. v = IF u.activeId # i THEN u ELSE freed
  BY DEF Release
<1>6. /\ freed.state = u.state /\ freed.call = u.call /\ freed.activeId = 0
      /\ freed.job = u.job /\ freed.toMake = u.toMake /\ freed.dir = u.dir
      /\ freed.cancelling = FALSE
      /\ Steady(u, freed) /\ Walks(u, freed)
  BY <1>2 DEF Queue, Steady, Walks
<1> HIDE DEF v, freed
<1>7. /\ v.state = state /\ v.call = s.call
      /\ v.activeId = IF s.activeId = i THEN 0 ELSE s.activeId
      /\ v.job = s.job /\ v.toMake = s.toMake /\ v.dir = s.dir
      /\ v.cancelling = IF s.activeId = i THEN FALSE ELSE s.cancelling
      /\ Steady(s, v) /\ Walks(s, v)
  BY <1>3, <1>5, <1>6 DEF Steady, Walks
<1> DEFINE t == Pump(v)
<1>8. /\ Started(v.state, v.call, v.activeId, t) /\ Alert(t)
      /\ t.job = v.job /\ t.toMake \subseteq v.toMake /\ t.dir = v.dir
      /\ t.cancelling = v.cancelling
      /\ Steady(v, t) /\ Walks(v, t)
  BY <1>4, PumpDoes
<1> HIDE DEF t
<1>9. Steady(s, t) /\ Walks(s, t)
  BY <1>7, <1>8 DEF Steady, Walks
<1> QED
  BY <1>1, <1>7, <1>8, <1>9 DEF t, state

\* Whatever a job in flight waited for, it may end.
LEMMA FinishJobFlows ==
    ASSUME NEW s, Good(s), NEW i \in JobIds, NEW st \in Terminal,
           st \in {"Completed", "Failed"} => Covered(s, i),
           Awaited(s, {i})
    PROVE  Handled(s, FinishJob(s, i, st))
<1> DEFINE t == FinishJob(s, i, st)
           state == IF s.state[i] = "Absent" THEN s.state ELSE [s.state EXCEPT ![i] = st]
           active == IF s.activeId = i THEN 0 ELSE s.activeId
<1>1. /\ s.state \in [JobIds -> JobStates] /\ s.call \in [JobIds -> CallOps]
      /\ s.activeId \in 0..MaxJobs
  BY DEF Good, Queue
<1>2. state \in [JobIds -> JobStates]
  BY <1>1 DEF JobStates, Terminal
<1>3. \A j \in JobIds \ {} : Awaits(state[j], s.call[j])
  <2>1. state[i] \notin InFlight
    BY <1>1 DEF InFlight, Terminal
  <2>2. \A j \in JobIds \ {i} : state[j] = s.state[j]
    BY <1>1
  <2> QED
    BY <2>1, <2>2 DEF Awaited, Awaits, InFlight
<1>4. active # 0 => state[active] \in InFlight
  <2>1. \A j \in JobIds \ {i} : state[j] = s.state[j]
    BY <1>1
  <2>2. active # 0 => active \in JobIds \ {i} /\ active = s.activeId
    BY <1>1, QueueAssumption DEF JobIds
  <2> HIDE DEF state, active
  <2> QED
    BY <2>1, <2>2 DEF Awaited
<1>5. /\ Started(state, s.call, active, t) /\ Alert(t) /\ Steady(s, t) /\ Walks(s, t)
  BY FinishJobDoes
<1> HIDE DEF state, active, t
<1>6. Awaited(t, {})
  BY <1>1, <1>2, <1>3, <1>4, <1>5, StartedAwaits
<1> QED
  BY <1>5, <1>6 DEF Handled, t

\* A handler that finds its job gone leaves the others as they are.
LEMMA AbandonFlows ==
    ASSUME NEW s, Good(s), NEW i \in JobIds, s.state[i] \notin InFlight,
           Awaited(s, {i})
    PROVE  Handled(s, Abandon(s))
<1> DEFINE u == [s EXCEPT !.activeId = 0]
           t == Pump(u)
<1>1. s \in Queue /\ 0 \in 0..MaxJobs
  BY Ids DEF Good
<1>2. u \in Queue
  BY SMTT(60), <1>1 DEF Queue
<1>3. /\ u.state = s.state /\ u.call = s.call /\ u.activeId = 0
      /\ u.job = s.job /\ u.nextId = s.nextId /\ u.preflight = s.preflight
      /\ u.checks = s.checks /\ u.loop = s.loop
      /\ Steady(s, u) /\ Walks(s, u)
  BY <1>1 DEF Queue, Steady, Walks
<1>4. Abandon(s) = t
  BY DEF Abandon
<1> HIDE DEF u
<1>5. Good(u)
  BY <1>2, <1>3, GoodFrame
<1>6. /\ Started(s.state, s.call, 0, t) /\ Alert(t) /\ Steady(u, t) /\ Walks(u, t)
  BY <1>3, <1>5, PumpDoes
<1>7. \A j \in JobIds \ {} : Awaits(s.state[j], s.call[j])
  BY DEF Awaited, Awaits, InFlight
<1>8. s.state \in [JobIds -> JobStates] /\ s.call \in [JobIds -> CallOps]
  BY <1>1 DEF Queue
<1> HIDE DEF t
<1>9. Awaited(t, {})
  BY <1>6, <1>7, <1>8, StartedAwaits
<1>10. Steady(s, t) /\ Walks(s, t)
  BY <1>3, <1>6 DEF Steady, Walks
<1> QED
  BY <1>4, <1>6, <1>9, <1>10 DEF Handled

-----------------------------------------------------------------------------
(* Running one job *)

\* A call that fits the job's state: the job is awaited again.
LEMMA IssueFlows ==
    ASSUME NEW s \in Queue, NEW i \in JobIds, NEW f, NEW op,
           Awaited(s, {i}), Alert(s), Awaits(s.state[i], op)
    PROVE  Handled(s, Issue(s, i, f, op))
<1> DEFINE t == Issue(s, i, f, op)
<1>1. /\ \E x \in {op, "lost"} : t.call = [s.call EXCEPT ![i] = x]
      /\ t.state = s.state /\ t.activeId = s.activeId /\ t.job = s.job
      /\ t.making = s.making /\ t.preflight = s.preflight
      /\ t.toMake = s.toMake /\ t.dir = s.dir /\ t.cancelling = s.cancelling
      /\ Steady(s, t) /\ Walks(s, t)
  BY IssueDoes
<1> HIDE DEF t
<1>2. PICK x \in {op, "lost"} : t.call = [s.call EXCEPT ![i] = x]
  BY <1>1
<1>3. s.call \in [JobIds -> CallOps]
  BY DEF Queue
<1>4. t.call[i] = x /\ \A j \in JobIds \ {i} : t.call[j] = s.call[j]
  BY <1>2, <1>3
<1>5. Awaits(s.state[i], x)
  <2>1. Awaits(s.state[i], "lost")
    BY DEF Awaits
  <2> QED
    BY <2>1
<1>6. Awaited(t, {})
  BY <1>1, <1>4, <1>5 DEF Awaited
<1>7. Alert(t)
  BY <1>1 DEF Alert, Queued, Steady, Walks
<1> QED
  BY <1>1, <1>6, <1>7 DEF Handled, t

\* A leg is for a job that is past the questions about its name.
LEMMA StartLegFlows ==
    ASSUME NEW s \in Queue, NEW i \in JobIds, NEW f \in Fs \union {NoFs},
           NEW leg \in Legs, Awaited(s, {i}), Alert(s),
           s.state[i] \notin {"Checking", "AwaitingResolution"}
    PROVE  Handled(s, StartLeg(s, i, f, leg))
<1> DEFINE h == IF s.activeId = i THEN i ELSE s.handle
           u == [s EXCEPT !.owner = f, !.handle = h]
<1>1. h \in 0..MaxJobs
  BY QueueAssumption DEF Queue, JobIds
<1>2. StartLeg(s, i, f, leg) = Issue(u, i, f, leg)
  BY DEF StartLeg
<1> HIDE DEF h
<1>3. u \in Queue
  <2>1. [s EXCEPT !.owner = f] \in Queue
    BY SMTT(60) DEF Queue
  <2>2. [[s EXCEPT !.owner = f] EXCEPT !.handle = h] \in Queue
    BY ZenonT(60), <1>1, <2>1 DEF Queue
  <2> QED
    BY <2>2
<1>4. Alike(s, u)
  BY DEF Queue, Alike, Steady, Walks
<1> HIDE DEF u
<1>5. Awaited(u, {i}) /\ Alert(u) /\ u.state = s.state
  BY <1>4, AlikeFlows DEF Alike
<1>6. Awaits(u.state[i], leg)
  BY <1>5 DEF Awaits
<1>7. Handled(u, Issue(u, i, f, leg))
  BY <1>3, <1>5, <1>6, IssueFlows
<1> QED
  BY <1>2, <1>4, <1>7, AlikeFlows

\* The transfer of a job, whatever it was doing before.
LEMMA StartTransferFlows ==
    ASSUME NEW s, Good(s), NEW i \in JobIds, Covered(s, i), i < s.nextId,
           Awaited(s, {i}), Alert(s)
    PROVE  Handled(s, StartTransfer(s, i))
<1> DEFINE u == [s EXCEPT !.state[i] = "Active"]
           src == s.job[i].src
           dst == s.job[i].dst
<1>1. CASE s.state[i] = "Absent"
  BY <1>1, AbandonFlows DEF StartTransfer, InFlight
<1>2. CASE s.state[i] # "Absent"
  <2>1. Good(u) /\ u \in Queue
    BY <1>2, SetStateGood DEF Covered, InFlight, Good
  <2>2. s \in Queue /\ u.job = s.job /\ u.nextId = s.nextId
    BY DEF Good, Queue
  <2>3. Covered(u, i) /\ i < u.nextId
    BY <1>2, <2>2 DEF Covered
  <2>4. StartTransfer(s, i) =
          IF s.job[i].kind = "Link" THEN Issue(u, i, src, "readlink")
          ELSE IF dst = Local THEN StartLeg(u, i, src, "lastLeg")
          ELSE IF src = Local THEN StartLeg(u, i, dst, "lastLeg")
          ELSE IF ~s.relay THEN FinishJob(u, i, "Failed")
          ELSE StartLeg(u, i, src, "firstLeg")
    BY <1>2 DEF StartTransfer
  <2>5. src \in Fs \union {NoFs} /\ dst \in Fs \union {NoFs}
    BY <2>2 DEF Queue, Job
  <2>6. /\ u.state = [s.state EXCEPT ![i] = "Active"]
        /\ u.call = s.call /\ u.activeId = s.activeId /\ u.making = s.making
        /\ u.preflight = s.preflight /\ Steady(s, u) /\ Walks(s, u)
    BY <2>2 DEF Queue, Steady, Walks
  <2> HIDE DEF u, src, dst
  <2>7. u.state[i] = "Active" /\ \A j \in JobIds \ {i} : u.state[j] = s.state[j]
    BY <2>2, <2>6 DEF Queue
  <2>8. Awaited(u, {i})
    BY <2>6, <2>7 DEF Awaited, InFlight
  <2>9. Queued(u) \subseteq Queued(s)
    BY <2>7 DEF Queued
  <2>10. Alert(u)
    BY <2>6, <2>9 DEF Alert, Steady, Walks
  <2>11. Awaits(u.state[i], "readlink")
    BY <2>7 DEF Awaits
  <2>12. Handled(u, Issue(u, i, src, "readlink"))
    BY <2>1, <2>8, <2>10, <2>11, IssueFlows
  <2>13. Handled(u, FinishJob(u, i, "Failed"))
    BY <2>1, <2>3, <2>8, FinishJobFlows DEF Terminal
  <2>14. \A f \in Fs \union {NoFs}, leg \in Legs : Handled(u, StartLeg(u, i, f, leg))
    BY <2>1, <2>7, <2>8, <2>10, StartLegFlows
  <2>15. Handled(u, StartTransfer(s, i))
    BY <2>4, <2>5, <2>12, <2>13, <2>14 DEF Legs
  <2> QED
    BY <2>6, <2>15 DEF Handled, Steady, Walks
<1> QED
  BY <1>1, <1>2

\* A probe for a free name is for a job that has not begun its transfer.
LEMMA ResolveFreeNameFlows ==
    ASSUME NEW s, Good(s), NEW i \in JobIds, NEW attempt \in Nat \ {0},
           Covered(s, i), Awaited(s, {i}), Alert(s), s.state[i] # "Active"
    PROVE  Handled(s, ResolveFreeName(s, i, attempt))
<1> DEFINE u == [s EXCEPT !.attempt[i] = attempt]
<1>1. s \in Queue
  BY DEF Good
<1>2. CASE s.state[i] = "Absent"
  BY <1>2, AbandonFlows DEF ResolveFreeName, InFlight
<1>3. CASE s.state[i] # "Absent" /\ attempt > MaxRenameAttempts
  BY <1>3, FinishJobFlows DEF ResolveFreeName, Terminal
<1>4. CASE s.state[i] # "Absent" /\ ~(attempt > MaxRenameAttempts)
  <2>1. attempt \in 0..MaxRenameAttempts
    BY <1>1, <1>4, Ids
  <2>2. u \in Queue
    BY SMTT(60), <1>1, <2>1 DEF Queue
  <2>3. Alike(s, u)
    BY <1>1 DEF Queue, Alike, Steady, Walks
  <2>4. ResolveFreeName(s, i, attempt) = Issue(u, i, s.job[i].dst, "probe")
    BY <1>4 DEF ResolveFreeName
  <2> HIDE DEF u
  <2>5. Awaited(u, {i}) /\ Alert(u) /\ u.state = s.state
    BY <2>3, AlikeFlows DEF Alike
  <2>6. Awaits(u.state[i], "probe")
    BY <2>5 DEF Awaits
  <2>7. Handled(u, Issue(u, i, s.job[i].dst, "probe"))
    BY <2>2, <2>5, <2>6, IssueFlows
  <2> QED
    BY <2>3, <2>4, <2>7, AlikeFlows
<1> QED
  BY <1>2, <1>3, <1>4

\* Each answer to a collision.
LEMMA ApplyResolutionFlows ==
    ASSUME NEW s, Good(s), NEW i \in JobIds, NEW resolution \in Policies \ {"Ask"},
           Covered(s, i), i < s.nextId, Awaited(s, {i}), Alert(s),
           s.state[i] # "Active"
    PROVE  Handled(s, ApplyResolution(s, i, resolution))
<1>1. Handled(s, FinishJob(s, i, "Skipped"))
  BY FinishJobFlows DEF Terminal
<1>2. Handled(s, ResolveFreeName(s, i, 1)) /\ Handled(s, StartTransfer(s, i))
  BY ResolveFreeNameFlows, StartTransferFlows
<1>3. resolution \in {"Overwrite", "Skip", "Rename"}
  BY DEF Policies
<1> QED
  BY <1>1, <1>2, <1>3 DEF ApplyResolution

\* The answer of the Stat, for a job that waited for it.
LEMMA OnConflictKnownFlows ==
    ASSUME NEW s, Good(s), NEW i \in JobIds, NEW exists \in BOOLEAN,
           Covered(s, i), i < s.nextId, Awaited(s, {i}), Alert(s),
           s.state[i] \notin {"Active", "AwaitingResolution"}
    PROVE  Handled(s, OnConflictKnown(s, i, exists))
<1> DEFINE t == [s EXCEPT !.job[i].existed = TRUE]
           u == [t EXCEPT !.state[i] = "AwaitingResolution", !.call[i] = "prompt"]
<1>1. s \in Queue
  BY DEF Good
<1>2. Good(t) /\ t \in Queue /\ t.nextId = s.nextId /\ Covered(t, i)
  BY SetExistedGood DEF Good, Covered
<1>3. Alike(s, t) /\ t.policy = s.policy
  BY <1>1 DEF Queue, Alike, Steady, Walks
<1> HIDE DEF t
<1>4. Awaited(t, {i}) /\ Alert(t) /\ t.state = s.state
  BY <1>3, AlikeFlows DEF Alike
<1>5. CASE s.state[i] # "Checking"
  BY <1>5, AbandonFlows DEF OnConflictKnown, InFlight
<1>6. CASE s.state[i] = "Checking" /\ ~exists
  BY <1>6, StartTransferFlows DEF OnConflictKnown
<1>7. CASE s.state[i] = "Checking" /\ exists /\ s.policy # "Ask"
  <2>1. s.policy \in Policies \ {"Ask"}
    BY <1>1, <1>7 DEF Queue
  <2>2. Handled(t, ApplyResolution(t, i, s.policy))
    BY <1>2, <1>4, <2>1, ApplyResolutionFlows
  <2> QED
    BY <1>3, <1>7, <2>2, AlikeFlows DEF OnConflictKnown, t
<1>8. CASE s.state[i] = "Checking" /\ exists /\ s.policy = "Ask"
  <2>1. /\ u.state = [t.state EXCEPT ![i] = "AwaitingResolution"]
        /\ u.call = [t.call EXCEPT ![i] = "prompt"]
        /\ u.activeId = t.activeId /\ u.making = t.making
        /\ u.preflight = t.preflight /\ Steady(t, u) /\ Walks(t, u)
    BY <1>2 DEF Queue, Steady, Walks
  <2>2. OnConflictKnown(s, i, exists) = u
    BY <1>8 DEF OnConflictKnown, t
  <2> HIDE DEF u
  <2>3. /\ u.state[i] = "AwaitingResolution" /\ u.call[i] = "prompt"
        /\ \A j \in JobIds \ {i} : u.state[j] = t.state[j] /\ u.call[j] = t.call[j]
    BY <1>2, <2>1 DEF Queue
  <2>4. Awaited(u, {})
    BY <1>4, <2>1, <2>3 DEF Awaited, Awaits, InFlight
  <2>5. Queued(u) \subseteq Queued(t)
    BY <2>3 DEF Queued
  <2>6. Alert(u)
    BY <1>4, <2>1, <2>5 DEF Alert, Steady, Walks
  <2>7. Handled(t, u)
    BY <2>1, <2>4, <2>6 DEF Handled
  <2> QED
    BY <1>3, <2>2, <2>7, AlikeFlows
<1> QED
  BY <1>5, <1>6, <1>7, <1>8

\* The end of a leg, for a job that waited for it.
LEMMA OnLegDoneFlows ==
    ASSUME NEW s, Good(s), NEW i \in JobIds, NEW result, NEW leg,
           Covered(s, i), i < s.nextId, Awaited(s, {i}), Alert(s),
           s.state[i] \notin {"Checking", "AwaitingResolution"}
    PROVE  Handled(s, OnLegDone(s, i, result, leg))
<1>1. s.job[i].dst \in Fs \union {NoFs}
  BY DEF Good, Queue, Job
<1>2. CASE s.state[i] = "Absent"
  BY <1>2, AbandonFlows DEF OnLegDone, InFlight
<1>3. Handled(s, StartLeg(s, i, s.job[i].dst, "lastLeg"))
  BY <1>1, StartLegFlows DEF Good, Legs
<1>4. \A st \in {"Failed", "Cancelled", "Completed"} : Handled(s, FinishJob(s, i, st))
  BY FinishJobFlows DEF Terminal
<1> QED
  BY <1>2, <1>3, <1>4 DEF OnLegDone

\* The steps of a link, for a job that is past the questions about its name.
LEMMA LinkFlows ==
    ASSUME NEW s, Good(s), NEW i \in JobIds, Covered(s, i), i < s.nextId,
           Awaited(s, {i}), Alert(s),
           s.state[i] \notin {"Checking", "AwaitingResolution"}
    PROVE  Handled(s, WriteLink(s, i)) /\ Handled(s, OnLinkRead(s, i))
<1>1. s \in Queue /\ Awaits(s.state[i], "symlink") /\ Awaits(s.state[i], "remove")
  BY DEF Good, Awaits
<1>2. Handled(s, WriteLink(s, i))
  <2>1. CASE s.state[i] = "Absent"
    BY <2>1, AbandonFlows DEF WriteLink, InFlight
  <2>2. Handled(s, Issue(s, i, s.job[i].dst, "symlink"))
    BY <1>1, IssueFlows
  <2> QED
    BY <2>1, <2>2 DEF WriteLink
<1>3. Handled(s, Issue(s, i, s.job[i].dst, "remove"))
  BY <1>1, IssueFlows
<1> QED
  BY <1>2, <1>3 DEF OnLinkRead

-----------------------------------------------------------------------------
(* Enqueueing and walking *)

\* What a handler that may touch the walk leaves.
Moved(s, t) == Awaited(t, {}) /\ Alert(t) /\ Walk(t) /\ Steady(s, t)

\* The walk's part of the invariant reads these fields only.
LEMMA HandledMoved ==
    ASSUME NEW s, NEW t, Walk(s), Handled(s, t)
    PROVE  Moved(s, t)
BY DEF Walk, Walks, Handled, Moved

\* A queue that is pumped is awake.
LEMMA PumpFlows ==
    ASSUME NEW s, Good(s), Awaited(s, {})
    PROVE  Handled(s, Pump(s))
<1> DEFINE t == Pump(s)
<1>1. /\ Started(s.state, s.call, s.activeId, t) /\ Alert(t)
      /\ Steady(s, t) /\ Walks(s, t)
  BY PumpDoes
<1>2. s.state \in [JobIds -> JobStates] /\ s.call \in [JobIds -> CallOps]
  BY DEF Good, Queue
<1> HIDE DEF t
<1>3. Awaited(t, {})
  BY <1>1, <1>2, StartedAwaits DEF Awaited
<1> QED
  BY <1>1, <1>3 DEF Handled, t

\* New jobs are queued or skipped, and no other job is touched.
LEMMA AddJobsFlows ==
    ASSUME NEW s, Good(s), NEW src, NEW dst, NEW n \in Nat,
           NEW kinds, Awaited(s, {})
    PROVE  LET t == AddJobs(s, src, dst, n, kinds)
           IN  Awaited(t, {}) /\ Steady(s, t) /\ Walks(s, t)
<1> DEFINE new == s.nextId .. (s.nextId + n - 1)
           kind(i) == kinds[i - s.nextId + 1]
           st == [i \in JobIds |->
                    IF i \notin new THEN s.state[i]
                    ELSE IF kind(i) = "skippedLink" THEN "Skipped" ELSE "Queued"]
           jb == [i \in JobIds |->
                    IF i \notin new THEN s.job[i]
                    ELSE [kind |-> IF kind(i) = "file" THEN "Copy" ELSE "Link",
                          src |-> src, dst |-> dst, weighed |-> NoFs,
                          existed |-> FALSE]]
           m == s.nextId + n
           t == [s EXCEPT !.state = st, !.job = jb, !.nextId = m]
<1>1. /\ s \in Queue /\ JobIds \subseteq Nat /\ s.nextId \in Nat
      /\ s.activeId # 0 => s.activeId \in JobIds
  BY Ids DEF Good, Queue, JobIds
<1>2. AddJobs(s, src, dst, n, kinds) = t
  BY DEF AddJobs
<1>3. \A i \in JobIds :
        \/ st[i] = s.state[i]
        \/ st[i] \in {"Queued", "Skipped"} /\ s.state[i] = "Absent"
  <2> SUFFICES ASSUME NEW i \in JobIds
               PROVE  \/ st[i] = s.state[i]
                      \/ st[i] \in {"Queued", "Skipped"} /\ s.state[i] = "Absent"
    OBVIOUS
  <2>1. CASE i \in new
    <3>1. i >= s.nextId
      BY <1>1, <2>1
    <3> QED
      BY <2>1, <3>1 DEF Good, Fresh
  <2>2. CASE i \notin new
    BY <2>2
  <2> QED
    BY <2>1, <2>2
<1> HIDE DEF st, jb, m
<1>4. /\ t.state = st /\ t.call = s.call /\ t.activeId = s.activeId
      /\ Steady(s, t) /\ Walks(s, t)
  BY <1>1 DEF Queue, Steady, Walks
<1> HIDE DEF t
<1>5. Awaited(t, {})
  BY <1>1, <1>3, <1>4 DEF Awaited, Awaits, InFlight
<1> QED
  BY <1>2, <1>4, <1>5

\* Directories found change nothing a job waits for.
LEMMA AddDirsAlike ==
    ASSUME NEW s \in Queue, NEW src, NEW dst, NEW depth, NEW n
    PROVE  Alike(s, AddDirs(s, src, dst, depth, n))
<1> DEFINE new == s.nextDir .. (s.nextDir + n - 1)
           dr == [d \in DirIds |->
                    IF d \in new THEN [src |-> src, dst |-> dst, depth |-> depth]
                    ELSE s.dir[d]]
           visit == s.toVisit \union new
           make == s.toMake \union new
           m == s.nextDir + n
           t == [s EXCEPT !.dir = dr, !.toVisit = visit, !.toMake = make,
                          !.nextDir = m]
<1>1. AddDirs(s, src, dst, depth, n) = t
  BY DEF AddDirs
<1> HIDE DEF dr, visit, make, m
<1>2. Alike(s, t)
  BY DEF Queue, Alike, Steady, Walks
<1> QED
  BY <1>1, <1>2

\* With no listing out, the next one is asked for, or the walk ends and the queue
\* is pumped.
LEMMA StepEnumerationFlows ==
    ASSUME NEW s, Good(s), Awaited(s, {}), s.enumerating,
           s.listings = {}, s.lostListings = {}
    PROVE  Moved(s, StepEnumeration(s))
<1>1. s \in Queue
  BY DEF Good
<1>2. CASE s.toVisit = {}
  <2> DEFINE u == [s EXCEPT !.enumerating = FALSE, !.enumCancelled = FALSE,
                            !.owed = {}]
  <2>1. u \in Queue
    <3>1. [s EXCEPT !.enumerating = FALSE] \in Queue
      BY ZenonT(60), <1>1 DEF Queue
    <3>2. [[s EXCEPT !.enumerating = FALSE] EXCEPT !.enumCancelled = FALSE] \in Queue
      BY ZenonT(60), <3>1 DEF Queue
    <3>3. [[[s EXCEPT !.enumerating = FALSE] EXCEPT !.enumCancelled = FALSE]
              EXCEPT !.owed = {}] \in Queue
      BY ZenonT(60), <3>2 DEF Queue
    <3> QED
      BY <3>3
  <2>2. /\ u.state = s.state /\ u.job = s.job /\ u.call = s.call
        /\ u.nextId = s.nextId /\ u.preflight = s.preflight
        /\ u.checks = s.checks /\ u.loop = s.loop
        /\ u.activeId = s.activeId /\ Steady(s, u)
        /\ ~u.enumerating /\ u.listings = {} /\ u.lostListings = {} /\ u.owed = {}
    BY <1>1 DEF Queue, Steady
  <2>3. StepEnumeration(s) = Pump(u)
    BY <1>2 DEF StepEnumeration, FinishEnumeration
  <2> HIDE DEF u
  <2>4. Good(u) /\ Awaited(u, {}) /\ Walk(u)
    BY <2>1, <2>2, GoodFrame DEF Awaited, Walk
  <2>5. Moved(u, Pump(u))
    BY <2>4, PumpFlows, HandledMoved
  <2> QED
    BY <2>2, <2>3, <2>5 DEF Moved, Steady
<1>3. CASE s.toVisit # {}
  <2> DEFINE d == Min(s.toVisit)
             f == s.dir[d].src
             visit == s.toVisit \ {d}
             x == IF f \in s.stopped THEN s.listings ELSE s.listings \union {d}
             y == IF f \in s.stopped THEN s.lostListings \union {d}
                  ELSE s.lostListings
             z == Fault(s, f)
             t == [s EXCEPT !.toVisit = visit, !.listings = x,
                            !.lostListings = y, !.fault = z]
  <2>1. d \in DirIds
    <3>1. s.toVisit \subseteq Nat /\ s.toVisit \subseteq DirIds
      BY <1>1, Ids
    <3> QED
      BY <1>3, <3>1, MinMember
  <2>2. StepEnumeration(s) = t
    BY <1>3 DEF StepEnumeration
  <2> HIDE DEF d
  <2>3. {x, y} = {{}, {d}}
    OBVIOUS
  <2> HIDE DEF visit, x, y, z
  <2>4. /\ t.state = s.state /\ t.call = s.call /\ t.activeId = s.activeId
        /\ t.enumerating /\ t.listings = x /\ t.lostListings = y /\ Steady(s, t)
    BY <1>1 DEF Queue, Steady
  <2> HIDE DEF t
  <2>5. Awaited(t, {}) /\ Alert(t)
    BY <2>4 DEF Awaited, Alert
  <2>6. Walk(t)
    BY <2>1, <2>3, <2>4 DEF Walk
  <2> QED
    BY <2>2, <2>4, <2>5, <2>6 DEF Moved
<1> QED
  BY <1>2, <1>3

\* A listing adds jobs and directories and leaves the walk as it is.
LEMMA AbsorbListingFlows ==
    ASSUME NEW s, Good(s), NEW d \in DirIds, NEW n \in Nat,
           NEW kinds \in [1..n -> LeafKinds], NEW subdirs \in Nat, NEW err,
           s.nextId + n =< MaxJobs + 1, Awaited(s, {})
    PROVE  LET t == AbsorbListing(s, d, n, kinds, subdirs, err)
           IN  Awaited(t, {}) /\ Steady(s, t) /\ Walks(s, t)
<1> DEFINE r == s.dir[d]
           visit == IF err = "gone" THEN {} ELSE s.toVisit
           unread == IF err = "none" THEN s.unreadable ELSE s.unreadable \union {d}
           t == [s EXCEPT !.toVisit = visit, !.unreadable = unread]
           u == AddJobs(t, r.src, r.dst, n, kinds)
           v == AddDirs(u, r.src, r.dst, r.depth + 1, subdirs)
<1>1. s \in Queue
  BY DEF Good
<1>2. visit \in SUBSET DirIds /\ unread \in SUBSET DirIds
  BY <1>1 DEF Queue
<1>3. r.src \in Fs /\ r.dst \in Fs
  BY <1>1 DEF Queue, Dir
<1>4. AbsorbListing(s, d, n, kinds, subdirs, err) \in {u, v}
  BY DEF AbsorbListing
<1> HIDE DEF visit, unread, r
<1>5. t \in Queue
  <2>1. [s EXCEPT !.toVisit = visit] \in Queue
    BY ZenonT(60), <1>1, <1>2 DEF Queue
  <2>2. [[s EXCEPT !.toVisit = visit] EXCEPT !.unreadable = unread] \in Queue
    BY ZenonT(60), <1>2, <2>1 DEF Queue
  <2> QED
    BY <2>2
<1>6. /\ t.state = s.state /\ t.job = s.job /\ t.call = s.call
      /\ t.nextId = s.nextId /\ t.preflight = s.preflight
      /\ t.checks = s.checks /\ t.loop = s.loop
      /\ t.activeId = s.activeId /\ Steady(s, t) /\ Walks(s, t)
  BY <1>1 DEF Queue, Steady, Walks
<1> HIDE DEF t
<1>7. Good(t) /\ Awaited(t, {})
  BY <1>5, <1>6, GoodFrame DEF Awaited
<1>8. Good(u) /\ u \in Queue
  BY <1>3, <1>6, <1>7, AddJobsGood DEF Good
<1>9. Awaited(u, {}) /\ Steady(t, u) /\ Walks(t, u)
  BY <1>7, AddJobsFlows
<1> HIDE DEF u
<1>10. Alike(u, v)
  BY <1>8, AddDirsAlike
<1> HIDE DEF v
<1>11. Awaited(v, {}) /\ Steady(u, v) /\ Walks(u, v)
  BY <1>9, <1>10, AlikeFlows DEF Alike
<1>12. \A w \in {u, v} : Awaited(w, {}) /\ Steady(s, w) /\ Walks(s, w)
  BY <1>6, <1>9, <1>11 DEF Steady, Walks
<1> QED
  BY <1>4, <1>12

\* A tree joins the walk, which asks for the next listing by itself, or begins one.
LEMMA EnqueueTreeFlows ==
    ASSUME NEW s, Good(s), NEW src \in Fs, NEW dst \in Fs, s.nextDir =< MaxDirs,
           Awaited(s, {}), Alert(s), Walk(s)
    PROVE  Moved(s, EnqueueTree(s, src, dst))
<1> DEFINE v == AddDirs(s, src, dst, 0, 1)
           x == v.owed \union {s.nextDir}
           t == [v EXCEPT !.owed = x]
           u == [t EXCEPT !.enumerating = TRUE]
<1>1. s \in Queue
  BY DEF Good
<1>2. s.nextDir \in DirIds /\ s.nextDir + 1 =< MaxDirs + 1
  <2>1. s.nextDir \in 1..(MaxDirs + 1) /\ MaxDirs \in Nat
    BY <1>1, Ids DEF Queue
  <2> QED
    BY <2>1 DEF DirIds
<1>3. 0 \in 0..MaxTreeDepth /\ 1 \in Nat
  BY <1>1, Ids
<1>4. Good(v) /\ Alike(s, v)
  BY <1>1, <1>2, <1>3, AddDirsGood, AddDirsAlike
<1>5. EnqueueTree(s, src, dst) = IF s.enumerating THEN t ELSE StepEnumeration(u)
  BY DEF EnqueueTree
<1> HIDE DEF v
<1>6. v \in Queue /\ x \in SUBSET DirIds
  BY <1>2, <1>4 DEF Good, Queue
<1> HIDE DEF x
<1>7. t \in Queue
  BY SMTT(60), <1>6 DEF Queue
<1>8. /\ t.state = v.state /\ t.job = v.job /\ t.call = v.call
      /\ t.nextId = v.nextId /\ t.preflight = v.preflight
      /\ t.checks = v.checks /\ t.loop = v.loop
      /\ t.activeId = v.activeId /\ t.making = v.making /\ Steady(v, t)
      /\ t.enumerating = v.enumerating /\ t.listings = v.listings
      /\ t.lostListings = v.lostListings
  BY <1>6 DEF Queue, Steady
<1> HIDE DEF t
<1>9. Good(t)
  BY <1>4, <1>7, <1>8, GoodFrame
<1>10. /\ t.state = s.state /\ t.call = s.call /\ t.activeId = s.activeId
       /\ t.making = s.making /\ t.preflight = s.preflight /\ Steady(s, t)
       /\ t.enumerating = s.enumerating /\ t.listings = s.listings
       /\ t.lostListings = s.lostListings
  BY <1>4, <1>8 DEF Alike, Steady, Walks
<1>11. Awaited(t, {})
  BY <1>10 DEF Awaited
<1>12. CASE s.enumerating
  <2>1. Alert(t) /\ Walk(t)
    BY <1>10, <1>12 DEF Alert, Walk
  <2> QED
    BY <1>5, <1>10, <1>11, <1>12, <2>1 DEF Moved
<1>13. CASE ~s.enumerating
  <2>1. u \in Queue
    BY ZenonT(60), <1>7 DEF Queue
  <2>2. /\ u.state = t.state /\ u.job = t.job /\ u.call = t.call
        /\ u.nextId = t.nextId /\ u.preflight = t.preflight
        /\ u.checks = t.checks /\ u.loop = t.loop
        /\ u.activeId = t.activeId /\ Steady(t, u)
        /\ u.enumerating /\ u.listings = t.listings
        /\ u.lostListings = t.lostListings
    BY <1>7 DEF Queue, Steady
  <2> HIDE DEF u
  <2>3. Good(u) /\ Awaited(u, {})
    BY <1>9, <1>11, <2>1, <2>2, GoodFrame DEF Awaited
  <2>4. u.listings = {} /\ u.lostListings = {}
    BY <1>10, <1>13, <2>2 DEF Walk
  <2>5. Moved(u, StepEnumeration(u))
    BY <2>2, <2>3, <2>4, StepEnumerationFlows
  <2> QED
    BY <1>5, <1>10, <1>13, <2>2, <2>5 DEF Moved, Steady
<1> QED
  BY <1>12, <1>13

-----------------------------------------------------------------------------
(* The space check *)

\* A verdict pumps the queue.
LEMMA ClearPreflightFlows ==
    ASSUME NEW s \in Queue, Addressed(s), Weighed(s), Fresh(s),
           s.checks = {}, s.loop # "batch", Awaited(s, {})
    PROVE  Handled(s, ClearPreflight(s))
<1> DEFINE u == [s EXCEPT !.preflight = "Cleared"]
<1>1. u \in Queue
  BY SMTT(60) DEF Queue
<1>2. /\ u.state = s.state /\ u.job = s.job /\ u.call = s.call
      /\ u.nextId = s.nextId /\ u.preflight = "Cleared"
      /\ u.checks = {} /\ u.loop = s.loop
      /\ u.activeId = s.activeId /\ Steady(s, u) /\ Walks(s, u)
  BY DEF Queue, Steady, Walks
<1>3. ClearPreflight(s) = Pump(u)
  BY DEF ClearPreflight
<1> HIDE DEF u
<1>4. Good(u)
  BY <1>1, <1>2 DEF Good, Addressed, Queued, Weighed, Covered, Fresh, CheckCount
<1>5. Awaited(u, {})
  BY <1>2 DEF Awaited
<1>6. Handled(u, Pump(u))
  BY <1>4, <1>5, PumpFlows
<1> QED
  BY <1>2, <1>3, <1>6 DEF Handled, Steady, Walks

\* The measured space is a verdict, or the warning is still to be answered.
LEMMA OnPreflightSpaceFlows ==
    ASSUME NEW s \in Queue, Addressed(s), Weighed(s), Fresh(s),
           s.preflight = "Checking", s.checks = {}, s.loop # "batch",
           NEW measured \in Fs, NEW short \in BOOLEAN, Awaited(s, {})
    PROVE  Handled(s, OnPreflightSpace(s, measured, short))
<1> DEFINE volume == s.job[Min(Unchecked(s))].dst
           jb == [i \in JobIds |->
                    IF i \in Queued(s) /\ s.job[i].dst = volume
                    THEN [s.job[i] EXCEPT !.weighed = measured]
                    ELSE s.job[i]]
           t == [s EXCEPT !.job = jb, !.unreadable = {}]
           c == [kind |-> "prompt", fs |-> volume, climb |-> 0]
           x == t.checks \union {c}
           u == [t EXCEPT !.checks = x]
<1>1. /\ Unchecked(s) = {} => OnPreflightSpace(s, measured, short) = ClearPreflight(s)
      /\ Unchecked(s) # {} => OnPreflightSpace(s, measured, short) \in {ClearPreflight(t), u}
  BY DEF OnPreflightSpace
<1>2. jb \in [JobIds -> Job]
  BY DEF Queue, Job
<1>3. \A i \in JobIds :
        /\ jb[i].src = s.job[i].src /\ jb[i].dst = s.job[i].dst
        /\ jb[i].weighed \in {s.job[i].weighed, measured}
  BY DEF Queue, Job
<1>4. measured # NoFs
  BY QueueAssumption
<1> HIDE DEF jb, c
<1>5. t \in Queue
  <2>1. [s EXCEPT !.job = jb] \in Queue
    BY SMTT(60), <1>2 DEF Queue
  <2>2. [[s EXCEPT !.job = jb] EXCEPT !.unreadable = {}] \in Queue
    BY ZenonT(60), <2>1 DEF Queue
  <2> QED
    BY <2>2
<1>6. /\ t.state = s.state /\ t.job = jb /\ t.call = s.call
      /\ t.nextId = s.nextId /\ t.preflight = "Checking"
      /\ t.checks = {} /\ t.loop = s.loop
      /\ t.activeId = s.activeId /\ Steady(s, t) /\ Walks(s, t)
  BY DEF Queue, Steady, Walks
<1> HIDE DEF t, x
<1>7. Addressed(t) /\ Weighed(t) /\ Fresh(t)
  BY <1>3, <1>4, <1>6 DEF Addressed, Queued, Weighed, Covered, Fresh
<1>8. Awaited(t, {})
  BY <1>6 DEF Awaited
<1>9. Handled(s, ClearPreflight(t))
  <2>1. Handled(t, ClearPreflight(t))
    BY <1>5, <1>6, <1>7, <1>8, ClearPreflightFlows
  <2> QED
    BY <1>6, <2>1 DEF Handled, Steady, Walks
<1>10. /\ u.state = t.state /\ u.call = t.call /\ u.activeId = t.activeId
       /\ u.preflight = "Checking" /\ Steady(t, u) /\ Walks(t, u)
  BY <1>5, <1>6 DEF Queue, Steady, Walks
<1> HIDE DEF u
<1>11. Handled(s, u)
  BY <1>6, <1>8, <1>10 DEF Handled, Awaited, Alert, Steady, Walks
<1> QED
  BY <1>1, <1>9, <1>11, ClearPreflightFlows

\* Asking an ancestor leaves the check under way.
LEMMA QuerySpaceFromAlike ==
    ASSUME NEW s \in Queue, NEW f, NEW climb
    PROVE  Alike(s, QuerySpaceFrom(s, f, climb))
<1> DEFINE x == s.checks \union {[kind |-> IF f \in s.stopped THEN "lost" ELSE "query",
                                  fs |-> f, climb |-> climb]}
           y == Fault(s, f)
           t == [s EXCEPT !.checks = x, !.fault = y]
<1>1. QuerySpaceFrom(s, f, climb) = t
  BY DEF QuerySpaceFrom
<1> HIDE DEF x, y
<1>2. Alike(s, t)
  BY DEF Queue, Alike, Steady, Walks
<1> QED
  BY <1>1, <1>2

\* A declined warning leaves its volume's jobs to the loop, and nothing else of
\* that volume.
LEMMA CancelBatchForFlows ==
    ASSUME NEW s \in Queue, s.preflight = "Checking", NEW volume,
           Awaited(s, {}), Walk(s)
    PROVE  Flows(CancelBatchFor(s, volume))
<1> DEFINE make == {d \in s.toMake : s.dir[d].dst # volume}
           visit == {d \in s.toVisit : s.dir[d].dst # volume}
           ids == {i \in Unfinished(s) : s.job[i].dst = volume}
           t == [s EXCEPT !.toMake = make, !.toVisit = visit, !.loop = "batch",
                          !.volume = volume, !.todo = ids]
<1>1. CancelBatchFor(s, volume) = t
  BY DEF CancelBatchFor
<1>2. /\ \A d \in make : s.dir[d].dst # volume
      /\ \A i \in Unfinished(s) : s.job[i].dst = volume => i \in ids
  OBVIOUS
<1> HIDE DEF make, visit, ids
<1>3. /\ t.state = s.state /\ t.call = s.call /\ t.activeId = s.activeId
      /\ t.preflight = s.preflight /\ t.job = s.job /\ t.dir = s.dir
      /\ t.loop = "batch" /\ t.volume = volume /\ t.todo = ids /\ t.toMake = make
      /\ Walks(s, t)
  BY DEF Queue, Walks
<1> HIDE DEF t
<1>4. Awaited(t, {}) /\ Walk(t) /\ Alert(t)
  <2>1. Walk(t)
    BY <1>3 DEF Walk, Walks
  <2>2. Awaited(t, {}) /\ Alert(t)
    BY <1>3 DEF Awaited, Alert
  <2> QED
    BY <2>1, <2>2
<1>5. Unfinished(t) = Unfinished(s)
  BY <1>3 DEF Unfinished
<1>6. Swept(t)
  BY <1>2, <1>3, <1>5 DEF Swept
<1> QED
  BY <1>1, <1>4, <1>6 DEF Flows

-----------------------------------------------------------------------------
(* Control *)

\* A cancel tells the endpoint or ends the job.
LEMMA CancelJobDoes ==
    ASSUME NEW s, Good(s), NEW i \in JobIds
    PROVE  \/ CancelJob(s, i) = s /\ i \notin Unfinished(s)
           \/ /\ Alike(s, CancelJob(s, i))
              /\ i = s.activeId /\ CancelJob(s, i).cancelling
              /\ CancelJob(s, i).job = s.job /\ CancelJob(s, i).dir = s.dir
              /\ CancelJob(s, i).toMake = s.toMake
           \/ CancelJob(s, i) = FinishJob(s, i, "Cancelled") /\ i \in Unfinished(s)
<1> DEFINE told == s.asked \union {j \in {s.handle} \ {0} :
                       s.call[j] \in Legs /\ Carrier(s, j) = s.owner}
           y == Fault(s, s.owner)
           t == [s EXCEPT !.cancelling = TRUE, !.asked = told, !.fault = y]
<1>1. CancelJob(s, i) =
        IF i \notin Unfinished(s) THEN s
        ELSE IF s.state[i] = "Active" /\ i = s.activeId /\ s.owner # NoFs THEN t
        ELSE FinishJob(s, i, "Cancelled")
  BY DEF CancelJob
<1> HIDE DEF told, y
<1>2. /\ Alike(s, t) /\ t.cancelling
      /\ t.job = s.job /\ t.dir = s.dir /\ t.toMake = s.toMake
  BY DEF Good, Queue, Alike, Steady, Walks
<1> HIDE DEF t
<1> QED
  BY <1>1, <1>2

\* Between loops a cancel is like any other handler.
LEMMA CancelJobFlows ==
    ASSUME NEW s, Good(s), NEW i \in JobIds, Awaited(s, {}), Alert(s)
    PROVE  Handled(s, CancelJob(s, i))
<1>1. Handled(s, s)
  BY DEF Handled, Steady, Walks
<1>2. \A t : Alike(s, t) => Handled(s, t)
  BY AlikeFlows DEF Handled, Alike
<1>3. Handled(s, FinishJob(s, i, "Cancelled"))
  <2>1. Awaited(s, {i})
    BY DEF Awaited
  <2> QED
    BY <2>1, FinishJobFlows DEF Terminal
<1> QED
  BY <1>1, <1>2, <1>3, CancelJobDoes

\* A finished job is the only one that stops being unfinished, and no other job
\* becomes so.
LEMMA FinishJobSweeps ==
    ASSUME NEW s, Good(s), NEW i \in JobIds, s.state[i] # "Absent"
    PROVE  LET t == FinishJob(s, i, "Cancelled")
           IN  /\ Unfinished(t) = Unfinished(s) \ {i}
               /\ \A j \in JobIds \ {i} :
                     \/ t.state[j] = s.state[j]
                     \/ s.state[j] = "Queued" /\ t.state[j] = "Checking"
               /\ s.activeId \notin {0, i} => t.activeId = s.activeId
<1> DEFINE t == FinishJob(s, i, "Cancelled")
           state == IF s.state[i] = "Absent" THEN s.state
                    ELSE [s.state EXCEPT ![i] = "Cancelled"]
           active == IF s.activeId = i THEN 0 ELSE s.activeId
<1>1. Started(state, s.call, active, t)
  <2>1. /\ Started(state, s.call, active, t) /\ Alert(t)
        /\ t.job = s.job /\ t.toMake \subseteq s.toMake /\ t.dir = s.dir
        /\ t.cancelling = IF s.activeId = i THEN FALSE ELSE s.cancelling
        /\ Steady(s, t) /\ Walks(s, t)
    BY FinishJobDoes DEF Terminal
  <2> QED
    BY <2>1
<1>2. s.state \in [JobIds -> JobStates]
  BY DEF Good, Queue
<1>3. /\ state \in [JobIds -> JobStates]
      /\ state[i] = "Cancelled" /\ \A j \in JobIds \ {i} : state[j] = s.state[j]
  BY <1>2 DEF JobStates, Terminal
<1> HIDE DEF state, t
<1>4. \A j \in JobIds : \/ t.state[j] = state[j]
                        \/ state[j] = "Queued" /\ t.state[j] = "Checking"
  BY <1>1, <1>3 DEF Started
<1>5. Unfinished(t) = Unfinished(s) \ {i}
  BY <1>3, <1>4 DEF Unfinished, InFlight
<1>6. s.activeId \notin {0, i} => t.activeId = s.activeId
  BY <1>1 DEF Started
<1>7. \A j \in JobIds \ {i} : \/ t.state[j] = s.state[j]
                              \/ s.state[j] = "Queued" /\ t.state[j] = "Checking"
  BY <1>3, <1>4
<1> QED
  BY <1>5, <1>6, <1>7 DEF t

-----------------------------------------------------------------------------
(* The loops *)

\* A turn of Cancel All or of a declined warning: the job is gone or told to stop,
\* and what the loop came past before stays so, whatever the pump started.
LEMMA CancelJobSweeps ==
    ASSUME NEW s, Good(s), NEW i \in JobIds, NEW todo,
           s.loop \in {"all", "batch"}, s.todo = todo \ {i},
           \A j \in Unfinished(s) :
              (s.loop = "all" \/ s.job[j].dst = s.volume) =>
                  j \in todo \/ (j = s.activeId /\ s.cancelling),
           \A d \in s.toMake : ~(s.loop = "all" \/ s.dir[d].dst = s.volume)
    PROVE  Swept(CancelJob(s, i))
<1> DEFINE t == CancelJob(s, i)
           Left(r, j) == (r.loop = "all" \/ r.job[j].dst = r.volume) =>
                            j \in r.todo \/ (j = r.activeId /\ r.cancelling)
           Bare(r) == \A d \in r.toMake : ~(r.loop = "all" \/ r.dir[d].dst = r.volume)
<1>1. ASSUME NEW r, r.loop = s.loop, \A j \in Unfinished(r) : Left(r, j), Bare(r)
      PROVE  Swept(r)
  BY <1>1 DEF Swept
<1>2. CASE t = s /\ i \notin Unfinished(s)
  <2>1. \A j \in Unfinished(s) : Left(s, j)
    BY <1>2
  <2> QED
    BY <1>1, <1>2, <2>1
<1>3. CASE /\ Alike(s, t) /\ i = s.activeId /\ t.cancelling
           /\ t.job = s.job /\ t.dir = s.dir /\ t.toMake = s.toMake
  <2> HIDE DEF t
  <2>1. /\ Unfinished(t) = Unfinished(s) /\ t.activeId = s.activeId
        /\ t.loop = s.loop /\ t.volume = s.volume /\ t.todo = s.todo
    BY <1>3 DEF Alike, Steady, Unfinished
  <2>2. \A j \in Unfinished(t) : Left(t, j)
    BY <1>3, <2>1
  <2>3. Bare(t)
    BY <1>3, <2>1
  <2> QED
    BY <1>1, <2>1, <2>2, <2>3 DEF t
<1>4. CASE t = FinishJob(s, i, "Cancelled") /\ i \in Unfinished(s)
  <2>1. s.state[i] # "Absent"
    BY <1>4 DEF Unfinished, InFlight
  <2>2. /\ Unfinished(t) = Unfinished(s) \ {i}
        /\ \A j \in JobIds \ {i} :
              \/ t.state[j] = s.state[j]
              \/ s.state[j] = "Queued" /\ t.state[j] = "Checking"
        /\ s.activeId \notin {0, i} => t.activeId = s.activeId
    BY <1>4, <2>1, FinishJobSweeps
  <2>3. /\ t.job = s.job /\ t.toMake \subseteq s.toMake /\ t.dir = s.dir
        /\ t.cancelling = IF s.activeId = i THEN FALSE ELSE s.cancelling
        /\ Steady(s, t)
    <3> DEFINE u == FinishJob(s, i, "Cancelled")
               state == IF s.state[i] = "Absent" THEN s.state
                        ELSE [s.state EXCEPT ![i] = "Cancelled"]
               active == IF s.activeId = i THEN 0 ELSE s.activeId
    <3>1. /\ Started(state, s.call, active, u) /\ Alert(u)
          /\ u.job = s.job /\ u.toMake \subseteq s.toMake /\ u.dir = s.dir
          /\ u.cancelling = IF s.activeId = i THEN FALSE ELSE s.cancelling
          /\ Steady(s, u) /\ Walks(s, u)
      BY FinishJobDoes DEF Terminal
    <3> QED
      BY <1>4, <3>1
  <2> HIDE DEF t
  <2>4. 0 \notin JobIds
    BY DEF JobIds
  <2>5. \A j \in Unfinished(t) : j \in Unfinished(s) /\ j # i /\ j # 0
    BY <2>2, <2>4 DEF Unfinished
  <2>6. \A j \in Unfinished(t) : Left(t, j)
    BY <2>2, <2>3, <2>5 DEF Steady
  <2>7. Bare(t) /\ t.loop = s.loop
    BY <2>3 DEF Steady
  <2> QED
    BY <1>1, <2>6, <2>7 DEF t
<1> QED
  BY <1>2, <1>3, <1>4, CancelJobDoes DEF t

\* A turn of a closing session's loop: its job is gone, and the users of the
\* endpoint that are left are those still to be visited.
LEMMA RetireForSessionFlows ==
    ASSUME NEW s, Good(s), NEW i \in JobIds, NEW todo, i \in todo,
           s.loop = "session", s.todo = todo \ {i}, Awaited(s, {}), Walk(s),
           \A j \in JobIds : j \in todo <=> j \in Unfinished(s) /\ Uses(s, j, s.volume)
    PROVE  LET t == RetireForSession(s, i)
           IN  /\ Flows(t)
               /\ \A j \in JobIds \ {i} :
                     \/ t.state[j] = s.state[j]
                     \/ s.state[j] = "Queued" /\ t.state[j] = "Checking"
<1> DEFINE drop(f) == IF f = s.volume THEN NoFs ELSE f
           x == drop(s.job[i].src)
           y == drop(s.job[i].dst)
           b == [s.job[i] EXCEPT !.src = x, !.dst = y]
           u == [s EXCEPT !.job[i].src = x, !.job[i].dst = y]
           v == [u EXCEPT !.state[i] = "Cancelled"]
           w == Release(v, i)
           freed == [v EXCEPT !.activeId = 0, !.handle = 0, !.owner = NoFs,
                              !.cancelling = FALSE]
           t == Pump(w)
<1>1. s \in Queue /\ s.job[i] \in Job /\ i \in Unfinished(s)
  BY DEF Good, Queue
<1>2. s.state[i] # "Absent" /\ s.state \in [JobIds -> JobStates]
  BY <1>1 DEF Unfinished, InFlight, Queue
<1>3. x \in Fs \union {NoFs} /\ y \in Fs \union {NoFs}
  BY <1>1 DEF Job
<1>4. RetireForSession(s, i) = FinishJob(u, i, "Cancelled")
  BY <1>1 DEF RetireForSession, Queue, Job
<1> HIDE DEF x, y
<1>5. b \in Job /\ b.weighed = s.job[i].weighed
  BY <1>1, <1>3 DEF Job
<1> HIDE DEF b
<1>6. u = [s EXCEPT !.job[i] = b]
  BY ZenonT(60), <1>1 DEF b, Queue, Job
<1>7. u \in Queue
  BY SMTT(60), <1>1, <1>5, <1>6 DEF Queue
<1>8. /\ u.state = s.state /\ u.call = s.call /\ u.activeId = s.activeId
      /\ u.nextId = s.nextId /\ u.preflight = s.preflight
      /\ u.checks = s.checks /\ u.job = [s.job EXCEPT ![i] = b]
      /\ Steady(s, u) /\ Walks(s, u)
  BY ZenonT(60), <1>1, <1>6 DEF Queue, Steady, Walks
<1>9. /\ u.job[i].weighed = s.job[i].weighed
      /\ \A j \in JobIds : j # i => u.job[j] = s.job[j]
  BY <1>1, <1>5, <1>8 DEF Queue
<1>10. RetireForSession(s, i) = t
  BY <1>2, <1>4, <1>8 DEF FinishJob
<1> HIDE DEF u
<1>11. v \in Queue
  BY ZenonT(60), <1>7 DEF Queue, JobStates, Terminal
<1>12. /\ v.call = u.call /\ v.job = u.job /\ v.activeId = u.activeId
       /\ v.nextId = u.nextId /\ v.preflight = u.preflight
       /\ v.checks = u.checks /\ Steady(u, v) /\ Walks(u, v)
       /\ v.state[i] = "Cancelled"
       /\ \A j \in JobIds : j # i => v.state[j] = u.state[j]
  BY <1>7 DEF Queue, Steady, Walks
<1> HIDE DEF v
<1>13. Good(v)
  <2>1. Addressed(v)
    BY <1>8, <1>9, <1>12 DEF Good, Addressed, Queued
  <2>2. Weighed(v)
    BY <1>2, <1>8, <1>9, <1>12 DEF Good, Weighed, Covered, InFlight
  <2>3. Fresh(v)
    BY <1>2, <1>8, <1>12 DEF Good, Fresh
  <2>4. CheckCount(v)
    <3>1. \A j \in JobIds : v.job[j].weighed = s.job[j].weighed
      BY <1>9, <1>12
    <3>2. v.preflight = s.preflight /\ v.checks = s.checks /\ v.loop = s.loop
      BY <1>8, <1>12 DEF Steady
    <3> QED
      BY <3>1, <3>2 DEF Good, CheckCount
  <2> QED
    BY <1>11, <2>1, <2>2, <2>3, <2>4 DEF Good
<1>14. Good(w)
  BY <1>13, ReleaseGood
<1>15. w = IF v.activeId # i THEN v ELSE freed
  BY DEF Release
<1>16. /\ freed.state = v.state /\ freed.call = v.call /\ freed.activeId = 0
       /\ freed.job = v.job /\ Steady(v, freed) /\ Walks(v, freed)
  BY <1>11 DEF Queue, Steady, Walks
<1> HIDE DEF w, freed
<1>17. /\ w.state = v.state /\ w.call = v.call /\ w.job = v.job
       /\ w.activeId = IF v.activeId = i THEN 0 ELSE v.activeId
       /\ Steady(v, w) /\ Walks(v, w)
  BY <1>15, <1>16 DEF Steady, Walks
<1>18. /\ w.call = s.call
       /\ w.activeId = IF s.activeId = i THEN 0 ELSE s.activeId
       /\ w.state[i] = "Cancelled"
       /\ \A j \in JobIds : j # i => w.state[j] = s.state[j] /\ w.job[j] = s.job[j]
       /\ Steady(s, w) /\ Walks(s, w)
  BY <1>8, <1>9, <1>12, <1>17 DEF Steady, Walks
<1>19. Awaited(w, {})
  <2>1. s.activeId # 0 => s.activeId \in JobIds
    BY <1>1, Ids DEF Queue, JobIds
  <2> QED
    BY <1>18, <2>1 DEF Awaited, Awaits
<1>20. /\ Started(w.state, w.call, w.activeId, t) /\ Alert(t) /\ t.job = w.job
       /\ Steady(w, t) /\ Walks(w, t)
  <2>1. /\ Started(w.state, w.call, w.activeId, t) /\ Alert(t)
        /\ t.job = w.job /\ t.toMake \subseteq w.toMake /\ t.dir = w.dir
        /\ t.cancelling = w.cancelling
        /\ Steady(w, t) /\ Walks(w, t)
    BY <1>14, PumpDoes
  <2> QED
    BY <2>1
<1>21. Awaited(t, {}) /\ Walk(t)
  <2>1. Awaited(t, {})
    BY <1>14, <1>19, PumpFlows DEF Handled
  <2>2. Walks(s, t)
    BY <1>18, <1>20 DEF Walks
  <2>3. Walk(t)
    BY <2>2 DEF Walk, Walks
  <2> QED
    BY <2>1, <2>3
<1>22. w.state \in [JobIds -> JobStates]
  BY <1>14 DEF Good, Queue
<1> HIDE DEF t
<1>23. \A j \in JobIds : \/ t.state[j] = w.state[j]
                         \/ w.state[j] = "Queued" /\ t.state[j] = "Checking"
  BY <1>20, <1>22 DEF Started
<1>24. /\ t.loop = "session" /\ t.volume = s.volume /\ t.todo = todo \ {i}
  BY <1>18, <1>20 DEF Steady
<1>25. \A j \in JobIds : j \in t.todo <=> j \in Unfinished(t) /\ Uses(t, j, t.volume)
  <2> SUFFICES ASSUME NEW j \in JobIds
               PROVE  j \in t.todo <=> j \in Unfinished(t) /\ Uses(t, j, t.volume)
    OBVIOUS
  <2>1. CASE j = i
    BY <1>18, <1>23, <1>24, <2>1 DEF Unfinished, InFlight
  <2>2. CASE j # i
    <3>1. j \in Unfinished(t) <=> j \in Unfinished(s)
      BY <1>18, <1>23, <2>2 DEF Unfinished, InFlight
    <3>2. Uses(t, j, t.volume) <=> Uses(s, j, s.volume)
      BY <1>18, <1>20, <1>24, <2>2 DEF Uses
    <3> QED
      BY <1>24, <2>2, <3>1, <3>2
  <2> QED
    BY <2>1, <2>2
<1>26. Flows(t)
  BY <1>20, <1>21, <1>24, <1>25 DEF Flows, Swept
<1>27. \A j \in JobIds \ {i} : \/ t.state[j] = s.state[j]
                               \/ s.state[j] = "Queued" /\ t.state[j] = "Checking"
  BY <1>18, <1>23
<1> QED
  BY <1>10, <1>26, <1>27

-----------------------------------------------------------------------------
(* The steps *)

\* Between two loops nothing is swept, so a handler has only the rest to keep.
LEMMA MovedFlows ==
    ASSUME NEW s, NEW t, s.loop = "none", Moved(s, t)
    PROVE  Flows(t)
BY DEF Moved, Steady, Flows, Swept

\* A queue with nothing in it flows.
LEMMA InitFlows == Init => Flows(q)
<1> SUFFICES ASSUME Init PROVE Flows(q)
  OBVIOUS
<1>1. PICK relay \in RelayRoots :
        /\ q.state = [i \in JobIds |-> "Absent"] /\ q.call = [i \in JobIds |-> "none"]
        /\ q.activeId = 0 /\ q.loop = "none" /\ q.enumerating = FALSE
        /\ q.listings = {} /\ q.lostListings = {} /\ q.owed = {}
  BY DEF Init
<1>2. Awaited(q, {})
  BY <1>1 DEF Awaited, Awaits
<1>3. Queued(q) = {}
  BY <1>1 DEF Queued
<1> QED
  BY <1>1, <1>2, <1>3 DEF Flows, Walk, Alert, Swept

\* A selection or a directory is queued, in a walk or outside one.
LEMMA UserEnqueueFlows ==
    ASSUME Good(q), Flows(q), NEW r \in Routes,
           UserEnqueueTree(r) \/ \E kind \in LeafKinds : UserEnqueue(r, kind)
    PROVE  Flows(q')
<1>1. r[1] \in Fs /\ r[2] \in Fs
  BY QueueAssumption
<1>2. CASE UserEnqueueTree(r)
  BY <1>1, <1>2, EnqueueTreeFlows, MovedFlows DEF UserEnqueueTree, Ready, Flows
<1>3. ASSUME NEW kind \in LeafKinds, UserEnqueue(r, kind)
      PROVE  Flows(q')
  <2> DEFINE kinds == [i \in {1} |-> kind]
             t == AddJobs(q, r[1], r[2], 1, kinds)
  <2>1. q.nextId + 1 =< MaxJobs + 1 /\ 1 \in Nat
    <3>1. q.nextId \in Nat /\ MaxJobs \in Nat
      BY Ids DEF Good
    <3> QED
      BY <1>3, <3>1 DEF UserEnqueue
  <2>2. kinds \in [1..1 -> LeafKinds]
    OBVIOUS
  <2>3. q' = Pump(t) /\ q.loop = "none"
    BY <1>3 DEF UserEnqueue, Ready
  <2> HIDE DEF kinds
  <2>4. Good(t)
    BY <1>1, <2>1, <2>2, AddJobsGood
  <2>5. Awaited(t, {}) /\ Steady(q, t) /\ Walks(q, t)
    BY <2>1, AddJobsFlows DEF Flows
  <2> HIDE DEF t
  <2>6. Walk(t)
    BY <2>5 DEF Flows, Walk, Walks
  <2>7. Moved(t, q') /\ t.loop = "none"
    BY <2>3, <2>4, <2>5, <2>6, PumpFlows, HandledMoved DEF Steady
  <2> QED
    BY <2>7, MovedFlows
<1> QED
  BY <1>2, <1>3

\* Pausing asks for nothing; resuming pumps.
LEMMA PauseResumeFlows ==
    ASSUME Good(q), Flows(q), Pause \/ Resume
    PROVE  Flows(q')
<1>1. \A b \in BOOLEAN :
        LET t == [q EXCEPT !.paused = b]
        IN  /\ Good(t) /\ Awaited(t, {}) /\ Walk(t) /\ t.loop = q.loop
            /\ b => Alert(t)
  <2> TAKE b \in BOOLEAN
  <2> DEFINE t == [q EXCEPT !.paused = b]
  <2>1. t \in Queue
    BY SMTT(60) DEF Queue, Good
  <2>2. /\ t.state = q.state /\ t.job = q.job /\ t.call = q.call
        /\ t.nextId = q.nextId /\ t.preflight = q.preflight
        /\ t.checks = q.checks /\ t.loop = q.loop
        /\ t.activeId = q.activeId /\ Walks(q, t) /\ t.paused = b
    BY DEF Queue, Walks, Good
  <2> HIDE DEF t
  <2>3. Good(t)
    BY <2>1, <2>2, GoodFrame
  <2>4. Awaited(t, {}) /\ (b => Alert(t))
    BY <2>2 DEF Flows, Awaited, Alert
  <2>5. Walk(t)
    BY <2>2 DEF Flows, Walk, Walks
  <2> QED
    BY <2>2, <2>3, <2>4, <2>5 DEF t
<1>2. CASE Pause
  <2>1. q' = [q EXCEPT !.paused = TRUE] /\ q.loop = "none"
    BY <1>2 DEF Pause, Ready
  <2> QED
    BY <1>1, <2>1 DEF Flows, Swept
<1>3. CASE Resume
  <2> DEFINE t == [q EXCEPT !.paused = FALSE]
  <2>1. q' = Pump(t) /\ q.loop = "none"
    BY <1>3 DEF Resume, Ready
  <2>2. Good(t) /\ Awaited(t, {}) /\ Walk(t) /\ t.loop = q.loop
    BY <1>1
  <2> HIDE DEF t
  <2> QED
    BY <2>1, <2>2, PumpFlows, HandledMoved, MovedFlows
<1> QED
  BY <1>2, <1>3

\* Cancel All leaves the loop every unfinished job and no directory.
LEMMA CancelAllFlows ==
    ASSUME Good(q), Flows(q), CancelAll
    PROVE  Flows(q')
<1> DEFINE e == q.enumCancelled \/ q.enumerating
           ids == Unfinished(q)
           t == [q EXCEPT !.toVisit = {}, !.toMake = {}, !.enumCancelled = e,
                          !.loop = "all", !.todo = ids]
<1>1. q' = t
  BY DEF CancelAll
<1> HIDE DEF e, ids
<1>2. /\ t.state = q.state /\ t.call = q.call /\ t.activeId = q.activeId
      /\ t.preflight = q.preflight /\ t.making = q.making
      /\ t.paused = q.paused /\ t.stopped = q.stopped
      /\ t.loop = "all" /\ t.todo = ids /\ t.toMake = {} /\ Walks(q, t)
  BY DEF Good, Queue, Walks
<1> HIDE DEF t
<1>3. Awaited(t, {}) /\ Alert(t)
  BY <1>2 DEF Flows, Awaited, Alert, Queued, Walks
<1>4. Walk(t)
  BY <1>2 DEF Flows, Walk, Walks
<1>5. Unfinished(t) = ids
  BY <1>2 DEF Unfinished, ids
<1>6. Swept(t)
  BY <1>2, <1>5 DEF Swept
<1> QED
  BY <1>1, <1>3, <1>4, <1>6 DEF Flows

\* Erasing finished jobs erases none that is queued or in flight.
LEMMA ClearFinishedFlows ==
    ASSUME Good(q), Flows(q), ClearFinished
    PROVE  Flows(q')
<1> DEFINE kept(i) == q.state[i] \notin Terminal
           st == [i \in JobIds |-> IF kept(i) THEN q.state[i] ELSE "Absent"]
           jb == [i \in JobIds |-> IF kept(i) THEN q.job[i] ELSE NoJob]
           t == [q EXCEPT !.state = st, !.job = jb]
<1>1. q' = t /\ q.loop = "none" /\ q \in Queue
  BY DEF ClearFinished, Ready, Good
<1>2. \A i \in JobIds :
        \/ st[i] = q.state[i]
        \/ st[i] = "Absent" /\ q.state[i] \in Terminal
  OBVIOUS
<1> HIDE DEF st, jb
<1>3. /\ t.state = st /\ t.call = q.call /\ t.activeId = q.activeId
      /\ t.making = q.making /\ t.preflight = q.preflight
      /\ Steady(q, t) /\ Walks(q, t)
  BY <1>1 DEF Queue, Steady, Walks
<1> HIDE DEF t
<1>4. Awaited(t, {})
  <2>1. q.activeId # 0 => q.activeId \in JobIds
    BY <1>1, Ids DEF Queue, JobIds
  <2> QED
    BY <1>2, <1>3, <2>1 DEF Flows, Awaited, Awaits, InFlight, Terminal
<1>5. Queued(t) = Queued(q)
  BY <1>2, <1>3 DEF Queued, Terminal
<1>6. Alert(t)
  BY <1>3, <1>5 DEF Flows, Alert, Steady, Walks
<1>7. Handled(q, t)
  BY <1>3, <1>4, <1>6 DEF Handled
<1> QED
  BY <1>1, <1>7, HandledMoved, MovedFlows DEF Flows

\* A link drops, or a session begins to close: its loop has all of its jobs.
LEMMA SessionEventFlows ==
    ASSUME Good(q), Flows(q), NEW f \in Mortal, DropLink(f) \/ EndSession(f)
    PROVE  Flows(q')
<1> DEFINE x == q.stopped \union {f}
           ids == {i \in Unfinished(q) : Uses(q, i, f)}
           t == [q EXCEPT !.stopped = x]
           u == [q EXCEPT !.stopped = x, !.loop = "session", !.volume = f,
                          !.todo = ids]
<1>1. q' = t \/ q' = u
  BY DEF DropLink, EndSession
<1>2. q.loop = "none" /\ x # {}
  BY DEF DropLink, EndSession, Ready
<1>3. \A i \in JobIds : i \in ids <=> i \in Unfinished(q) /\ Uses(q, i, f)
  BY DEF Unfinished
<1> HIDE DEF x, ids
<1>4. /\ t.state = q.state /\ t.call = q.call /\ t.activeId = q.activeId
      /\ t.loop = q.loop /\ t.stopped = x /\ Walks(q, t)
  BY DEF Good, Queue, Walks
<1>5. /\ u.state = q.state /\ u.call = q.call /\ u.activeId = q.activeId
      /\ u.job = q.job /\ u.loop = "session" /\ u.volume = f /\ u.todo = ids
      /\ u.stopped = x /\ Walks(q, u)
  BY DEF Good, Queue, Walks
<1> HIDE DEF t, u
<1>6. /\ Awaited(t, {}) /\ Alert(t) /\ Awaited(u, {}) /\ Alert(u)
  BY <1>2, <1>4, <1>5 DEF Flows, Awaited, Alert
<1>7. Walk(t)
  BY <1>4 DEF Flows, Walk, Walks
<1>8. Walk(u)
  BY <1>5 DEF Flows, Walk, Walks
<1>9. Swept(t)
  BY <1>2, <1>4 DEF Swept
<1>10. Swept(u)
  BY <1>3, <1>5 DEF Swept, Unfinished, Uses
<1> QED
  BY <1>1, <1>6, <1>7, <1>8, <1>9, <1>10 DEF Flows

\* One turn of a loop.
LEMMA CancelNextFlows ==
    ASSUME Good(q), Flows(q), CancelNext
    PROVE  /\ Flows(q')
           /\ q.loop = "session" =>
                \A j \in JobIds :
                   \/ q'.state[j] = q.state[j]
                   \/ q.state[j] = "Queued" /\ q'.state[j] = "Checking"
                   \/ Uses(q, j, q.volume)
<1> DEFINE i == Min(q.todo)
           x == q.todo \ {i}
           t == [q EXCEPT !.todo = x]
<1>1. q \in Queue
  BY DEF Good
<1>2. i \in JobIds /\ i \in q.todo
  <2>1. q.todo \subseteq JobIds /\ q.todo \subseteq Nat /\ q.todo # {}
    BY <1>1, Ids DEF Queue, CancelNext
  <2> QED
    BY <2>1, MinMember
<1>3. /\ q.loop = "session" => q' = RetireForSession(t, i)
      /\ q.loop # "session" => q' = CancelJob(t, i)
      /\ q.loop \in {"all", "batch", "session"} \/ q.loop = "none"
  BY <1>1 DEF CancelNext, Queue
<1> HIDE DEF i
<1>4. x \in SUBSET JobIds /\ x = q.todo \ {i}
  BY <1>1 DEF Queue
<1> HIDE DEF x
<1>5. t \in Queue
  BY SMTT(60), <1>1, <1>4 DEF Queue
<1>6. /\ t.state = q.state /\ t.job = q.job /\ t.call = q.call
      /\ t.nextId = q.nextId /\ t.preflight = q.preflight
      /\ t.checks = q.checks /\ t.loop = q.loop
      /\ t.activeId = q.activeId /\ t.making = q.making
      /\ t.paused = q.paused /\ t.stopped = q.stopped
      /\ t.volume = q.volume /\ t.todo = x /\ t.cancelling = q.cancelling
      /\ t.toMake = q.toMake /\ t.dir = q.dir /\ Walks(q, t)
  BY <1>1 DEF Queue, Walks
<1> HIDE DEF t
<1>7. Good(t) /\ Awaited(t, {}) /\ Alert(t) /\ Unfinished(t) = Unfinished(q)
  BY <1>5, <1>6, GoodFrame DEF Flows, Awaited, Alert, Queued, Walks, Unfinished
<1>8. Walk(t)
  BY <1>6 DEF Flows, Walk, Walks
<1>9. CASE q.loop = "session"
  <2>1. \A j \in JobIds : j \in q.todo <=> j \in Unfinished(t) /\ Uses(t, j, t.volume)
    BY <1>6, <1>7, <1>9 DEF Flows, Swept, Uses
  <2>2. /\ Flows(q')
        /\ \A j \in JobIds \ {i} :
              \/ q'.state[j] = t.state[j]
              \/ t.state[j] = "Queued" /\ q'.state[j] = "Checking"
    BY <1>2, <1>3, <1>4, <1>6, <1>7, <1>8, <1>9, <2>1, RetireForSessionFlows
  <2>3. Uses(q, i, q.volume)
    BY <1>2, <1>9 DEF Flows, Swept
  <2> QED
    BY <1>6, <2>2, <2>3
<1>10. CASE q.loop # "session"
  <2>1. Handled(t, q')
    BY <1>2, <1>3, <1>7, <1>10, CancelJobFlows
  <2>2. Moved(t, q')
    BY <1>8, <2>1, HandledMoved
  <2>3. CASE q.loop = "none"
    BY <1>6, <1>10, <2>2, <2>3, MovedFlows
  <2>4. CASE q.loop \in {"all", "batch"}
    <3>1. \A j \in Unfinished(t) :
             (t.loop = "all" \/ t.job[j].dst = t.volume) =>
                 j \in q.todo \/ (j = t.activeId /\ t.cancelling)
      BY <1>6, <1>7, <2>4 DEF Flows, Swept
    <3>2. \A d \in t.toMake : ~(t.loop = "all" \/ t.dir[d].dst = t.volume)
      BY <1>6, <2>4 DEF Flows, Swept
    <3>3. Swept(CancelJob(t, i))
      BY <1>2, <1>4, <1>6, <1>7, <2>4, <3>1, <3>2, CancelJobSweeps
    <3> QED
      BY <1>3, <1>10, <2>2, <3>3 DEF Moved, Flows
  <2> QED
    BY <1>3, <1>10, <2>3, <2>4
<1> QED
  BY <1>9, <1>10

\* The end of a loop: a declined warning clears the check, a session's endpoint
\* goes.
LEMMA CancelDoneFlows ==
    ASSUME Good(q), Flows(q), CancelDone
    PROVE  Flows(q') /\ (q.loop = "session" => q'.state = q.state)
<1> DEFINE t == [q EXCEPT !.loop = "none", !.volume = NoFs]
           x == q.alive \ {q.volume}
           u == [t EXCEPT !.alive = x]
<1>1. q \in Queue
  BY DEF Good
<1>2. q.loop \in {"all", "batch", "session"}
  BY <1>1 DEF Queue, CancelDone
<1>3. t \in Queue
  <2>1. [q EXCEPT !.loop = "none"] \in Queue
    BY SMTT(60), <1>1 DEF Queue
  <2>2. [[q EXCEPT !.loop = "none"] EXCEPT !.volume = NoFs] \in Queue
    BY ZenonT(60), <2>1 DEF Queue
  <2> QED
    BY <2>2
<1>4. /\ t.state = q.state /\ t.job = q.job /\ t.call = q.call
      /\ t.nextId = q.nextId /\ t.preflight = q.preflight
      /\ t.checks = q.checks /\ t.loop = "none" /\ t.alive = q.alive
      /\ t.activeId = q.activeId /\ t.making = q.making
      /\ t.paused = q.paused /\ t.stopped = q.stopped /\ Walks(q, t)
  BY <1>1 DEF Queue, Walks
<1>5. q' = IF q.loop = "all" THEN t
           ELSE IF q.loop = "batch" THEN ClearPreflight(t)
           ELSE u
  BY <1>2, <1>4 DEF CancelDone
<1> HIDE DEF t, x
<1>6. Alike(t, u) /\ u.state = t.state
  BY <1>3 DEF Queue, Alike, Steady, Walks
<1> HIDE DEF u
<1>7. Addressed(t) /\ Weighed(t) /\ Fresh(t)
  BY <1>4 DEF Good, Addressed, Queued, Weighed, Covered, Fresh
<1>8. Awaited(t, {}) /\ Alert(t)
  BY <1>4 DEF Flows, Awaited, Alert, Queued, Walks
<1>9. Walk(t)
  BY <1>4 DEF Flows, Walk, Walks
<1>10. Flows(t)
  BY <1>4, <1>8, <1>9 DEF Flows, Swept
<1>11. Flows(u)
  <2>1. Handled(t, u)
    BY <1>6, <1>8, AlikeFlows DEF Handled, Alike
  <2> QED
    BY <1>4, <1>9, <2>1, HandledMoved, MovedFlows
<1>12. CASE q.loop = "batch"
  <2>1. t.checks = {}
    BY <1>4, <1>12 DEF Good, CheckCount
  <2>2. Handled(t, ClearPreflight(t))
    BY <1>3, <1>4, <1>7, <1>8, <2>1, ClearPreflightFlows
  <2> QED
    BY <1>4, <1>5, <1>9, <1>12, <2>2, HandledMoved, MovedFlows
<1> QED
  BY <1>4, <1>5, <1>6, <1>10, <1>11, <1>12

\* What an answer's handler starts from: the job it is for may be in any state
\* that waited for it, and the queue is as awake as before.
LEMMA ConsumedFlows ==
    ASSUME Good(q), Flows(q), NEW i \in JobIds, q.call[i] # "none"
    PROVE  LET t == Consumed(i)
           IN  /\ Good(t) /\ Covered(t, i) /\ i < t.nextId
               /\ Awaited(t, {i}) /\ Alert(t) /\ Walk(t) /\ t.loop = q.loop
               /\ t.state = q.state /\ t.job = q.job /\ t.policy = q.policy
               /\ t.asked = q.asked
               /\ Awaits(t.state[i], q.call[i])
<1> DEFINE t == Consumed(i)
           u == [q EXCEPT !.call[i] = "none"]
<1>1. /\ Good(t) /\ Covered(t, i) /\ i < t.nextId
      /\ t.state = q.state /\ t.job = q.job /\ t.asked = q.asked
      /\ t.policy = q.policy
  BY ConsumedGood
<1>2. t = u
  BY DEF Consumed
<1> HIDE DEF t
<1>3. /\ u.state = q.state /\ u.activeId = q.activeId
      /\ u.making = q.making /\ u.preflight = q.preflight
      /\ Steady(q, u) /\ Walks(q, u)
      /\ \A j \in JobIds : j # i => u.call[j] = q.call[j]
  BY DEF Good, Queue, Steady, Walks
<1> HIDE DEF u
<1>4. Awaited(t, {i}) /\ Awaits(t.state[i], q.call[i])
  BY <1>1, <1>2, <1>3 DEF Flows, Awaited
<1>5. Alert(t)
  BY <1>2, <1>3 DEF Flows, Alert, Queued, Steady, Walks
<1>6. Walk(t)
  BY <1>2, <1>3 DEF Flows, Walk, Walks
<1> QED
  BY <1>1, <1>2, <1>3, <1>4, <1>5, <1>6 DEF Steady, t

\* The answer to Stat.
LEMMA StatReplyFlows ==
    ASSUME Good(q), Flows(q), NEW i \in JobIds, NEW exists \in BOOLEAN,
           StatReply(i, exists)
    PROVE  Flows(q')
<1> DEFINE s == Consumed(i)
<1>1. /\ q.call[i] = "stat" /\ q.loop = "none"
      /\ q' = OnConflictKnown(s, i, exists)
  BY DEF StatReply, Answered, Ready
<1>2. /\ Good(s) /\ Covered(s, i) /\ i < s.nextId
      /\ Awaited(s, {i}) /\ Alert(s) /\ Walk(s) /\ s.loop = q.loop
      /\ Awaits(s.state[i], q.call[i])
  BY <1>1, ConsumedFlows
<1> HIDE DEF s
<1>3. s.state[i] \notin {"Active", "AwaitingResolution"}
  BY <1>1, <1>2 DEF Awaits, Legs
<1>4. Handled(s, q')
  BY <1>1, <1>2, <1>3, OnConflictKnownFlows
<1> QED
  BY <1>1, <1>2, <1>4, HandledMoved, MovedFlows

\* The user's answer to a collision, in time or too late.
LEMMA PromptReplyFlows ==
    ASSUME Good(q), Flows(q), NEW i \in JobIds, NEW resolution \in Policies \ {"Ask"},
           NEW all \in BOOLEAN, PromptReply(i, resolution, all)
    PROVE  Flows(q')
<1> DEFINE s == Consumed(i)
           p == IF all THEN resolution ELSE s.policy
           t == [s EXCEPT !.policy = p]
<1>1. /\ q.call[i] = "prompt" /\ q.loop = "none"
      /\ q.state[i] = "AwaitingResolution" => q' = ApplyResolution(t, i, resolution)
      /\ q.state[i] # "AwaitingResolution" => q' = s
  BY DEF PromptReply, Answered, Ready
<1>2. /\ Good(s) /\ Covered(s, i) /\ i < s.nextId
      /\ Awaited(s, {i}) /\ Alert(s) /\ Walk(s) /\ s.loop = q.loop
      /\ s.state = q.state /\ Awaits(s.state[i], q.call[i])
  BY <1>1, ConsumedFlows
<1> HIDE DEF s
<1>3. p \in Policies /\ s \in Queue
  BY <1>2 DEF Good, Queue
<1> HIDE DEF p
<1>4. t \in Queue
  BY SMTT(60), <1>3 DEF Queue
<1>5. /\ t.state = s.state /\ t.job = s.job /\ t.call = s.call
      /\ t.nextId = s.nextId /\ t.preflight = s.preflight
      /\ t.checks = s.checks /\ t.loop = s.loop
  BY <1>3 DEF Queue
<1>6. Alike(s, t)
  BY <1>3 DEF Queue, Alike, Steady, Walks
<1> HIDE DEF t
<1>7. CASE q.state[i] = "AwaitingResolution"
  <2>1. Good(t) /\ Covered(t, i) /\ i < t.nextId
    BY <1>2, <1>4, <1>5, GoodFrame DEF Covered
  <2>2. Awaited(t, {i}) /\ Alert(t) /\ t.state[i] # "Active"
    BY <1>2, <1>5, <1>6, <1>7, AlikeFlows
  <2>3. Handled(t, q')
    BY <1>1, <1>7, <2>1, <2>2, ApplyResolutionFlows
  <2>4. Handled(s, q')
    BY <1>6, <2>3, AlikeFlows
  <2> QED
    BY <1>1, <1>2, <2>4, HandledMoved, MovedFlows
<1>8. CASE q.state[i] # "AwaitingResolution"
  <2>1. s.state[i] \notin InFlight
    BY <1>1, <1>2, <1>8 DEF Awaits, InFlight, Legs
  <2>2. Awaited(s, {})
    BY <1>2, <2>1 DEF Awaited, Awaits, InFlight
  <2> QED
    BY <1>1, <1>2, <1>8, <2>2 DEF Flows, Swept
<1> QED
  BY <1>7, <1>8

\* The answer to a probe for a free name.
LEMMA ProbeReplyFlows ==
    ASSUME Good(q), Flows(q), NEW i \in JobIds, NEW taken \in BOOLEAN,
           ProbeReply(i, taken)
    PROVE  Flows(q')
<1> DEFINE s == Consumed(i)
           t == [s EXCEPT !.job[i].existed = FALSE]
<1>1. /\ q.call[i] = "probe" /\ q.loop = "none"
      /\ q' \in {ResolveFreeName(s, i, q.attempt[i] + 1), StartTransfer(s, i),
                 StartTransfer(t, i)}
  BY DEF ProbeReply, Answered, Ready
<1>2. /\ Good(s) /\ Covered(s, i) /\ i < s.nextId
      /\ Awaited(s, {i}) /\ Alert(s) /\ Walk(s) /\ s.loop = q.loop
      /\ Awaits(s.state[i], q.call[i])
  BY <1>1, ConsumedFlows
<1> HIDE DEF s
<1>3. s.state[i] # "Active"
  BY <1>1, <1>2 DEF Awaits, Legs
<1>4. Good(t) /\ Covered(t, i) /\ i < t.nextId
  BY <1>2, SetExistedGood DEF Covered
<1>5. Alike(s, t)
  BY <1>2 DEF Good, Queue, Alike, Steady, Walks
<1>6. q.attempt[i] + 1 \in Nat \ {0}
  <2>1. q.attempt[i] \in Nat
    BY QueueAssumption DEF Good, Queue
  <2> QED
    BY <2>1
<1> HIDE DEF t
<1>7. Awaited(t, {i}) /\ Alert(t)
  BY <1>2, <1>5, AlikeFlows
<1>8. /\ Handled(s, ResolveFreeName(s, i, q.attempt[i] + 1))
      /\ Handled(s, StartTransfer(s, i)) /\ Handled(t, StartTransfer(t, i))
  BY <1>2, <1>3, <1>4, <1>6, <1>7, ResolveFreeNameFlows, StartTransferFlows
<1>9. Handled(s, q')
  BY <1>1, <1>5, <1>8, AlikeFlows
<1> QED
  BY <1>1, <1>2, <1>9, HandledMoved, MovedFlows

\* The end of a Download or Upload.
LEMMA LegReplyFlows ==
    ASSUME Good(q), Flows(q), NEW i \in JobIds, NEW result, LegReply(i, result)
    PROVE  Flows(q')
<1> DEFINE s == Consumed(i)
           x == s.asked \ {i}
           t == [s EXCEPT !.asked = x]
<1>1. /\ q.call[i] \in Legs /\ q.loop = "none"
      /\ q' = OnLegDone(t, i, result, q.call[i])
  BY DEF LegReply, Ready
<1>2. /\ Good(s) /\ Covered(s, i) /\ i < s.nextId
      /\ Awaited(s, {i}) /\ Alert(s) /\ Walk(s) /\ s.loop = q.loop
      /\ Awaits(s.state[i], q.call[i])
  <2>1. q.call[i] # "none"
    BY <1>1 DEF Legs
  <2> QED
    BY <2>1, ConsumedFlows
<1> HIDE DEF s
<1>3. x \in SUBSET JobIds /\ s \in Queue
  BY <1>2 DEF Good, Queue
<1> HIDE DEF x
<1>4. t \in Queue
  BY SMTT(60), <1>3 DEF Queue
<1>5. /\ t.state = s.state /\ t.job = s.job /\ t.call = s.call
      /\ t.nextId = s.nextId /\ t.preflight = s.preflight
      /\ t.checks = s.checks /\ t.loop = s.loop
  BY <1>3 DEF Queue
<1>6. Alike(s, t)
  BY <1>3 DEF Queue, Alike, Steady, Walks
<1> HIDE DEF t
<1>7. Good(t) /\ Covered(t, i) /\ i < t.nextId
  BY <1>2, <1>4, <1>5, GoodFrame DEF Covered
<1>8. t.state[i] \notin {"Checking", "AwaitingResolution"}
  BY <1>1, <1>2, <1>5 DEF Awaits, Legs
<1>9. Awaited(t, {i}) /\ Alert(t)
  BY <1>2, <1>6, AlikeFlows
<1>10. Handled(t, q')
  BY <1>1, <1>7, <1>8, <1>9, OnLegDoneFlows
<1>11. Handled(s, q')
  BY <1>6, <1>10, AlikeFlows
<1> QED
  BY <1>1, <1>2, <1>11, HandledMoved, MovedFlows

\* The answers to ReadLink, Remove and CreateSymlink.
LEMMA LinkReplyFlows ==
    ASSUME Good(q), Flows(q), NEW i \in JobIds, NEW ok \in BOOLEAN, LinkReply(i, ok)
    PROVE  Flows(q')
<1> DEFINE s == Consumed(i)
<1>1. /\ q.call[i] \in {"readlink", "remove", "symlink"} /\ q.loop = "none"
      /\ q' \in {FinishJob(s, i, "Failed"), OnLinkRead(s, i), WriteLink(s, i),
                 FinishJob(s, i, "Completed")}
  BY DEF LinkReply, Ready
<1>2. /\ Good(s) /\ Covered(s, i) /\ i < s.nextId
      /\ Awaited(s, {i}) /\ Alert(s) /\ Walk(s) /\ s.loop = q.loop
      /\ Awaits(s.state[i], q.call[i])
  BY <1>1, ConsumedFlows
<1> HIDE DEF s
<1>3. s.state[i] \notin {"Checking", "AwaitingResolution"}
  BY <1>1, <1>2 DEF Awaits
<1>4. Handled(s, FinishJob(s, i, "Failed")) /\ Handled(s, FinishJob(s, i, "Completed"))
  BY <1>2, FinishJobFlows DEF Terminal
<1>5. Handled(s, WriteLink(s, i)) /\ Handled(s, OnLinkRead(s, i))
  BY <1>2, <1>3, LinkFlows
<1> QED
  BY <1>1, <1>2, <1>4, <1>5, HandledMoved, MovedFlows

\* An answer about space, or to its warning.
LEMMA CheckReplyFlows ==
    ASSUME Good(q), Flows(q), CheckReply
    PROVE  Flows(q')
<1>1. PICK c \in q.checks :
        \/ \E answer \in {"fits", "short", "climb"} : SpaceReply(c, answer)
        \/ \E proceed \in BOOLEAN : WarningReply(c, proceed)
  BY DEF CheckReply
<1> DEFINE x == q.checks \ {c}
           t == [q EXCEPT !.checks = x]
<1>2. q \in Queue /\ q.loop = "none"
  BY <1>1 DEF Good, SpaceReply, WarningReply, Ready
<1>3. /\ q.preflight = "Checking" /\ q.checks = {c} /\ c \in Check
  BY <1>2 DEF Good, CheckCount
<1>4. x = {}
  BY <1>3
<1> HIDE DEF x
<1>5. t \in Queue
  BY SMTT(60), <1>2, <1>4 DEF Queue
<1>6. /\ t.job = q.job /\ t.nextId = q.nextId /\ t.preflight = "Checking"
      /\ t.checks = {} /\ t.loop = "none" /\ t.state = q.state /\ t.call = q.call
  BY <1>2, <1>3, <1>4 DEF Queue
<1>7. Alike(q, t)
  BY <1>2 DEF Queue, Alike, Steady, Walks
<1>8. \/ \E short \in BOOLEAN : q' = OnPreflightSpace(t, c.fs, short)
      \/ q' = QuerySpaceFrom(t, c.fs, c.climb - 1)
      \/ q' = ClearPreflight(t)
      \/ q' = CancelBatchFor(t, c.fs)
  <2>1. ASSUME NEW answer \in {"fits", "short", "climb"}, SpaceReply(c, answer)
        PROVE  \/ \E short \in BOOLEAN : q' = OnPreflightSpace(t, c.fs, short)
               \/ q' = QuerySpaceFrom(t, c.fs, c.climb - 1)
    <3>1. (answer = "short") \in BOOLEAN
      OBVIOUS
    <3>2. CASE answer = "climb"
      BY <2>1, <3>2 DEF SpaceReply, x
    <3>3. CASE answer # "climb"
      <4>1. q' = OnPreflightSpace(t, c.fs, answer = "short")
        BY <2>1, <3>3 DEF SpaceReply, x
      <4> QED
        BY <3>1, <4>1
    <3> QED
      BY <3>2, <3>3
  <2>2. ASSUME NEW proceed \in BOOLEAN, WarningReply(c, proceed)
        PROVE  q' = ClearPreflight(t) \/ q' = CancelBatchFor(t, c.fs)
    BY <2>2 DEF WarningReply, x
  <2> QED
    BY <1>1, <2>1, <2>2
<1> HIDE DEF t
<1>9. Addressed(t) /\ Weighed(t) /\ Fresh(t)
  BY <1>6 DEF Good, Addressed, Queued, Weighed, Covered, Fresh
<1>10. Awaited(t, {}) /\ Alert(t)
  BY <1>7, AlikeFlows DEF Flows
<1>11. Walk(t)
  BY <1>7 DEF Flows, Walk, Alike, Walks
<1>12. c.fs \in Fs
  BY <1>3 DEF Check
<1>13. \A short \in BOOLEAN : Handled(t, OnPreflightSpace(t, c.fs, short))
  BY <1>5, <1>6, <1>9, <1>10, <1>12, OnPreflightSpaceFlows
<1>14. Handled(t, ClearPreflight(t))
  BY <1>5, <1>6, <1>9, <1>10, ClearPreflightFlows
<1>15. Handled(t, QuerySpaceFrom(t, c.fs, c.climb - 1))
  <2> DEFINE u == QuerySpaceFrom(t, c.fs, c.climb - 1)
  <2>1. Alike(t, u)
    BY <1>5, QuerySpaceFromAlike
  <2> HIDE DEF u
  <2>2. Handled(t, u)
    BY <1>10, <2>1, AlikeFlows DEF Handled, Alike
  <2> QED
    BY <2>2 DEF u
<1>16. Flows(CancelBatchFor(t, c.fs))
  BY <1>5, <1>6, <1>10, <1>11, CancelBatchForFlows
<1> QED
  BY <1>6, <1>8, <1>11, <1>13, <1>14, <1>15, <1>16, HandledMoved, MovedFlows

\* A directory has been made.
LEMMA MakeReplyFlows ==
    ASSUME Good(q), Flows(q), MakeReply
    PROVE  Flows(q')
<1>1. PICK d \in DirIds : MakeDirectoryReply(d)
  BY DEF MakeReply
<1> DEFINE x == q.making \ {d}
           t == [q EXCEPT !.making = x]
<1>2. q \in Queue /\ q' = Pump(t) /\ q.loop = "none"
  BY <1>1 DEF Good, MakeDirectoryReply, Ready
<1>3. x \in SUBSET DirIds
  BY <1>2 DEF Queue
<1> HIDE DEF x
<1>4. t \in Queue
  BY SMTT(60), <1>2, <1>3 DEF Queue
<1>5. /\ t.state = q.state /\ t.job = q.job /\ t.call = q.call
      /\ t.nextId = q.nextId /\ t.preflight = q.preflight
      /\ t.checks = q.checks /\ t.loop = q.loop
      /\ t.activeId = q.activeId /\ Walks(q, t)
  BY <1>2 DEF Queue, Walks
<1> HIDE DEF t
<1>6. Good(t) /\ Awaited(t, {})
  BY <1>4, <1>5, GoodFrame DEF Flows, Awaited
<1>7. Walk(t)
  BY <1>5 DEF Flows, Walk, Walks
<1> QED
  BY <1>2, <1>5, <1>6, <1>7, PumpFlows, HandledMoved, MovedFlows

\* A listing has come: the one that was out.
LEMMA WalkReplyFlows ==
    ASSUME Good(q), Flows(q), WalkReply
    PROVE  Flows(q')
<1>1. PICK d \in DirIds, n \in 0..MaxLeaves, subdirs \in 0..MaxSubdirs,
           err \in {"none", "failed", "gone"} :
        \E kinds \in [1..n -> LeafKinds] : ListReply(d, n, kinds, subdirs, err)
  BY DEF WalkReply
<1>2. PICK kinds \in [1..n -> LeafKinds] : ListReply(d, n, kinds, subdirs, err)
  BY <1>1
<1> DEFINE x == q.listings \ {d}
           t == [q EXCEPT !.listings = x]
           u == AbsorbListing(t, d, n, kinds, subdirs, err)
           w == IF q.enumCancelled THEN t ELSE u
<1>3. /\ q \in Queue /\ q.loop = "none" /\ d \in q.listings
      /\ q.nextId + n =< MaxJobs + 1 /\ q.nextDir + subdirs =< MaxDirs + 1
      /\ q' = StepEnumeration(w)
  BY <1>2 DEF Good, ListReply, Ready
<1>4. n \in Nat /\ subdirs \in Nat
  BY QueueAssumption
<1>5. q.enumerating /\ x = {} /\ q.lostListings = {}
  <2>1. q.enumerating
    BY <1>3 DEF Flows, Walk
  <2>2. PICK e \in DirIds : {q.listings, q.lostListings} = {{}, {e}}
    BY <2>1 DEF Flows, Walk
  <2>3. q.listings = {e} /\ q.lostListings = {}
    BY <1>3, <2>2
  <2> QED
    BY <1>3, <2>1, <2>3
<1>6. x \in SUBSET DirIds
  BY <1>5
<1> HIDE DEF x
<1>7. t \in Queue
  BY ZenonT(60), <1>3, <1>6 DEF Queue
<1>8. /\ t.state = q.state /\ t.job = q.job /\ t.call = q.call
      /\ t.nextId = q.nextId /\ t.preflight = q.preflight
      /\ t.checks = q.checks /\ t.loop = q.loop /\ t.nextDir = q.nextDir
      /\ t.activeId = q.activeId /\ t.enumerating = q.enumerating
      /\ t.listings = x /\ t.lostListings = q.lostListings
  BY <1>3 DEF Queue
<1> HIDE DEF t
<1>9. Good(t) /\ Awaited(t, {})
  BY <1>7, <1>8, GoodFrame DEF Flows, Awaited
<1>10. Good(u)
  BY <1>3, <1>4, <1>8, <1>9, AbsorbListingGood
<1>11. Awaited(u, {}) /\ Steady(t, u) /\ Walks(t, u)
  BY <1>3, <1>4, <1>8, <1>9, AbsorbListingFlows
<1> HIDE DEF u
<1>12. /\ Good(w) /\ Awaited(w, {}) /\ w.enumerating
       /\ w.listings = {} /\ w.lostListings = {} /\ w.loop = "none"
  BY <1>3, <1>5, <1>8, <1>9, <1>10, <1>11 DEF Steady, Walks
<1> HIDE DEF w
<1> QED
  BY <1>3, <1>12, StepEnumerationFlows, MovedFlows

\* Every step keeps the queue flowing.
LEMMA NextFlows == Good(q) /\ Flows(q) /\ [Next]_vars => Flows(q')
<1> SUFFICES ASSUME Good(q), Flows(q), [Next]_vars PROVE Flows(q')
  OBVIOUS
<1>1. CASE User
  <2>1. ASSUME NEW i \in JobIds, UserCancelJob(i) PROVE Flows(q')
    <3>1. q' = CancelJob(q, i) /\ q.loop = "none"
      BY <2>1 DEF UserCancelJob, Ready
    <3> QED
      BY <3>1, CancelJobFlows, HandledMoved, MovedFlows DEF Flows
  <2> QED
    BY <1>1, <2>1, UserEnqueueFlows, PauseResumeFlows, CancelAllFlows,
       ClearFinishedFlows DEF User
<1>2. CASE SessionEvent
  BY <1>2, SessionEventFlows DEF SessionEvent
<1>3. ASSUME NEW i \in JobIds, Reply(i) PROVE Flows(q')
  BY <1>3, StatReplyFlows, PromptReplyFlows, ProbeReplyFlows, LegReplyFlows,
     LinkReplyFlows DEF Reply
<1>4. CASE CheckReply \/ WalkReply \/ MakeReply
  BY <1>4, CheckReplyFlows, WalkReplyFlows, MakeReplyFlows
<1>5. CASE Loop
  BY <1>5, CancelNextFlows, CancelDoneFlows DEF Loop
<1>6. CASE UNCHANGED vars
  BY <1>6 DEF vars
<1> QED
  BY <1>1, <1>2, <1>3, <1>4, <1>5, <1>6 DEF Next

-----------------------------------------------------------------------------
(* The theorems *)

FlowInv == Inv /\ Flows(q)

\* The queue is well formed and flows, in every behaviour and for any endpoints,
\* routes and bounds.
THEOREM AlwaysFlows == Spec => []FlowInv
<1>1. Init => FlowInv
  BY InitGood, InitFlows DEF FlowInv, Inv
<1>2. FlowInv /\ [Next]_vars => FlowInv'
  BY NextGood, NextFlows DEF FlowInv, Inv
<1> QED
  BY <1>1, <1>2, PTL DEF Spec

\* Whatever answers, cancels and closing sessions interleave, a job in flight
\* waits for a callback that moves it on, and the active job is in flight
\* (BeginJob, OnConflictKnown, ResolveFreeName, StartTransfer, StartLink).
THEOREM InFlightAwaited == Spec => []InFlightIsAwaited
<1>1. FlowInv => InFlightIsAwaited
  BY DEF FlowInv, Flows, Awaited, Awaits, InFlightIsAwaited
<1> QED
  BY <1>1, AlwaysFlows, PTL

\* A queue with work and no pause waits for something that pumps it, unless a
\* link has dropped: no order of answers lets it fall asleep (Pump and its
\* callers).
THEOREM NeverStalls == Spec => []NeverStalled
<1>1. FlowInv => NeverStalled
  BY DEF FlowInv, Flows, Alert, NeverStalled
<1> QED
  BY <1>1, AlwaysFlows, PTL

\* Cancel All and a declined warning leave nothing of what they were about,
\* though FinishJob starts the next job at every turn of their loop (CancelAll,
\* CancelBatchFor).
THEOREM CancelsLeaveNothing == Spec => []CancelLeavesNothing
<1>1. FlowInv => CancelLeavesNothing
  BY DEF FlowInv, Flows, Swept, CancelLeavesNothing
<1> QED
  BY <1>1, AlwaysFlows, PTL

\* A walk has exactly one listing out, and nothing is owed to a caller without a
\* walk (EnqueueTree, StepEnumeration, FinishEnumeration).
THEOREM OneWalkAtATime == Spec => []OneWalk
<1>1. FlowInv => OneWalk
  <2> SUFFICES ASSUME FlowInv PROVE OneWalk
    OBVIOUS
  <2>1. CASE q.enumerating
    <3>1. PICK d \in DirIds : {q.listings, q.lostListings} = {{}, {d}}
      BY <2>1 DEF FlowInv, Flows, Walk
    <3>2. q.listings \union q.lostListings = {d}
      BY <3>1
    <3> QED
      BY <2>1, <3>2, FS_Singleton DEF OneWalk
  <2>2. CASE ~q.enumerating
    <3>1. q.listings \union q.lostListings = {} /\ q.owed = {}
      BY <2>2 DEF FlowInv, Flows, Walk
    <3> QED
      BY <2>2, <3>1, FS_EmptySet DEF OneWalk
  <2> QED
    BY <2>1, <2>2
<1> QED
  BY <1>1, AlwaysFlows, PTL

\* A closing session retires its own jobs, all of them and no other, although the
\* next job starts at every turn (CancelJobsUsing).
THEOREM SessionsTakeTheirJobs == Spec => SessionTakesItsJobs
<1> DEFINE Takes ==
      q.loop = "session" =>
        /\ \A i \in JobIds :
              i \in Unfinished(q) /\ ~Uses(q, i, q.volume) =>
                  q'.state[i] \notin Terminal
        /\ q.todo = {} => \A i \in Unfinished(q) : ~Uses(q, i, q.volume)
<1>1. FlowInv /\ [Next]_vars => [Takes]_vars
  <2> SUFFICES ASSUME FlowInv, Next, q.loop = "session" PROVE Takes
    BY DEF vars
  <2>1. Good(q) /\ Flows(q)
    BY DEF FlowInv, Inv
  <2>2. q.todo = {} => \A i \in Unfinished(q) : ~Uses(q, i, q.volume)
    BY <2>1 DEF Flows, Swept, Unfinished
  <2>3. \A i \in JobIds : i \in Unfinished(q) => q.state[i] \notin Terminal
    BY DEF Unfinished, InFlight, Terminal
  <2>4. CASE CancelNext
    <3>1. \A j \in JobIds :
             \/ q'.state[j] = q.state[j]
             \/ q.state[j] = "Queued" /\ q'.state[j] = "Checking"
             \/ Uses(q, j, q.volume)
      BY <2>1, <2>4, CancelNextFlows
    <3> QED
      BY <2>2, <2>3, <3>1 DEF Terminal
  <2>5. CASE CancelDone
    <3>1. q'.state = q.state
      BY <2>1, <2>5, CancelDoneFlows
    <3> QED
      BY <2>2, <2>3, <3>1
  <2>6. ~Ready
    BY DEF Ready
  <2>7. CancelNext \/ CancelDone
    BY <2>6 DEF Next, User, UserEnqueue, UserEnqueueTree, Pause, Resume,
       UserCancelJob, CancelAll, ClearFinished, SessionEvent, DropLink, EndSession,
       Reply, StatReply, PromptReply, ProbeReply, LegReply, LinkReply, Answered,
       CheckReply, SpaceReply, WarningReply, WalkReply, ListReply, MakeReply,
       MakeDirectoryReply, Loop
  <2> QED
    BY <2>4, <2>5, <2>7
<1> QED
  BY <1>1, AlwaysFlows, PTL DEF Spec, SessionTakesItsJobs
=============================================================================
