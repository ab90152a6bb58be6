----------------------------- MODULE LinksProofs -----------------------------
(***************************************************************************)
(* What a session may rely on, whatever its connection, and what its port  *)
(* forwards come to, for any profiles, any number of forwards and of       *)
(* connections of them, and queues of any length.                          *)
(***************************************************************************)
EXTENDS Links, SequenceTheorems, FiniteSetTheorems, TLAPS

\* The stages of a worker that connects, and of a thread that reads a device.
Connecting == {"connect", "handshake", "host key", "authentication", "channel", "pty",
               "requests", "shell", "pid"}
Reading == {"reading", "polling", "readable", "leaving"}
Working == Connecting \union {"loop"} \union Reading
Stages == {"new", "dialing", "dead", "failing", "telling", "told", "ended", "closing"}
          \union Working

LinkTyped ==
    /\ kind \in Kinds /\ running \in BOOLEAN /\ asked \in BOOLEAN /\ why \in Reasons
    /\ heard \in Reasons \union {"open", "error"}
    /\ ui \in {"free", "close", "replace", "gone"} /\ stage \in Stages

\* What the session has heard tells how far the thread is with telling it.
HeardByStage ==
    /\ stage \notin {"telling", "told", "ended", "dead"} => heard = "open"
    /\ stage \in {"telling", "dead"} => heard \notin Reasons
    /\ stage = "told" => heard \in Reasons

\* Nothing works on with running_ taken back, nor means to say "Deliberate", unless
\* Stop was called.
StoppedIsAsked ==
    /\ ~running /\ stage \in Working => asked
    /\ why = "Deliberate" /\ stage \in {"closing", "telling"} => asked
    /\ stage = "failing" => why = "Interrupted"
    /\ stage = "dialing" => running

\* A connection is replaced only once its end has been heard.
ReplacedIsOver == ui = "replace" => heard = "Interrupted"

LinkGood == LinkTyped /\ HeardByStage /\ StoppedIsAsked /\ ReplacedIsOver

-----------------------------------------------------------------------------
(* The promise of a transport *)

\* At first a link is as new.
LEMMA InitLinkGood == Init => LinkGood /\ Contract!Init
BY DEF Init, InitLink, LinkGood, LinkTyped, HeardByStage, StoppedIsAsked, ReplacedIsOver,
       Stages, Reasons, Working, Connecting, Reading, Contract!Init

\* What becomes of a link in a step: it is left alone, or one of these.
Goes(from, to) == stage \in from /\ stage' \in to /\ UNCHANGED <<kind, why, heard, asked, ui>>

\* A step from one stage of the work to the next.
Advances ==
    /\ Goes(Working \union {"dialing"}, Working) /\ stage' # "dialing" /\ UNCHANGED running

\* The thread starts.
Starts ==
    /\ stage = "new" /\ stage' \in Working \union {"dialing"} /\ running' = TRUE
    /\ UNCHANGED <<kind, why, heard, asked, ui>>

\* It fails, and will say so; or it fails before there is a thread.
Fails ==
    \/ /\ stage \in Connecting /\ stage' = "failing" /\ why' = "Interrupted"
       /\ UNCHANGED <<kind, running, heard, asked, ui>>
    \/ /\ stage = "dialing" /\ stage' = "dead" /\ heard' = "error" /\ running' = FALSE
       /\ UNCHANGED <<kind, why, asked, ui>>

\* It stops working, and knows the reason.
Leaves ==
    /\ stage \in Working /\ stage' \in {"closing", "telling"} /\ why' \in Reasons
    /\ why' = "Deliberate" => ~running
    /\ running' = FALSE /\ UNCHANGED <<kind, heard, asked, ui>>

\* It gives up without a word.
GivesUp == ~running /\ UNCHANGED running /\ Goes(Working, {"ended"})

\* What is left to do after the loop.
Finishes == Goes({"closing"}, {"telling"}) /\ UNCHANGED running

\* The session goes; what it is told and what the thread does stay.
Goner == ui = "close" /\ ui' = "gone" /\ UNCHANGED <<kind, running, stage, why, heard, asked>>

LinkStep ==
    \/ UNCHANGED linkVars \/ Starts \/ Advances \/ Fails \/ Leaves \/ GivesUp \/ Finishes
    \/ Ending \/ CloseSession \/ ReplaceConnection \/ Goner \/ Replaced

\* The steps of the worker of an SSH session are among them.
LEMMA WorkerLinkStep == Worker => LinkStep
<1>. USE DEF LinkStep, Working, Connecting, Reading, Goes, linkVars
<1>1. ConnectSocket \/ ConnectTunnel \/ Refused => LinkStep
  BY DEF ConnectSocket, ConnectTunnel, Refused, Goto, NotifyError, Advances, Fails, Polled
<1>2. PerformHandshake \/ VerifyHostKey \/ OnKbdIntChallenge \/ Authenticate => LinkStep
  BY DEF PerformHandshake, VerifyHostKey, OnKbdIntChallenge, Authenticate, Answered, Goto, Advances
<1>3. OpenChannel \/ RequestPty \/ SetupForwarding \/ StartShell \/ ReadPid => LinkStep
  BY DEF OpenChannel, RequestPty, SetupForwarding, StartShell, ReadPid, Answered, Unanswered,
         Goto, Advances
<1>4. GivenUp => LinkStep
  BY DEF GivenUp, Polled, Goto, NotifyError, GivesUp, Fails
<1>5. Turns => LinkStep
  BY DEF Turns
<1>6. LeaveLoop \/ TakeLeave => LinkStep
  BY DEF LeaveLoop, TakeLeave, Goto, Leaves, Finishes, Reasons
<1>. QED
  BY <1>1, <1>2, <1>3, <1>4, <1>5, <1>6 DEF Worker

\* So are those of the thread that reads a device.
LEMMA ReaderLinkStep == Reader => LinkStep
BY DEF Reader, Look, Poll, Read, Leave, Goto, LinkStep, Working, Connecting, Reading, Goes,
       Advances, Leaves, Reasons

\* So are all steps.
LEMMA NextLinkStep == [Next]_vars => LinkStep
<1>1. SshWorker \/ DeviceReader \/ Ends \/ Bridge => LinkStep
  BY WorkerLinkStep, ReaderLinkStep
     DEF SshWorker, DeviceReader, Ends, Bridge, BridgeEnds, Ssh, Device, LinkStep
<1>2. User \/ Outside => LinkStep
  BY DEF User, Outside, LinkStep, Ssh, Device, SshInterface, AnswerChallenge, linkVars,
         BridgeStalls, NetFails, KernelGivesUp, PeerWrites, PeerGoes
<1>3. ASSUME Waits PROVE LinkStep
  <2>1. Closed \/ ShowChallenge \/ CloseDevice \/ CloseDeviceLink => LinkStep
    BY DEF Closed, ShowChallenge, CloseDevice, CloseDeviceLink, LinkStep, linkVars, Goner
  <2>2. StartSsh \/ StartDevice => LinkStep
    BY DEF StartSsh, StartDevice, LinkStep, Starts, Working, Connecting, Reading
  <2>3. RunDialScript => LinkStep
    BY DEF RunDialScript, LinkStep, Advances, Fails, Goes, Working, Connecting, Reading
  <2>4. RenewSsh \/ RenewDevice => LinkStep
    BY DEF RenewSsh, RenewDevice, LinkStep
  <2>. QED
    BY <1>3, <2>1, <2>2, <2>3, <2>4 DEF Waits, Ssh, Device
<1>4. UNCHANGED vars => LinkStep
  BY DEF vars, LinkStep
<1>. QED
  BY <1>1, <1>2, <1>3, <1>4 DEF Next

\* No step breaks what a link's state says, ...
LEMMA LinkStepKeeps == LinkGood /\ LinkStep => LinkGood'
<1>. SUFFICES ASSUME LinkGood, LinkStep PROVE LinkGood'
  OBVIOUS
<1>1. CASE UNCHANGED linkVars
  <2>1. UNCHANGED <<kind, running, stage, why, heard, asked, ui>>
    BY <1>1 DEF linkVars
  <2>2. LinkTyped' /\ HeardByStage'
    BY <2>1 DEF LinkGood, LinkTyped, HeardByStage
  <2>3. StoppedIsAsked' /\ ReplacedIsOver'
    BY <2>1 DEF LinkGood, StoppedIsAsked, ReplacedIsOver
  <2>. QED
    BY <2>2, <2>3 DEF LinkGood
<1>. USE DEF LinkGood, LinkTyped, HeardByStage, StoppedIsAsked, ReplacedIsOver, Stages, Reasons,
            Working, Connecting, Reading
<1>2. CASE Starts
  BY <1>2 DEF Starts
<1>3. CASE Advances
  BY <1>3 DEF Advances, Goes
<1>4. CASE Fails
  BY <1>4 DEF Fails
<1>5. CASE Leaves
  BY <1>5 DEF Leaves
<1>6. CASE GivesUp \/ Finishes
  BY <1>6 DEF GivesUp, Finishes, Goes
<1>7. CASE Ending
  BY <1>7 DEF Ending, OnError, OnDisconnect, Return
<1>8. CASE CloseSession \/ ReplaceConnection
  BY <1>8 DEF CloseSession, ReplaceConnection, Stop
<1>9. CASE Goner \/ Replaced
  BY <1>9 DEF Goner, Replaced, Joined
<1>. QED
  BY <1>1, <1>2, <1>3, <1>4, <1>5, <1>6, <1>7, <1>8, <1>9 DEF LinkStep

\* ... and each is a step of the transport's contract, or none of it.
LEMMA LinkStepPromised == LinkGood /\ LinkStep => [Contract!Next]_(Contract!transport)
<1>. SUFFICES ASSUME LinkGood, LinkStep PROVE [Contract!Next]_(Contract!transport)
  OBVIOUS
<1>. USE DEF LinkGood, LinkTyped, HeardByStage, StoppedIsAsked, ReplacedIsOver, Stages, Reasons,
            Working, Connecting, Reading, Contract!transport, Contract!Reasons
<1>1. CASE UNCHANGED linkVars
  BY <1>1 DEF linkVars
<1>2. CASE Starts
  BY <1>2 DEF Starts, Contract!Next, Contract!Start
<1>3. CASE Advances
  BY <1>3 DEF Advances, Goes, Contract!Next, Contract!Start
<1>4. CASE Fails
  BY <1>4 DEF Fails, Contract!Next, Contract!OnError
<1>5. CASE Leaves
  BY <1>5 DEF Leaves
<1>6. CASE GivesUp \/ Finishes
  BY <1>6 DEF GivesUp, Finishes, Goes, Contract!Next, Contract!Return
<1>7. CASE Ending
  BY <1>7 DEF Ending, OnError, OnDisconnect, Return, Contract!Next, Contract!OnError,
              Contract!OnDisconnect, Contract!Return
<1>8. CASE CloseSession \/ ReplaceConnection
  BY <1>8 DEF CloseSession, ReplaceConnection, Stop, Contract!Next, Contract!Stop
<1>9. CASE Goner \/ Replaced
  BY <1>9 DEF Goner, Replaced, Joined, Contract!Next, Contract!Replace
<1>. QED
  BY <1>1, <1>2, <1>3, <1>4, <1>5, <1>6, <1>7, <1>8, <1>9 DEF LinkStep

\* A session may rely on the same of a shell, a serial port and an SSH connection:
\* it is told of the end once, of nothing afterwards, and not left without a word
\* unless it asked for the end itself.
THEOREM LinksKeepContract == Spec => LinkContract
<1>1. Init => LinkGood /\ Contract!Init
  BY InitLinkGood
<1>2. LinkGood /\ [Next]_vars => LinkGood' /\ [Contract!Next]_(Contract!transport)
  BY NextLinkStep, LinkStepKeeps, LinkStepPromised
<1>. QED
  BY <1>1, <1>2, PTL DEF Spec, LinkContract, Contract!Spec


-----------------------------------------------------------------------------
(* Requests, and what they come to *)

Requests == [op : {"add", "remove"}, id : Ids]

\* The forwards there are after the requests rs, if those of held are there before.
After(rs, held) ==
    {id \in Ids :
        IF \E i \in DOMAIN rs : rs[i].id = id
        THEN \E i \in DOMAIN rs : /\ rs[i].id = id /\ rs[i].op = "add"
                                  /\ \A j \in DOMAIN rs : rs[j].id = id => j <= i
        ELSE id \in held}

\* What one request does.
Done(held, r) == IF r.op = "add" THEN held \union {r.id} ELSE held \ {r.id}

\* What there will be is what comes after the requests on their way.
LEMMA WillHoldIsAfter == WillHold = After(batch \o pending, Held(fwd))
BY DEF WillHold, After

\* No request changes nothing.
LEMMA AfterNone == \A held \in SUBSET Ids : After(<<>>, held) = held
BY DEF After

\* The first request may be done at once.
LEMMA AfterHead ==
    ASSUME NEW rs \in Seq(Requests), rs # <<>>, NEW held \in SUBSET Ids
    PROVE  After(rs, held) = After(Tail(rs), Done(held, Head(rs)))
<1>. DEFINE r == Head(rs) tl == Tail(rs)
<1>1. /\ tl \in Seq(Requests) /\ r \in Requests /\ r = rs[1] /\ Len(rs) \in Nat \ {0}
      /\ Len(tl) = Len(rs) - 1 /\ \A i \in 1..Len(rs) - 1 : tl[i] = rs[i + 1]
  BY HeadTailProperties, LenProperties, EmptySeq
<1>2. DOMAIN rs = 1..Len(rs) /\ DOMAIN tl = 1..Len(rs) - 1
  BY <1>1, LenProperties
<1>3. \A i \in DOMAIN tl : i \in Nat /\ i >= 1 /\ i + 1 \in DOMAIN rs /\ tl[i] = rs[i + 1]
  BY <1>1, <1>2
<1>4. \A i \in DOMAIN rs : /\ i \in Nat /\ i >= 1
                           /\ i # 1 => i - 1 \in DOMAIN tl /\ tl[i - 1] = rs[i]
  BY <1>1, <1>2
<1>5. 1 \in DOMAIN rs /\ r = rs[1] /\ r.op \in {"add", "remove"} /\ r.id \in Ids
  BY <1>1, <1>2 DEF Requests
<1>. HIDE DEF r, tl
<1>6. ASSUME NEW id \in Ids PROVE id \in After(rs, held) <=> id \in After(tl, Done(held, r))
  <2>1. CASE \E i \in DOMAIN tl : tl[i].id = id
    <3>1. PICK k \in DOMAIN tl : tl[k].id = id
      BY <2>1
    <3>2. k + 1 \in DOMAIN rs /\ rs[k + 1].id = id /\ k \in Nat /\ k >= 1
      BY <3>1, <1>3
    <3>3. ASSUME NEW i \in DOMAIN rs, rs[i].id = id, rs[i].op = "add",
                 \A j \in DOMAIN rs : rs[j].id = id => j <= i
          PROVE  \E m \in DOMAIN tl : /\ tl[m].id = id /\ tl[m].op = "add"
                                      /\ \A j \in DOMAIN tl : tl[j].id = id => j <= m
      <4>1. i \in Nat /\ k + 1 <= i /\ i # 1
        BY <3>2, <3>3, <1>4
      <4>2. i - 1 \in DOMAIN tl /\ tl[i - 1] = rs[i]
        BY <4>1, <1>4
      <4>3. ASSUME NEW j \in DOMAIN tl, tl[j].id = id PROVE j <= i - 1
        <5>1. j \in Nat /\ j + 1 \in DOMAIN rs /\ rs[j + 1].id = id
          BY <4>3, <1>3
        <5>2. j + 1 <= i
          BY <5>1, <3>3
        <5>. QED
          BY <5>1, <5>2, <4>1
      <4>. QED
        BY <4>2, <4>3, <3>3
    <3>4. ASSUME NEW m \in DOMAIN tl, tl[m].id = id, tl[m].op = "add",
                 \A j \in DOMAIN tl : tl[j].id = id => j <= m
          PROVE  \E i \in DOMAIN rs : /\ rs[i].id = id /\ rs[i].op = "add"
                                      /\ \A j \in DOMAIN rs : rs[j].id = id => j <= i
      <4>1. m \in Nat /\ m + 1 \in DOMAIN rs /\ rs[m + 1] = tl[m]
        BY <1>3
      <4>2. ASSUME NEW j \in DOMAIN rs, rs[j].id = id PROVE j <= m + 1
        <5>1. CASE j = 1
          BY <5>1, <4>1
        <5>2. CASE j # 1
          <6>1. j \in Nat /\ j - 1 \in DOMAIN tl /\ tl[j - 1].id = id
            BY <5>2, <4>2, <1>4
          <6>2. j - 1 <= m
            BY <6>1, <3>4
          <6>. QED
            BY <6>1, <6>2, <4>1
        <5>. QED
          BY <5>1, <5>2
      <4>. QED
        BY <4>1, <4>2, <3>4
    <3>. QED
      BY <2>1, <3>2, <3>3, <3>4 DEF After
  <2>2. CASE ~\E i \in DOMAIN tl : tl[i].id = id
    <3>1. \A i \in DOMAIN rs : rs[i].id = id => i = 1
      BY <2>2, <1>4
    <3>2. id \in After(tl, Done(held, r)) <=> id \in Done(held, r)
      BY <2>2 DEF After
    <3>3. CASE r.id # id
      <4>1. ~\E i \in DOMAIN rs : rs[i].id = id
        BY <3>1, <3>3, <1>5
      <4>. QED
        BY <3>2, <3>3, <4>1 DEF After, Done
    <3>4. CASE r.id = id
      <4>1. \A i \in DOMAIN rs : rs[i].id = id => rs[i] = r /\ i = 1
        BY <3>1, <1>5
      <4>2. id \in After(rs, held) <=> r.op = "add"
        BY <3>4, <4>1, <1>5 DEF After
      <4>. QED
        BY <3>2, <3>4, <4>2 DEF Done
    <3>. QED
      BY <3>3, <3>4
  <2>. QED
    BY <2>1, <2>2
<1>. QED
  BY <1>6 DEF After, r, tl

\* A request that joins them is done last.
LEMMA AfterAppend ==
    ASSUME NEW rs \in Seq(Requests), NEW r \in Requests, NEW held \in SUBSET Ids
    PROVE  After(Append(rs, r), held) = Done(After(rs, held), r)
<1>. DEFINE more == Append(rs, r) n == Len(rs)
<1>1. n \in Nat /\ DOMAIN rs = 1..n /\ DOMAIN more = 1..n + 1
      /\ (\A i \in 1..n : more[i] = rs[i]) /\ more[n + 1] = r
  BY AppendProperties, LenProperties
<1>2. r.op \in {"add", "remove"} /\ r.id \in Ids
  BY DEF Requests
<1>. HIDE DEF more, n
<1>3. ASSUME NEW id \in Ids PROVE id \in After(more, held) <=> id \in Done(After(rs, held), r)
  <2>1. CASE r.id = id
    <3>1. n + 1 \in DOMAIN more /\ \A j \in DOMAIN more : j <= n + 1
      BY <1>1
    <3>2. ASSUME NEW i \in DOMAIN more, \A j \in DOMAIN more : more[j].id = id => j <= i
          PROVE  i = n + 1
      BY <3>1, <3>2, <2>1, <1>1
    <3>. QED
      BY <2>1, <3>1, <3>2, <1>1, <1>2 DEF After, Done
  <2>2. CASE r.id # id
    <3>1. \A i \in DOMAIN more : more[i].id = id => i \in DOMAIN rs
      BY <2>2, <1>1
    <3>2. \A i \in DOMAIN rs : i \in DOMAIN more /\ more[i] = rs[i]
      BY <1>1
    <3>. QED
      BY <2>2, <3>1, <3>2 DEF After, Done
  <2>. QED
    BY <2>1, <2>2
<1>. QED
  BY <1>3, <1>2 DEF After, Done, more

\* Different forwards asked for, in whatever order, come to those forwards.
LEMMA AfterAdds ==
    ASSUME NEW ids \in Seq(Ids), \A i, j \in DOMAIN ids : ids[i] = ids[j] => i = j
    PROVE  Adds(ids) \in Seq(Requests) /\ After(Adds(ids), {}) = ToSet(ids)
<1>1. DOMAIN ids = 1..Len(ids) /\ Len(ids) \in Nat /\ \A i \in DOMAIN ids : ids[i] \in Ids
  BY LenProperties, ElementOfSeq
<1>2. /\ DOMAIN Adds(ids) = DOMAIN ids
      /\ \A i \in DOMAIN ids : Adds(ids)[i].op = "add" /\ Adds(ids)[i].id = ids[i]
  BY DEF Adds, Request
<1>3. Adds(ids) \in Seq(Requests)
  <2>1. \A i \in DOMAIN ids : Adds(ids)[i] \in Requests
    BY <1>1 DEF Adds, Request, Requests
  <2>. QED
    BY <2>1, <1>1, IsASeq DEF Adds
<1>4. ASSUME NEW id \in Ids PROVE id \in After(Adds(ids), {}) <=> id \in ToSet(ids)
  <2>1. \A i, j \in DOMAIN ids : ids[i] = id /\ ids[j] = id => j <= i
    BY <1>1
  <2>2. \A i \in DOMAIN Adds(ids) : i \in DOMAIN ids /\ Adds(ids)[i].id = ids[i]
    BY <1>2
  <2>3. CASE \E i \in DOMAIN ids : ids[i] = id
    <3>1. PICK i \in DOMAIN ids : ids[i] = id
      BY <2>3
    <3>2. i \in DOMAIN Adds(ids) /\ Adds(ids)[i].op = "add" /\ Adds(ids)[i].id = id
      BY <3>1, <1>2
    <3>3. \A j \in DOMAIN Adds(ids) : Adds(ids)[j].id = id => j <= i
      BY <2>1, <2>2, <3>1
    <3>. QED
      BY <3>1, <3>2, <3>3 DEF After, ToSet
  <2>4. CASE ~\E i \in DOMAIN ids : ids[i] = id
    BY <2>2, <2>4 DEF After, ToSet
  <2>. QED
    BY <2>3, <2>4
<1>. QED
  BY <1>1, <1>3, <1>4 DEF After, ToSet

\* The first element of a sequence and the rest of it, if another one follows.
LEMMA ConcatTail ==
    ASSUME NEW S, NEW s \in Seq(S), NEW t \in Seq(S), s # <<>>
    PROVE  /\ s \o t \in Seq(S) /\ s \o t # <<>> /\ Head(s \o t) = Head(s)
           /\ Tail(s \o t) = Tail(s) \o t
<1>1. /\ s \o t \in Seq(S) /\ Len(s \o t) = Len(s) + Len(t)
      /\ \A i \in 1..Len(s) + Len(t) : (s \o t)[i] = IF i <= Len(s) THEN s[i] ELSE t[i - Len(s)]
  BY ConcatProperties
<1>2. Len(s) \in Nat \ {0} /\ Len(t) \in Nat
  BY LenProperties, EmptySeq
<1>3. s \o t # <<>>
  BY <1>1, <1>2, EmptySeq
<1>4. /\ Tail(s) \in Seq(S) /\ Len(Tail(s)) = Len(s) - 1
      /\ \A i \in 1..Len(Tail(s)) : Tail(s)[i] = s[i + 1]
  BY HeadTailProperties
<1>5. /\ Tail(s \o t) \in Seq(S) /\ Len(Tail(s \o t)) = Len(s \o t) - 1
      /\ \A i \in 1..Len(Tail(s \o t)) : Tail(s \o t)[i] = (s \o t)[i + 1]
  BY <1>1, <1>3, HeadTailProperties
<1>6. /\ Tail(s) \o t \in Seq(S) /\ Len(Tail(s) \o t) = Len(Tail(s)) + Len(t)
      /\ \A i \in 1..Len(Tail(s)) + Len(t) :
            (Tail(s) \o t)[i] = IF i <= Len(Tail(s)) THEN Tail(s)[i] ELSE t[i - Len(Tail(s))]
  BY <1>4, ConcatProperties
<1>7. Len(Tail(s \o t)) = Len(s) + Len(t) - 1 /\ Len(Tail(s) \o t) = Len(s) + Len(t) - 1
  BY <1>1, <1>2, <1>4, <1>5, <1>6
<1>8. ASSUME NEW i \in 1..Len(s) + Len(t) - 1 PROVE Tail(s \o t)[i] = (Tail(s) \o t)[i]
  <2>1. Tail(s \o t)[i] = IF i + 1 <= Len(s) THEN s[i + 1] ELSE t[i + 1 - Len(s)]
    BY <1>1, <1>2, <1>5, <1>7
  <2>2. (Tail(s) \o t)[i] = IF i <= Len(s) - 1 THEN Tail(s)[i] ELSE t[i - (Len(s) - 1)]
    BY <1>2, <1>4, <1>6
  <2>3. i <= Len(s) - 1 => Tail(s)[i] = s[i + 1]
    BY <1>2, <1>4
  <2>4. i + 1 - Len(s) = i - (Len(s) - 1) /\ (i + 1 <= Len(s) <=> i <= Len(s) - 1)
    BY <1>2
  <2>. QED
    BY <2>1, <2>2, <2>3, <2>4
<1>9. Tail(s \o t) = Tail(s) \o t
  BY <1>5, <1>6, <1>7, <1>8, SeqEqual
<1>10. Head(s \o t) = Head(s)
  BY <1>1, <1>2, <1>3, HeadTailProperties
<1>. QED
  BY <1>1, <1>3, <1>9, <1>10

\* Appending to the second of two sequences appends to both.
LEMMA ConcatAppend ==
    ASSUME NEW S, NEW s \in Seq(S), NEW t \in Seq(S), NEW e \in S
    PROVE  s \o Append(t, e) = Append(s \o t, e)
<1>1. Append(t, e) = t \o <<e>> /\ s \o t \in Seq(S) /\ <<e>> \in Seq(S)
  BY AppendIsConcat, ConcatProperties
<1>2. Append(s \o t, e) = (s \o t) \o <<e>>
  BY <1>1, AppendIsConcat
<1>. QED
  BY <1>1, <1>2, ConcatAssociative

\* What is appended joins the elements.
LEMMA AppendedSet ==
    ASSUME NEW S, NEW s \in Seq(S), NEW e \in S
    PROVE  ToSet(Append(s, e)) = ToSet(s) \union {e}
<1>1. /\ Append(s, e) \in Seq(S) /\ Len(Append(s, e)) = Len(s) + 1 /\ Append(s, e)[Len(s) + 1] = e
      /\ \A i \in 1..Len(s) : Append(s, e)[i] = s[i]
  BY AppendProperties
<1>2. DOMAIN s = 1..Len(s) /\ Len(s) \in Nat /\ DOMAIN Append(s, e) = 1..Len(s) + 1
  BY <1>1, LenProperties
<1>3. \A i \in 1..Len(s) + 1 : i \in 1..Len(s) \/ i = Len(s) + 1
  BY <1>2
<1>4. 1..Len(s) \subseteq 1..Len(s) + 1 /\ Len(s) + 1 \in 1..Len(s) + 1
  BY <1>2
<1>. QED
  BY <1>1, <1>2, <1>3, <1>4 DEF ToSet

\* Removing one of several different ones takes it out and leaves the others.
LEMMA RemoveOne ==
    ASSUME NEW S, NEW s \in Seq(S), \A i, j \in DOMAIN s : s[i] = s[j] => i = j,
           NEW k \in DOMAIN s
    PROVE  LET t == RemoveAt(s, k) IN
           /\ t \in Seq(S) /\ \A i, j \in DOMAIN t : t[i] = t[j] => i = j
           /\ ToSet(t) = ToSet(s) \ {s[k]}
<1>. DEFINE t == RemoveAt(s, k) a == SubSeq(s, 1, k - 1) b == SubSeq(s, k + 1, Len(s))
<1>1. DOMAIN s = 1..Len(s) /\ Len(s) \in Nat /\ \A i \in 1..Len(s) : s[i] \in S
  BY LenProperties, ElementOfSeq
<1>2. a \in Seq(S) /\ Len(a) = k - 1 /\ \A i \in 1..k - 1 : a[i] = s[i]
  <2>1. k - 1 \in Int /\ 1 \in Int /\ \A i \in 1..k - 1 : s[i] \in S
    BY <1>1
  <2>2. /\ a \in Seq(S) /\ Len(a) = IF 1 <= k - 1 THEN k - 1 - 1 + 1 ELSE 0
        /\ \A i \in 1..k - 1 - 1 + 1 : a[i] = s[1 + i - 1]
    BY <2>1, SubSeqProperties
  <2>. QED
    BY <2>2, <1>1
<1>3. b \in Seq(S) /\ Len(b) = Len(s) - k /\ \A i \in 1..Len(s) - k : b[i] = s[k + i]
  <2>1. k + 1 \in Int /\ Len(s) \in Int /\ \A i \in k + 1..Len(s) : s[i] \in S
    BY <1>1
  <2>2. /\ b \in Seq(S) /\ Len(b) = IF k + 1 <= Len(s) THEN Len(s) - (k + 1) + 1 ELSE 0
        /\ \A i \in 1..Len(s) - (k + 1) + 1 : b[i] = s[k + 1 + i - 1]
    BY <2>1, SubSeqProperties
  <2>. QED
    BY <2>2, <1>1
<1>4. t = a \o b
  BY DEF RemoveAt
<1>. HIDE DEF a, b, t
<1>5. /\ t \in Seq(S) /\ Len(t) = Len(s) - 1
      /\ \A i \in 1..Len(s) - 1 : t[i] = IF i < k THEN s[i] ELSE s[i + 1]
  <2>1. /\ t \in Seq(S) /\ Len(t) = Len(a) + Len(b)
        /\ \A i \in 1..Len(a) + Len(b) : t[i] = IF i <= Len(a) THEN a[i] ELSE b[i - Len(a)]
    <3>1. a \in Seq(S) /\ b \in Seq(S)
      BY <1>2, <1>3
    <3>. QED
      BY <3>1, <1>4, ConcatProperties
  <2>2. Len(a) + Len(b) = Len(s) - 1 /\ Len(a) = k - 1 /\ k \in 1..Len(s)
    BY <1>1, <1>2, <1>3
  <2>3. ASSUME NEW i \in 1..Len(s) - 1 PROVE t[i] = IF i < k THEN s[i] ELSE s[i + 1]
    <3>1. t[i] = IF i <= k - 1 THEN a[i] ELSE b[i - (k - 1)]
      BY <2>1, <2>2
    <3>2. CASE i < k
      BY <3>1, <3>2, <2>2, <1>1, <1>2
    <3>3. CASE i >= k
      <4>1. i - (k - 1) \in 1..Len(s) - k /\ k + (i - (k - 1)) = i + 1 /\ ~(i <= k - 1) /\ ~(i < k)
        BY <3>3, <2>2, <1>1
      <4>. QED
        BY <3>1, <4>1, <1>3
    <3>. QED
      BY <3>2, <3>3, <2>2, <1>1
  <2>. QED
    BY <2>1, <2>2, <2>3
<1>6. DOMAIN t = 1..Len(s) - 1
  BY <1>5, LenProperties
<1>7. /\ \A i \in DOMAIN t : \E j \in DOMAIN s : j # k /\ t[i] = s[j] /\ j = IF i < k THEN i ELSE i + 1
      /\ \A j \in DOMAIN s \ {k} : \E i \in DOMAIN t : t[i] = s[j]
  <2>1. \A i \in DOMAIN t : \E j \in DOMAIN s : j # k /\ t[i] = s[j] /\ j = IF i < k THEN i ELSE i + 1
    BY <1>1, <1>5, <1>6
  <2>2. ASSUME NEW j \in DOMAIN s \ {k} PROVE \E i \in DOMAIN t : t[i] = s[j]
    <3>1. CASE j < k
      BY <3>1, <1>1, <1>5, <1>6
    <3>2. CASE j > k
      <4>1. j - 1 \in DOMAIN t /\ t[j - 1] = s[j]
        BY <3>2, <1>1, <1>5, <1>6
      <4>. QED
        BY <4>1
    <3>. QED
      BY <3>1, <3>2, <1>1
  <2>. QED
    BY <2>1, <2>2
<1>8. \A i, j \in DOMAIN t : t[i] = t[j] => i = j
  BY <1>1, <1>5, <1>6
<1>9. ToSet(t) = ToSet(s) \ {s[k]}
  BY <1>7 DEF ToSet
<1>. QED
  BY <1>5, <1>8, <1>9 DEF t

-----------------------------------------------------------------------------
(* What the port forwards are made of *)

Forwards == [state : {"none", "up", "retired", "failed"}, conns : 0..MaxConns, warning : BOOLEAN]
Statuses == [active : BOOLEAN, conns : 0..MaxConns, warning : BOOLEAN, error : BOOLEAN]
Snapshots == UNION {[ids -> Statuses] : ids \in SUBSET Ids}
Dialogs == [phase : {"none", "verifying", "failed", "given up"}, mine : SUBSET Ids]

\* Numbers are given out once, in order; no two descriptions have the same.
PfTyped ==
    /\ profile \in Profiles /\ nextId \in 1..Most + 1
    /\ descs \in Seq(Ids) /\ \A i \in DOMAIN descs : descs[i] < nextId
    /\ \A i, j \in DOMAIN descs : descs[i] = descs[j] => i = j
    /\ pending \in Seq(Requests) /\ batch \in Seq(Requests) /\ changed \in BOOLEAN
    /\ fwd \in [Ids -> Forwards] /\ {last, told, cache} \subseteq Snapshots
    /\ wired \in {"no", "set", "seeded"} /\ posts \in Seq(Snapshots)
    /\ rows \in SUBSET Ids /\ waiting \in SUBSET Ids /\ dialog \in Dialogs

\* From the new connection until the loop is left.
Fresh == {"new", "loop"} \union Connecting

\* A step that leaves the port forwards alone neither starts nor renews a connection.
Quiet ==
    /\ UNCHANGED <<pfVars, kind, profile>>
    /\ ui' \in {"free", "replace"} => ui \in {"free", "replace"}
    /\ kind = "ssh" /\ (running' \/ stage' = "new") => running \/ stage = "new"
    /\ kind = "ssh" /\ stage' \in Fresh => stage \in Fresh

Turning == stage = "loop" /\ kind = "ssh" /\ UNCHANGED <<linkVars, profile>>
Interacts == ui = "free" /\ stage # "new" /\ UNCHANGED <<linkVars, profile>> /\ Interface
Tears ==
    /\ Teardown /\ kind = "ssh" /\ stage' = "closing" /\ running' = FALSE /\ UNCHANGED <<kind, ui, profile>>
Renews ==
    /\ Resubmit /\ stage' = "new" /\ running' = FALSE /\ kind = "ssh"
    /\ ui = "replace" /\ ui' = "free" /\ UNCHANGED <<kind, profile>>

PfStep ==
    \/ Quiet \/ (Turning /\ ((running /\ ServiceQueue) \/ Serve \/ ServiceConns))
    \/ Tears \/ Interacts \/ Renews

\* The session's requests come to what it means to have, on a connection that is
\* new or runs.
Follows == kind = "ssh" /\ (running \/ stage = "new") => WillHold = Meant

\* The session knows the worker's last word, and once somebody listens it is the
\* last on its way to the panel; one who listens but has not looked sees it then.
Passed ==
    /\ wired = "no" => posts = <<>>
    /\ last # NoStatus => /\ told = last
                          /\ posts # <<>> => Last(posts) = last
                          /\ wired = "seeded" /\ posts = <<>> => cache = last

\* What has not been said is a change in the middle of a batch, or how many use a
\* remote forward.
Said(status, fs) ==
    /\ DOMAIN status = Held(fs)
    /\ \A id \in Held(fs) : \E n \in 0..MaxConns :
          /\ status[id] = [Status(fs[id]) EXCEPT !.conns = n]
          /\ Local(id) => n = fs[id].conns

Current ==
    /\ batch = <<>> => ~changed
    /\ (kind = "ssh" => stage \in Fresh) /\ ~changed => Said(last, fwd)

\* The interface keeps up, as long as it may still come back to what it shows.
Bounded == ui \in {"free", "replace"} => Len(posts) <= MaxPosts

PfGood == PfTyped /\ Follows /\ Passed /\ Current /\ Bounded

\* Most steps of the worker leave the forwards alone.
LEMMA WorkerPfStep == kind = "ssh" /\ Worker => PfStep
<1>. SUFFICES ASSUME kind = "ssh", Worker PROVE PfStep
  OBVIOUS
<1>. USE DEF PfStep, Quiet, Fresh, Connecting, linkVars, sshVars
<1>1. CASE ConnectSocket \/ ConnectTunnel \/ Refused \/ GivenUp
  BY <1>1 DEF ConnectSocket, ConnectTunnel, Refused, GivenUp, Goto, NotifyError, Polled
<1>2. CASE PerformHandshake \/ VerifyHostKey \/ OnKbdIntChallenge \/ Authenticate
  BY <1>2 DEF PerformHandshake, VerifyHostKey, OnKbdIntChallenge, Authenticate, Answered, Goto
<1>3. CASE OpenChannel \/ RequestPty \/ SetupForwarding \/ StartShell \/ ReadPid
  BY <1>3 DEF OpenChannel, RequestPty, SetupForwarding, StartShell, ReadPid, Answered,
              Unanswered, Goto
<1>4. CASE Turns
  BY <1>4 DEF Turns, Turning
<1>5. CASE LeaveLoop
  BY <1>5 DEF LeaveLoop, Tears
<1>6. CASE TakeLeave
  BY <1>6 DEF TakeLeave, Goto
<1>. QED
  BY <1>1, <1>2, <1>3, <1>4, <1>5, <1>6 DEF Worker

\* What each step of the system does to the forwards.
LEMMA NextPfStep == LinkTyped /\ [Next]_vars => PfStep
<1>. SUFFICES ASSUME LinkTyped, [Next]_vars PROVE PfStep
  OBVIOUS
<1>. USE DEF PfStep, Quiet, Fresh, Connecting, linkVars, sshVars
<1>1. CASE SshWorker
  BY <1>1, WorkerPfStep DEF SshWorker, Ssh
<1>2. CASE DeviceReader
  <2>1. kind # "ssh" /\ UNCHANGED <<pfVars, profile>>
    BY <1>2 DEF DeviceReader, Device
  <2>2. UNCHANGED <<kind, ui>>
    BY <1>2 DEF DeviceReader, Reader, Look, Poll, Read, Leave, Goto
  <2>. QED
    BY <2>1, <2>2
<1>3. CASE Ends \/ Bridge
  BY <1>3 DEF Ends, Bridge, Ssh, BridgeEnds, Ending, OnError, OnDisconnect, Return
<1>4. CASE User
  <2>1. CASE (CloseSession \/ ReplaceConnection) /\ asking # "shown" /\ UNCHANGED <<sshVars, pfVars, deviceVars>>
    BY <2>1 DEF CloseSession, ReplaceConnection, Stop
  <2>2. CASE Ssh /\ SshInterface
    BY <2>2 DEF SshInterface, Interacts
  <2>3. CASE Ssh /\ AnswerChallenge
    BY <2>3 DEF AnswerChallenge
  <2>. QED
    BY <1>4, <2>1, <2>2, <2>3 DEF User
<1>5. CASE Waits
  <2>1. CASE Ssh /\ bridge # "running" /\ Closed /\ UNCHANGED <<sshVars, pfVars>>
    BY <2>1 DEF Closed
  <2>2. CASE Ssh /\ (StartSsh \/ ShowChallenge)
    BY <2>2 DEF StartSsh, ShowChallenge
  <2>3. CASE Ssh /\ RenewSsh
    BY <2>3 DEF Ssh, RenewSsh, Replaced, Renews
  <2>4. CASE Device /\ (StartDevice \/ RunDialScript \/ CloseDevice \/ CloseDeviceLink \/ RenewDevice)
    <3>1. kind # "ssh" /\ UNCHANGED <<pfVars, profile>>
      BY <2>4 DEF Device
    <3>2. UNCHANGED kind /\ (ui' \in {"free", "replace"} => ui \in {"free", "replace"})
      BY <2>4 DEF StartDevice, RunDialScript, CloseDevice, CloseDeviceLink, RenewDevice, Closed, Replaced
    <3>. QED
      BY <3>1, <3>2
  <2>. QED
    BY <1>5, <2>1, <2>2, <2>3, <2>4 DEF Waits
<1>6. CASE Outside
  BY <1>6 DEF Outside, Ssh, Device, BridgeStalls, NetFails, KernelGivesUp, PeerWrites, PeerGoes
<1>7. CASE UNCHANGED vars
  BY <1>7 DEF vars
<1>. QED
  BY <1>1, <1>2, <1>3, <1>4, <1>5, <1>6, <1>7 DEF Next

-----------------------------------------------------------------------------
(* Types *)

\* Numbers are numbers.
LEMMA Numbers ==
    /\ Ids \subseteq Nat /\ {MaxConns, MaxRequests, MaxPosts} \subseteq Nat \ {0}
    /\ profile \in Profiles => Most \in Nat /\ 1..Most \subseteq Ids /\ profile.forwards \in 0..Most
<1>1. Cardinality(Ids) \in Nat /\ Ids = 1..Cardinality(Ids)
  BY PortForwardsAssumption, FS_CardinalityType
<1>2. Ids \subseteq Nat
  BY <1>1
<1>3. {MaxConns, MaxRequests, MaxPosts} \subseteq Nat \ {0}
  BY PortForwardsAssumption
<1>4. ASSUME profile \in Profiles
      PROVE  Most \in Nat /\ 1..Most \subseteq Ids /\ profile.forwards \in 0..Most
  BY <1>4, SshLinkAssumption DEF Most
<1>. QED
  BY <1>2, <1>3, <1>4

\* What a forward is at first, and may become of a request.
LEMMA ForwardsTyped == {Blank, Up, Failed, Retired, [Up EXCEPT !.warning = TRUE]} \subseteq Forwards
<1>1. MaxConns \in Nat /\ 0 \in 0..MaxConns
  BY Numbers
<1>2. Blank \in Forwards
  BY <1>1 DEF Blank, Forwards
<1>3. \A state \in {"up", "failed", "retired"} : [Blank EXCEPT !.state = state] \in Forwards
  BY <1>2 DEF Forwards
<1>4. Up \in Forwards /\ Failed \in Forwards /\ Retired \in Forwards
  BY <1>3 DEF Up, Failed, Retired
<1>5. [Up EXCEPT !.warning = TRUE] \in Forwards
  BY <1>4 DEF Forwards
<1>. QED
  BY <1>2, <1>4, <1>5

\* What is said of forwards is a snapshot, that of none included.
LEMMA SnapshotTyped ==
    /\ NoStatus \in Snapshots
    /\ \A fs \in [Ids -> Forwards] : Snapshot(fs) \in Snapshots
<1>1. NoStatus \in [{} -> Statuses] /\ {} \in SUBSET Ids
  BY DEF NoStatus
<1>2. ASSUME NEW fs \in [Ids -> Forwards] PROVE Snapshot(fs) \in [Held(fs) -> Statuses] /\ Held(fs) \in SUBSET Ids
  BY DEF Snapshot, Held, Status, Forwards, Statuses
<1>. QED
  BY <1>1, <1>2 DEF Snapshots

\* A notification passes a snapshot on.
LEMMA NotifyTyped ==
    ASSUME PfTyped, NEW fs \in [Ids -> Forwards], NotifyStatus(fs)
    PROVE  {last', told'} \subseteq Snapshots /\ posts' \in Seq(Snapshots)
<1>1. Snapshot(fs) \in Snapshots
  BY SnapshotTyped
<1>2. Append(posts, Snapshot(fs)) \in Seq(Snapshots)
  BY <1>1, AppendProperties DEF PfTyped
<1>. QED
  BY <1>1, <1>2 DEF NotifyStatus, PfTyped

\* One request, its outcome, and what is left.
LEMMA ServeFacts ==
    ASSUME PfTyped, Serve
    PROVE  \E f \in Forwards :
              LET item == Head(batch)
                  now == changed \/ (fwd' # fwd /\ f # Failed)
                  done == Len(batch) = 1
              IN /\ item \in Requests /\ batch # <<>> /\ Room
                 /\ batch' \in Seq(Requests) /\ batch' = Tail(batch) /\ (done <=> batch' = <<>>)
                 /\ fwd' = [fwd EXCEPT ![item.id] = f] /\ fwd' \in [Ids -> Forwards]
                 /\ changed' = (now /\ ~done)
                 /\ IF f = Failed \/ (done /\ now) THEN NotifyStatus(fwd')
                    ELSE UNCHANGED <<last, told, posts>>
                 /\ running => (f.state # "none" <=> item.op = "add")
                 /\ UNCHANGED <<descs, nextId, pending, wired, panelVars>>
<1>1. /\ Head(batch) \in Requests /\ Tail(batch) \in Seq(Requests) /\ batch # <<>>
      /\ Len(batch) = 1 <=> Tail(batch) = <<>>
  <2>1. batch \in Seq(Requests) /\ batch # <<>>
    BY DEF PfTyped, Serve
  <2>2. /\ Head(batch) \in Requests /\ Tail(batch) \in Seq(Requests)
        /\ Len(Tail(batch)) = Len(batch) - 1 /\ Len(batch) \in Nat
    BY <2>1, HeadTailProperties, LenProperties
  <2>3. Tail(batch) = <<>> <=> Len(Tail(batch)) = 0
    BY <2>2, EmptySeq
  <2>. QED
    BY <2>1, <2>2, <2>3
<1>2. PICK f \in Outcomes(Head(batch)) :
        LET item == Head(batch)
            fs == [fwd EXCEPT ![item.id] = f]
            failed == f = Failed
            now == changed \/ (fs # fwd /\ ~failed)
            done == Len(batch) = 1
        IN /\ fwd' = fs /\ batch' = Tail(batch) /\ changed' = (now /\ ~done)
           /\ IF failed \/ (done /\ now) THEN NotifyStatus(fs)
              ELSE UNCHANGED <<last, told, posts>>
  BY DEF Serve
<1>3. f \in Forwards /\ (running => (f.state # "none" <=> Head(batch).op = "add"))
  <2>1. Head(batch).op \in {"add", "remove"}
    BY <1>1 DEF Requests
  <2>2. /\ Blank.state = "none" /\ Up.state = "up" /\ Failed.state = "failed"
        /\ Retired.state = "retired" /\ [Up EXCEPT !.warning = TRUE].state = "up"
    BY DEF Blank, Up, Failed, Retired
  <2>3. f \in {Blank, Up, Failed, Retired, [Up EXCEPT !.warning = TRUE]}
    BY DEF Outcomes, Added
  <2>4. Head(batch).op = "remove" => f = Blank
    BY DEF Outcomes
  <2>5. Head(batch).op = "add" /\ running => f # Blank
    BY <2>2 DEF Outcomes, Added
  <2>. QED
    BY <2>1, <2>2, <2>3, <2>4, <2>5, ForwardsTyped
<1>4. [fwd EXCEPT ![Head(batch).id] = f] \in [Ids -> Forwards]
  BY <1>1, <1>3 DEF PfTyped, Requests
<1>5. Room /\ UNCHANGED <<descs, nextId, pending, wired, panelVars>>
  BY DEF Serve
<1>. QED
  BY <1>1, <1>2, <1>3, <1>4, <1>5

\* What a turn makes of one forward: it is still there or still not, and what
\* does not count as a change is none, or the connections of a remote one.
LEMMA TurnFacts ==
    ASSUME PfTyped, NEW id \in Ids, NEW t \in Turn(id)
    PROVE  /\ t.to \in Forwards /\ (t.to.state = "none" <=> fwd[id].state = "none")
           /\ ~t.counts => \E n \in 0..MaxConns : /\ t.to = [fwd[id] EXCEPT !.conns = n]
                                                  /\ Local(id) => n = fwd[id].conns
<1>. DEFINE f == fwd[id]
<1>1. f \in Forwards /\ MaxConns \in Nat
  BY Numbers DEF PfTyped
<1>2. f = [f EXCEPT !.conns = f.conns] /\ f.conns \in 0..MaxConns
  BY <1>1 DEF Forwards
<1>3. CASE t = Same(f)
  BY <1>3, <1>1, <1>2 DEF Same
<1>4. CASE t \in Swept(id)
  <2>1. f.conns \in 0..MaxConns /\ f.conns # 0 /\ t = Counts([f EXCEPT !.conns = @ - 1])
    BY <1>4, <1>2 DEF Swept
  <2>. QED
    BY <2>1, <1>1 DEF Counts, Forwards
<1>5. CASE t \in Accepted(id)
  <2>1. f.state = "up" /\ f.conns + 1 \in 0..MaxConns
    BY <1>5, <1>1, <1>2 DEF Accepted
  <2>2. CASE Local(id)
    <3>1. t \in Opened(f)
      BY <1>5, <2>1, <2>2 DEF Accepted
    <3>. DEFINE warned == [f EXCEPT !.warning = TRUE]
    <3>2. \/ t = Same(f) \/ t = Counts([f EXCEPT !.conns = @ + 1, !.warning = FALSE])
          \/ t = Counts([f EXCEPT !.state = "retired"]) \/ t = [to |-> warned, counts |-> ~f.warning]
      BY <3>1 DEF Opened
    <3>3. f.warning => warned = f
      BY <1>1 DEF Forwards
    <3>4. CASE t = [to |-> warned, counts |-> ~f.warning]
      BY <3>4, <3>3, <1>1, <1>2, <2>1 DEF Forwards
    <3>5. CASE t = Counts([f EXCEPT !.conns = @ + 1, !.warning = FALSE])
      BY <3>5, <2>1, <1>1 DEF Counts, Forwards
    <3>6. CASE t = Counts([f EXCEPT !.state = "retired"])
      BY <3>6, <2>1, <1>1 DEF Counts, Forwards
    <3>. QED
      BY <1>3, <3>2, <3>4, <3>5, <3>6
  <2>3. CASE ~Local(id)
    <3>1. t = Same([f EXCEPT !.conns = f.conns + 1])
      BY <1>5, <2>1, <2>3 DEF Accepted
    <3>. QED
      BY <3>1, <2>1, <2>3, <1>1 DEF Same, Forwards
  <2>. QED
    BY <2>2, <2>3
<1>. QED
  BY <1>3, <1>4, <1>5 DEF Turn

\* What a turn makes of all of them.
LEMMA ConnsFacts ==
    ASSUME PfTyped, ServiceConns
    PROVE  /\ fwd' \in [Ids -> Forwards] /\ Held(fwd') = Held(fwd) /\ Room /\ batch = <<>>
           /\ \/ NotifyStatus(fwd')
              \/ /\ last' = last /\ told' = told /\ posts' = posts
                 /\ \A id \in Ids : \E n \in 0..MaxConns :
                       /\ fwd'[id] = [fwd[id] EXCEPT !.conns = n]
                       /\ Local(id) => n = fwd[id].conns
           /\ UNCHANGED <<descs, nextId, pending, batch, changed, wired, panelVars>>
<1>1. PICK turn \in [Ids -> UNION {Turn(id) : id \in Ids}] :
        LET fs == [id \in Ids |-> turn[id].to] IN
        /\ \A id \in Ids : turn[id] \in Turn(id)
        /\ fs # fwd /\ fwd' = fs
        /\ IF \E id \in Ids : turn[id].counts THEN NotifyStatus(fs)
           ELSE UNCHANGED <<last, told, posts>>
  BY DEF ServiceConns
<1>2. \A id \in Ids : /\ fwd'[id] = turn[id].to /\ fwd'[id] \in Forwards
                      /\ fwd'[id].state = "none" <=> fwd[id].state = "none"
  BY <1>1, TurnFacts
<1>3. fwd' \in [Ids -> Forwards] /\ Held(fwd') = Held(fwd)
  BY <1>1, <1>2 DEF Held
<1>4. (\E id \in Ids : turn[id].counts) => NotifyStatus(fwd')
  BY <1>1
<1>5. ASSUME NEW id \in Ids, ~turn[id].counts
      PROVE  \E n \in 0..MaxConns : /\ fwd'[id] = [fwd[id] EXCEPT !.conns = n]
                                    /\ Local(id) => n = fwd[id].conns
  <2>1. turn[id] \in Turn(id) /\ fwd'[id] = turn[id].to
    BY <1>1
  <2>. QED
    BY <1>5, <2>1, TurnFacts
<1>6. Room /\ batch = <<>> /\ UNCHANGED <<descs, nextId, pending, batch, changed, wired, panelVars>>
  BY DEF ServiceConns
<1>7. CASE \E id \in Ids : turn[id].counts
  BY <1>3, <1>4, <1>6, <1>7
<1>8. CASE ~\E id \in Ids : turn[id].counts
  <2>1. last' = last /\ told' = told /\ posts' = posts
    BY <1>1, <1>8
  <2>2. \A id \in Ids : ~turn[id].counts
    BY <1>8
  <2>3. \A id \in Ids : \E n \in 0..MaxConns : /\ fwd'[id] = [fwd[id] EXCEPT !.conns = n]
                                               /\ Local(id) => n = fwd[id].conns
    BY <2>2, <1>5
  <2>. QED
    BY <1>3, <1>6, <2>1, <2>3
<1>. QED
  BY <1>7, <1>8

\* What becomes of a dialog without a new forward.
LEMMA DialogsTyped ==
    /\ NoDialog \in Dialogs
    /\ \A d \in Dialogs : {[d EXCEPT !.phase = "failed"], [d EXCEPT !.phase = "given up"]} \subseteq Dialogs
<1>1. {} \in SUBSET Ids
  OBVIOUS
<1>2. NoDialog \in Dialogs
  BY <1>1 DEF NoDialog, Dialogs
<1>3. ASSUME NEW d \in Dialogs, NEW p \in {"failed", "given up"} PROVE [d EXCEPT !.phase = p] \in Dialogs
  BY DEF Dialogs
<1>. QED
  BY <1>2, <1>3

\* What the session asks for, and the panel shows, keeps its types.
LEMMA InteractsTyped == PfTyped /\ Interacts => PfTyped'
<1>. SUFFICES ASSUME PfTyped, Interacts PROVE PfTyped'
  OBVIOUS
<1>0. UNCHANGED profile /\ Most' = Most /\ Most \in Nat /\ 1..Most \subseteq Ids /\ Ids \subseteq Nat
  BY Numbers DEF Interacts, PfTyped, Most
<1>1. CASE Wire \/ OnFallbackTimer \/ CancelDialog
  <2>1. dialog' \in Dialogs
    <3>1. dialog' \in {NoDialog, [dialog EXCEPT !.phase = "given up"], dialog}
      BY <1>1 DEF Wire, OnFallbackTimer, CancelDialog, panelVars
    <3>. QED
      BY <3>1, DialogsTyped DEF PfTyped
  <2>2. wired' \in {"no", "set", "seeded"}
    BY <1>1 DEF PfTyped, Wire, OnFallbackTimer, CancelDialog
  <2>3. UNCHANGED <<descs, nextId, engineVars, told, posts, cache, rows, waiting>>
    BY <1>1 DEF Wire, OnFallbackTimer, CancelDialog, panelVars
  <2>. QED
    BY <1>0, <2>1, <2>2, <2>3 DEF PfTyped, engineVars
<1>2. Meant \in SUBSET Ids
  BY LenProperties, ElementOfSeq DEF PfTyped, Meant, ToSet
<1>3. CASE Seed
  <2>1. rows' \in SUBSET Ids /\ cache' \in Snapshots /\ wired' = "seeded"
    BY <1>2, <1>3 DEF Seed, PfTyped
  <2>2. UNCHANGED <<descs, nextId, engineVars, told, posts, dialog, waiting>>
    BY <1>3 DEF Seed
  <2>. QED
    BY <1>0, <2>1, <2>2 DEF PfTyped, engineVars
<1>4. CASE UpdateStatus
  <2>1. posts # <<>> /\ cache' = Head(posts) /\ posts' = Tail(posts) /\ rows' = Meant
    BY <1>4 DEF UpdateStatus
  <2>2. cache' \in Snapshots /\ posts' \in Seq(Snapshots)
    BY <2>1, HeadTailProperties DEF PfTyped
  <2>3. waiting' \in SUBSET Ids
    BY <1>4 DEF UpdateStatus, PfTyped
  <2>4. dialog' \in Dialogs
    <3>1. dialog' \in {NoDialog, [dialog EXCEPT !.phase = "failed"], dialog}
      BY <1>4 DEF UpdateStatus
    <3>. QED
      BY <3>1, DialogsTyped DEF PfTyped
  <2>5. UNCHANGED <<descs, nextId, engineVars, told, wired>>
    BY <1>4 DEF UpdateStatus
  <2>. QED
    BY <1>0, <1>2, <2>1, <2>2, <2>3, <2>4, <2>5 DEF PfTyped, engineVars
<1>5. CASE AddPortForward
  <2>1. nextId \in 1..Most /\ nextId \in Ids /\ nextId' = nextId + 1
    BY <1>0, <1>5 DEF AddPortForward, PfTyped
  <2>2. descs' = Append(descs, nextId) /\ pending' = Append(pending, Request("add", nextId))
    BY <1>5 DEF AddPortForward
  <2>3. pending' \in Seq(Requests)
    BY <2>1, <2>2, AppendProperties DEF PfTyped, Request, Requests
  <2>4. /\ descs' \in Seq(Ids) /\ \A i \in DOMAIN descs' : descs'[i] < nextId'
        /\ \A i, j \in DOMAIN descs' : descs'[i] = descs'[j] => i = j
    <3>1. /\ descs' \in Seq(Ids) /\ Len(descs') = Len(descs) + 1 /\ Len(descs) \in Nat
          /\ \A i \in 1..Len(descs) : descs'[i] = descs[i]
          /\ descs'[Len(descs) + 1] = nextId
      BY <2>1, <2>2, AppendProperties, LenProperties DEF PfTyped
    <3>2. DOMAIN descs = 1..Len(descs) /\ DOMAIN descs' = 1..Len(descs) + 1
      BY <3>1, LenProperties DEF PfTyped
    <3>3. \A i \in DOMAIN descs : descs[i] \in Nat /\ descs[i] < nextId /\ descs'[i] = descs[i]
      BY <1>0, <3>1, <3>2, ElementOfSeq DEF PfTyped
    <3>4. \A i \in DOMAIN descs' : i \in DOMAIN descs \/ i = Len(descs) + 1
      BY <3>1, <3>2
    <3>5. \A i \in DOMAIN descs' : descs'[i] < nextId'
      BY <2>1, <3>1, <3>3, <3>4
    <3>6. ASSUME NEW i \in DOMAIN descs', NEW j \in DOMAIN descs', descs'[i] = descs'[j]
          PROVE  i = j
      <4>1. CASE i \in DOMAIN descs /\ j \in DOMAIN descs
        BY <4>1, <3>3, <3>6 DEF PfTyped
      <4>2. CASE i \in DOMAIN descs /\ j = Len(descs) + 1
        BY <4>2, <2>1, <3>1, <3>3, <3>6
      <4>3. CASE j \in DOMAIN descs /\ i = Len(descs) + 1
        BY <4>3, <2>1, <3>1, <3>3, <3>6
      <4>. QED
        BY <3>4, <4>1, <4>2, <4>3
    <3>. QED
      BY <3>1, <3>5, <3>6
  <2>5. waiting' \in SUBSET Ids
    BY <1>5, <2>1 DEF AddPortForward, PfTyped
  <2>6. dialog' \in Dialogs
    BY <1>5, <2>1 DEF AddPortForward, PfTyped, Dialogs
  <2>7. nextId' \in 1..Most + 1
    BY <1>0, <2>1
  <2>8. UNCHANGED <<batch, changed, fwd, last, told, wired, posts, cache, rows>>
    BY <1>5 DEF AddPortForward
  <2>. QED
    BY <1>0, <2>3, <2>4, <2>5, <2>6, <2>7, <2>8 DEF PfTyped
<1>6. CASE RemovePortForward
  <2>1. PICK id \in rows : /\ IF id \in Meant
                              THEN \E i \in DOMAIN descs : descs[i] = id /\ descs' = RemoveAt(descs, i)
                              ELSE UNCHANGED descs
                           /\ pending' = Append(pending, Request("remove", id))
    BY <1>6 DEF RemovePortForward
  <2>2. pending' \in Seq(Requests)
    BY <2>1, AppendProperties DEF PfTyped, Request, Requests
  <2>3. /\ descs' \in Seq(Ids) /\ \A i \in DOMAIN descs' : descs'[i] < nextId
        /\ \A i, j \in DOMAIN descs' : descs'[i] = descs'[j] => i = j
    <3>1. CASE id \notin Meant
      BY <2>1, <3>1 DEF PfTyped
    <3>2. CASE id \in Meant
      <4>1. PICK k \in DOMAIN descs : descs[k] = id /\ descs' = RemoveAt(descs, k)
        BY <2>1, <3>2
      <4>2. /\ descs' \in Seq(Ids)
            /\ \A i, j \in DOMAIN descs' : descs'[i] = descs'[j] => i = j
            /\ ToSet(descs') = ToSet(descs) \ {descs[k]}
        <5>1. descs \in Seq(Ids) /\ \A i, j \in DOMAIN descs : descs[i] = descs[j] => i = j
          BY DEF PfTyped
        <5>. QED
          BY <4>1, <5>1, RemoveOne
      <4>3. \A i \in DOMAIN descs' : \E j \in DOMAIN descs : descs'[i] = descs[j]
        BY <4>2 DEF ToSet
      <4>. QED
        BY <4>2, <4>3 DEF PfTyped
    <3>. QED
      BY <3>1, <3>2
  <2>4. UNCHANGED <<nextId, batch, changed, fwd, last, told, wired, posts, panelVars>>
    BY <1>6 DEF RemovePortForward
  <2>. QED
    BY <1>0, <2>2, <2>3, <2>4 DEF PfTyped, panelVars
<1>. QED
  BY <1>1, <1>3, <1>4, <1>5, <1>6 DEF Interacts, Interface

\* No step breaks the types of the forwards.
LEMMA PfStepTyped == PfTyped /\ PfStep => PfTyped'
<1>. SUFFICES ASSUME PfTyped, PfStep PROVE PfTyped'
  OBVIOUS
<1>0. UNCHANGED profile => Most' = Most
  BY DEF Most
<1>1. CASE Quiet
  BY <1>0, <1>1 DEF Quiet, PfTyped, pfVars, engineVars, panelVars
<1>2. CASE Turning /\ running /\ ServiceQueue
  <2>1. batch' \in Seq(Requests) /\ pending' \in Seq(Requests)
    BY <1>2, EmptySeq DEF ServiceQueue, PfTyped
  <2>2. UNCHANGED <<profile, descs, nextId, changed, fwd, last, told, wired, posts, panelVars>>
    BY <1>2 DEF ServiceQueue, Turning
  <2>. QED
    BY <1>0, <2>1, <2>2 DEF PfTyped, panelVars
<1>3. CASE Turning /\ Serve
  <2>1. PICK f \in Forwards :
          /\ fwd' \in [Ids -> Forwards] /\ batch' \in Seq(Requests) /\ changed' \in BOOLEAN
          /\ NotifyStatus(fwd') \/ UNCHANGED <<last, told, posts>>
          /\ UNCHANGED <<descs, nextId, pending, wired, panelVars>>
    BY <1>3, ServeFacts
  <2>2. {last', told'} \subseteq Snapshots /\ posts' \in Seq(Snapshots)
    BY <2>1, NotifyTyped DEF PfTyped
  <2>. QED
    BY <1>0, <1>3, <2>1, <2>2 DEF PfTyped, panelVars, Turning
<1>4. CASE Turning /\ ServiceConns
  <2>1. /\ fwd' \in [Ids -> Forwards]
        /\ NotifyStatus(fwd') \/ UNCHANGED <<last, told, posts>>
        /\ UNCHANGED <<descs, nextId, pending, batch, changed, wired, panelVars>>
    BY <1>4, ConnsFacts
  <2>2. {last', told'} \subseteq Snapshots /\ posts' \in Seq(Snapshots)
    BY <2>1, NotifyTyped DEF PfTyped
  <2>. QED
    BY <1>0, <1>4, <2>1, <2>2 DEF PfTyped, panelVars, Turning
<1>5. CASE Tears
  <2>1. fwd' \in [Ids -> Forwards]
    BY <1>5, ForwardsTyped DEF Tears, Teardown
  <2>. QED
    BY <1>0, <1>5, <2>1 DEF Tears, Teardown, PfTyped, panelVars
<1>6. CASE Interacts
  BY <1>6, InteractsTyped
<1>7. CASE Renews
  <2>1. fwd' \in [Ids -> Forwards] /\ last' \in Snapshots /\ told' \in Snapshots
    BY <1>7, ForwardsTyped, SnapshotTyped DEF Renews, Resubmit, PfTyped
  <2>2. pending' \in Seq(Requests) /\ batch' \in Seq(Requests) /\ changed' = FALSE
    BY <1>7, AfterAdds, EmptySeq DEF Renews, Resubmit, PfTyped
  <2>3. UNCHANGED <<profile, descs, nextId, wired, posts, panelVars>>
    BY <1>7 DEF Renews, Resubmit
  <2>. QED
    BY <1>0, <2>1, <2>2, <2>3 DEF PfTyped, panelVars
<1>. QED
  BY <1>1, <1>2, <1>3, <1>4, <1>5, <1>6, <1>7 DEF PfStep

-----------------------------------------------------------------------------
(* The engine follows the session *)

\* What one outcome does to the forwards there are.
LEMMA HeldAfter ==
    ASSUME NEW fs \in [Ids -> Forwards], NEW r \in Requests, NEW f \in Forwards,
           f.state # "none" <=> r.op = "add"
    PROVE  Held([fs EXCEPT ![r.id] = f]) = Done(Held(fs), r)
BY DEF Held, Done, Requests, Forwards

\* Serving the first request of the batch changes nothing in what will be.
LEMMA ServeFollows ==
    ASSUME PfTyped, Turning, Serve, running
    PROVE  After(batch' \o pending', Held(fwd')) = After(batch \o pending, Held(fwd))
<1>1. PICK f \in Forwards :
        /\ Head(batch) \in Requests /\ batch # <<>> /\ batch' = Tail(batch) /\ pending' = pending
        /\ fwd' = [fwd EXCEPT ![Head(batch).id] = f] /\ (f.state # "none" <=> Head(batch).op = "add")
  BY ServeFacts
<1>2. Held(fwd') = Done(Held(fwd), Head(batch))
  BY <1>1, HeldAfter DEF PfTyped
<1>3. Held(fwd) \in SUBSET Ids
  BY DEF Held
<1>. DEFINE rs == batch \o pending
<1>4. /\ rs \in Seq(Requests) /\ rs # <<>> /\ Head(rs) = Head(batch)
      /\ Tail(rs) = Tail(batch) \o pending
  <2>1. batch \in Seq(Requests) /\ pending \in Seq(Requests) /\ batch # <<>>
    BY <1>1 DEF PfTyped
  <2>. QED
    BY <2>1, ConcatTail
<1>5. After(rs, Held(fwd)) = After(Tail(rs), Done(Held(fwd), Head(rs)))
  BY <1>3, <1>4, AfterHead
<1>. QED
  BY <1>1, <1>2, <1>4, <1>5

\* So does asking for another one, if it is meant, and for the end of one, if not.
LEMMA AskFollows ==
    ASSUME PfTyped, NEW r \in Requests
    PROVE  After(batch \o Append(pending, r), Held(fwd)) = Done(After(batch \o pending, Held(fwd)), r)
<1>1. batch \in Seq(Requests) /\ pending \in Seq(Requests) /\ Held(fwd) \in SUBSET Ids
  BY DEF PfTyped, Held
<1>2. batch \o pending \in Seq(Requests) /\ batch \o Append(pending, r) = Append(batch \o pending, r)
  BY <1>1, ConcatProperties, ConcatAppend
<1>. QED
  BY <1>1, <1>2, AfterAppend

\* The user adds and removes forwards, and the requests do the same.
LEMMA InteractsFollow ==
    ASSUME PfTyped, Interacts, After(batch \o pending, Held(fwd)) = ToSet(descs)
    PROVE  After(batch' \o pending', Held(fwd')) = ToSet(descs')
<1>1. CASE Wire \/ Seed \/ UpdateStatus \/ OnFallbackTimer \/ CancelDialog
  <2>1. UNCHANGED <<descs, pending, batch, fwd>>
    BY <1>1 DEF Wire, Seed, UpdateStatus, OnFallbackTimer, CancelDialog, engineVars
  <2>. QED
    BY <2>1
<1>2. CASE AddPortForward
  <2>0. nextId \in Ids
    <3>1. Most \in Nat /\ 1..Most \subseteq Ids /\ nextId \in 1..Most + 1 /\ nextId <= Most
      BY <1>2, Numbers DEF AddPortForward, PfTyped
    <3>. QED
      BY <3>1
  <2>1. /\ descs' = Append(descs, nextId) /\ pending' = Append(pending, Request("add", nextId))
        /\ batch' = batch /\ fwd' = fwd /\ nextId \in Ids
    BY <1>2, <2>0 DEF AddPortForward
  <2>2. Request("add", nextId) \in Requests
    BY <2>1 DEF Request, Requests
  <2>3. ToSet(descs') = ToSet(descs) \union {nextId}
    BY <2>1, AppendedSet DEF PfTyped
  <2>. QED
    BY <2>1, <2>2, <2>3, AskFollows DEF Done, Request
<1>3. CASE RemovePortForward
  <2>1. PICK id \in rows : /\ IF id \in Meant
                              THEN \E i \in DOMAIN descs : descs[i] = id /\ descs' = RemoveAt(descs, i)
                              ELSE UNCHANGED descs
                           /\ pending' = Append(pending, Request("remove", id))
    BY <1>3 DEF RemovePortForward
  <2>2. batch' = batch /\ fwd' = fwd /\ Request("remove", id) \in Requests
    BY <1>3 DEF RemovePortForward, Request, Requests, PfTyped
  <2>3. ToSet(descs') = ToSet(descs) \ {id}
    <3>1. CASE id \notin Meant
      BY <2>1, <3>1 DEF Meant
    <3>2. CASE id \in Meant
      <4>1. PICK k \in DOMAIN descs : descs[k] = id /\ descs' = RemoveAt(descs, k)
        BY <2>1, <3>2
      <4>2. descs \in Seq(Ids) /\ \A i, j \in DOMAIN descs : descs[i] = descs[j] => i = j
        BY DEF PfTyped
      <4>. QED
        BY <4>1, <4>2, RemoveOne
    <3>. QED
      BY <3>1, <3>2
  <2>. QED
    BY <2>1, <2>2, <2>3, AskFollows DEF Done, Request
<1>. QED
  BY <1>1, <1>2, <1>3 DEF Interacts, Interface

\* A new connection is asked for what is meant, and the requests stay those of it.
LEMMA PfStepFollows == PfTyped /\ Follows /\ PfStep => Follows'
<1>. DEFINE F == After(batch \o pending, Held(fwd)) = ToSet(descs)
<1>1. Follows <=> (kind = "ssh" /\ (running \/ stage = "new") => F)
  BY WillHoldIsAfter DEF Follows, Meant
<1>2. Follows' <=> (kind = "ssh" /\ (running \/ stage = "new") => F)'
  BY <1>1, PTL
<1>. SUFFICES ASSUME PfTyped, kind = "ssh" /\ (running \/ stage = "new") => F, PfStep,
                     kind' = "ssh", running' \/ stage' = "new"
              PROVE  After(batch' \o pending', Held(fwd')) = ToSet(descs')
  BY <1>1, <1>2
<1>3. CASE Quiet
  BY <1>3 DEF Quiet, pfVars, engineVars
<1>4. CASE Turning /\ running /\ ServiceQueue
  <2>1. batch' \o pending' = pending /\ batch \o pending = pending
    BY <1>4, ConcatEmptySeq DEF ServiceQueue, PfTyped
  <2>2. UNCHANGED <<fwd, descs>> /\ F
    BY <1>4 DEF ServiceQueue, Turning
  <2>. QED
    BY <2>1, <2>2
<1>5. CASE Turning /\ Serve
  <2>1. running /\ F /\ descs' = descs
    BY <1>5 DEF Turning, linkVars, Serve
  <2>. QED
    BY <1>5, <2>1, ServeFollows
<1>6. CASE Turning /\ ServiceConns
  <2>1. Held(fwd') = Held(fwd) /\ UNCHANGED <<descs, pending, batch>>
    BY <1>6, ConnsFacts
  <2>2. F
    BY <1>6 DEF Turning, linkVars
  <2>. QED
    BY <2>1, <2>2
<1>7. CASE Tears
  BY <1>7 DEF Tears
<1>8. CASE Interacts
  <2>1. F
    BY <1>8 DEF Interacts, linkVars
  <2>. QED
    BY <1>8, <2>1, InteractsFollow
<1>9. CASE Renews
  <2>1. pending' = Adds(descs) /\ batch' = <<>> /\ descs' = descs /\ fwd' = [id \in Ids |-> Blank]
    BY <1>9 DEF Renews, Resubmit
  <2>2. Held(fwd') = {}
    BY <2>1 DEF Held, Blank
  <2>3. Adds(descs) \in Seq(Requests) /\ After(Adds(descs), {}) = ToSet(descs)
    BY AfterAdds DEF PfTyped
  <2>4. batch' \o pending' = Adds(descs)
    BY <2>1, <2>3, ConcatEmptySeq
  <2>. QED
    BY <2>1, <2>2, <2>3, <2>4
<1>. QED
  BY <1>3, <1>4, <1>5, <1>6, <1>7, <1>8, <1>9 DEF PfStep

-----------------------------------------------------------------------------
(* What the panel shows *)

\* A notification keeps what is on its way to the panel in order.
LEMMA NotifyPassed ==
    ASSUME PfTyped, Passed, NEW fs \in [Ids -> Forwards], NotifyStatus(fs), UNCHANGED <<wired, cache>>
    PROVE  Passed'
<1>. DEFINE status == Snapshot(fs)
<1>1. CASE status = last
  BY <1>1 DEF NotifyStatus, Passed, Last
<1>2. CASE status # last /\ wired = "no"
  BY <1>2 DEF NotifyStatus, Passed, Last
<1>3. CASE status # last /\ wired # "no"
  <2>1. /\ last' = status /\ told' = status /\ posts' = Append(posts, status)
        /\ posts \in Seq(Snapshots) /\ status \in Snapshots
    BY <1>3, SnapshotTyped DEF NotifyStatus, PfTyped
  <2>2. posts' # <<>> /\ Last(posts') = status
    BY <2>1, AppendProperties DEF Last
  <2>. QED
    BY <1>3, <2>1, <2>2 DEF Passed, Last
<1>. QED
  BY <1>1, <1>2, <1>3

\* No step loses the worker's last word on its way to the panel.
LEMMA PfStepPassed == PfTyped /\ Passed /\ PfStep => Passed'
<1>. SUFFICES ASSUME PfTyped, Passed, PfStep PROVE Passed'
  OBVIOUS
<1>1. CASE UNCHANGED <<last, told, wired, posts, cache>>
  BY <1>1 DEF Passed, Last
<1>2. CASE Quiet \/ Tears \/ (Turning /\ running /\ ServiceQueue)
  <2>1. UNCHANGED <<last, told, wired, posts, cache>>
    BY <1>2 DEF Quiet, pfVars, engineVars, panelVars, Tears, Teardown, ServiceQueue
  <2>. QED
    BY <1>1, <2>1
<1>3. CASE Turning /\ Serve
  <2>1. /\ fwd' \in [Ids -> Forwards] /\ UNCHANGED <<wired, cache>>
        /\ NotifyStatus(fwd') \/ UNCHANGED <<last, told, posts>>
    BY <1>3, ServeFacts DEF panelVars
  <2>. QED
    BY <1>1, <2>1, NotifyPassed
<1>4. CASE Turning /\ ServiceConns
  <2>1. /\ fwd' \in [Ids -> Forwards] /\ UNCHANGED <<wired, cache>>
        /\ NotifyStatus(fwd') \/ UNCHANGED <<last, told, posts>>
    BY <1>4, ConnsFacts DEF panelVars
  <2>. QED
    BY <1>1, <2>1, NotifyPassed
<1>5. CASE Interacts
  <2>1. CASE Wire
    BY <2>1 DEF Wire, Passed, engineVars, panelVars, Last
  <2>2. CASE Seed
    BY <2>2 DEF Seed, Passed, engineVars, Last
  <2>3. CASE UpdateStatus
    <3>1. /\ wired = "seeded" /\ posts # <<>> /\ posts' = Tail(posts) /\ cache' = Head(posts)
          /\ posts \in Seq(Snapshots) /\ UNCHANGED <<last, told, wired>>
      BY <2>3 DEF UpdateStatus, engineVars, PfTyped
    <3>2. /\ Tail(posts) \in Seq(Snapshots) /\ Len(Tail(posts)) = Len(posts) - 1
          /\ \A i \in 1..Len(Tail(posts)) : Tail(posts)[i] = posts[i + 1]
          /\ Len(posts) \in Nat \ {0}
      BY <3>1, HeadTailProperties, LenProperties, EmptySeq
    <3>3. CASE Tail(posts) = <<>>
      <4>1. Len(posts) = 1
        BY <3>2, <3>3, EmptySeq
      <4>2. Last(posts) = Head(posts)
        BY <3>1, <4>1 DEF Last
      <4>. QED
        BY <3>1, <3>3, <4>2 DEF Passed
    <3>4. CASE Tail(posts) # <<>>
      <4>1. Len(Tail(posts)) \in 1..Len(Tail(posts)) /\ Len(Tail(posts)) + 1 = Len(posts)
        BY <3>2, <3>4, EmptySeq
      <4>2. Last(Tail(posts)) = Last(posts)
        BY <3>2, <4>1 DEF Last
      <4>. QED
        BY <3>1, <3>4, <4>2 DEF Passed
    <3>. QED
      BY <3>3, <3>4
  <2>4. CASE AddPortForward \/ OnFallbackTimer \/ CancelDialog \/ RemovePortForward
    <3>1. UNCHANGED <<last, told, wired, posts, cache>>
      BY <2>4 DEF AddPortForward, OnFallbackTimer, CancelDialog, RemovePortForward, engineVars, panelVars
    <3>. QED
      BY <1>1, <3>1
  <2>. QED
    BY <1>5, <2>1, <2>2, <2>3, <2>4 DEF Interacts, Interface
<1>6. CASE Renews
  BY <1>6 DEF Renews, Resubmit, Passed
<1>. QED
  BY <1>2, <1>3, <1>4, <1>5, <1>6 DEF PfStep

\* What has just been said is so.
LEMMA NotifySaid ==
    ASSUME NEW fs \in [Ids -> Forwards], NotifyStatus(fs)
    PROVE  Said(last', fs)
<1>1. last' = [id \in Held(fs) |-> Status(fs[id])]
  BY DEF NotifyStatus, Snapshot
<1>2. ASSUME NEW id \in Held(fs)
      PROVE  \E n \in 0..MaxConns : /\ last'[id] = [Status(fs[id]) EXCEPT !.conns = n]
                                    /\ Local(id) => n = fs[id].conns
  <2>1. fs[id] \in Forwards
    BY DEF Held
  <2>2. fs[id].conns \in 0..MaxConns /\ Status(fs[id]) = [Status(fs[id]) EXCEPT !.conns = fs[id].conns]
    BY <2>1 DEF Status, Forwards
  <2>3. last'[id] = Status(fs[id])
    BY <1>1
  <2>. QED
    BY <2>2, <2>3
<1>. QED
  BY <1>1, <1>2 DEF Said

\* No step leaves the worker's last word behind what it is about.
LEMMA PfStepCurrent == PfTyped /\ Current /\ PfStep => Current'
<1>. SUFFICES ASSUME PfTyped, Current, PfStep PROVE Current'
  OBVIOUS
<1>0. ASSUME UNCHANGED profile
      PROVE  Current' <=> /\ batch' = <<>> => ~changed'
                          /\ (kind' = "ssh" => stage' \in Fresh) /\ ~changed' => Said(last', fwd')
  BY <1>0 DEF Current, Said, Local
<1>1. CASE Quiet
  BY <1>1 DEF Quiet, pfVars, engineVars, Current, Said, Local
<1>2. CASE Turning /\ running /\ ServiceQueue
  <2>1. UNCHANGED <<changed, fwd, last, kind, stage, profile>> /\ batch = <<>>
    BY <1>2 DEF Turning, ServiceQueue, linkVars
  <2>. QED
    BY <1>0, <2>1 DEF Current
<1>3. CASE Turning /\ Serve
  <2>1. PICK f \in Forwards :
          LET now == changed \/ (fwd' # fwd /\ f # Failed)
              done == Len(batch) = 1
          IN /\ fwd' \in [Ids -> Forwards] /\ (done <=> batch' = <<>>)
             /\ changed' = (now /\ ~done)
             /\ IF f = Failed \/ (done /\ now) THEN NotifyStatus(fwd')
                ELSE UNCHANGED <<last, told, posts>>
    BY <1>3, ServeFacts
  <2>2. stage \in Fresh /\ kind = "ssh" /\ UNCHANGED <<kind, stage, profile>>
    BY <1>3 DEF Turning, linkVars, Fresh
  <2>3. batch' = <<>> => ~changed'
    BY <2>1
  <2>4. CASE NotifyStatus(fwd')
    BY <1>0, <2>1, <2>2, <2>3, <2>4, NotifySaid
  <2>5. CASE ~NotifyStatus(fwd')
    <3>1. f # Failed /\ last' = last /\ (~changed' => ~changed /\ fwd' = fwd)
      BY <2>1, <2>5
    <3>. QED
      BY <1>0, <2>2, <2>3, <3>1 DEF Current
  <2>. QED
    BY <2>4, <2>5
<1>4. CASE Turning /\ ServiceConns
  <2>1. /\ fwd' \in [Ids -> Forwards] /\ Held(fwd') = Held(fwd) /\ batch = <<>> /\ UNCHANGED <<batch, changed>>
        /\ \/ NotifyStatus(fwd')
           \/ /\ last' = last
              /\ \A id \in Ids : \E n \in 0..MaxConns : /\ fwd'[id] = [fwd[id] EXCEPT !.conns = n]
                                                        /\ Local(id) => n = fwd[id].conns
    BY <1>4, ConnsFacts
  <2>2. stage \in Fresh /\ kind = "ssh" /\ UNCHANGED <<kind, stage, profile>>
    BY <1>4 DEF Turning, linkVars, Fresh
  <2>3. CASE NotifyStatus(fwd')
    BY <1>0, <2>1, <2>2, <2>3, NotifySaid DEF Current
  <2>4. CASE ~NotifyStatus(fwd')
    <3>1. Said(last, fwd)
      BY <2>1, <2>2 DEF Current
    <3>2. ASSUME NEW id \in Held(fwd)
          PROVE  \E n \in 0..MaxConns : /\ last[id] = [Status(fwd'[id]) EXCEPT !.conns = n]
                                        /\ Local(id) => n = fwd'[id].conns
      <4>0. id \in Ids /\ fwd[id] \in Forwards
        BY DEF Held, PfTyped
      <4>1. PICK n \in 0..MaxConns : /\ last[id] = [Status(fwd[id]) EXCEPT !.conns = n]
                                     /\ Local(id) => n = fwd[id].conns
        BY <3>1 DEF Said
      <4>2. PICK m \in 0..MaxConns : /\ fwd'[id] = [fwd[id] EXCEPT !.conns = m]
                                     /\ Local(id) => m = fwd[id].conns
        BY <2>1, <2>4, <4>0
      <4>3. fwd'[id].conns = m /\ [Status(fwd'[id]) EXCEPT !.conns = n] = [Status(fwd[id]) EXCEPT !.conns = n]
        BY <4>0, <4>2 DEF Status, Forwards
      <4>. QED
        BY <4>1, <4>2, <4>3
    <3>3. Said(last', fwd')
      BY <2>1, <2>4, <3>1, <3>2 DEF Said
    <3>. QED
      BY <1>0, <2>1, <2>2, <3>3 DEF Current
  <2>. QED
    BY <2>3, <2>4
<1>5. CASE Tears
  BY <1>5 DEF Tears, Teardown, Current, Fresh, Connecting
<1>6. CASE Interacts
  <2>1. UNCHANGED <<batch, changed, fwd, last>>
    BY <1>6 DEF Interacts, Interface, Wire, Seed, UpdateStatus, AddPortForward, OnFallbackTimer,
                CancelDialog, RemovePortForward, engineVars
  <2>2. UNCHANGED <<kind, stage, profile>>
    BY <1>6 DEF Interacts, linkVars
  <2>. QED
    BY <1>0, <2>1, <2>2 DEF Current
<1>7. CASE Renews
  <2>1. last' = NoStatus /\ fwd' = [id \in Ids |-> Blank] /\ changed' = FALSE /\ UNCHANGED profile
    BY <1>7 DEF Renews, Resubmit
  <2>2. Held(fwd') = {} /\ DOMAIN last' = {}
    BY <2>1 DEF Held, Blank, NoStatus
  <2>. QED
    BY <1>0, <2>1, <2>2 DEF Said
<1>. QED
  BY <1>1, <1>2, <1>3, <1>4, <1>5, <1>6, <1>7 DEF PfStep

\* Nothing is said while a connection that has ended is being replaced, so that no
\* more is on its way than the interface keeps up with.
LEMMA PfStepBounded == LinkGood /\ PfTyped /\ Bounded /\ PfStep => Bounded'
<1>. SUFFICES ASSUME LinkGood, PfTyped, Bounded, PfStep, ui' \in {"free", "replace"}
              PROVE  Len(posts') <= MaxPosts
  BY DEF Bounded
<1>0. posts \in Seq(Snapshots) /\ Len(posts) \in Nat /\ MaxPosts \in Nat
  BY LenProperties, Numbers DEF PfTyped
<1>1. CASE ui \in {"free", "replace"} /\ posts' = posts
  BY <1>1 DEF Bounded
<1>2. CASE Quiet \/ Tears \/ Renews \/ (Turning /\ running /\ ServiceQueue)
  <2>1. posts' = posts /\ ui \in {"free", "replace"}
    BY <1>2 DEF Quiet, pfVars, Tears, Teardown, Renews, Resubmit, Turning, linkVars, ServiceQueue
  <2>. QED
    BY <1>1, <2>1
<1>3. CASE Turning /\ (Serve \/ ServiceConns)
  <2>1. stage = "loop" /\ ui' = ui
    BY <1>3 DEF Turning, linkVars
  <2>2. ui = "free"
    BY <2>1 DEF LinkGood, HeardByStage, ReplacedIsOver
  <2>3. Room /\ ((\E fs \in [Ids -> Forwards] : NotifyStatus(fs)) \/ posts' = posts)
    BY <1>3, ServeFacts, ConnsFacts
  <2>4. CASE posts' = posts
    BY <1>1, <2>2, <2>4
  <2>5. CASE \E fs \in [Ids -> Forwards] : NotifyStatus(fs)
    <3>1. PICK fs \in [Ids -> Forwards] : NotifyStatus(fs)
      BY <2>5
    <3>2. posts' = posts \/ posts' = Append(posts, Snapshot(fs))
      BY <3>1 DEF NotifyStatus
    <3>3. Len(Append(posts, Snapshot(fs))) = Len(posts) + 1
      BY <1>0, SnapshotTyped, AppendProperties
    <3>4. Len(posts) < MaxPosts
      BY <2>2, <2>3 DEF Room
    <3>. QED
      BY <1>0, <3>2, <3>3, <3>4
  <2>. QED
    BY <2>3, <2>4, <2>5
<1>4. CASE Interacts
  <2>1. ui = "free" /\ (posts' = posts \/ (posts # <<>> /\ posts' = Tail(posts)))
    BY <1>4 DEF Interacts, Interface, Wire, Seed, UpdateStatus, AddPortForward, OnFallbackTimer,
                CancelDialog, RemovePortForward
  <2>2. posts # <<>> => Len(Tail(posts)) = Len(posts) - 1
    BY <1>0, HeadTailProperties
  <2>. QED
    BY <1>0, <2>1, <2>2 DEF Bounded
<1>. QED
  BY <1>2, <1>3, <1>4 DEF PfStep

-----------------------------------------------------------------------------
(* The rest of the state *)

OthersTyped ==
    /\ net \in {"up", "silent", "lost"} /\ asking \in {"no", "posted", "shown", "answered"}
    /\ bridge \in {"none", "running", "over"}
    /\ peer \in {"there", "gone", "left"} /\ output \in 0..MaxOutput /\ unseen \in BOOLEAN
    /\ fd \in {"open", "closed"}

\* Network, questions, the jump host's thread and the devices keep their types.
LEMMA OthersKept == OthersTyped /\ [Next]_vars => OthersTyped'
<1>. SUFFICES ASSUME OthersTyped, [Next]_vars PROVE OthersTyped'
  OBVIOUS
<1>0. MaxOutput \in Nat
  BY DeviceAssumption
<1>. USE DEF OthersTyped
<1>1. CASE UNCHANGED <<sshVars, deviceVars>>
  BY <1>1 DEF sshVars, deviceVars
<1>2. CASE SshWorker
  <2>1. CASE OnKbdIntChallenge \/ ConnectTunnel
    BY <1>2, <2>1 DEF SshWorker, Ssh, deviceVars, OnKbdIntChallenge, ConnectTunnel
  <2>2. CASE ~(OnKbdIntChallenge \/ ConnectTunnel)
    <3>1. UNCHANGED <<sshVars, deviceVars>>
      BY <1>2, <2>2 DEF SshWorker, Ssh, Worker, ConnectSocket, PerformHandshake, VerifyHostKey, Authenticate,
            OpenChannel, RequestPty, SetupForwarding, StartShell, ReadPid, Refused, GivenUp, Turns,
            LeaveLoop, TakeLeave, Answered, Unanswered
    <3>. QED
      BY <1>1, <3>1
  <2>. QED
    BY <2>1, <2>2
<1>3. CASE DeviceReader
  <2>1. UNCHANGED <<sshVars, peer, fd>>
    BY <1>3 DEF DeviceReader, Device, Reader, Look, Poll, Read, Leave, deviceVars
  <2>2. output' \in 0..MaxOutput
    BY <1>0, <1>3 DEF DeviceReader, Device, Reader, Look, Poll, Read, Leave, deviceVars
  <2>3. unseen' = unseen \/ unseen' = (output > 0)
    BY <1>3 DEF DeviceReader, Device, Reader, Look, Poll, Read, Leave, deviceVars
  <2>4. unseen' \in BOOLEAN
    <3>1. unseen \in BOOLEAN
      OBVIOUS
    <3>2. CASE unseen' = unseen
      BY <3>1, <3>2, Zenon
    <3>3. CASE unseen' = (output > 0)
      <4>1. CASE output > 0
        BY <3>3, <4>1, Zenon
      <4>2. CASE ~(output > 0)
        <5>1. (output > 0) <=> FALSE
          BY <4>2
        <5>2. (output > 0) = FALSE
          BY <5>1, SMT
        <5>. QED
          BY <3>3, <5>2, Zenon
      <4>. QED
        BY <4>1, <4>2
    <3>. QED
      BY <2>3, <3>2, <3>3
  <2>. QED
    BY <2>1, <2>2, <2>4 DEF sshVars
<1>4. CASE Ends \/ User
  <2>1. CASE Ssh /\ AnswerChallenge
    BY <2>1 DEF Ssh, AnswerChallenge, deviceVars
  <2>2. CASE ~(Ssh /\ AnswerChallenge)
    <3>1. UNCHANGED <<sshVars, deviceVars>>
      BY <1>4, <2>2 DEF Ends, User, Ssh, SshInterface
    <3>. QED
      BY <1>1, <3>1
  <2>. QED
    BY <2>1, <2>2
<1>5. CASE Bridge \/ Outside
  <2>1. CASE Ssh /\ (BridgeEnds \/ BridgeStalls \/ NetFails \/ KernelGivesUp)
    BY <2>1 DEF Ssh, BridgeEnds, BridgeStalls, NetFails, KernelGivesUp, deviceVars
  <2>2. CASE Device /\ (PeerWrites \/ PeerGoes)
    BY <1>0, <2>2 DEF Device, PeerWrites, PeerGoes, sshVars
  <2>. QED
    BY <1>5, <2>1, <2>2 DEF Bridge, Outside, Ssh, Device
<1>6. CASE Waits
  <2>1. CASE Ssh /\ (ShowChallenge \/ RenewSsh)
    BY <2>1 DEF Ssh, ShowChallenge, RenewSsh, deviceVars
  <2>2. CASE Ssh /\ (StartSsh \/ (bridge # "running" /\ Closed /\ UNCHANGED <<sshVars, pfVars>>))
    BY <1>1, <2>2 DEF Ssh, StartSsh
  <2>3. CASE Device /\ (StartDevice \/ RunDialScript)
    BY <1>1, <2>3 DEF Device, StartDevice, RunDialScript
  <2>4. CASE Device /\ (CloseDevice \/ CloseDeviceLink \/ RenewDevice)
    <3>1. UNCHANGED sshVars
      BY <2>4 DEF Device
    <3>2. CASE CloseDevice
      BY <3>1, <3>2 DEF CloseDevice, sshVars
    <3>3. CASE CloseDeviceLink
      BY <3>1, <3>3 DEF CloseDeviceLink, sshVars
    <3>4. CASE RenewDevice
      <4>1. 0 \in 0..MaxOutput
        BY <1>0
      <4>. QED
        BY <3>1, <3>4, <4>1 DEF RenewDevice, sshVars
    <3>. QED
      BY <2>4, <3>2, <3>3, <3>4
  <2>. QED
    BY <1>6, <2>1, <2>2, <2>3, <2>4 DEF Waits
<1>7. CASE UNCHANGED vars
  BY <1>1, <1>7 DEF vars
<1>. QED
  BY <1>2, <1>3, <1>4, <1>5, <1>6, <1>7 DEF Next

-----------------------------------------------------------------------------
(* The theorems *)

\* What every step keeps.
IInv == LinkGood /\ PfGood /\ OthersTyped

\* A session is built with the forwards of its profile asked for.
LEMMA InitPfGood == Init => PfGood
<1>. SUFFICES ASSUME Init PROVE PfGood
  OBVIOUS
<1>0. profile \in Profiles /\ InitPortForwards /\ ui = "free"
  BY DEF Init, InitSsh, InitLink
<1>. DEFINE n == profile.forwards
<1>1. n \in 0..Most /\ Most \in Nat /\ 1..Most \subseteq Ids /\ Ids \subseteq Nat /\ MaxPosts \in Nat
  BY <1>0, Numbers
<1>2. descs = [i \in 1..n |-> i] /\ nextId = n + 1 /\ pending = Adds(descs)
  BY <1>0 DEF InitPortForwards
<1>3. n \in Nat /\ \A i \in 1..n : i \in Ids /\ i < n + 1
  BY <1>1
<1>4. DOMAIN descs = 1..n /\ \A i \in 1..n : descs[i] = i
  BY <1>2
<1>5. descs \in Seq(Ids)
  BY <1>2, <1>3, IsASeq
<1>6. \A i, j \in DOMAIN descs : descs[i] = descs[j] => i = j
  BY <1>4
<1>7. Adds(descs) \in Seq(Requests) /\ After(Adds(descs), {}) = ToSet(descs)
  BY <1>5, <1>6, AfterAdds
<1>8. /\ batch = <<>> /\ changed = FALSE /\ fwd = [id \in Ids |-> Blank]
      /\ last = NoStatus /\ told = NoStatus /\ wired = "no" /\ posts = <<>>
      /\ cache = NoStatus /\ rows = {} /\ dialog = NoDialog /\ waiting = {}
  BY <1>0 DEF InitPortForwards
<1>9. Held(fwd) = {} /\ DOMAIN last = {}
  BY <1>8 DEF Held, Blank, NoStatus
<1>10. PfTyped
  <2>1. nextId \in 1..Most + 1 /\ \A i \in DOMAIN descs : descs[i] < nextId
    BY <1>1, <1>2, <1>3, <1>4
  <2>2. fwd \in [Ids -> Forwards] /\ {last, told, cache} \subseteq Snapshots
    BY <1>8, ForwardsTyped, SnapshotTyped
  <2>3. posts \in Seq(Snapshots) /\ batch \in Seq(Requests)
    BY <1>8, EmptySeq
  <2>4. dialog \in Dialogs
    BY <1>8, DialogsTyped
  <2>. QED
    BY <1>0, <1>2, <1>5, <1>6, <1>7, <1>8, <2>1, <2>2, <2>3, <2>4 DEF PfTyped
<1>11. Follows
  <2>1. batch \o pending = Adds(descs)
    BY <1>2, <1>7, <1>8, ConcatEmptySeq
  <2>. QED
    BY <1>7, <1>9, <2>1, WillHoldIsAfter DEF Follows, Meant
<1>12. Passed /\ Bounded
  BY <1>1, <1>8, EmptySeq DEF Passed, Bounded
<1>13. Current
  BY <1>8, <1>9 DEF Current, Said
<1>. QED
  BY <1>10, <1>11, <1>12, <1>13 DEF PfGood

\* The invariant, of every session and every connection of it.
THEOREM LinksGood == Spec => []IInv
<1>1. Init => IInv
  <2>1. Init => OthersTyped
    <3>1. 0 \in 0..MaxOutput
      BY DeviceAssumption
    <3>2. Init => net = "up" /\ asking = "no" /\ bridge = "none"
      BY DEF Init, InitSsh
    <3>3. Init => peer = "there" /\ output = 0 /\ unseen = FALSE /\ fd = "open"
      BY DEF Init, InitDevice
    <3>. QED
      BY <3>1, <3>2, <3>3 DEF OthersTyped
  <2>. QED
    BY <2>1, InitLinkGood, InitPfGood DEF IInv
<1>2. IInv /\ [Next]_vars => IInv'
  <2>. SUFFICES ASSUME IInv, [Next]_vars PROVE IInv'
    OBVIOUS
  <2>1. LinkGood' /\ OthersTyped'
    BY NextLinkStep, LinkStepKeeps, OthersKept DEF IInv
  <2>2. PfStep
    BY NextPfStep DEF IInv, LinkGood
  <2>3. PfGood'
    BY <2>2, PfStepTyped, PfStepFollows, PfStepPassed, PfStepCurrent, PfStepBounded DEF IInv, PfGood
  <2>. QED
    BY <2>1, <2>3 DEF IInv
<1>. QED
  BY <1>1, <1>2, PTL DEF Spec

\* A connection that runs has, or will once it has served what it was asked, the
\* forwards its session means to have: whatever was added and removed, while it
\* was up or before, and of which connection (ReplaceConnection, ServiceQueue).
THEOREM EngineFollows == Spec => []EngineFollowsSession
<1>1. IInv => EngineFollowsSession
  BY DEF IInv, PfGood, Follows, EngineFollowsSession
<1>. QED
  BY <1>1, LinksGood, PTL

\* The panel shows, or will, the worker's last word, from wherever it began to
\* listen (CreateSession of the user interface, OnPortForwardStatusChanged).
THEOREM PanelIsUpToDate == Spec => []PanelHasLatest
<1>1. IInv => PanelHasLatest
  BY DEF IInv, PfGood, Passed, PanelHasLatest
<1>. QED
  BY <1>1, LinksGood, PTL

\* That last word is true between two batches, except for how many use a forward
\* of the server's side (NotifyStatus and its callers).
THEOREM LastWordIsTrue == Spec => []StatusIsCurrent
<1>1. ASSUME IInv PROVE StatusIsCurrent
  <2>. SUFFICES ASSUME stage = "loop", batch = <<>>, Said(last, fwd)
                PROVE  /\ DOMAIN last = Held(fwd)
                       /\ \A id \in Held(fwd) :
                            LET said == last[id]
                                real == Status(fwd[id])
                            IN said = IF Local(id) THEN real ELSE [real EXCEPT !.conns = said.conns]
    BY <1>1 DEF IInv, PfGood, Current, StatusIsCurrent, Fresh
  <2>1. Said(last, fwd) /\ fwd \in [Ids -> Forwards]
    BY <1>1 DEF IInv, PfGood, PfTyped
  <2>2. ASSUME NEW id \in Held(fwd)
        PROVE  last[id] = IF Local(id) THEN Status(fwd[id])
                          ELSE [Status(fwd[id]) EXCEPT !.conns = last[id].conns]
    <3>1. PICK n \in 0..MaxConns : /\ last[id] = [Status(fwd[id]) EXCEPT !.conns = n]
                                   /\ Local(id) => n = fwd[id].conns
      BY <2>1 DEF Said
    <3>2. fwd[id] \in Forwards
      BY <2>1 DEF Held
    <3>. QED
      BY <3>1, <3>2 DEF Status
  <2>. QED
    BY <2>1, <2>2 DEF Said
<1>. QED
  BY <1>1, LinksGood, PTL

\* Types, of a session with whatever transport.
THEOREM LinksTyped == Spec => []TypeOK
<1>1. ASSUME IInv PROVE TypeOK
  <2>1. PfTyped /\ Bounded /\ LinkTyped /\ OthersTyped
    BY <1>1 DEF IInv, PfGood, LinkGood
  <2>2. Meant \subseteq 1..nextId - 1
    <3>1. ASSUME NEW i \in DOMAIN descs PROVE descs[i] \in 1..nextId - 1
      <4>1. descs[i] \in Ids /\ descs[i] < nextId /\ nextId \in Nat
        BY <2>1, Numbers, ElementOfSeq, LenProperties DEF PfTyped
      <4>2. \A id \in Ids : id \in Nat /\ id >= 1
        BY PortForwardsAssumption, FS_CardinalityType
      <4>. QED
        BY <4>1, <4>2
    <3>. QED
      BY <3>1 DEF Meant, ToSet
  <2>3. \A r \in Range(pending) \union Range(batch) : r.op \in {"add", "remove"} /\ r.id \in Ids
    <3>1. \A r \in Range(pending) \union Range(batch) : r \in Requests
      BY <2>1, ElementOfSeq, LenProperties DEF PfTyped, Range
    <3>. QED
      BY <3>1 DEF Requests
  <2>4. ui = "free" => Len(posts) <= MaxPosts
    BY <2>1 DEF Bounded
  <2>5. PortForwardsTypeOK
    BY <2>1, <2>2, <2>3, <2>4 DEF PortForwardsTypeOK, PfTyped, Forwards, Dialogs
  <2>. QED
    BY <2>1, <2>5 DEF TypeOK, LinkTyped, OthersTyped, PfTyped
<1>. QED
  BY <1>1, LinksGood, PTL
=============================================================================
