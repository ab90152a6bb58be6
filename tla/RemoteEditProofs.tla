-------------------------- MODULE RemoteEditProofs --------------------------
(***************************************************************************)
(* Theorems about RemoteEdit, for every number of edits and saves: types,  *)
(* one upload at a time, no save lost unannounced, and what an edit leaves.*)
(***************************************************************************)
EXTENDS RemoteEdit, TLAPS

-----------------------------------------------------------------------------
(* Types *)

\* Removing one element of a sequence leaves a sequence of the same kind.
LEMMA RemoveAtType ==
    ASSUME NEW S, NEW s \in Seq(S), NEW i \in DOMAIN s
    PROVE  RemoveAt(s, i) \in Seq(S)
<1>1. i \in 1..Len(s) /\ Len(s) \in Nat
  OBVIOUS
<1>2. SubSeq(s, 1, i - 1) \in Seq(S)
  BY <1>1
<1>3. SubSeq(s, i + 1, Len(s)) \in Seq(S)
  BY <1>1
<1>4. QED
  BY <1>2, <1>3 DEF RemoveAt

\* Appending one does too.
LEMMA AppendType ==
    ASSUME NEW S, NEW s \in Seq(S), NEW x \in S
    PROVE  Append(s, x) \in Seq(S)
OBVIOUS

\* A function on an initial segment is a sequence.
LEMMA SegmentType ==
    ASSUME NEW S, NEW n \in Nat, NEW f \in [1..n -> S]
    PROVE  f \in Seq(S)
OBVIOUS

\* What is posted and what is being read are sequences of the right kind.
LEMMA QueueTypes ==
    ASSUME TypeOK, NEW e \in Edits
    PROVE  /\ posted[e] \in Seq(Results \union {"trigger"})
           /\ uploads[e] \in Seq(Contents \union {Unread})
           /\ \A i \in DOMAIN uploads[e] : uploads[e][i] \in Contents \union {Unread}
<1>1. /\ posted[e] \in Seq(Results \union {"trigger"})
      /\ uploads[e] \in Seq(Contents \union {Unread})
  BY DEF TypeOK
<1>2. QED
  BY <1>1

\* An upload that has read nothing joins those of its file.
LEMMA UnreadJoins ==
    ASSUME TypeOK, NEW e \in Edits
    PROVE  Append(uploads[e], Unread) \in Seq(Contents \union {Unread})
<1>1. uploads[e] \in Seq(Contents \union {Unread})
  BY DEF TypeOK
<1>2. QED
  BY <1>1, AppendType

\* What a connection that ends posts is a sequence of results.
LEMMA LostType ==
    ASSUME NEW S, NEW s \in Seq(S), NEW r \in Results
    PROVE  [i \in DOMAIN s |-> r] \in Seq(Results \union {"trigger"})
<1>1. DOMAIN s = 1..Len(s) /\ Len(s) \in Nat
  OBVIOUS
<1>2. [i \in 1..Len(s) |-> r] \in [1..Len(s) -> Results \union {"trigger"}]
  OBVIOUS
<1>3. QED
  BY <1>1, <1>2

\* A connection that ends answers an edit's uploads with one result each, and
\* may leave what they sent; it leaves the edits of other connections alone.
LEMMA AnswerAllFor ==
    ASSUME TypeOK, NEW S, AnswerAll(S), NEW d \in Edits
    PROVE  \E r \in Doubtful :
             /\ uploads'[d] = IF d \in S THEN <<>> ELSE uploads[d]
             /\ posted'[d] = IF d \in S
                             THEN posted[d] \o [i \in DOMAIN uploads[d] |-> r]
                             ELSE posted[d]
             /\ \/ remote'[d] = remote[d]
                \/ d \in S /\ uploads[d] # <<>> /\ remote'[d] \in Contents
<1> DEFINE Answered(answer, arrived) ==
        /\ uploads' = [e \in Edits |-> IF e \in S THEN <<>> ELSE uploads[e]]
        /\ posted' = [e \in Edits |->
              IF e \in S
                THEN posted[e] \o [i \in DOMAIN uploads[e] |->
                                     IF e \in Begun(S) THEN answer[e] ELSE Lost]
                ELSE posted[e]]
        /\ remote' = [e \in Edits |->
              IF e \in arrived THEN uploads[e][1] ELSE remote[e]]
<1>1. PICK answer \in [Begun(S) -> Errors \union {"unclosed"}],
           arrived \in SUBSET Begun(S) : Answered(answer, arrived)
  BY DEF AnswerAll
<1> DEFINE r == IF d \in Begun(S) THEN answer[d] ELSE Lost
<1>2. r \in Doubtful
  BY EditAssumption DEF Doubtful
<1>3. /\ uploads'[d] = IF d \in S THEN <<>> ELSE uploads[d]
      /\ posted'[d] = IF d \in S
                      THEN posted[d] \o [i \in DOMAIN uploads[d] |-> r]
                      ELSE posted[d]
      /\ remote'[d] = IF d \in arrived THEN uploads[d][1] ELSE remote[d]
  BY <1>1
<1>4. ASSUME d \in arrived
      PROVE  d \in S /\ uploads[d] # <<>> /\ uploads[d][1] \in Contents
  <2>1. d \in S /\ uploads[d] # <<>> /\ uploads[d][1] # Unread
    BY <1>1, <1>4 DEF Begun
  <2>2. uploads[d] \in Seq(Contents \union {Unread})
    BY DEF TypeOK
  <2>3. uploads[d][1] \in Contents \union {Unread}
    BY <2>1, <2>2
  <2>4. QED
    BY <2>1, <2>3
<1> HIDE DEF r
<1>5. QED
  BY <1>2, <1>3, <1>4

\* A trigger and a result each leave an upload's bookkeeping well-formed.
LEMMA TriggerType ==
    ASSUME TypeOK, NEW e \in Edits, TriggerUpload(e)
    PROVE  /\ inFlight' \in [Edits -> BOOLEAN]
           /\ pending' \in [Edits -> BOOLEAN]
           /\ uploads' \in [Edits -> Seq(Contents \union {Unread})]
           /\ lastReported' \in [Edits -> Errors \union {""}]
           /\ told' \in [Edits -> Results \union {""}]
<1>1. Append(uploads[e], Unread) \in Seq(Contents \union {Unread})
  BY UnreadJoins
<1>2. QED
  BY <1>1 DEF TypeOK, TriggerUpload, word

\* A result handled leaves an upload's bookkeeping well-formed.
LEMMA FinishedType ==
    ASSUME TypeOK, NEW e \in Edits, NEW r \in Results, OnUploadFinished(e, r)
    PROVE  /\ inFlight' \in [Edits -> BOOLEAN]
           /\ pending' \in [Edits -> BOOLEAN]
           /\ uploads' \in [Edits -> Seq(Contents \union {Unread})]
           /\ lastReported' \in [Edits -> Errors \union {""}]
           /\ told' \in [Edits -> Results \union {""}]
<1>1. Append(uploads[e], Unread) \in Seq(Contents \union {Unread})
  BY UnreadJoins
<1>2. /\ lastReported' \in [Edits -> Errors \union {""}]
      /\ told' \in [Edits -> Results \union {""}]
  BY DEF TypeOK, OnUploadFinished, Decide, word, Results, Successes
<1>3. /\ inFlight' \in [Edits -> BOOLEAN]
      /\ pending' \in [Edits -> BOOLEAN]
  BY DEF TypeOK, OnUploadFinished
<1>4. uploads' \in [Edits -> Seq(Contents \union {Unread})]
  BY <1>1 DEF TypeOK, OnUploadFinished
<1>5. QED
  BY <1>2, <1>3, <1>4

\* What the answers of a connection that ends leave of a file's uploads.
LEMMA AnswerAllType ==
    ASSUME TypeOK, NEW S, AnswerAll(S)
    PROVE  /\ uploads' \in [Edits -> Seq(Contents \union {Unread})]
           /\ posted' \in [Edits -> Seq(Results \union {"trigger"})]
           /\ remote' \in [Edits -> Contents]
<1>1. ASSUME NEW d \in Edits
      PROVE  /\ uploads'[d] \in Seq(Contents \union {Unread})
             /\ posted'[d] \in Seq(Results \union {"trigger"})
             /\ remote'[d] \in Contents
  <2>1. PICK r \in Doubtful :
             /\ uploads'[d] = IF d \in S THEN <<>> ELSE uploads[d]
             /\ posted'[d] = IF d \in S
                             THEN posted[d] \o [i \in DOMAIN uploads[d] |-> r]
                             ELSE posted[d]
             /\ \/ remote'[d] = remote[d]
                \/ d \in S /\ uploads[d] # <<>> /\ remote'[d] \in Contents
    BY AnswerAllFor
  <2>2. r \in Results
    BY DEF Doubtful, Results, Successes
  <2>3. [i \in DOMAIN uploads[d] |-> r] \in Seq(Results \union {"trigger"})
    BY <2>2, QueueTypes, LostType
  <2>4. posted[d] \in Seq(Results \union {"trigger"}) /\ remote[d] \in Contents
    BY DEF TypeOK
  <2>5. <<>> \in Seq(Contents \union {Unread})
    OBVIOUS
  <2>6. posted[d] \o [i \in DOMAIN uploads[d] |-> r] \in Seq(Results \union {"trigger"})
    BY <2>3, <2>4
  <2>7. QED
    BY <2>1, <2>4, <2>5, <2>6, QueueTypes
<1>2. /\ uploads' = [e \in Edits |-> uploads'[e]]
      /\ posted' = [e \in Edits |-> posted'[e]]
      /\ remote' = [e \in Edits |-> remote'[e]]
  BY DEF AnswerAll
<1>3. QED
  BY <1>1, <1>2

\* Every step keeps every variable in its type, and only open edits watched.
LEMMA TypeStep == TypeOK /\ [Next]_vars => TypeOK'
<1> SUFFICES ASSUME TypeOK, [Next]_vars PROVE TypeOK'
  OBVIOUS
<1> USE DEF edit, file, flow, word
<1>1. ASSUME NEW e \in Edits, Open(e) PROVE TypeOK'
  <2>1. ASSUME NEW f \in Filesystems, OpenRemoteFile(e, f) PROVE TypeOK'
    BY <2>1 DEF OpenRemoteFile, TypeOK, Phases
  <2>2. ASSUME NEW answer \in {"fetched", "refused"}, DownloadDone(e, answer)
        PROVE  TypeOK'
    BY <2>2 DEF DownloadDone, TypeOK, Phases
  <2>3. CASE DownloadRefused(e)
    BY <2>3 DEF DownloadRefused, TypeOK, Phases
  <2>4. ASSUME NEW started \in BOOLEAN, BeginEdit(e, started) PROVE TypeOK'
    BY <2>4 DEF BeginEdit, TypeOK, Phases
  <2>5. QED
    BY <1>1, <2>1, <2>2, <2>3, <2>4 DEF Open
<1>2. ASSUME NEW e \in Edits, Editor(e) PROVE TypeOK'
  <2>1. CASE BeginWrite(e)
    <3>1. [i \in DOMAIN uploads[e] |-> IF uploads[e][i] = Unread THEN Unread ELSE Torn]
              \in Seq(Contents \union {Unread})
      <4>1. uploads[e] \in Seq(Contents \union {Unread})
        BY DEF TypeOK
      <4>2. /\ DOMAIN uploads[e] = 1..Len(uploads[e]) /\ Len(uploads[e]) \in Nat
            /\ [i \in 1..Len(uploads[e]) |->
                   IF uploads[e][i] = Unread THEN Unread ELSE Torn]
               \in [1..Len(uploads[e]) -> Contents \union {Unread}]
        BY <4>1 DEF Contents
      <4>3. QED
        BY <4>2
    <3>2. PICK reads \in Seq(Contents \union {Unread}) :
              uploads' = [uploads EXCEPT ![e] = reads]
      BY <2>1, <3>1, QueueTypes DEF BeginWrite
    <3>3. uploads' \in [Edits -> Seq(Contents \union {Unread})]
      BY <3>2 DEF TypeOK
    <3>4. writing' \in [Edits -> BOOLEAN]
      BY <2>1 DEF BeginWrite, TypeOK
    <3>5. QED
      BY <2>1, <3>3, <3>4 DEF BeginWrite, TypeOK
  <2>2. CASE EndWrite(e)
    <3>1. local[e] + 1 \in Nat
      <4>1. local \in [Edits -> Nat]
        BY DEF TypeOK
      <4>2. local[e] \in Nat
        BY <4>1
      <4>3. QED
        BY <4>2
    <3>2. local' \in [Edits -> Nat]
      BY <2>2, <3>1 DEF EndWrite, TypeOK
    <3>3. /\ writing' \in [Edits -> BOOLEAN]
          /\ noticed' \in [Edits -> BOOLEAN]
      BY <2>2 DEF EndWrite, TypeOK
    <3>4. QED
      BY <2>2, <3>2, <3>3 DEF EndWrite, TypeOK
  <2>3. CASE SaveByRename(e)
    <3>1. local[e] + 1 \in Nat
      <4>1. local \in [Edits -> Nat]
        BY DEF TypeOK
      <4>2. local[e] \in Nat
        BY <4>1
      <4>3. QED
        BY <4>2
    <3>2. local' \in [Edits -> Nat]
      BY <2>3, <3>1 DEF SaveByRename, TypeOK
    <3>3. noticed' \in [Edits -> BOOLEAN]
      BY <2>3 DEF SaveByRename, TypeOK
    <3>4. QED
      BY <2>3, <3>2, <3>3 DEF SaveByRename, TypeOK
  <2>4. QED
    BY <1>2, <2>1, <2>2, <2>3 DEF Editor
<1>3. ASSUME NEW e \in Edits, Watch(e) PROVE TypeOK'
  <2>1. CASE WatchNotice(e)
    <3>1. posted[e] \in Seq(Results \union {"trigger"})
      BY DEF TypeOK
    <3>2. Append(posted[e], "trigger") \in Seq(Results \union {"trigger"})
      BY <3>1, AppendType
    <3>3. posted' \in [Edits -> Seq(Results \union {"trigger"})]
      BY <2>1, <3>2 DEF WatchNotice, TypeOK
    <3>4. QED
      BY <2>1, <3>3 DEF WatchNotice, TypeOK
  <2>2. CASE WatchBreaks(e)
    BY <2>2 DEF WatchBreaks, TypeOK
  <2>3. QED
    BY <1>3, <2>1, <2>2 DEF Watch
<1>4. ASSUME NEW e \in Edits, NEW i \in DOMAIN uploads[e], UploadReads(e, i)
      PROVE  TypeOK'
  <2>1. uploads[e] \in Seq(Contents \union {Unread})
    BY DEF TypeOK
  <2>2. ASSUME NEW c \in Contents
        PROVE  [uploads[e] EXCEPT ![i] = c] \in Seq(Contents \union {Unread})
    <3>1. DOMAIN uploads[e] = 1..Len(uploads[e]) /\ Len(uploads[e]) \in Nat
      BY <2>1
    <3>2. [uploads[e] EXCEPT ![i] = c] \in [1..Len(uploads[e]) -> Contents \union {Unread}]
      BY <2>1, <3>1
    <3>3. QED
      BY <3>1, <3>2, SegmentType
  <2>3. uploads' \in [Edits -> Seq(Contents \union {Unread})]
    <3>1. (IF writing[e] THEN Torn ELSE local[e]) \in Contents
      BY DEF TypeOK, Contents
    <3>2. QED
      BY <1>4, <2>2, <3>1 DEF UploadReads, TypeOK
  <2>4. QED
    BY <1>4, <2>3 DEF UploadReads, TypeOK, Contents
<1>5. ASSUME NEW e \in Edits, NEW i \in DOMAIN uploads[e], NEW r \in Results,
             Answer(e, i, r), remote' \in [Edits -> Contents]
      PROVE  TypeOK'
  <2>1. RemoveAt(uploads[e], i) \in Seq(Contents \union {Unread})
    <3>1. uploads[e] \in Seq(Contents \union {Unread})
      BY DEF TypeOK
    <3>2. QED
      BY <3>1, RemoveAtType
  <2>2. Append(posted[e], r) \in Seq(Results \union {"trigger"})
    <3>1. posted[e] \in Seq(Results \union {"trigger"})
      BY DEF TypeOK
    <3>2. QED
      BY <3>1, AppendType
  <2>3. /\ uploads' \in [Edits -> Seq(Contents \union {Unread})]
        /\ posted' \in [Edits -> Seq(Results \union {"trigger"})]
    BY <1>5, <2>1, <2>2 DEF Answer, TypeOK
  <2>4. QED
    BY <1>5, <2>3 DEF Answer, TypeOK
<1>6. ASSUME NEW e \in Edits, Transport(e) PROVE TypeOK'
  <2>1. PICK i \in DOMAIN uploads[e] :
            \/ UploadReads(e, i)
            \/ UploadLands(e, i)
            \/ \E error \in Errors \ {Lost} : UploadFails(e, i, error)
    BY <1>6 DEF Transport
  <2>2. uploads[e][i] \in Contents \union {Unread}
    BY QueueTypes
  <2>3. CASE UploadLands(e, i)
    <3>1. remote' \in [Edits -> Contents]
      BY <2>2, <2>3 DEF UploadLands, TypeOK
    <3>2. QED
      BY <1>5, <2>3, <3>1 DEF UploadLands, Results, Successes
  <2>4. ASSUME NEW error \in Errors \ {Lost}, UploadFails(e, i, error)
        PROVE  TypeOK'
    <3>1. PICK left \in {remote[e], uploads[e][i]} \ {Unread} :
              remote' = [remote EXCEPT ![e] = left]
      BY <2>4 DEF UploadFails
    <3>2. left \in Contents
      <4>1. remote[e] \in Contents
        BY DEF TypeOK
      <4>2. QED
        BY <2>2, <3>1, <4>1
    <3>3. remote' \in [Edits -> Contents]
      BY <3>1, <3>2 DEF TypeOK
    <3>4. QED
      BY <1>5, <2>4, <3>3 DEF UploadFails, Results
  <2>5. QED
    BY <1>4, <2>1, <2>3, <2>4
<1>7. ASSUME NEW e \in Edits, HandlePost(e) PROVE TypeOK'
  <2>1. /\ Head(posted[e]) \in Results \union {"trigger"}
        /\ Tail(posted[e]) \in Seq(Results \union {"trigger"})
    <3>1. posted[e] \in Seq(Results \union {"trigger"}) /\ posted[e] # <<>>
      BY <1>7, QueueTypes DEF HandlePost
    <3>2. QED
      BY <3>1
  <2>2. posted' \in [Edits -> Seq(Results \union {"trigger"})]
    BY <1>7, <2>1 DEF HandlePost, TypeOK
  <2>3. /\ inFlight' \in [Edits -> BOOLEAN]
        /\ pending' \in [Edits -> BOOLEAN]
        /\ uploads' \in [Edits -> Seq(Contents \union {Unread})]
        /\ lastReported' \in [Edits -> Errors \union {""}]
        /\ told' \in [Edits -> Results \union {""}]
    <3>1. CASE phase[e] = "ended"
      BY <1>7, <3>1 DEF HandlePost, TypeOK
    <3>2. CASE phase[e] # "ended" /\ Head(posted[e]) = "trigger"
      BY <1>7, <3>2, TriggerType DEF HandlePost
    <3>3. CASE phase[e] # "ended" /\ Head(posted[e]) # "trigger"
      BY <1>7, <2>1, <3>3, FinishedType DEF HandlePost
    <3>4. QED
      BY <3>1, <3>2, <3>3
  <2>4. QED
    BY <1>7, <2>2, <2>3 DEF HandlePost, TypeOK
<1>8. ASSUME NEW e \in Edits, StopSession(e) PROVE TypeOK'
  BY <1>8 DEF StopSession, Stop, Ended, TypeOK, Phases
<1>9. ASSUME NEW f \in Filesystems, Connections(f) PROVE TypeOK'
  <2>1. CASE Connect(f)
    BY <2>1 DEF Connect, TypeOK
  <2>2. CASE DropLink(f)
    <3>1. /\ uploads' \in [Edits -> Seq(Contents \union {Unread})]
          /\ posted' \in [Edits -> Seq(Results \union {"trigger"})]
          /\ remote' \in [Edits -> Contents]
      BY <2>2, AnswerAllType DEF DropLink
    <3>2. /\ phase' \in [Edits -> Phases]
          /\ \A e \in Edits : watching[e] => phase'[e] = "editing"
      BY <2>2 DEF DropLink, TypeOK, Phases, In
    <3>3. QED
      BY <2>2, <3>1, <3>2 DEF DropLink, TypeOK
  <2>3. CASE EndSession(f)
    <3>1. /\ uploads' \in [Edits -> Seq(Contents \union {Unread})]
          /\ posted' \in [Edits -> Seq(Results \union {"trigger"})]
          /\ remote' \in [Edits -> Contents]
      <4>1. CASE link[f] = "up"
        BY <2>3, <4>1, AnswerAllType DEF EndSession
      <4>2. CASE link[f] # "up"
        BY <2>3, <4>2 DEF EndSession, TypeOK
      <4>3. QED
        BY <4>1, <4>2
    <3>2. /\ phase' \in [Edits -> Phases]
          /\ watching' \in [Edits -> BOOLEAN]
          /\ \A e \in Edits : watching'[e] => phase'[e] = "editing"
      BY <2>3 DEF EndSession, TypeOK, Phases, In, Stop, Ended
    <3>3. QED
      BY <2>3, <3>1, <3>2 DEF EndSession, Stop, Ended, TypeOK
  <2>4. ASSUME NEW g \in Filesystems, Reconnect(f, g) PROVE TypeOK'
    BY <2>4 DEF Reconnect, TypeOK
  <2>5. QED
    BY <1>9, <2>1, <2>2, <2>3, <2>4 DEF Connections
<1>10. CASE UNCHANGED vars
  BY <1>10 DEF vars, TypeOK
<1>11. QED
  BY <1>1, <1>2, <1>3, <1>6, <1>7, <1>8, <1>9, <1>10 DEF Next

\* Nothing is open at first, and everything has its type.
LEMMA TypeInit == Init => TypeOK
<1> SUFFICES ASSUME Init PROVE TypeOK
  OBVIOUS
<1>1. /\ posted \in [Edits -> Seq(Results \union {"trigger"})]
      /\ uploads \in [Edits -> Seq(Contents \union {Unread})]
  <2>1. \A S : <<>> \in Seq(S)
    OBVIOUS
  <2>2. QED
    BY <2>1 DEF Init
<1>2. QED
  BY <1>1 DEF Init, TypeOK, Phases, Contents

\* Whatever editors, servers and users do, the manager's state keeps its form,
\* and a watch thread runs only for an edit that is open.
THEOREM EditsTyped == Spec => []TypeOK
BY TypeInit, TypeStep, PTL DEF Spec

-----------------------------------------------------------------------------
(* What is posted, as the invariant sees it *)

Posts == Results \union {"trigger"}

Answers(s) == {i \in DOMAIN s : s[i] # "trigger"}
OneAnswer(s) == \A i, j \in Answers(s) : i = j
Triggered(s) == \E i \in DOMAIN s : s[i] = "trigger"
Failed(s) == \E i \in DOMAIN s : s[i] \in Doubtful

\* A trigger posted adds no answer.
LEMMA PostTrigger ==
    ASSUME NEW s \in Seq(Posts)
    PROVE  LET t == Append(s, "trigger")
           IN  /\ Answers(t) = Answers(s)
               /\ Triggered(t)
               /\ Failed(s) => Failed(t)
<1> DEFINE t == Append(s, "trigger")
<1>1. /\ DOMAIN s = 1..Len(s) /\ Len(s) \in Nat
      /\ DOMAIN t = 1..(Len(s) + 1)
      /\ \A i \in 1..Len(s) : t[i] = s[i]
      /\ t[Len(s) + 1] = "trigger"
  OBVIOUS
<1> HIDE DEF t
<1>2. Answers(t) = Answers(s)
  BY <1>1 DEF Answers
<1>3. Triggered(t)
  BY <1>1 DEF Triggered
<1>4. Failed(s) => Failed(t)
  BY <1>1 DEF Failed
<1>5. QED
  BY <1>2, <1>3, <1>4 DEF t

\* The first answer posted is the only one.
LEMMA PostAnswer ==
    ASSUME NEW s \in Seq(Posts), NEW r \in Results, r # "trigger", Answers(s) = {}
    PROVE  LET t == Append(s, r)
           IN  /\ Answers(t) # {} /\ OneAnswer(t)
               /\ Triggered(s) => Triggered(t)
               /\ r \in Doubtful => Failed(t)
<1> DEFINE t == Append(s, r)
<1>1. /\ DOMAIN s = 1..Len(s) /\ Len(s) \in Nat
      /\ DOMAIN t = 1..(Len(s) + 1)
      /\ \A i \in 1..Len(s) : t[i] = s[i]
      /\ t[Len(s) + 1] = r
  OBVIOUS
<1> HIDE DEF t
<1>2. Answers(t) = {Len(s) + 1}
  BY <1>1 DEF Answers
<1>3. Answers(t) # {} /\ OneAnswer(t)
  BY <1>2 DEF OneAnswer
<1>4. Triggered(s) => Triggered(t)
  BY <1>1 DEF Triggered
<1>5. r \in Doubtful => Failed(t)
  BY <1>1 DEF Failed
<1>6. QED
  BY <1>3, <1>4, <1>5 DEF t

\* Taking a trigger leaves the answers; taking the only answer leaves none.
LEMMA TakePost ==
    ASSUME NEW s \in Seq(Posts), s # <<>>, OneAnswer(s)
    PROVE  LET t == Tail(s)
           IN  /\ OneAnswer(t)
               /\ Head(s) = "trigger" => (Answers(t) = {} <=> Answers(s) = {})
               /\ Head(s) # "trigger" => Answers(t) = {} /\ Answers(s) # {}
               /\ Head(s) # "trigger" /\ Triggered(s) => Triggered(t)
<1> DEFINE t == Tail(s)
<1>1. /\ DOMAIN s = 1..Len(s) /\ Len(s) \in Nat /\ Len(s) > 0
      /\ DOMAIN t = 1..(Len(s) - 1)
      /\ \A i \in 1..(Len(s) - 1) : t[i] = s[i + 1]
      /\ Head(s) = s[1]
  OBVIOUS
<1> HIDE DEF t
<1>2. ASSUME NEW i \in Answers(t) PROVE i \in Nat /\ i + 1 \in Answers(s) /\ i + 1 # 1
  BY <1>1 DEF Answers
<1>3. OneAnswer(t)
  <2> SUFFICES ASSUME NEW i \in Answers(t), NEW j \in Answers(t) PROVE i = j
    BY DEF OneAnswer
  <2>1. i + 1 = j + 1
    BY <1>2 DEF OneAnswer
  <2>2. QED
    BY <1>2, <2>1
<1>4. ASSUME Head(s) = "trigger" PROVE Answers(t) = {} <=> Answers(s) = {}
  <2>1. ASSUME NEW i \in Answers(s) PROVE i - 1 \in Answers(t)
    BY <1>1, <1>4 DEF Answers
  <2>2. QED
    BY <1>2, <2>1
<1>5. ASSUME Head(s) # "trigger" PROVE Answers(t) = {} /\ Answers(s) # {}
  <2>1. 1 \in Answers(s)
    BY <1>1, <1>5 DEF Answers
  <2>2. QED
    BY <1>2, <2>1 DEF OneAnswer
<1>6. ASSUME Head(s) # "trigger", Triggered(s) PROVE Triggered(t)
  <2>1. PICK i \in 1..Len(s) : s[i] = "trigger"
    BY <1>1, <1>6 DEF Triggered
  <2>2. i - 1 \in 1..(Len(s) - 1) /\ t[i - 1] = s[i]
    BY <1>1, <1>6, <2>1
  <2>3. QED
    BY <1>1, <2>1, <2>2 DEF Triggered
<1>7. QED
  BY <1>3, <1>4, <1>5, <1>6 DEF t

\* A failure among the answers outlives the taking of a trigger.
LEMMA TakeTrigger ==
    ASSUME NEW s \in Seq(Posts), s # <<>>, Head(s) = "trigger"
    PROVE  Failed(s) => Failed(Tail(s))
<1> DEFINE t == Tail(s)
<1>1. /\ DOMAIN s = 1..Len(s) /\ Len(s) \in Nat /\ Len(s) > 0
      /\ DOMAIN t = 1..(Len(s) - 1)
      /\ \A i \in 1..(Len(s) - 1) : t[i] = s[i + 1]
      /\ s[1] = "trigger"
  OBVIOUS
<1> HIDE DEF t
<1>2. SUFFICES ASSUME Failed(s) PROVE Failed(t)
  BY DEF t
<1>3. PICK i \in 1..Len(s) : s[i] \in Doubtful
  BY <1>1, <1>2 DEF Failed
<1>4. i # 1
  BY <1>1, <1>3, EditAssumption DEF Doubtful
<1>5. i - 1 \in 1..(Len(s) - 1) /\ t[i - 1] = s[i]
  BY <1>1, <1>3, <1>4
<1>6. QED
  BY <1>1, <1>3, <1>5 DEF Failed

\* When a connection ends, at most one upload of a file is answered.
LEMMA PostLost ==
    ASSUME NEW s \in Seq(Posts), NEW S, NEW u \in Seq(S), Len(u) <= 1, NEW r
    PROVE  s \o [i \in DOMAIN u |-> r] = IF u = <<>> THEN s ELSE Append(s, r)
<1>1. CASE u = <<>>
  <2>1. [i \in DOMAIN u |-> r] = <<>>
    BY <1>1
  <2>2. QED
    BY <1>1, <2>1
<1>2. CASE u # <<>>
  <2>1. DOMAIN u = 1..1
    <3>1. Len(u) \in Nat /\ Len(u) # 0 /\ DOMAIN u = 1..Len(u)
      BY <1>2
    <3>2. Len(u) = 1
      BY <3>1
    <3>3. QED
      BY <3>1, <3>2
  <2>2. [i \in DOMAIN u |-> r] = <<r>>
    BY <2>1
  <2>3. s \o <<r>> = Append(s, r)
    OBVIOUS
  <2>4. QED
    BY <1>2, <2>2, <2>3
<1>3. QED
  BY <1>1, <1>2

\* Removing the only upload leaves none.
LEMMA RemoveOnly ==
    ASSUME NEW S, NEW u \in Seq(S), Len(u) <= 1, NEW i \in DOMAIN u
    PROVE  i = 1 /\ Len(u) = 1 /\ u # <<>> /\ RemoveAt(u, i) = <<>>
<1>1. i = 1 /\ Len(u) = 1
  <2>1. \A n \in Nat : \A k \in 1..n : n <= 1 => k = 1 /\ n = 1
    <3>1. ASSUME NEW n \in Nat, NEW k \in 1..n, n <= 1 PROVE k = 1
      BY <3>1
    <3>2. ASSUME NEW n \in Nat, NEW k \in 1..n, n <= 1 PROVE n = 1
      BY <3>2
    <3>3. QED
      BY <3>1, <3>2
  <2>2. Len(u) \in Nat /\ i \in 1..Len(u)
    OBVIOUS
  <2>3. QED
    BY <2>1, <2>2, Zenon
<1>2. SubSeq(u, 1, 0) = <<>> /\ SubSeq(u, 2, 1) = <<>>
  BY <1>1
<1>3. QED
  BY <1>1, <1>2 DEF RemoveAt

-----------------------------------------------------------------------------
(* The inductive invariant, edit by edit *)

\* inFlight is the only upload's mark, until its answer has been handled.
Single(d) ==
    /\ Len(uploads[d]) <= 1
    /\ uploads[d] # <<>> => inFlight[d] /\ Answers(posted[d]) = {}
    /\ Answers(posted[d]) # {} => inFlight[d]
    /\ OneAnswer(posted[d])

\* Before the editor starts there is nothing to save, and it writes only what
\* is open.
Early(d) ==
    /\ writing[d] => phase[d] = "editing"
    /\ phase[d] \notin {"editing", "ended"} =>
           /\ posted[d] = <<>> /\ uploads[d] = <<>>
           /\ ~inFlight[d] /\ ~pending[d]
           /\ local[d] = 0 /\ remote[d] = 0

\* Whatever waits for the upload in flight waits for something that will come.
Awaited(d) ==
    phase[d] = "editing" =>
        /\ pending[d] => inFlight[d]
        /\ inFlight[d] => uploads[d] # <<>> \/ Answers(posted[d]) # {}

\* The policy remembers a failure exactly while it is the last word.
Remembers(d) ==
    /\ told[d] \in Errors => lastReported[d] = told[d]
    /\ told[d] \notin Errors => lastReported[d] = ""

\* The last save is still on its way, has arrived, or has been owned up to.
OnItsWay(d) ==
    \/ writing[d] \/ noticed[d] \/ Triggered(posted[d]) \/ pending[d]
    \/ uploads[d] # <<>> /\ uploads[d][1] \in {Unread, local[d]}
Arrived(d) == uploads[d] = <<>> /\ remote[d] = local[d]
OwnedUp(d) ==
    \/ Failed(posted[d])
    \/ told[d] \in Doubtful /\ uploads[d] = <<>> /\ Answers(posted[d]) = {}
Followed(d) ==
    phase[d] = "editing" /\ watching[d] => OnItsWay(d) \/ Arrived(d) \/ OwnedUp(d)

Good(d) == Single(d) /\ Early(d) /\ Awaited(d) /\ Remembers(d) /\ Followed(d)

Inv == TypeOK /\ \A d \in Edits : Good(d)

\* An edit that a step does not touch stays as it was.
LEMMA Untouched ==
    ASSUME NEW d, Good(d),
           phase'[d] = phase[d], watching'[d] = watching[d],
           local'[d] = local[d], writing'[d] = writing[d],
           remote'[d] = remote[d], noticed'[d] = noticed[d],
           posted'[d] = posted[d], inFlight'[d] = inFlight[d],
           pending'[d] = pending[d], uploads'[d] = uploads[d],
           lastReported'[d] = lastReported[d], told'[d] = told[d]
    PROVE  Good(d)'
BY Zenon DEF Good, Single, Early, Awaited, Remembers, Followed, OnItsWay, Arrived, OwnedUp

\* The invariant holds before any edit is opened.
LEMMA InvInit == Init => Inv
<1> SUFFICES ASSUME Init, NEW d \in Edits PROVE Good(d)
  BY TypeInit DEF Inv
<1>1. Answers(<<>>) = {} /\ Len(<<>>) = 0
  BY DEF Answers
<1>2. OneAnswer(<<>>)
  BY <1>1 DEF OneAnswer
<1>3. "" \notin Errors
  BY EditAssumption
<1>4. /\ phase[d] = "none" /\ posted[d] = <<>> /\ uploads[d] = <<>>
      /\ ~inFlight[d] /\ ~pending[d] /\ ~writing[d]
      /\ local[d] = 0 /\ remote[d] = 0 /\ told[d] = "" /\ lastReported[d] = ""
  BY DEF Init
<1>5. Single(d)
  <2>1. Answers(posted[d]) = {} /\ OneAnswer(posted[d]) /\ Len(uploads[d]) = 0
    BY <1>1, <1>2, <1>4
  <2>2. Len(uploads[d]) <= 1
    BY <2>1
  <2>3. QED
    BY <1>4, <2>1, <2>2, Zenon DEF Single
<1>6. Remembers(d)
  BY <1>3, <1>4 DEF Remembers
<1>7. Early(d) /\ Awaited(d) /\ Followed(d)
  BY <1>4 DEF Early, Awaited, Followed
<1>8. QED
  BY <1>5, <1>6, <1>7 DEF Good

\* Opening: what is not yet open has no save to lose.
LEMMA GoodOpen ==
    ASSUME Inv, NEW e \in Edits, Open(e)
    PROVE  \A d \in Edits : Good(d)'
<1> SUFFICES ASSUME NEW d \in Edits PROVE Good(d)'
  OBVIOUS
<1> USE DEF edit, file, flow, word
<1>0. Good(d) /\ TypeOK
  BY DEF Inv
<1>1. /\ local'[d] = local[d] /\ writing'[d] = writing[d]
      /\ remote'[d] = remote[d] /\ noticed'[d] = noticed[d]
      /\ posted'[d] = posted[d] /\ inFlight'[d] = inFlight[d]
      /\ pending'[d] = pending[d] /\ uploads'[d] = uploads[d]
      /\ lastReported'[d] = lastReported[d] /\ told'[d] = told[d]
  BY DEF Open, OpenRemoteFile, DownloadDone, DownloadRefused, BeginEdit
<1>2. \/ phase'[d] = phase[d] /\ watching'[d] = watching[d]
      \/ phase[d] \notin {"editing", "ended"}
  BY <1>0 DEF Open, OpenRemoteFile, DownloadDone, DownloadRefused, BeginEdit, TypeOK
<1>3. CASE phase'[d] = phase[d] /\ watching'[d] = watching[d]
  BY <1>0, <1>1, <1>3, Untouched
<1>4. CASE phase[d] \notin {"editing", "ended"}
  <2>1. /\ posted[d] = <<>> /\ uploads[d] = <<>>
        /\ ~inFlight[d] /\ ~pending[d] /\ ~writing[d]
        /\ local[d] = 0 /\ remote[d] = 0
    BY <1>0, <1>4 DEF Good, Early
  <2>2. Single(d)' /\ Remembers(d)'
    BY <1>0, <1>1 DEF Good, Single, Remembers
  <2>3. Early(d)' /\ Awaited(d)' /\ Followed(d)'
    BY <1>1, <2>1 DEF Early, Awaited, Followed, Arrived
  <2>4. QED
    BY <2>2, <2>3 DEF Good
<1>5. QED
  BY <1>2, <1>3, <1>4

\* A save is on its way from the moment it begins.
LEMMA GoodEditor ==
    ASSUME Inv, NEW e \in Edits, Editor(e)
    PROVE  \A d \in Edits : Good(d)'
<1> SUFFICES ASSUME NEW d \in Edits PROVE Good(d)'
  OBVIOUS
<1> USE DEF edit, file, flow, word
<1>0. Good(d) /\ TypeOK /\ Good(e)
  BY DEF Inv
<1>1. CASE d # e
  <2>1. /\ phase'[d] = phase[d] /\ watching'[d] = watching[d]
        /\ local'[d] = local[d] /\ writing'[d] = writing[d]
        /\ remote'[d] = remote[d] /\ noticed'[d] = noticed[d]
        /\ posted'[d] = posted[d] /\ inFlight'[d] = inFlight[d]
        /\ pending'[d] = pending[d] /\ uploads'[d] = uploads[d]
        /\ lastReported'[d] = lastReported[d] /\ told'[d] = told[d]
    BY <1>0, <1>1 DEF Editor, BeginWrite, EndWrite, SaveByRename, TypeOK
  <2>2. QED
    BY <1>0, <2>1, Untouched
<1>2. CASE d = e
  <2>1. /\ phase' = phase /\ watching' = watching /\ remote' = remote
        /\ posted' = posted /\ inFlight' = inFlight /\ pending' = pending
        /\ lastReported' = lastReported /\ told' = told
    BY DEF Editor, BeginWrite, EndWrite, SaveByRename
  <2>2. /\ Len(uploads'[e]) = Len(uploads[e])
        /\ uploads'[e] = <<>> <=> uploads[e] = <<>>
    <3>1. CASE BeginWrite(e)
      <4>1. PICK reads \in {uploads[e], [i \in DOMAIN uploads[e] |->
                        IF uploads[e][i] = Unread THEN Unread ELSE Torn]} :
                uploads' = [uploads EXCEPT ![e] = reads]
        BY <3>1 DEF BeginWrite
      <4>2. uploads'[e] = reads
        BY <1>0, <4>1 DEF TypeOK
      <4>3. uploads[e] \in Seq(Contents \union {Unread})
        BY <1>0, QueueTypes
      <4>4. Len(reads) = Len(uploads[e]) /\ reads = <<>> <=> uploads[e] = <<>>
        <5>1. CASE reads = uploads[e]
          BY <5>1
        <5>2. CASE reads = [i \in DOMAIN uploads[e] |->
                        IF uploads[e][i] = Unread THEN Unread ELSE Torn]
          <6>1. DOMAIN uploads[e] = 1..Len(uploads[e]) /\ Len(uploads[e]) \in Nat
            BY <4>3
          <6>2. DOMAIN reads = 1..Len(uploads[e]) /\ Len(reads) = Len(uploads[e])
            BY <5>2, <6>1
          <6>3. reads \in Seq({Unread, Torn})
            <7>1. reads \in [1..Len(uploads[e]) -> {Unread, Torn}]
              BY <5>2, <6>1
            <7>2. QED
              BY <6>1, <7>1, SegmentType
          <6>4. reads = <<>> <=> Len(reads) = 0
            BY <6>3
          <6>5. uploads[e] = <<>> <=> Len(uploads[e]) = 0
            BY <4>3
          <6>6. QED
            BY <6>2, <6>4, <6>5
        <5>3. QED
          BY <4>1, <5>1, <5>2
      <4>5. QED
        BY <4>2, <4>4
    <3>2. CASE EndWrite(e) \/ SaveByRename(e)
      BY <3>2 DEF EndWrite, SaveByRename
    <3>3. QED
      BY <3>1, <3>2 DEF Editor
  <2>3. Single(e)' /\ Awaited(e)' /\ Remembers(e)'
    BY <1>0, <2>1, <2>2 DEF Good, Single, Awaited, Remembers
  <2>4. phase[e] = "editing"
    <3>1. writing[e] => phase[e] = "editing"
      BY <1>0 DEF Good, Early
    <3>2. QED
      BY <3>1 DEF Editor, BeginWrite, EndWrite, SaveByRename
  <2>5. Early(e)'
    BY <2>1, <2>4 DEF Early
  <2>6. Followed(e)'
    <3>1. writing'[e] \/ noticed'[e] = watching[e]
      BY <1>0 DEF Editor, BeginWrite, EndWrite, SaveByRename, TypeOK
    <3>2. QED
      BY <2>1, <3>1 DEF Followed, OnItsWay
  <2>7. QED
    BY <1>2, <2>3, <2>5, <2>6 DEF Good
<1>3. QED
  BY <1>1, <1>2

\* What the watch has seen is posted, or it watches no more.
LEMMA GoodWatch ==
    ASSUME Inv, NEW e \in Edits, Watch(e)
    PROVE  \A d \in Edits : Good(d)'
<1> SUFFICES ASSUME NEW d \in Edits PROVE Good(d)'
  OBVIOUS
<1> USE DEF edit, file, flow, word
<1>0. Good(d) /\ TypeOK /\ Good(e)
  BY DEF Inv
<1>1. /\ phase' = phase /\ local' = local /\ writing' = writing
      /\ remote' = remote /\ inFlight' = inFlight /\ pending' = pending
      /\ uploads' = uploads /\ lastReported' = lastReported /\ told' = told
  BY DEF Watch, WatchNotice, WatchBreaks
<1>2. CASE d # e
  <2>1. /\ watching'[d] = watching[d] /\ noticed'[d] = noticed[d]
        /\ posted'[d] = posted[d]
    BY <1>0, <1>2 DEF Watch, WatchNotice, WatchBreaks, TypeOK
  <2>2. QED
    BY <1>0, <1>1, <2>1, Untouched
<1>3. CASE d = e /\ WatchBreaks(e)
  <2>1. watching'[e] = FALSE /\ posted' = posted
    BY <1>0, <1>3 DEF WatchBreaks, TypeOK
  <2>2. Single(e)' /\ Early(e)' /\ Awaited(e)' /\ Remembers(e)'
    BY <1>0, <1>1, <2>1 DEF Good, Single, Early, Awaited, Remembers
  <2>3. QED
    BY <1>3, <2>1, <2>2 DEF Good, Followed
<1>4. CASE d = e /\ WatchNotice(e)
  <2>1. watching' = watching /\ posted'[e] = Append(posted[e], "trigger")
    BY <1>0, <1>4 DEF WatchNotice, TypeOK
  <2>2. posted[e] \in Seq(Posts)
    BY <1>0, QueueTypes DEF Posts
  <2>3. Answers(posted'[e]) = Answers(posted[e]) /\ Triggered(posted'[e])
    BY <2>1, <2>2, PostTrigger
  <2>4. OneAnswer(posted'[e]) <=> OneAnswer(posted[e])
    BY <2>3 DEF OneAnswer
  <2>5. phase[e] = "editing"
    BY <1>0, <1>4 DEF WatchNotice, TypeOK
  <2>6. Single(e)' /\ Early(e)' /\ Awaited(e)' /\ Remembers(e)'
    BY <1>0, <1>1, <2>3, <2>4, <2>5 DEF Good, Single, Early, Awaited, Remembers
  <2>7. Followed(e)'
    BY <2>3 DEF Followed, OnItsWay
  <2>8. QED
    BY <1>4, <2>6, <2>7 DEF Good
<1>5. QED
  BY <1>2, <1>3, <1>4 DEF Watch

\* An upload answered: what is posted, and what is left to do.
LEMMA GoodAnswer ==
    ASSUME Inv, NEW e \in Edits, NEW i \in DOMAIN uploads[e], NEW r \in Results,
           Answer(e, i, r),
           \A d \in Edits \ {e} : remote'[d] = remote[d],
           r \in Errors \/ (r = "saved" /\ remote'[e] = uploads[e][i]),
           uploads[e][i] # Unread \/ r \in Errors
    PROVE  \A d \in Edits : Good(d)'
<1> SUFFICES ASSUME NEW d \in Edits PROVE Good(d)'
  OBVIOUS
<1> USE DEF edit, file, flow, word
<1>0. Good(d) /\ TypeOK /\ Good(e)
  BY DEF Inv
<1>1. /\ phase' = phase /\ watching' = watching /\ local' = local
      /\ writing' = writing /\ noticed' = noticed
      /\ inFlight' = inFlight /\ pending' = pending
      /\ lastReported' = lastReported /\ told' = told
  BY DEF Answer
<1>2. CASE d # e
  <2>1. /\ uploads'[d] = uploads[d] /\ posted'[d] = posted[d]
        /\ remote'[d] = remote[d]
    BY <1>0, <1>2 DEF Answer, TypeOK
  <2>2. QED
    BY <1>0, <1>1, <2>1, Untouched
<1>3. CASE d = e
  <2>1. /\ posted[e] \in Seq(Posts)
        /\ uploads[e] \in Seq(Contents \union {Unread})
    BY <1>0, QueueTypes DEF Posts
  <2>2. Len(uploads[e]) <= 1
    BY <1>0 DEF Good, Single
  <2>3. /\ i = 1 /\ uploads[e] # <<>> /\ RemoveAt(uploads[e], i) = <<>>
    BY <2>1, <2>2, RemoveOnly
  <2>4. uploads'[e] = <<>> /\ posted'[e] = Append(posted[e], r)
    BY <1>0, <2>3 DEF Answer, TypeOK
  <2>5. Answers(posted[e]) = {} /\ inFlight[e]
    BY <1>0, <2>3 DEF Good, Single
  <2>6. r # "trigger"
    BY EditAssumption DEF Results, Successes
  <2>7. /\ Answers(posted'[e]) # {} /\ OneAnswer(posted'[e])
        /\ Triggered(posted[e]) => Triggered(posted'[e])
        /\ r \in Doubtful => Failed(posted'[e])
    BY <2>1, <2>4, <2>5, <2>6, PostAnswer
  <2>8. phase[e] \in {"editing", "ended"}
    BY <1>0, <2>3 DEF Good, Early
  <2>9. Single(e)'
    <3>1. Len(<<>>) <= 1
      OBVIOUS
    <3>2. QED
      BY <1>1, <2>4, <2>5, <2>7, <3>1 DEF Single
  <2>10. Early(e)' /\ Awaited(e)' /\ Remembers(e)'
    BY <1>0, <1>1, <2>5, <2>7, <2>8 DEF Good, Early, Awaited, Remembers
  <2>11. Followed(e)'
    <3>1. SUFFICES ASSUME phase[e] = "editing", watching[e]
                   PROVE  (OnItsWay(e) \/ Arrived(e) \/ OwnedUp(e))'
      BY <1>1 DEF Followed
    <3>2. CASE r \in Errors
      BY <2>7, <3>2 DEF OwnedUp, Doubtful
    <3>3. CASE r \notin Errors
      <4>1. uploads[e][1] # Unread /\ remote'[e] = uploads[e][1]
        BY <2>3, <3>3
      <4>2. ~Arrived(e)
        BY <2>3 DEF Arrived
      <4>3. ~OwnedUp(e)
        <5>1. ~Failed(posted[e])
          BY <2>5, EditAssumption DEF Failed, Answers, Doubtful
        <5>2. QED
          BY <2>3, <5>1 DEF OwnedUp
      <4>4. OnItsWay(e)
        BY <1>0, <3>1, <4>2, <4>3 DEF Good, Followed
      <4>5. \/ writing[e] \/ noticed[e] \/ Triggered(posted[e]) \/ pending[e]
            \/ uploads[e][1] = local[e]
        BY <4>1, <4>4 DEF OnItsWay
      <4>6. QED
        BY <1>1, <2>4, <2>7, <4>1, <4>5 DEF OnItsWay, Arrived
    <3>4. QED
      BY <3>2, <3>3
  <2>12. QED
    BY <1>3, <2>9, <2>10, <2>11 DEF Good
<1>4. QED
  BY <1>2, <1>3

\* What an upload has read is what it leaves, unless it fails.
LEMMA GoodTransport ==
    ASSUME Inv, NEW e \in Edits, Transport(e)
    PROVE  \A d \in Edits : Good(d)'
<1> USE DEF edit, file, flow, word
<1>0. TypeOK /\ Good(e)
  BY DEF Inv
<1>1. PICK i \in DOMAIN uploads[e] :
          \/ UploadReads(e, i)
          \/ UploadLands(e, i)
          \/ \E error \in Errors \ {Lost} : UploadFails(e, i, error)
  BY DEF Transport
<1>2. CASE UploadReads(e, i)
  <2> SUFFICES ASSUME NEW d \in Edits PROVE Good(d)'
    OBVIOUS
  <2>0. Good(d)
    BY DEF Inv
  <2>1. /\ phase' = phase /\ watching' = watching /\ local' = local
        /\ writing' = writing /\ noticed' = noticed /\ posted' = posted
        /\ inFlight' = inFlight /\ pending' = pending
        /\ lastReported' = lastReported /\ told' = told
    BY <1>2 DEF UploadReads
  <2>2. CASE d # e
    <3>1. uploads'[d] = uploads[d] /\ remote'[d] = remote[d]
      BY <1>0, <1>2, <2>2 DEF UploadReads, TypeOK
    <3>2. QED
      BY <2>0, <2>1, <3>1, Untouched
  <2>3. CASE d = e
    <3>1. uploads[e] \in Seq(Contents \union {Unread}) /\ Len(uploads[e]) <= 1
      BY <1>0, QueueTypes DEF Good, Single
    <3>2. i = 1 /\ Len(uploads[e]) = 1 /\ uploads[e] # <<>>
      BY <3>1, RemoveOnly
    <3>3. uploads'[e] = [uploads[e] EXCEPT ![i] = IF writing[e] THEN Torn ELSE local[e]]
      BY <1>0, <1>2 DEF UploadReads, TypeOK
    <3>4. /\ Len(uploads'[e]) = 1 /\ uploads'[e] # <<>>
          /\ uploads'[e][1] = IF writing[e] THEN Torn ELSE local[e]
      BY <3>1, <3>2, <3>3
    <3>5. Single(e)' /\ Early(e)' /\ Awaited(e)' /\ Remembers(e)'
      <4>1. Len(uploads'[e]) <= 1
        BY <3>4
      <4>2. phase[e] \in {"editing", "ended"}
        BY <1>0, <3>2 DEF Good, Early
      <4>3. QED
        BY <1>0, <2>1, <3>2, <3>4, <4>1, <4>2 DEF Good, Single, Early, Awaited, Remembers
    <3>6. Followed(e)'
      BY <2>1, <3>4 DEF Followed, OnItsWay
    <3>7. QED
      BY <2>3, <3>5, <3>6 DEF Good
  <2>4. QED
    BY <2>2, <2>3
<1>3. CASE UploadLands(e, i)
  <2>1. /\ "saved" \in Results /\ uploads[e][i] # Unread /\ Answer(e, i, "saved")
    BY <1>3 DEF UploadLands, Results, Successes
  <2>2. /\ remote'[e] = uploads[e][i]
        /\ \A d \in Edits \ {e} : remote'[d] = remote[d]
    BY <1>0, <1>3 DEF UploadLands, TypeOK
  <2>3. QED
    BY <2>1, <2>2, GoodAnswer
<1>4. ASSUME NEW error \in Errors \ {Lost}, UploadFails(e, i, error)
      PROVE  \A d \in Edits : Good(d)'
  <2>1. error \in Results /\ error \in Errors
    BY <1>4 DEF Results
  <2>2. Answer(e, i, error)
    BY <1>4 DEF UploadFails
  <2>3. \A d \in Edits \ {e} : remote'[d] = remote[d]
    BY <1>0, <1>4 DEF UploadFails, TypeOK
  <2>4. QED
    BY <2>1, <2>2, <2>3, GoodAnswer
<1>5. QED
  BY <1>1, <1>2, <1>3, <1>4

\* A trigger starts or orders an upload; a result starts the one ordered.
LEMMA GoodPost ==
    ASSUME Inv, NEW e \in Edits, HandlePost(e)
    PROVE  \A d \in Edits : Good(d)'
<1> SUFFICES ASSUME NEW d \in Edits PROVE Good(d)'
  OBVIOUS
<1> USE DEF edit, file, flow, word
<1>0. Good(d) /\ TypeOK /\ Good(e)
  BY DEF Inv
<1>1. /\ phase' = phase /\ watching' = watching /\ local' = local
      /\ writing' = writing /\ remote' = remote /\ noticed' = noticed
  BY DEF HandlePost
<1>2. CASE d # e
  <2>1. /\ posted'[d] = posted[d] /\ inFlight'[d] = inFlight[d]
        /\ pending'[d] = pending[d] /\ uploads'[d] = uploads[d]
        /\ lastReported'[d] = lastReported[d] /\ told'[d] = told[d]
    BY <1>0, <1>2 DEF HandlePost, TriggerUpload, OnUploadFinished, Decide, TypeOK
  <2>2. QED
    BY <1>0, <1>1, <2>1, Untouched
<1>3. CASE d = e
  <2>1. posted[e] \in Seq(Posts) /\ uploads[e] \in Seq(Contents \union {Unread})
    BY <1>0, QueueTypes DEF Posts
  <2>2. posted[e] # <<>> /\ posted'[e] = Tail(posted[e]) /\ OneAnswer(posted[e])
    BY <1>0 DEF HandlePost, TypeOK, Good, Single
  <2>3. /\ OneAnswer(posted'[e])
        /\ Head(posted[e]) = "trigger" =>
               (Answers(posted'[e]) = {} <=> Answers(posted[e]) = {})
        /\ Head(posted[e]) # "trigger" =>
               Answers(posted'[e]) = {} /\ Answers(posted[e]) # {}
        /\ Head(posted[e]) # "trigger" /\ Triggered(posted[e]) => Triggered(posted'[e])
    BY <2>1, <2>2, TakePost
  <2>4. phase[e] \in {"editing", "ended"}
    BY <1>0, <2>2 DEF Good, Early
  <2>5. /\ Len(<<Unread>>) <= 1 /\ <<Unread>> # <<>> /\ <<Unread>>[1] = Unread
        /\ Append(<<>>, Unread) = <<Unread>>
    OBVIOUS
  <2>6. Early(e)'
    BY <1>0, <1>1, <2>4 DEF Good, Early
  <2>7. CASE phase[e] = "ended"
    <3>1. /\ inFlight' = inFlight /\ pending' = pending /\ uploads' = uploads
          /\ lastReported' = lastReported /\ told' = told
      BY <2>7 DEF HandlePost
    <3>2. Single(e)'
      BY <1>0, <2>3, <3>1 DEF Good, Single
    <3>3. Remembers(e)' /\ Awaited(e)' /\ Followed(e)'
      BY <1>0, <1>1, <2>7, <3>1 DEF Good, Remembers, Awaited, Followed
    <3>4. QED
      BY <1>3, <2>6, <3>2, <3>3 DEF Good
  <2>8. CASE phase[e] = "editing" /\ Head(posted[e]) = "trigger"
    <3>1. TriggerUpload(e)
      BY <2>8 DEF HandlePost
    <3>2. lastReported' = lastReported /\ told' = told /\ inFlight'[e] = TRUE
      BY <1>0, <3>1 DEF TriggerUpload, TypeOK
    <3>3. CASE inFlight[e]
      <4>1. uploads' = uploads /\ pending'[e] = TRUE
        BY <1>0, <3>1, <3>3 DEF TriggerUpload, TypeOK
      <4>2. Single(e)' /\ Awaited(e)' /\ Remembers(e)'
        BY <1>0, <1>1, <2>3, <2>8, <3>2, <3>3, <4>1
        DEF Good, Single, Awaited, Remembers
      <4>3. Followed(e)'
        BY <4>1 DEF Followed, OnItsWay
      <4>4. QED
        BY <1>3, <2>6, <4>2, <4>3 DEF Good
    <3>4. CASE ~inFlight[e]
      <4>1. uploads[e] = <<>> /\ Answers(posted[e]) = {}
        BY <1>0, <3>4 DEF Good, Single
      <4>2. uploads'[e] = <<Unread>> /\ pending' = pending
        <5>1. uploads'[e] = Append(uploads[e], Unread) /\ pending' = pending
          BY <1>0, <3>1, <3>4 DEF TriggerUpload, TypeOK
        <5>2. QED
          BY <2>5, <4>1, <5>1
      <4>3. Single(e)'
        BY <2>3, <2>5, <2>8, <3>2, <4>1, <4>2 DEF Single
      <4>4. Awaited(e)' /\ Remembers(e)'
        BY <1>0, <2>5, <3>2, <4>2 DEF Good, Awaited, Remembers
      <4>5. Followed(e)'
        BY <2>5, <4>2 DEF Followed, OnItsWay
      <4>6. QED
        BY <1>3, <2>6, <4>3, <4>4, <4>5 DEF Good
    <3>5. QED
      BY <3>3, <3>4
  <2>9. CASE phase[e] = "editing" /\ Head(posted[e]) # "trigger"
    <3> DEFINE r == Head(posted[e])
    <3>1. OnUploadFinished(e, r) /\ r # "trigger"
      BY <2>9 DEF HandlePost
    <3>2. r \in Results
      BY <2>1, <2>2, <3>1 DEF Posts
    <3> HIDE DEF r
    <3>3. uploads[e] = <<>> /\ inFlight[e] /\ Answers(posted[e]) # {}
      BY <1>0, <2>3, <2>9 DEF Good, Single
    <3>4. /\ Answers(posted'[e]) = {}
          /\ Triggered(posted[e]) => Triggered(posted'[e])
      BY <2>3, <2>9
    <3>5. Remembers(e)'
      <4>1. Remembers(e) /\ Successes \cap Errors = {} /\ "" \notin Errors
        BY <1>0, EditAssumption DEF Good, Successes
      <4>2. Decide(e, r, pending[e])
        BY <3>1 DEF OnUploadFinished
      <4>3. CASE pending[e] \/ r = lastReported[e]
        BY <4>1, <4>2, <4>3 DEF Decide, Remembers
      <4>4. CASE ~(pending[e] \/ r = lastReported[e])
        <5>1. /\ told'[e] = r
              /\ lastReported'[e] = IF r \in Successes THEN "" ELSE r
          BY <1>0, <4>2, <4>4 DEF Decide, TypeOK
        <5>2. r \in Successes \/ r \in Errors
          BY <3>2 DEF Results
        <5>3. QED
          BY <4>1, <5>1, <5>2 DEF Remembers
      <4>5. QED
        BY <4>3, <4>4
    <3>6. CASE pending[e]
      <4>1. /\ uploads'[e] = <<Unread>> /\ inFlight'[e] = TRUE
            /\ pending'[e] = FALSE
        BY <1>0, <2>5, <3>1, <3>3, <3>6 DEF OnUploadFinished, TypeOK
      <4>2. Single(e)' /\ Awaited(e)'
        BY <2>3, <2>5, <3>4, <4>1 DEF Single, Awaited
      <4>3. Followed(e)'
        BY <2>5, <4>1 DEF Followed, OnItsWay
      <4>4. QED
        BY <1>3, <2>6, <3>5, <4>2, <4>3 DEF Good
    <3>7. CASE ~pending[e]
      <4>1. uploads'[e] = <<>> /\ inFlight'[e] = FALSE /\ pending'[e] = FALSE
        BY <1>0, <3>1, <3>3, <3>7 DEF OnUploadFinished, TypeOK
      <4>2. Single(e)' /\ Awaited(e)'
        <5>1. Len(<<>>) <= 1
          OBVIOUS
        <5>2. QED
          BY <2>3, <3>4, <4>1, <5>1 DEF Single, Awaited
      <4>3. Followed(e)'
        <5>1. SUFFICES ASSUME phase[e] = "editing", watching[e]
                       PROVE  (OnItsWay(e) \/ Arrived(e) \/ OwnedUp(e))'
          BY <1>1 DEF Followed
        <5>2. CASE r \in Doubtful
          <6>1. told'[e] \in Doubtful
            BY <1>0, <3>1, <3>7, <5>2, EditAssumption
            DEF Good, Remembers, OnUploadFinished, Decide, TypeOK, Doubtful
          <6>2. QED
            BY <3>4, <4>1, <6>1 DEF OwnedUp
        <5>3. CASE r \notin Doubtful
          <6>1. ~OwnedUp(e)
            <7>1. ~Failed(posted[e])
              <8> SUFFICES ASSUME NEW j \in DOMAIN posted[e], posted[e][j] \in Doubtful
                           PROVE  FALSE
                BY DEF Failed
              <8>1. 1 \in DOMAIN posted[e] /\ r = posted[e][1]
                BY <2>1, <2>2 DEF r
              <8>2. 1 \in Answers(posted[e])
                BY <3>1, <8>1 DEF Answers
              <8>3. j \in Answers(posted[e])
                BY EditAssumption DEF Answers, Doubtful
              <8>4. j = 1
                BY <2>2, <8>2, <8>3 DEF OneAnswer
              <8>5. QED
                BY <5>3, <8>1, <8>4
            <7>2. QED
              BY <3>3, <7>1 DEF OwnedUp
          <6>2. OnItsWay(e) \/ Arrived(e)
            BY <1>0, <5>1, <6>1 DEF Good, Followed
          <6>3. CASE OnItsWay(e)
            BY <1>1, <3>3, <3>4, <3>7, <6>3 DEF OnItsWay
          <6>4. CASE Arrived(e)
            BY <1>1, <4>1, <6>4 DEF Arrived
          <6>5. QED
            BY <6>2, <6>3, <6>4
        <5>4. QED
          BY <5>2, <5>3
      <4>4. QED
        BY <1>3, <2>6, <3>5, <4>2, <4>3 DEF Good
    <3>8. QED
      BY <3>6, <3>7
  <2>10. QED
    BY <2>4, <2>7, <2>8, <2>9
<1>4. QED
  BY <1>2, <1>3

\* An edit that is finished promises nothing more.
LEMMA GoodStop ==
    ASSUME Inv, NEW e \in Edits, StopSession(e)
    PROVE  \A d \in Edits : Good(d)'
<1> SUFFICES ASSUME NEW d \in Edits PROVE Good(d)'
  OBVIOUS
<1> USE DEF edit, file, flow, word
<1>0. Good(d) /\ TypeOK
  BY DEF Inv
<1>1. /\ remote' = remote /\ posted' = posted /\ inFlight' = inFlight
      /\ pending' = pending /\ uploads' = uploads /\ local' = local
      /\ lastReported' = lastReported /\ told' = told
  BY DEF StopSession, Stop
<1>2. CASE d # e
  <2>1. /\ phase'[d] = phase[d] /\ watching'[d] = watching[d]
        /\ writing'[d] = writing[d] /\ noticed'[d] = noticed[d]
    BY <1>0, <1>2 DEF StopSession, Stop, Ended, TypeOK
  <2>2. QED
    BY <1>0, <1>1, <2>1, Untouched
<1>3. CASE d = e
  <2>1. phase'[e] = "ended" /\ writing'[e] = FALSE
    BY <1>0, <1>3 DEF StopSession, Stop, Ended, TypeOK
  <2>2. QED
    BY <1>0, <1>1, <1>3, <2>1
    DEF Good, Single, Early, Awaited, Remembers, Followed
<1>4. QED
  BY <1>2, <1>3

\* The uploads of a file whose connection ends are answered, or there are none.
LEMMA GoodAnswerAll ==
    ASSUME Inv, NEW S, AnswerAll(S), NEW d \in Edits,
           inFlight' = inFlight
    PROVE  /\ Single(d)'
           /\ \/ /\ uploads'[d] = uploads[d] /\ posted'[d] = posted[d]
                 /\ remote'[d] = remote[d]
              \/ /\ uploads[d] # <<>> /\ uploads'[d] = <<>>
                 /\ Answers(posted'[d]) # {} /\ Failed(posted'[d])
<1>0. Good(d) /\ TypeOK
  BY DEF Inv
<1>1. /\ posted[d] \in Seq(Posts)
      /\ uploads[d] \in Seq(Contents \union {Unread}) /\ Len(uploads[d]) <= 1
  BY <1>0, QueueTypes DEF Posts, Good, Single
<1>2. Len(<<>>) <= 1
  OBVIOUS
<1>3. PICK r \in Doubtful :
             /\ uploads'[d] = IF d \in S THEN <<>> ELSE uploads[d]
             /\ posted'[d] = IF d \in S
                             THEN posted[d] \o [i \in DOMAIN uploads[d] |-> r]
                             ELSE posted[d]
             /\ \/ remote'[d] = remote[d]
                \/ d \in S /\ uploads[d] # <<>> /\ remote'[d] \in Contents
  BY <1>0, AnswerAllFor
<1>4. CASE d \notin S
  <2>1. /\ uploads'[d] = uploads[d] /\ posted'[d] = posted[d]
        /\ remote'[d] = remote[d]
    BY <1>4, <1>3
  <2>2. QED
    BY <1>0, <2>1 DEF Good, Single
<1>5. CASE d \in S /\ uploads[d] = <<>>
  <2>1. /\ uploads'[d] = <<>> /\ posted'[d] = posted[d]
        /\ remote'[d] = remote[d]
    BY <1>1, <1>5, <1>3, PostLost
  <2>2. QED
    BY <1>0, <1>2, <1>5, <2>1 DEF Good, Single
<1>6. CASE d \in S /\ uploads[d] # <<>>
  <2>1. uploads'[d] = <<>> /\ posted'[d] = Append(posted[d], r)
    BY <1>1, <1>6, <1>3, PostLost
  <2>2. Answers(posted[d]) = {} /\ inFlight[d]
    BY <1>0, <1>6 DEF Good, Single
  <2>3. r \in Results /\ r # "trigger"
    BY EditAssumption DEF Results, Successes, Doubtful
  <2>4. /\ Answers(posted'[d]) # {} /\ OneAnswer(posted'[d])
        /\ Failed(posted'[d])
    BY <1>1, <2>1, <2>2, <2>3, PostAnswer
  <2>5. Single(d)'
    BY <1>2, <2>1, <2>2, <2>4 DEF Single
  <2>6. QED
    BY <1>6, <2>1, <2>4, <2>5
<1>7. QED
  BY <1>4, <1>5, <1>6

\* A connection that ends answers every upload asked of it until then.
LEMMA GoodConnections ==
    ASSUME Inv, NEW f \in Filesystems, Connections(f)
    PROVE  \A d \in Edits : Good(d)'
<1> SUFFICES ASSUME NEW d \in Edits PROVE Good(d)'
  OBVIOUS
<1> USE DEF edit, file, flow, word
<1>0. Good(d) /\ TypeOK
  BY DEF Inv
<1>1. CASE Connect(f) \/ \E g \in Filesystems : Reconnect(f, g)
  BY <1>0, <1>1, Untouched DEF Connect, Reconnect
<1>2. CASE DropLink(f) \/ EndSession(f)
  <2>1. /\ local' = local /\ inFlight' = inFlight
        /\ pending' = pending /\ lastReported' = lastReported /\ told' = told
    BY <1>2 DEF DropLink, EndSession, Stop
  <2>2. /\ Single(d)'
        /\ \/ /\ uploads'[d] = uploads[d] /\ posted'[d] = posted[d]
              /\ remote'[d] = remote[d]
           \/ /\ uploads[d] # <<>> /\ uploads'[d] = <<>>
              /\ Answers(posted'[d]) # {} /\ Failed(posted'[d])
    <3>1. CASE AnswerAll(On(f))
      BY <2>1, <3>1, GoodAnswerAll
    <3>2. CASE uploads' = uploads /\ posted' = posted /\ remote' = remote
      BY <1>0, <2>1, <3>2 DEF Good, Single
    <3>3. QED
      BY <1>2, <3>1, <3>2 DEF DropLink, EndSession
  <2>3. \/ /\ phase'[d] = phase[d] /\ watching'[d] = watching[d]
           /\ writing'[d] = writing[d] /\ noticed'[d] = noticed[d]
        \/ phase[d] = "editing" /\ phase'[d] = "ended" /\ writing'[d] = FALSE
        \/ /\ phase[d] = "fetching" /\ phase'[d] = "refused"
           /\ writing'[d] = writing[d]
    <3>1. CASE DropLink(f)
      BY <3>1 DEF DropLink, In
    <3>2. CASE EndSession(f)
      BY <3>2 DEF EndSession, In, Stop, Ended
    <3>3. QED
      BY <1>2, <3>1, <3>2
  <2>4. Remembers(d)'
    BY <1>0, <2>1 DEF Good, Remembers
  <2>5. CASE phase'[d] = "ended"
    <3>1. writing'[d] = FALSE
      BY <1>0, <2>3, <2>5 DEF Good, Early
    <3>2. QED
      BY <2>2, <2>4, <2>5, <3>1 DEF Good, Early, Awaited, Followed
  <2>6. CASE phase[d] \notin {"editing", "ended"}
    <3>1. uploads[d] = <<>>
      BY <1>0, <2>6 DEF Good, Early
    <3>2. Early(d)'
      BY <1>0, <2>1, <2>2, <2>3, <2>6, <3>1 DEF Good, Early
    <3>3. QED
      BY <2>2, <2>3, <2>4, <2>6, <3>2 DEF Good, Awaited, Followed
  <2>7. CASE phase[d] = "editing" /\ phase'[d] = "editing"
    <3>1. /\ watching'[d] = watching[d] /\ writing'[d] = writing[d]
          /\ noticed'[d] = noticed[d]
      BY <2>3, <2>7
    <3>2. CASE /\ uploads'[d] = uploads[d] /\ posted'[d] = posted[d]
               /\ remote'[d] = remote[d]
      BY <1>0, <2>1, <2>7, <3>1, <3>2, Untouched
    <3>3. CASE uploads'[d] = <<>> /\ Answers(posted'[d]) # {} /\ Failed(posted'[d])
      <4>1. Early(d)' /\ Awaited(d)'
        BY <1>0, <2>1, <2>7, <3>1, <3>3 DEF Good, Early, Awaited
      <4>2. Followed(d)'
        BY <3>3 DEF Followed, OwnedUp
      <4>3. QED
        BY <2>2, <2>4, <4>1, <4>2 DEF Good
    <3>4. QED
      BY <2>2, <3>2, <3>3
  <2>8. QED
    BY <2>3, <2>5, <2>6, <2>7
<1>3. QED
  BY <1>1, <1>2 DEF Connections

\* Every step keeps the invariant.
LEMMA InvStep == Inv /\ [Next]_vars => Inv'
<1> SUFFICES ASSUME Inv, [Next]_vars PROVE Inv'
  OBVIOUS
<1>1. TypeOK'
  BY TypeStep DEF Inv
<1>2. \A d \in Edits : Good(d)'
  <2>1. CASE UNCHANGED vars
    BY <2>1, Untouched DEF Inv, vars, edit, file, flow, word
  <2>2. CASE Next
    BY <2>2, GoodOpen, GoodEditor, GoodWatch, GoodTransport, GoodPost, GoodStop,
       GoodConnections DEF Next
  <2>3. QED
    BY <2>1, <2>2
<1>3. QED
  BY <1>1, <1>2 DEF Inv

-----------------------------------------------------------------------------
(* Theorems *)

\* The invariant holds of every behaviour, for any edits, connections, errors
\* and numbers of saves.
THEOREM EveryEditGood == Spec => []Inv
BY InvInit, InvStep, PTL DEF Spec

\* One upload of a file is out at a time, and its answer is handled before the
\* next: uploadInFlight_ is enough for that.
THEOREM OneUploadAtATime == Spec => []OneUpload
<1>1. Inv => OneUpload
  BY DEF Inv, Good, Single, OneUpload, Answers, OneAnswer
<1>2. QED
  BY <1>1, EveryEditGood, PTL

\* When an edit has come to rest and its user last heard of no failure, nor of
\* a success whose close the end of the connection left unconfirmed, the remote
\* file holds the last save: coalescing loses none, and the policy keeps quiet
\* about none.
THEOREM SilenceIsTrue == Spec => []SilenceMeansSaved
<1>1. Inv => SilenceMeansSaved
  <2> SUFFICES ASSUME Inv, NEW e \in Edits, Quiet(e), told[e] \notin Doubtful
               PROVE  remote[e] = local[e]
    BY DEF SilenceMeansSaved
  <2>1. /\ phase[e] = "editing" /\ watching[e] /\ ~writing[e] /\ ~noticed[e]
        /\ posted[e] = <<>> /\ uploads[e] = <<>>
    BY DEF Quiet
  <2>2. Answers(posted[e]) = {} /\ ~Triggered(posted[e]) /\ ~Failed(posted[e])
    BY <2>1 DEF Answers, Triggered, Failed
  <2>3. Good(e)
    BY DEF Inv
  <2>4. ~pending[e]
    BY <2>1, <2>2, <2>3 DEF Good, Awaited
  <2>5. ~OnItsWay(e) /\ ~OwnedUp(e)
    BY <2>1, <2>2, <2>4 DEF OnItsWay, OwnedUp
  <2>6. QED
    BY <2>1, <2>3, <2>5 DEF Good, Followed, Arrived
<1>2. QED
  BY <1>1, EveryEditGood, PTL

\* Every working copy has an owner: it goes when its download fails or its edit
\* ends, and at no other time.
THEOREM EveryCopyOwned == Spec => []CopiesAreOwned
<1>1. Init => CopiesAreOwned
  BY DEF Init, CopiesAreOwned
<1>2. TypeOK /\ CopiesAreOwned /\ [Next]_vars => CopiesAreOwned'
  <2> SUFFICES ASSUME TypeOK, CopiesAreOwned, [Next]_vars PROVE CopiesAreOwned'
    OBVIOUS
  <2> USE DEF edit, file
  <2>1. ASSUME NEW e \in Edits, Open(e) PROVE CopiesAreOwned'
    <3>1. ASSUME NEW f \in Filesystems, OpenRemoteFile(e, f) PROVE CopiesAreOwned'
      BY <3>1 DEF OpenRemoteFile, TypeOK, CopiesAreOwned
    <3>2. ASSUME NEW answer \in {"fetched", "refused"}, DownloadDone(e, answer)
          PROVE  CopiesAreOwned'
      BY <3>2 DEF DownloadDone, TypeOK, CopiesAreOwned
    <3>3. CASE DownloadRefused(e)
      BY <3>3 DEF DownloadRefused, TypeOK, CopiesAreOwned
    <3>4. ASSUME NEW started \in BOOLEAN, BeginEdit(e, started) PROVE CopiesAreOwned'
      BY <3>4 DEF BeginEdit, TypeOK, CopiesAreOwned
    <3>5. QED
      BY <2>1, <3>1, <3>2, <3>3, <3>4 DEF Open
  <2>2. ASSUME NEW e \in Edits, Editor(e) \/ Watch(e) \/ Transport(e) \/ HandlePost(e)
        PROVE  CopiesAreOwned'
    <3>1. phase' = phase /\ copy' = copy
      BY <2>2 DEF Editor, BeginWrite, EndWrite, SaveByRename, Watch, WatchNotice,
                  WatchBreaks, Transport, UploadReads, UploadLands, UploadFails,
                  Answer, HandlePost
    <3>2. QED
      BY <3>1 DEF CopiesAreOwned
  <2>3. ASSUME NEW e \in Edits, StopSession(e) PROVE CopiesAreOwned'
    BY <2>3 DEF StopSession, Stop, Ended, TypeOK, CopiesAreOwned
  <2>4. ASSUME NEW f \in Filesystems, Connections(f) PROVE CopiesAreOwned'
    <3>1. CASE Connect(f) \/ \E g \in Filesystems : Reconnect(f, g)
      BY <3>1 DEF Connect, Reconnect, CopiesAreOwned
    <3>2. CASE DropLink(f)
      BY <3>2 DEF DropLink, In, CopiesAreOwned
    <3>3. CASE EndSession(f)
      BY <3>3 DEF EndSession, Stop, Ended, In, CopiesAreOwned
    <3>4. QED
      BY <2>4, <3>1, <3>2, <3>3 DEF Connections
  <2>5. CASE UNCHANGED vars
    BY <2>5 DEF vars, CopiesAreOwned
  <2>6. QED
    BY <2>1, <2>2, <2>3, <2>4, <2>5 DEF Next
<1>3. QED
  BY <1>1, <1>2, EditsTyped, PTL DEF Spec

\* After the dialog or a closing session has finished an edit, whatever was
\* posted or in flight tells its user nothing and starts no upload.
THEOREM AnEndedEditIsOver == Spec => EndedIsOver
<1> DEFINE Over == \A e \in Edits : phase[e] = "ended" =>
                       /\ told'[e] = told[e]
                       /\ Len(uploads'[e]) <= Len(uploads[e])
<1>1. Inv /\ [Next]_vars => Over
  <2> SUFFICES ASSUME Inv, [Next]_vars, NEW d \in Edits, phase[d] = "ended"
               PROVE  told'[d] = told[d] /\ Len(uploads'[d]) <= Len(uploads[d])
    OBVIOUS
  <2> USE DEF edit, file, flow, word
  <2>1. /\ TypeOK /\ uploads[d] \in Seq(Contents \union {Unread})
        /\ Len(uploads[d]) \in Nat
    BY QueueTypes DEF Inv
  <2>2. SUFFICES /\ told'[d] = told[d]
                 /\ uploads'[d] = uploads[d] \/ Len(uploads'[d]) <= Len(uploads[d])
    BY <2>1
  <2>3. ASSUME NEW e \in Edits,
               Open(e) \/ Editor(e) \/ Watch(e) \/ HandlePost(e) \/ StopSession(e)
        PROVE  told'[d] = told[d] /\ uploads'[d] = uploads[d]
    <3>1. CASE Open(e) \/ EndWrite(e) \/ SaveByRename(e) \/ Watch(e) \/ StopSession(e)
      BY <3>1 DEF Open, OpenRemoteFile, DownloadDone, DownloadRefused, BeginEdit,
                  EndWrite, SaveByRename, Watch, WatchNotice, WatchBreaks, StopSession
    <3>2. CASE BeginWrite(e)
      <4>1. told' = told /\ d # e
        BY <3>2 DEF BeginWrite
      <4>2. \E reads : uploads' = [uploads EXCEPT ![e] = reads]
        BY <3>2 DEF BeginWrite
      <4>3. QED
        BY <2>1, <4>1, <4>2 DEF TypeOK
    <3>3. CASE HandlePost(e)
      BY <2>1, <3>3 DEF HandlePost, TriggerUpload, OnUploadFinished, Decide, TypeOK
    <3>4. QED
      BY <2>3, <3>1, <3>2, <3>3 DEF Editor
  <2>4. ASSUME NEW e \in Edits, NEW i \in DOMAIN uploads[e], UploadReads(e, i)
        PROVE  told'[d] = told[d] /\ Len(uploads'[d]) <= Len(uploads[d])
    <3>1. told' = told
      BY <2>4 DEF UploadReads
    <3>2. CASE d # e
      <4>1. uploads'[d] = uploads[d]
        BY <2>1, <2>4, <3>2 DEF UploadReads, TypeOK
      <4>2. QED
        BY <2>1, <3>1, <4>1
    <3>3. CASE d = e
      <4>1. PICK x \in Contents : uploads'[d] = [uploads[d] EXCEPT ![i] = x]
        BY <2>1, <2>4, <3>3 DEF UploadReads, TypeOK, Contents
      <4>2. Len(uploads'[d]) = Len(uploads[d])
        BY <2>1, <2>4, <3>3, <4>1
      <4>3. QED
        BY <2>1, <3>1, <4>2
    <3>4. QED
      BY <3>2, <3>3
  <2>5. ASSUME NEW e \in Edits, NEW i \in DOMAIN uploads[e], NEW r, Answer(e, i, r)
        PROVE  /\ told'[d] = told[d]
               /\ uploads'[d] = uploads[d] \/ uploads'[d] = <<>>
    <3>1. told' = told
      BY <2>5 DEF Answer
    <3>2. uploads'[d] = IF d = e THEN RemoveAt(uploads[e], i) ELSE uploads[d]
      BY <2>1, <2>5 DEF Answer, TypeOK
    <3>3. d = e => RemoveAt(uploads[e], i) = <<>>
      BY <2>1, <2>5, RemoveOnly DEF Inv, Good, Single
    <3>4. QED
      BY <3>1, <3>2, <3>3
  <2>6. ASSUME NEW f \in Filesystems, Connections(f)
        PROVE  /\ told'[d] = told[d]
               /\ uploads'[d] = uploads[d] \/ uploads'[d] = <<>>
    BY <2>6 DEF Connections, Connect, DropLink, EndSession, Reconnect, AnswerAll
  <2>7. Len(<<>>) = 0
    OBVIOUS
  <2>8. CASE UNCHANGED vars
    BY <2>8 DEF vars
  <2>9. ASSUME NEW e \in Edits, Transport(e)
        PROVE  /\ told'[d] = told[d]
               /\ uploads'[d] = uploads[d] \/ Len(uploads'[d]) <= Len(uploads[d])
    BY <2>1, <2>4, <2>5, <2>7, <2>9 DEF Transport, UploadLands, UploadFails
  <2>10. QED
    BY <2>1, <2>3, <2>6, <2>7, <2>8, <2>9 DEF Next
<1>2. QED
  BY <1>1, EveryEditGood, PTL DEF Spec, EndedIsOver
=============================================================================
