---------------------------- MODULE SessionsProofs ----------------------------
(***************************************************************************)
(* What sessions, their threads, the windows they are in and the notices   *)
(* on their way tell each other, for any number of sessions, windows and   *)
(* connections.  Then what a session's main screen shows, for viewports of *)
(* any size and any order of output, scrolling and painting: the line a    *)
(* user reads stays where it is, and where lines do not wrap no change of  *)
(* a line is left unpainted.                                               *)
(***************************************************************************)
EXTENDS Sessions, Screen, SequenceTheorems, FiniteSetTheorems, WellFoundedInduction, TLAPS

Working == {"connecting", "prompting", "looping"}
Listed == {"open", "closing"}

Notes == [kind : {"ended", "prompt", "close", "empty"}, session : Ids \union {NoSession},
          reason : {"none", "Clean", "Interrupted", "Deliberate"}, link : Nat]
Window == [sessions : SUBSET Ids, active : Ids \union {NoSession}, targets : SUBSET Ids,
           selected : SUBSET Ids, focused : Ids \union {NoSession}]

\* The types of Sessions, to the last field.
Typed ==
    /\ life \in [Ids -> {"none", "made", "open", "closing", "gone"}]
    /\ kind \in [Ids -> {"none", "ssh", "serial", "pty"}]
    /\ worker \in [Ids -> {"none", "done"} \union Working]
    /\ running \in [Ids -> BOOLEAN] /\ link \in [Ids -> 0..MaxLinks]
    /\ status \in [Ids -> {"Connected", "Reconnecting", "Disconnected"}]
    /\ observer \in [Ids -> Windows \union {NoWindow}]
    /\ router \in [Ids -> Windows \union {NoWindow}]
    /\ bar \in [Ids -> BOOLEAN]
    /\ win \in [Windows -> Window] /\ posted \in [Windows -> Seq(Notes)]
    /\ shown \subseteq Windows /\ doomed \subseteq Windows
    /\ dialogs \in Seq(Ids) /\ closing \in Seq(Ids) /\ missed \subseteq Ids

\* Where a session is in its life, and what goes with it: nobody knows one that is
\* not open, the interface does nothing else while one is being made or closed, and
\* a thread that works is told to stop only by the close.
Lived(s) ==
    /\ life[s] \notin Listed =>
         ~bar[s] /\ observer[s] = NoWindow /\ \A w \in Windows : s \notin win[w].sessions
    /\ life[s] = "made" => closing = <<>> /\ dialogs = <<>>
    /\ life[s] = "closing" => closing # <<>> /\ Head(closing) = s
    /\ worker[s] \in Working =>
         life[s] \in {"made", "open", "closing"} /\ (life[s] # "closing" => running[s])

\* A window's router holds the sessions of the window, and the one it shows as
\* active has the keys.
Tidy(r) ==
    /\ r.targets = r.sessions /\ r.selected \subseteq r.sessions
    /\ r.focused = r.active
    /\ r.sessions # {} => r.active \in r.sessions

\* A window on its way out has no sessions but those that the handler at hand is
\* about to close.
Agreed ==
    /\ PointersAgree
    /\ \A w \in doomed : win[w].sessions \subseteq Range(closing)

Mail(w) == 1..Len(posted[w])
IsAbout(n, k, s) == n.kind = k /\ n.session = s
Once(k) ==
    \A v, w \in Windows : \A i \in Mail(v), j \in Mail(w) :
        posted[v][i].kind = k /\ IsAbout(posted[w][j], k, posted[v][i].session)
          => v = w /\ i = j

\* The connection that its session still has is over, and nobody has acted on it.
Over(s) == life[s] \in Listed /\ worker[s] = "done" /\ ~bar[s] /\ status[s] = "Disconnected"

\* What a notice says is still so, unless its session is gone.
True(n) ==
    /\ n.kind # "empty" => n.session \in Ids
    /\ n.kind = "ended" =>
         /\ n.reason # "none"
         /\ life[n.session] # "gone" =>
              /\ Over(n.session) /\ n.link = link[n.session]
              /\ n.reason = "Deliberate" => life[n.session] = "closing"

\* At most one notice of an end is on its way for a session.
Noticed ==
    /\ Once("ended")
    /\ \A w \in Windows : \A i \in Mail(w) : True(posted[w][i])
    /\ \A s \in Ids : bar[s] => worker[s] = "done" /\ status[s] = "Disconnected"

\* A thread that waits for the user waits for one prompt, on its way or open.
Prompted ==
    /\ Once("prompt")
    /\ \A w \in Windows : \A i \in Mail(w) : posted[w][i].kind = "prompt" =>
         worker[posted[w][i].session] = "prompting" /\ posted[w][i].session \notin Range(dialogs)
    /\ \A i \in 1..Len(dialogs) : worker[dialogs[i]] = "prompting"
    /\ \A i, j \in 1..Len(dialogs) : dialogs[i] = dialogs[j] => i = j

Said(s) == \E w \in Windows : \E i \in Mail(w) : IsAbout(posted[w][i], "ended", s)

\* EndsAreHeard, from the moment the thread is started.
Heard ==
    \A s \in Ids : worker[s] \in {"done", "none"} =>
        /\ life[s] = "made" => s \in missed
        /\ life[s] = "open" => s \in missed \/ bar[s] \/ Said(s) \/ s \in Range(closing)

IInv == Typed /\ (\A s \in Ids : Lived(s)) /\ Agreed /\ Noticed /\ Prompted /\ Heard

-----------------------------------------------------------------------------
(* Routers and windows *)

\* What becomes of a window from which s goes, or to which it comes.
IsWindow(r, ss) == r \in Window /\ Tidy(r) /\ r.sessions = ss

\* A session that is activated has the keys.
LEMMA Activated ==
    ASSUME NEW r \in Window, NEW s \in r.sessions, r.targets = r.sessions,
           r.selected \subseteq r.sessions
    PROVE  IsWindow(RequestActivate(r, s), r.sessions)
<1>1. s \in Ids
  BY DEF Window
<1>2. SetFocused(r, s) = [r EXCEPT !.focused = s]
  BY DEF SetFocused
<1>3. RequestActivate(r, s) = [[r EXCEPT !.focused = s] EXCEPT !.active = s]
  BY <1>2 DEF RequestActivate
<1> QED
  BY <1>1, <1>3 DEF IsWindow, Window, Tidy

\* A session comes to a window.
LEMMA Takes ==
    ASSUME NEW r \in Window, NEW s \in Ids, r.targets \union {s} = r.sessions \union {s},
           r.selected \subseteq r.sessions \union {s}
    PROVE  IsWindow(TakeSession(AddTarget(r, s), s), r.sessions \union {s})
<1> DEFINE t == AddTarget(r, s)
           u == [t EXCEPT !.sessions = @ \union {s}]
<1>1. t \in Window /\ t.targets = r.targets \union {s} /\ t.sessions = r.sessions
      /\ t.selected = r.selected
  BY DEF AddTarget, Window
<1> HIDE DEF t
<1>2. u \in Window /\ u.targets = t.targets /\ u.sessions = t.sessions \union {s}
      /\ u.selected = t.selected
  BY <1>1 DEF Window
<1>3. TakeSession(t, s) = RequestActivate(u, s)
  BY DEF TakeSession
<1> HIDE DEF u
<1> QED
  BY <1>1, <1>2, <1>3, Activated DEF t

\* What RemoveTarget leaves.
LEMMA Untargets ==
    ASSUME NEW r \in Window, Tidy(r), NEW s \in Ids
    PROVE  LET t == RemoveTarget(r, s) IN
           /\ t \in Window /\ t.sessions = r.sessions /\ t.targets = r.sessions \ {s}
           /\ t.selected \subseteq r.sessions \ {s} /\ t.active = r.active
           /\ t.focused = IF r.active = s THEN NoSession ELSE r.active
BY DEF RemoveTarget, Window, Tidy

\* A session goes from a window, its target first.
LEMMA Goes ==
    ASSUME NEW r \in Window, Tidy(r), NEW s \in r.sessions,
           NEW t \in TearDown(RemoveTarget(r, s), s)
    PROVE  IsWindow(t, r.sessions \ {s})
<1> DEFINE u == RemoveTarget(r, s)
           v == [u EXCEPT !.sessions = @ \ {s}]
<1>1. s \in Ids
  BY DEF Window
<1>2. /\ u \in Window /\ u.sessions = r.sessions /\ u.targets = r.sessions \ {s}
      /\ u.selected \subseteq r.sessions \ {s} /\ u.active = r.active
      /\ u.focused = IF r.active = s THEN NoSession ELSE r.active
  BY <1>1, Untargets
<1> HIDE DEF u
<1>3. /\ v \in Window /\ v.sessions = r.sessions \ {s} /\ v.targets = v.sessions
      /\ v.selected \subseteq v.sessions /\ v.focused = u.focused
  BY <1>2 DEF Window
<1>4. CASE v.sessions = {}
  <2>1. t = [v EXCEPT !.active = NoSession]
    BY <1>2, <1>4 DEF TearDown, u
  <2>2. v.focused = NoSession
    BY <1>2, <1>3, <1>4 DEF Tidy
  <2> HIDE DEF v
  <2> QED
    BY <1>3, <1>4, <2>1, <2>2 DEF IsWindow, Window, Tidy
<1>5. CASE v.sessions # {}
  <2>1. PICK x \in v.sessions : t = RequestActivate(v, x)
    BY <1>2, <1>5 DEF TearDown, u
  <2> HIDE DEF v
  <2> QED
    BY <1>3, <2>1, Activated
<1> QED
  BY <1>4, <1>5

\* A session goes to another tile of its own window: its target stays.
LEMMA ComesBack ==
    ASSUME NEW r \in Window, Tidy(r), NEW s \in r.sessions, NEW t \in TearDown(r, s)
    PROVE  /\ IsWindow(TakeSession(t, s), r.sessions)
           /\ t.sessions = r.sessions \ {s}
<1> DEFINE v == [r EXCEPT !.sessions = @ \ {s}]
           u == [t EXCEPT !.sessions = @ \union {s}]
<1>1. s \in Ids
  BY DEF Window
<1>2. /\ v \in Window /\ v.sessions = r.sessions \ {s} /\ v.targets = r.sessions
      /\ v.selected \subseteq r.sessions
  BY DEF Window, Tidy
<1>3. t \in Window /\ t.sessions = r.sessions \ {s} /\ t.targets = r.sessions
      /\ t.selected \subseteq r.sessions
  <2>1. CASE v.sessions = {}
    <3>1. t = [v EXCEPT !.active = NoSession]
      BY <2>1 DEF TearDown
    <3> HIDE DEF v
    <3> QED
      BY <1>2, <3>1 DEF Window
  <2>2. CASE v.sessions # {}
    <3>1. PICK x \in v.sessions : t = RequestActivate(v, x)
      BY <2>2 DEF TearDown
    <3> HIDE DEF v
    <3>2. x \in Ids /\ x \in v.targets
      BY <1>2 DEF Window
    <3>3. t = [[v EXCEPT !.focused = x] EXCEPT !.active = x]
      BY <3>1, <3>2 DEF RequestActivate, SetFocused
    <3> QED
      BY <1>2, <3>2, <3>3 DEF Window
  <2> QED
    BY <2>1, <2>2
<1>4. u \in Window /\ u.sessions = r.sessions /\ u.targets = u.sessions
      /\ u.selected \subseteq u.sessions
  BY <1>1, <1>3 DEF Window
<1>5. TakeSession(t, s) = RequestActivate(u, s)
  BY DEF TakeSession
<1> HIDE DEF u
<1> QED
  BY <1>3, <1>4, <1>5, Activated

-----------------------------------------------------------------------------
(* Notices on their way *)

\* What posting one notice makes of the windows' queues.
LEMMA Posts ==
    ASSUME Typed, NEW w \in Windows, NEW n \in Notes,
           posted' = [posted EXCEPT ![w] = Append(@, n)]
    PROVE  /\ posted' \in [Windows -> Seq(Notes)]
           /\ \A v \in Windows : \A i \in Mail(v)' :
                \/ i \in Mail(v) /\ posted'[v][i] = posted[v][i]
                \/ v = w /\ i = Len(posted[w]) + 1 /\ posted'[v][i] = n
           /\ \A v \in Windows : \A i \in Mail(v) : i \in Mail(v)' /\ posted'[v][i] = posted[v][i]
           /\ Len(posted[w]) + 1 \in Mail(w)' /\ posted'[w][Len(posted[w]) + 1] = n
<1>1. /\ posted \in [Windows -> Seq(Notes)]
      /\ posted' \in [Windows -> Seq(Notes)]
      /\ \A v \in Windows \ {w} : posted'[v] = posted[v]
      /\ posted'[w] = Append(posted[w], n)
  BY DEF Typed
<1>2. /\ Len(posted'[w]) = Len(posted[w]) + 1 /\ Len(posted[w]) \in Nat
      /\ \A i \in 1..Len(posted[w]) : posted'[w][i] = posted[w][i]
      /\ posted'[w][Len(posted[w]) + 1] = n
  BY <1>1, AppendProperties, LenProperties
<1>3. ASSUME NEW v \in Windows, NEW i \in Mail(v)'
      PROVE  \/ i \in Mail(v) /\ posted'[v][i] = posted[v][i]
             \/ v = w /\ i = Len(posted[w]) + 1 /\ posted'[v][i] = n
  BY <1>1, <1>2 DEF Mail
<1>4. ASSUME NEW v \in Windows, NEW i \in Mail(v)
      PROVE  i \in Mail(v)' /\ posted'[v][i] = posted[v][i]
  BY <1>1, <1>2 DEF Mail
<1>5. Len(posted[w]) + 1 \in Mail(w)'
  BY <1>2 DEF Mail
<1> QED
  BY <1>1, <1>2, <1>3, <1>4, <1>5

\* A kind of notice of which there is one at most stays so, if there was none
\* when this one was posted.
LEMMA PostsOnce ==
    ASSUME Typed, NEW w \in Windows, NEW n \in Notes,
           posted' = [posted EXCEPT ![w] = Append(@, n)], NEW k, Once(k),
           n.kind = k => \A v \in Windows : \A i \in Mail(v) : ~IsAbout(posted[v][i], k, n.session)
    PROVE  Once(k)'
<1>1. ASSUME NEW u \in Windows, NEW v \in Windows, NEW i \in Mail(u)', NEW j \in Mail(v)',
             posted'[u][i].kind = k, IsAbout(posted'[v][j], k, posted'[u][i].session)
      PROVE  u = v /\ i = j
  <2>1. \/ i \in Mail(u) /\ posted'[u][i] = posted[u][i]
        \/ u = w /\ i = Len(posted[w]) + 1 /\ posted'[u][i] = n
    BY Posts
  <2>2. \/ j \in Mail(v) /\ posted'[v][j] = posted[v][j]
        \/ v = w /\ j = Len(posted[w]) + 1 /\ posted'[v][j] = n
    BY Posts
  <2>3. CASE i \in Mail(u) /\ posted'[u][i] = posted[u][i]
    <3>1. CASE j \in Mail(v) /\ posted'[v][j] = posted[v][j]
      BY <1>1, <2>3, <3>1 DEF Once
    <3>2. CASE posted'[v][j] = n
      BY <1>1, <2>3, <3>2 DEF IsAbout
    <3> QED
      BY <2>2, <3>1, <3>2
  <2>4. CASE u = w /\ i = Len(posted[w]) + 1 /\ posted'[u][i] = n
    <3>1. CASE j \in Mail(v) /\ posted'[v][j] = posted[v][j]
      BY <1>1, <2>4, <3>1 DEF IsAbout
    <3>2. CASE v = w /\ j = Len(posted[w]) + 1
      BY <2>4, <3>2
    <3> QED
      BY <2>2, <3>1, <3>2
  <2> QED
    BY <2>1, <2>3, <2>4
<1> QED
  BY <1>1 DEF Once

\* Where the notice that is the i-th of v was before the first of w was handled.
Place(w, v, i) == IF v = w THEN i + 1 ELSE i

\* What handling the first notice of a window makes of the queues.
LEMMA Reads ==
    ASSUME Typed, NEW w \in Windows, posted[w] # <<>>,
           posted' = [posted EXCEPT ![w] = Tail(@)]
    PROVE  /\ posted' \in [Windows -> Seq(Notes)]
           /\ 1 \in Mail(w) /\ Head(posted[w]) = posted[w][1] /\ Head(posted[w]) \in Notes
           /\ \A v \in Windows : \A i \in Mail(v)' :
                Place(w, v, i) \in Mail(v) /\ posted'[v][i] = posted[v][Place(w, v, i)]
           /\ \A v \in Windows : \A j \in Mail(v) :
                (v = w /\ j = 1) \/ \E i \in Mail(v)' : posted'[v][i] = posted[v][j]
<1>1. /\ posted \in [Windows -> Seq(Notes)] /\ posted[w] \in Seq(Notes)
      /\ \A v \in Windows \ {w} : posted'[v] = posted[v]
      /\ posted'[w] = Tail(posted[w])
  BY DEF Typed
<1>2. /\ Tail(posted[w]) \in Seq(Notes) /\ Len(posted'[w]) = Len(posted[w]) - 1
      /\ \A i \in 1..(Len(posted[w]) - 1) : posted'[w][i] = posted[w][i + 1]
      /\ Len(posted[w]) \in Nat \ {0}
  BY <1>1, HeadTailProperties, EmptySeq
<1>3. Head(posted[w]) = posted[w][1] /\ Head(posted[w]) \in Notes
  BY <1>1, HeadTailProperties
<1>4. ASSUME NEW v \in Windows, NEW i \in Mail(v)'
      PROVE  Place(w, v, i) \in Mail(v) /\ posted'[v][i] = posted[v][Place(w, v, i)]
  <2>1. CASE v = w
    BY <1>2, <2>1 DEF Mail, Place
  <2>2. CASE v # w
    BY <1>1, <2>2 DEF Mail, Place
  <2> QED
    BY <2>1, <2>2
<1>5. ASSUME NEW v \in Windows, NEW j \in Mail(v), ~(v = w /\ j = 1)
      PROVE  \E i \in Mail(v)' : posted'[v][i] = posted[v][j]
  <2>1. CASE v = w
    <3>1. j - 1 \in Mail(v)' /\ posted'[v][j - 1] = posted[v][j]
      BY <1>2, <1>5, <2>1 DEF Mail
    <3> QED
      BY <3>1
  <2>2. CASE v # w
    BY <1>1, <2>2 DEF Mail
  <2> QED
    BY <2>1, <2>2
<1>6. 1 \in Mail(w)
  BY <1>2 DEF Mail
<1> QED
  BY <1>1, <1>2, <1>3, <1>4, <1>5, <1>6

\* One of a kind stays one, and the one that was handled is gone.
LEMMA ReadsOnce ==
    ASSUME Typed, NEW w \in Windows, posted[w] # <<>>,
           posted' = [posted EXCEPT ![w] = Tail(@)], NEW k, Once(k)
    PROVE  /\ Once(k)'
           /\ Head(posted[w]).kind = k =>
                \A v \in Windows : \A i \in Mail(v)' :
                    ~IsAbout(posted'[v][i], k, Head(posted[w]).session)
<1>0. \A x \in Windows : \A y \in Mail(x)' :
        Place(w, x, y) \in Mail(x) /\ posted'[x][y] = posted[x][Place(w, x, y)]
  BY Reads
<1>1. ASSUME NEW u \in Windows, NEW v \in Windows, NEW i \in Mail(u)', NEW j \in Mail(v)',
             posted'[u][i].kind = k, IsAbout(posted'[v][j], k, posted'[u][i].session)
      PROVE  u = v /\ i = j
  <2>1. /\ Place(w, u, i) \in Mail(u) /\ posted'[u][i] = posted[u][Place(w, u, i)]
        /\ Place(w, v, j) \in Mail(v) /\ posted'[v][j] = posted[v][Place(w, v, j)]
    BY <1>0
  <2>2. u = v /\ Place(w, u, i) = Place(w, v, j)
    BY <1>1, <2>1 DEF Once
  <2>3. i \in Int /\ j \in Int
    BY DEF Mail
  <2> QED
    BY <2>2, <2>3 DEF Place
<1>2. ASSUME Head(posted[w]).kind = k, NEW v \in Windows, NEW i \in Mail(v)',
             IsAbout(posted'[v][i], k, Head(posted[w]).session)
      PROVE  FALSE
  <2>1. Place(w, v, i) \in Mail(v) /\ posted'[v][i] = posted[v][Place(w, v, i)]
    BY Reads
  <2>2. 1 \in Mail(w) /\ Head(posted[w]) = posted[w][1]
    BY Reads
  <2>3. v = w /\ Place(w, v, i) = 1
    BY <1>2, <2>1, <2>2 DEF Once, IsAbout
  <2>4. i \in Int /\ i >= 1
    BY DEF Mail
  <2> QED
    BY <2>3, <2>4 DEF Place
<1> QED
  BY <1>1, <1>2 DEF Once, IsAbout

\* What keeps the truth of a notice about s.
Keeps(s) ==
    /\ life[s] = "gone" => life'[s] = "gone"
    /\ Over(s) => \/ life'[s] = "gone"
                  \/ Over(s)' /\ link'[s] = link[s] /\ (life[s] = "closing" => life'[s] = "closing")

\* A notice stays true while its session's end stays unanswered.
LEMMA StaysTrue ==
    ASSUME NEW n \in Notes, True(n), n.kind = "ended" => Keeps(n.session)
    PROVE  True(n)'
BY DEF True, Keeps, Notes

\* Each of the notices that were on their way is one of these.
LEMMA OnItsWay ==
    ASSUME Typed, Noticed, NEW w \in Windows, NEW i \in Mail(w)
    PROVE  /\ posted[w][i] \in Notes /\ True(posted[w][i])
           /\ posted[w][i].kind = "ended" =>
                posted[w][i].session \in Ids /\ Said(posted[w][i].session)
<1>1. posted[w][i] \in Notes /\ True(posted[w][i])
  BY ElementOfSeq DEF Typed, Noticed, Mail
<1> QED
  BY <1>1 DEF True, Said, IsAbout

-----------------------------------------------------------------------------
(* What keeps the parts of the invariant *)

\* Nothing moves, nothing is opened or closed.
LEMMA AgreedStays ==
    ASSUME Agreed, UNCHANGED <<life, observer, router, win, shown, doomed, closing>>
    PROVE  Agreed'
BY DEF Agreed, PointersAgree

BarsAgree == \A s \in Ids : bar[s] => worker[s] = "done" /\ status[s] = "Disconnected"

\* Notices stay as they are.
LEMMA NoticedStays ==
    ASSUME Typed, Noticed, posted' = posted, \A s \in Ids : Said(s) => Keeps(s), BarsAgree'
    PROVE  Noticed'
<1>1. ASSUME NEW w \in Windows, NEW i \in Mail(w)'
      PROVE  True(posted[w][i])'
  <2>1. i \in Mail(w)
    BY DEF Mail
  <2>2. PICK n \in Notes : n = posted[w][i] /\ True(n) /\ (n.kind = "ended" => n.session \in Ids /\ Said(n.session))
    BY <2>1, OnItsWay
  <2>3. n.kind = "ended" => Keeps(n.session)
    BY <2>2
  <2>4. True(n)' /\ posted'[w][i] = n
    BY <2>2, <2>3, StaysTrue
  <2> QED
    BY <2>4
<1>2. Once("ended")'
  BY DEF Noticed, Once, Mail
<1> QED
  BY <1>1, <1>2 DEF Noticed, BarsAgree

\* One more is posted.
LEMMA NoticedPosts ==
    ASSUME Typed, Noticed, NEW w \in Windows, NEW n \in Notes,
           posted' = [posted EXCEPT ![w] = Append(@, n)], True(n)',
           n.kind = "ended" => ~Said(n.session),
           \A s \in Ids : Said(s) => Keeps(s), BarsAgree'
    PROVE  Noticed'
<1>1. ASSUME NEW v \in Windows, NEW i \in Mail(v)'
      PROVE  True(posted[v][i])'
  <2>1. CASE i \in Mail(v) /\ posted'[v][i] = posted[v][i]
    <3>1. PICK m \in Notes : m = posted[v][i] /\ True(m) /\ (m.kind = "ended" => m.session \in Ids /\ Said(m.session))
      BY <2>1, OnItsWay
    <3>2. m.kind = "ended" => Keeps(m.session)
      BY <3>1
    <3>3. True(m)' /\ posted'[v][i] = m
      BY <2>1, <3>1, <3>2, StaysTrue
    <3> QED
      BY <3>3
  <2>2. CASE posted'[v][i] = n
    BY <2>2
  <2> QED
    BY <2>1, <2>2, Posts
<1>2. n.kind = "ended" => \A v \in Windows : \A i \in Mail(v) : ~IsAbout(posted[v][i], "ended", n.session)
  BY DEF Said
<1>3. Once("ended")'
  BY <1>2, PostsOnce DEF Noticed
<1> QED
  BY <1>1, <1>3 DEF Noticed, BarsAgree

\* One is handled, and what it says may become untrue.
LEMMA NoticedReads ==
    ASSUME Typed, Noticed, NEW w \in Windows, posted[w] # <<>>,
           posted' = [posted EXCEPT ![w] = Tail(@)],
           \A s \in Ids : Said(s) /\ ~IsAbout(Head(posted[w]), "ended", s) => Keeps(s), BarsAgree'
    PROVE  Noticed'
<1>0. \A x \in Windows : \A y \in Mail(x)' :
        Place(w, x, y) \in Mail(x) /\ posted'[x][y] = posted[x][Place(w, x, y)]
  BY Reads
<1>1. ASSUME NEW v \in Windows, NEW i \in Mail(v)'
      PROVE  True(posted[v][i])'
  <2> DEFINE j == Place(w, v, i)
  <2>1. j \in Mail(v) /\ posted'[v][i] = posted[v][j]
    BY <1>0
  <2> HIDE DEF j
  <2>2. PICK n \in Notes : n = posted[v][j] /\ True(n) /\ (n.kind = "ended" => n.session \in Ids /\ Said(n.session))
    BY <2>1, OnItsWay
  <2>3. n = posted'[v][i]
    BY <2>1, <2>2
  <2>4. ASSUME n.kind = "ended"
        PROVE  Keeps(n.session)
    <3>1. Head(posted[w]).kind = "ended" => ~IsAbout(n, "ended", Head(posted[w]).session)
      BY <2>3, ReadsOnce DEF Noticed
    <3>2. ~IsAbout(Head(posted[w]), "ended", n.session)
      BY <2>4, <3>1 DEF IsAbout
    <3> QED
      BY <2>2, <2>4, <3>2
  <2>5. True(n)'
    BY <2>2, <2>4, StaysTrue
  <2> QED
    BY <2>3, <2>5
<1>2. Once("ended")'
  BY ReadsOnce DEF Noticed
<1> QED
  BY <1>1, <1>2 DEF Noticed, BarsAgree

\* One that is posted leaves the others on their way.
LEMMA SaidPosts ==
    ASSUME Typed, NEW w \in Windows, NEW n \in Notes,
           posted' = [posted EXCEPT ![w] = Append(@, n)], NEW s
    PROVE  /\ Said(s) => Said(s)'
           /\ IsAbout(n, "ended", s) => Said(s)'
<1>1. ASSUME Said(s)
      PROVE  Said(s)'
  <2>1. PICK v \in Windows : \E i \in Mail(v) : IsAbout(posted[v][i], "ended", s)
    BY <1>1 DEF Said
  <2>2. PICK i \in Mail(v) : IsAbout(posted[v][i], "ended", s)
    BY <2>1
  <2>3. i \in Mail(v)' /\ posted'[v][i] = posted[v][i]
    BY Posts
  <2> QED
    BY <2>2, <2>3 DEF Said, IsAbout
<1>2. Len(posted[w]) + 1 \in Mail(w)' /\ posted'[w][Len(posted[w]) + 1] = n
  BY Posts
<1> QED
  BY <1>1, <1>2 DEF Said, IsAbout

\* And so does one that is handled.
LEMMA SaidReads ==
    ASSUME Typed, NEW w \in Windows, posted[w] # <<>>,
           posted' = [posted EXCEPT ![w] = Tail(@)], NEW s, Said(s)
    PROVE  Said(s)' \/ IsAbout(Head(posted[w]), "ended", s)
<1>1. PICK v \in Windows : \E i \in Mail(v) : IsAbout(posted[v][i], "ended", s)
  BY DEF Said
<1>2. PICK i \in Mail(v) : IsAbout(posted[v][i], "ended", s)
  BY <1>1
<1>3. (v = w /\ i = 1) \/ \E j \in Mail(v)' : posted'[v][j] = posted[v][i]
  BY Reads
<1>4. Head(posted[w]) = posted[w][1]
  BY Reads
<1> QED
  BY <1>2, <1>3, <1>4 DEF Said, IsAbout

\* Whoever waits for the user goes on waiting.
LEMMA PromptedStays ==
    ASSUME Prompted, posted' = posted, dialogs' = dialogs,
           \A s \in Ids : worker[s] = "prompting" => worker'[s] = "prompting",
           Typed, Noticed
    PROVE  Prompted'
<1>1. Once("prompt")'
  BY DEF Prompted, Once, Mail
<1>2. ASSUME NEW w \in Windows, NEW i \in Mail(w)', posted'[w][i].kind = "prompt"
      PROVE  worker'[posted'[w][i].session] = "prompting" /\ posted'[w][i].session \notin Range(dialogs')
  <2>1. i \in Mail(w) /\ posted[w][i].kind = "prompt"
    BY <1>2 DEF Mail
  <2>2. True(posted[w][i])
    BY <2>1, OnItsWay
  <2> QED
    BY <2>1, <2>2 DEF Prompted, True
<1>3. ASSUME NEW i \in 1..Len(dialogs')
      PROVE  worker'[dialogs'[i]] = "prompting"
  <2>1. dialogs[i] \in Ids /\ worker[dialogs[i]] = "prompting"
    BY ElementOfSeq DEF Typed, Prompted
  <2> QED
    BY <2>1
<1> QED
  BY <1>1, <1>2, <1>3 DEF Prompted

\* A prompt is posted by a thread that was not waiting.
LEMMA PromptedPosts ==
    ASSUME Typed, Noticed, Prompted, NEW w \in Windows, NEW n \in Notes,
           posted' = [posted EXCEPT ![w] = Append(@, n)], dialogs' = dialogs,
           \A s \in Ids : worker[s] = "prompting" => worker'[s] = "prompting",
           n.kind = "prompt" => worker[n.session] # "prompting" /\ worker'[n.session] = "prompting"
    PROVE  Prompted'
<1>0. \A x \in Windows : \A y \in Mail(x)' :
        \/ y \in Mail(x) /\ posted'[x][y] = posted[x][y]
        \/ x = w /\ y = Len(posted[w]) + 1 /\ posted'[x][y] = n
  BY Posts
<1>1. n.kind = "prompt" => \A v \in Windows : \A i \in Mail(v) : ~IsAbout(posted[v][i], "prompt", n.session)
  BY DEF Prompted, IsAbout
<1>2. Once("prompt")'
  BY <1>1, PostsOnce DEF Prompted
<1>3. \A i \in 1..Len(dialogs) : dialogs[i] \in Ids /\ worker[dialogs[i]] = "prompting"
  BY ElementOfSeq DEF Typed, Prompted
<1>4. ASSUME NEW v \in Windows, NEW i \in Mail(v)', posted'[v][i].kind = "prompt"
      PROVE  worker'[posted'[v][i].session] = "prompting" /\ posted'[v][i].session \notin Range(dialogs')
  <2>0. (i \in Mail(v) /\ posted'[v][i] = posted[v][i]) \/ posted'[v][i] = n
    BY <1>0
  <2>1. CASE i \in Mail(v) /\ posted'[v][i] = posted[v][i]
    <3>1. True(posted[v][i])
      BY <2>1, OnItsWay
    <3> QED
      BY <1>4, <2>1, <3>1 DEF Prompted, True
  <2>2. CASE posted'[v][i] = n
    <3>1. worker[n.session] # "prompting" /\ worker'[n.session] = "prompting"
      BY <1>4, <2>2
    <3>2. DOMAIN dialogs = 1..Len(dialogs)
      BY DEF Typed
    <3>3. n.session \notin Range(dialogs)
      BY <1>3, <3>1, <3>2 DEF Range
    <3> QED
      BY <2>2, <3>1, <3>3
  <2> QED
    BY <2>0, <2>1, <2>2
<1> QED
  BY <1>2, <1>3, <1>4 DEF Prompted

\* A prompt that is handled is a dialog.
LEMMA PromptedReads ==
    ASSUME Typed, Noticed, Prompted, NEW w \in Windows, posted[w] # <<>>,
           posted' = [posted EXCEPT ![w] = Tail(@)], worker' = worker,
           dialogs' = IF Head(posted[w]).kind = "prompt" THEN Append(dialogs, Head(posted[w]).session)
                      ELSE dialogs
    PROVE  Prompted'
<1>0. \A x \in Windows : \A y \in Mail(x)' :
        Place(w, x, y) \in Mail(x) /\ posted'[x][y] = posted[x][Place(w, x, y)]
  BY Reads
<1>1. Once("prompt")'
  BY ReadsOnce DEF Prompted
<1> DEFINE n == Head(posted[w])
           h == n.session
<1>2. 1 \in Mail(w) /\ n = posted[w][1] /\ n \in Notes
  BY Reads
<1>3. True(n)
  BY <1>2, OnItsWay
<1>4. n.kind = "prompt" => h \in Ids /\ worker[h] = "prompting" /\ h \notin Range(dialogs)
  BY <1>2, <1>3 DEF Prompted, True
<1>5. n.kind = "prompt" => \A v \in Windows : \A i \in Mail(v)' : ~IsAbout(posted'[v][i], "prompt", h)
  BY ReadsOnce DEF Prompted
<1> HIDE DEF n
<1>6. dialogs' = IF n.kind = "prompt" THEN Append(dialogs, h) ELSE dialogs
  BY DEF n
<1>7. dialogs \in Seq(Ids) /\ DOMAIN dialogs = 1..Len(dialogs) /\ Len(dialogs) \in Nat
  BY DEF Typed
<1>8. CASE n.kind # "prompt"
  <2>1. ASSUME NEW v \in Windows, NEW i \in Mail(v)', posted'[v][i].kind = "prompt"
        PROVE  worker'[posted'[v][i].session] = "prompting" /\ posted'[v][i].session \notin Range(dialogs')
    <3>1. Place(w, v, i) \in Mail(v) /\ posted'[v][i] = posted[v][Place(w, v, i)]
      BY <1>0
    <3> QED
      BY <1>6, <1>8, <2>1, <3>1 DEF Prompted
  <2> QED
    BY <1>1, <1>6, <1>8, <2>1 DEF Prompted
<1>9. CASE n.kind = "prompt"
  <2> HIDE DEF h
  <2>1. dialogs' = Append(dialogs, h) /\ h \in Ids
    BY <1>4, <1>6, <1>9
  <2>2. /\ dialogs' \in Seq(Ids) /\ Len(dialogs') = Len(dialogs) + 1 /\ dialogs'[Len(dialogs) + 1] = h
        /\ \A i \in 1..Len(dialogs) : dialogs'[i] = dialogs[i]
    BY <1>7, <2>1, AppendProperties
  <2>3. DOMAIN dialogs' = 1..Len(dialogs')
    BY <2>2
  <2>4. ASSUME NEW i \in 1..Len(dialogs')
        PROVE  \/ i \in 1..Len(dialogs) /\ dialogs'[i] = dialogs[i]
               \/ i = Len(dialogs) + 1 /\ dialogs'[i] = h
    BY <1>7, <2>2
  <2>5. ASSUME NEW v \in Windows, NEW i \in Mail(v)', posted'[v][i].kind = "prompt"
        PROVE  worker'[posted'[v][i].session] = "prompting" /\ posted'[v][i].session \notin Range(dialogs')
    <3>1. Place(w, v, i) \in Mail(v) /\ posted'[v][i] = posted[v][Place(w, v, i)]
      BY <1>0
    <3>2. worker[posted'[v][i].session] = "prompting" /\ posted'[v][i].session \notin Range(dialogs)
      BY <2>5, <3>1 DEF Prompted
    <3>3. posted'[v][i].session # h
      BY <1>5, <1>9, <2>5 DEF IsAbout
    <3> QED
      BY <1>7, <2>3, <2>4, <3>2, <3>3 DEF Range
  <2>6. \A i \in 1..Len(dialogs') : worker'[dialogs'[i]] = "prompting"
    BY <1>4, <1>9, <2>4 DEF Prompted
  <2>7. \A i \in 1..Len(dialogs) : dialogs[i] # h
    BY <1>4, <1>7, <1>9 DEF Range
  <2>8. ASSUME NEW i \in 1..Len(dialogs'), NEW j \in 1..Len(dialogs'), dialogs'[i] = dialogs'[j]
        PROVE  i = j
    BY <2>4, <2>7, <2>8 DEF Prompted
  <2> QED
    BY <1>1, <2>5, <2>6, <2>8 DEF Prompted
<1> QED
  BY <1>8, <1>9

-----------------------------------------------------------------------------
(* The thread of a transport *)

\* An end that is on its way, of a session that is still there, is its last word.
LEMMA SaidIsOver ==
    ASSUME Typed, Noticed, NEW s \in Ids, Said(s), life[s] # "gone"
    PROVE  Over(s)
<1>1. PICK w \in Windows : \E i \in Mail(w) : IsAbout(posted[w][i], "ended", s)
  BY DEF Said
<1>2. PICK i \in Mail(w) : IsAbout(posted[w][i], "ended", s)
  BY <1>1
<1>3. True(posted[w][i])
  BY OnItsWay
<1> QED
  BY <1>2, <1>3 DEF True, IsAbout

\* The steps of a thread that nobody is told of.
LEMMA ThreadQuiet ==
    ASSUME IInv, NEW s \in Ids, Abandon(s) \/ Connected(s) \/ OnData(s)
    PROVE  IInv'
<1> USE DEF record, windows
<1>0. Typed /\ (\A t \in Ids : Lived(t)) /\ Agreed /\ Noticed /\ Prompted /\ Heard
  BY DEF IInv
<1>1. /\ UNCHANGED <<kind, running, link, record, bar, windows, dialogs, closing, missed>>
      /\ worker[s] \in {"connecting", "looping"}
      /\ \/ worker' = worker \/ worker' = [worker EXCEPT ![s] = "looping"]
         \/ worker' = [worker EXCEPT ![s] = "done"] /\ ~running[s]
      /\ status' = status \/ status' = [status EXCEPT ![s] = "Connected"]
  BY DEF Abandon, Connected, OnData
<1>2. /\ worker \in [Ids -> {"none", "done"} \union Working]
      /\ status \in [Ids -> {"Connected", "Reconnecting", "Disconnected"}]
  BY <1>0 DEF Typed
<1>3. /\ worker' \in [Ids -> {"none", "done"} \union Working]
      /\ status' \in [Ids -> {"Connected", "Reconnecting", "Disconnected"}]
      /\ worker'[s] \in {"connecting", "looping"} \/ (worker'[s] = "done" /\ ~running[s])
      /\ \A t \in Ids \ {s} : worker'[t] = worker[t] /\ status'[t] = status[t]
  BY <1>1, <1>2 DEF Working
<1>4. worker[s] \in Working /\ (worker'[s] = "done" => life[s] = "closing")
  BY <1>0, <1>1, <1>3 DEF Lived, Working
<1>5. Typed'
  BY <1>0, <1>1, <1>3 DEF Typed
<1>6. ASSUME NEW t \in Ids
      PROVE  Lived(t)'
  <2>1. Lived(t)
    BY <1>0
  <2> QED
    BY <1>1, <1>3, <1>4, <2>1 DEF Lived
<1>7. Agreed'
  BY <1>0, <1>1, AgreedStays
<1>8. Noticed'
  <2>1. ASSUME NEW t \in Ids
        PROVE  Keeps(t)
    BY <1>1, <1>3 DEF Keeps, Over
  <2>2. BarsAgree'
    BY <1>0, <1>1, <1>3 DEF BarsAgree, Noticed
  <2> QED
    BY <1>0, <1>1, <2>1, <2>2, NoticedStays
<1>9. Prompted'
  <2>1. \A t \in Ids : worker[t] = "prompting" => worker'[t] = "prompting"
    BY <1>1, <1>3
  <2> QED
    BY <1>0, <1>1, <2>1, PromptedStays
<1>10. Heard'
  <2>1. \A t \in Ids : Said(t)' = Said(t)
    BY <1>1 DEF Said, Mail
  <2> QED
    BY <1>0, <1>1, <1>3, <1>4, <2>1 DEF Heard
<1> QED
  BY <1>5, <1>6, <1>7, <1>8, <1>9, <1>10 DEF IInv

\* A thread asks the user.
LEMMA ThreadAsks ==
    ASSUME IInv, NEW s \in Ids, OnKbdIntChallenge(s)
    PROVE  IInv'
<1> USE DEF record
<1> DEFINE n == Note("prompt", s, "none")
           w == observer[s]
<1>0. Typed /\ (\A t \in Ids : Lived(t)) /\ Agreed /\ Noticed /\ Prompted /\ Heard
  BY DEF IInv
<1>1. /\ UNCHANGED <<kind, running, link, status, record, bar, win, shown, doomed, dialogs,
                     closing, missed>>
      /\ worker[s] = "connecting" /\ w # NoWindow
      /\ worker' = [worker EXCEPT ![s] = "prompting"]
      /\ posted' = [posted EXCEPT ![w] = Append(@, n)]
  BY DEF OnKbdIntChallenge
<1>2. /\ worker \in [Ids -> {"none", "done"} \union Working]
      /\ w \in Windows
      /\ n \in Notes /\ n.kind = "prompt" /\ n.session = s
  BY <1>0, <1>1 DEF Typed, Notes, Note
<1>3. /\ worker' \in [Ids -> {"none", "done"} \union Working]
      /\ worker'[s] = "prompting"
      /\ \A t \in Ids \ {s} : worker'[t] = worker[t]
  BY <1>1, <1>2 DEF Working
<1>4. posted' \in [Windows -> Seq(Notes)]
  BY <1>0, <1>1, <1>2, Posts
<1> HIDE DEF n, w
<1>5. Typed'
  BY <1>0, <1>1, <1>3, <1>4 DEF Typed
<1>6. ASSUME NEW t \in Ids
      PROVE  Lived(t)'
  <2>1. Lived(t)
    BY <1>0
  <2> QED
    BY <1>1, <1>3, <2>1 DEF Lived, Working
<1>7. Agreed'
  BY <1>0, <1>1, AgreedStays
<1>8. Noticed'
  <2>1. ASSUME NEW t \in Ids
        PROVE  Keeps(t)
    BY <1>1, <1>3 DEF Keeps, Over
  <2>2. BarsAgree'
    BY <1>0, <1>1, <1>3 DEF BarsAgree, Noticed
  <2>3. PICK m \in Notes : m = n
    BY <1>2
  <2>4. True(m)'
    BY <1>2, <2>3 DEF True
  <2>5. PICK v \in Windows : v = w
    BY <1>2
  <2> QED
    BY <1>0, <1>1, <1>2, <2>1, <2>2, <2>3, <2>4, <2>5, NoticedPosts
<1>9. Prompted'
  <2>1. \A t \in Ids : worker[t] = "prompting" => worker'[t] = "prompting"
    BY <1>1, <1>3
  <2> QED
    BY <1>0, <1>1, <1>2, <1>3, <2>1, PromptedPosts
<1>10. Heard'
  <2>1. \A t \in Ids : Said(t) => Said(t)'
    BY <1>0, <1>1, <1>2, SaidPosts
  <2> QED
    BY <1>0, <1>1, <1>3, <2>1 DEF Heard
<1> QED
  BY <1>5, <1>6, <1>7, <1>8, <1>9, <1>10 DEF IInv

\* A thread ends, and tells whoever observes its session.
LEMMA ThreadTells ==
    ASSUME SessionsAssumption, IInv, NEW s \in Ids, NEW r \in {"Clean", "Interrupted", "Deliberate"},
           worker[s] \in {"connecting", "looping"}, r = "Deliberate" => ~running[s], Tell(s, r)
    PROVE  IInv'
<1> USE DEF record
<1> DEFINE n == Note("ended", s, r)
           w == observer[s]
<1>0. Typed /\ (\A t \in Ids : Lived(t)) /\ Agreed /\ Noticed /\ Prompted /\ Heard
  BY DEF IInv
<1>1. /\ UNCHANGED <<kind, link, record, bar, win, shown, doomed, dialogs, closing>>
      /\ worker' = [worker EXCEPT ![s] = "done"] /\ running' = [running EXCEPT ![s] = FALSE]
      /\ status' = [status EXCEPT ![s] = "Disconnected"]
      /\ \/ w = NoWindow /\ missed' = missed \union {s} /\ posted' = posted
         \/ w # NoWindow /\ missed' = missed /\ posted' = [posted EXCEPT ![w] = Append(@, n)]
  BY DEF Tell
<1>2. /\ worker' \in [Ids -> {"none", "done"} \union Working]
      /\ running' \in [Ids -> BOOLEAN]
      /\ status' \in [Ids -> {"Connected", "Reconnecting", "Disconnected"}]
      /\ worker'[s] = "done" /\ status'[s] = "Disconnected"
      /\ \A t \in Ids \ {s} : worker'[t] = worker[t] /\ running'[t] = running[t] /\ status'[t] = status[t]
  BY <1>0, <1>1 DEF Typed
<1>3. /\ life[s] \in {"made", "open", "closing"}
      /\ r = "Deliberate" => life[s] = "closing"
      /\ ~bar[s] /\ ~Over(s)
  BY <1>0 DEF Lived, Working, Noticed, Over
<1>4. n \in Notes /\ n.kind = "ended" /\ n.session = s /\ n.reason = r /\ n.link = link[s]
  BY <1>0 DEF Typed, Notes, Note
<1>5. /\ w # NoWindow => w \in Windows /\ life[s] \in Listed
      /\ w = NoWindow => life[s] = "made"
  <2>1. Lived(s) /\ w \in Windows \union {NoWindow}
    BY <1>0 DEF Typed
  <2>2. life[s] \in Listed => w \in shown
    BY <1>0 DEF Agreed, PointersAgree, Listed
  <2> QED
    BY <1>0, <1>3, <2>1, <2>2 DEF Typed, Lived, Listed, SessionsAssumption
<1> HIDE DEF n, w
<1>6. Typed'
  <2>1. posted' \in [Windows -> Seq(Notes)]
    BY <1>0, <1>1, <1>4, <1>5, Posts DEF Typed
  <2> QED
    BY <1>0, <1>1, <1>2, <2>1 DEF Typed
<1>7. ASSUME NEW t \in Ids
      PROVE  Lived(t)'
  <2>1. Lived(t)
    BY <1>0
  <2> QED
    BY <1>1, <1>2, <2>1 DEF Lived, Working
<1>8. Agreed'
  BY <1>0, <1>1, AgreedStays
<1>9. \A t \in Ids : Keeps(t)
  BY <1>1, <1>2, <1>3 DEF Keeps, Over
<1>10. BarsAgree'
  BY <1>0, <1>1, <1>2 DEF BarsAgree, Noticed
<1>11. Noticed'
  <2>1. CASE w = NoWindow
    BY <1>0, <1>1, <1>9, <1>10, <2>1, NoticedStays
  <2>2. CASE w # NoWindow
    <3>1. PICK m \in Notes : m = n
      BY <1>4
    <3>2. True(m)'
      BY <1>1, <1>2, <1>3, <1>4, <1>5, <2>2, <3>1 DEF True, Over
    <3>3. ~Said(s)
      BY <1>0, <1>3, SaidIsOver
    <3>4. PICK v \in Windows : v = w
      BY <1>5, <2>2
    <3>5. posted' = [posted EXCEPT ![v] = Append(@, m)]
      BY <1>1, <2>2, <3>1, <3>4
    <3>6. m.session = s
      BY <1>4, <3>1
    <3> QED
      BY <1>0, <1>9, <1>10, <3>2, <3>3, <3>5, <3>6, NoticedPosts
  <2> QED
    BY <2>1, <2>2
<1>12. Prompted'
  <2>1. \A t \in Ids : worker[t] = "prompting" => worker'[t] = "prompting"
    BY <1>1, <1>2
  <2>2. CASE w = NoWindow
    BY <1>0, <1>1, <2>1, <2>2, PromptedStays
  <2>3. CASE w # NoWindow
    BY <1>0, <1>1, <1>4, <1>5, <2>1, <2>3, PromptedPosts
  <2> QED
    BY <2>2, <2>3
<1>13. Heard'
  <2>1. CASE w = NoWindow
    <3>1. \A t \in Ids : Said(t)' = Said(t)
      BY <1>1, <2>1 DEF Said, Mail
    <3> QED
      BY <1>0, <1>1, <1>2, <1>5, <2>1, <3>1 DEF Heard
  <2>2. CASE w # NoWindow
    <3>1. \A t \in Ids : (Said(t) => Said(t)') /\ (IsAbout(n, "ended", t) => Said(t)')
      BY <1>0, <1>1, <1>4, <1>5, <2>2, SaidPosts
    <3>2. Said(s)'
      BY <1>4, <3>1 DEF IsAbout
    <3>3. life[s] # "made"
      BY <1>5, <2>2 DEF Listed
    <3> QED
      BY <1>0, <1>1, <1>2, <2>2, <3>1, <3>2, <3>3 DEF Heard
  <2> QED
    BY <2>1, <2>2
<1> QED
  BY <1>6, <1>7, <1>8, <1>11, <1>12, <1>13 DEF IInv

\* Whatever a thread does.
LEMMA ThreadStep ==
    ASSUME SessionsAssumption, IInv, NEW s \in Ids, Thread(s)
    PROVE  IInv'
<1>1. CASE ConnectFails(s)
  BY <1>1, ThreadTells DEF ConnectFails
<1>2. CASE LoopEnds(s)
  BY <1>2, ThreadTells DEF LoopEnds
<1> QED
  BY <1>1, <1>2, ThreadQuiet, ThreadAsks DEF Thread

-----------------------------------------------------------------------------
(* Launching *)

\* A transport that is started runs, or has failed and is known to have.
LEMMA Starts ==
    ASSUME Typed, NEW s \in Ids, NEW k, Start(s, k)
    PROVE  /\ worker' \in [Ids -> {"none", "done"} \union Working]
           /\ running' \in [Ids -> BOOLEAN] /\ missed' \subseteq Ids /\ missed \subseteq missed'
           /\ \A t \in Ids \ {s} : worker'[t] = worker[t] /\ running'[t] = running[t]
           /\ \/ worker'[s] = "none" /\ s \in missed'
              \/ worker'[s] \in {"connecting", "looping"} /\ running'[s]
<1>1. PICK d \in (IF k = "serial" THEN BOOLEAN ELSE {TRUE}) :
        /\ worker' = [worker EXCEPT ![s] =
             CASE ~d -> "none" [] k = "ssh" -> "connecting" [] OTHER -> "looping"]
        /\ running' = [running EXCEPT ![s] = d]
        /\ missed' = IF d THEN missed ELSE missed \union {s}
  BY DEF Start
<1> DEFINE x == CASE ~d -> "none" [] k = "ssh" -> "connecting" [] OTHER -> "looping"
<1>2. d \in BOOLEAN /\ (k = "ssh" => d)
  OBVIOUS
<1>3. (~d /\ x = "none") \/ (d /\ x \in {"connecting", "looping"})
  <2>1. CASE d /\ k = "ssh"
    BY <2>1
  <2>2. CASE d /\ k # "ssh"
    BY <2>2
  <2>3. CASE ~d
    BY <1>2, <2>3
  <2> QED
    BY <1>2, <2>1, <2>2, <2>3
<1> HIDE DEF x
<1>4. worker' = [worker EXCEPT ![s] = x]
  BY <1>1 DEF x
<1> QED
  BY <1>1, <1>2, <1>3, <1>4 DEF Typed, Working

\* A session that is being made is nobody's yet.
LEMMA CreateStep ==
    ASSUME SessionsAssumption, IInv, NEW s \in Ids, CreateSession(s)
    PROVE  IInv'
<1> USE DEF windows
<1>0. Typed /\ (\A t \in Ids : Lived(t)) /\ Agreed /\ Noticed /\ Prompted /\ Heard
  BY DEF IInv
<1>1. PICK k \in Kinds[s] : kind' = [kind EXCEPT ![s] = k] /\ Start(s, k)
  BY DEF CreateSession
<1>2. /\ dialogs = <<>> /\ closing = <<>> /\ life[s] = "none"
      /\ life' = [life EXCEPT ![s] = "made"] /\ link' = [link EXCEPT ![s] = 1]
      /\ UNCHANGED <<status, observer, router, bar, windows, dialogs, closing>>
  BY DEF CreateSession, UserFree, Free
<1>3. /\ worker' \in [Ids -> {"none", "done"} \union Working]
      /\ running' \in [Ids -> BOOLEAN] /\ missed' \subseteq Ids /\ missed \subseteq missed'
      /\ \A t \in Ids \ {s} : worker'[t] = worker[t] /\ running'[t] = running[t]
      /\ \/ worker'[s] = "none" /\ s \in missed'
         \/ worker'[s] \in {"connecting", "looping"} /\ running'[s]
  BY <1>0, <1>1, Starts
<1>4. /\ life' \in [Ids -> {"none", "made", "open", "closing", "gone"}] /\ life'[s] = "made"
      /\ \A t \in Ids \ {s} : life'[t] = life[t] /\ link'[t] = link[t]
      /\ link' \in [Ids -> 0..MaxLinks]
  BY <1>0, <1>2 DEF Typed, SessionsAssumption
<1>5. kind' \in [Ids -> {"none", "ssh", "serial", "pty"}]
  <2>1. k \in {"none", "ssh", "serial", "pty"}
    BY DEF SessionsAssumption
  <2> QED
    BY <1>0, <1>1, <2>1 DEF Typed
<1>6. ~bar[s] /\ worker[s] \notin Working /\ observer[s] = NoWindow
      /\ \A w \in Windows : s \notin win[w].sessions
  BY <1>0, <1>2 DEF Lived, Listed
<1>7. Typed'
  BY <1>0, <1>2, <1>3, <1>4, <1>5 DEF Typed
<1>8. ASSUME NEW t \in Ids
      PROVE  Lived(t)'
  <2>1. Lived(t)
    BY <1>0
  <2> QED
    BY <1>2, <1>3, <1>4, <1>6, <2>1 DEF Lived, Listed, Working
<1>9. Agreed'
  BY <1>0, <1>2, <1>4, <1>6 DEF Agreed, PointersAgree
<1>10. Noticed'
  <2>1. ASSUME NEW t \in Ids
        PROVE  Keeps(t)
    BY <1>2, <1>3, <1>4 DEF Keeps, Over, Listed
  <2>2. BarsAgree'
    BY <1>0, <1>2, <1>3, <1>6 DEF BarsAgree, Noticed
  <2> QED
    BY <1>0, <1>2, <2>1, <2>2, NoticedStays
<1>11. Prompted'
  <2>1. \A t \in Ids : worker[t] = "prompting" => worker'[t] = "prompting"
    BY <1>3, <1>6 DEF Working
  <2> QED
    BY <1>0, <1>2, <2>1, PromptedStays
<1>12. Heard'
  <2>1. \A t \in Ids : Said(t)' = Said(t)
    BY <1>2 DEF Said, Mail
  <2> QED
    BY <1>0, <1>2, <1>3, <1>4, <2>1 DEF Heard
<1> QED
  BY <1>7, <1>8, <1>9, <1>10, <1>11, <1>12 DEF IInv

\* A session that opens is the one its window shows.
LEMMA ObserveStep ==
    ASSUME SessionsAssumption, IInv, NEW s \in Ids, NEW w \in Windows, Observe(s, w)
    PROVE  IInv'
<1> USE DEF thread
<1> DEFINE r == TakeSession(AddTarget(win[w], s), s)
<1>0. Typed /\ (\A t \in Ids : Lived(t)) /\ Agreed /\ Noticed /\ Prompted /\ Heard
  BY DEF IInv
<1>1. /\ life[s] = "made" /\ w \in shown /\ w \notin doomed
      /\ life' = [life EXCEPT ![s] = "open"]
      /\ observer' = [observer EXCEPT ![s] = w] /\ router' = [router EXCEPT ![s] = w]
      /\ win' = [win EXCEPT ![w] = r]
      /\ UNCHANGED <<thread, bar, posted, shown, doomed, dialogs, closing, missed>>
  BY DEF Observe, SetSessionObserver, Usable
<1>2. win[w] \in Window /\ Tidy(win[w])
  BY <1>0 DEF Typed, Agreed, PointersAgree, Tidy
<1>3. IsWindow(r, win[w].sessions \union {s})
  BY <1>2, Takes DEF Tidy
<1> HIDE DEF r
<1>4. /\ life' \in [Ids -> {"none", "made", "open", "closing", "gone"}] /\ life'[s] = "open"
      /\ observer' \in [Ids -> Windows \union {NoWindow}] /\ observer'[s] = w
      /\ router' \in [Ids -> Windows \union {NoWindow}] /\ router'[s] = w
      /\ \A t \in Ids \ {s} : life'[t] = life[t] /\ observer'[t] = observer[t] /\ router'[t] = router[t]
      /\ win' \in [Windows -> Window] /\ win'[w] = r
      /\ \A v \in Windows \ {w} : win'[v] = win[v]
  BY <1>0, <1>1, <1>3 DEF Typed, IsWindow
<1>5. /\ Tidy(r) /\ r.sessions = win[w].sessions \union {s}
      /\ \A v \in Windows : s \notin win[v].sessions
      /\ closing = <<>>
  BY <1>0, <1>1, <1>3 DEF IsWindow, Lived, Listed
<1>6. Typed'
  BY <1>0, <1>1, <1>4 DEF Typed
<1>7. ASSUME NEW t \in Ids
      PROVE  Lived(t)'
  <2>1. Lived(t)
    BY <1>0
  <2>2. t # s => \A v \in Windows : t \in win'[v].sessions => t \in win[v].sessions
    BY <1>4, <1>5
  <2> QED
    BY <1>1, <1>4, <2>1, <2>2 DEF Lived, Listed, Working
<1>8. Agreed'
  <2>1. ASSUME NEW t \in Ids, life'[t] \in {"open", "closing"}
        PROVE  /\ observer'[t] \in shown' /\ router'[t] = observer'[t]
               /\ \A v \in Windows : (t \in win'[v].sessions) = (v = observer'[t])
    <3>1. CASE t = s
      BY <1>1, <1>4, <1>5, <3>1
    <3>2. CASE t # s
      BY <1>0, <1>1, <1>4, <1>5, <2>1, <3>2 DEF Agreed, PointersAgree
    <3> QED
      BY <3>1, <3>2
  <2>2. ASSUME NEW v \in Windows
        PROVE  Tidy(win'[v]) /\ \A t \in win'[v].sessions : life'[t] \in {"open", "closing"}
    <3>1. \A t \in win[v].sessions : t \in Ids /\ life[t] \in {"open", "closing"}
      BY <1>0 DEF Typed, Window, Agreed, PointersAgree
    <3>2. Tidy(win[v])
      BY <1>0 DEF Agreed, PointersAgree, Tidy
    <3> QED
      BY <1>4, <1>5, <3>1, <3>2
  <2>3. \A v \in doomed : v # w
    BY <1>1
  <2>4. \A v \in doomed' : win'[v].sessions \subseteq Range(closing')
    BY <1>0, <1>1, <1>4, <2>3 DEF Agreed, Typed
  <2> QED
    BY <2>1, <2>2, <2>4 DEF Agreed, PointersAgree, Tidy
<1>9. Noticed'
  <2>1. ASSUME NEW t \in Ids
        PROVE  Keeps(t)
    BY <1>1, <1>4 DEF Keeps, Over, Listed
  <2>2. BarsAgree'
    BY <1>0, <1>1 DEF BarsAgree, Noticed
  <2> QED
    BY <1>0, <1>1, <2>1, <2>2, NoticedStays
<1>10. Prompted'
  BY <1>0, <1>1, PromptedStays
<1>11. Heard'
  <2>1. \A t \in Ids : Said(t)' = Said(t)
    BY <1>1 DEF Said, Mail
  <2> QED
    BY <1>0, <1>1, <1>4, <2>1 DEF Heard
<1> QED
  BY <1>6, <1>7, <1>8, <1>9, <1>10, <1>11 DEF IInv

-----------------------------------------------------------------------------
(* Closing *)

\* What a sequence holds beside its first.
LEMMA RangeOfTail ==
    ASSUME NEW S, NEW q \in Seq(S), q # <<>>
    PROVE  /\ Range(q) = {Head(q)} \union Range(Tail(q))
           /\ Head(q) \in S /\ Tail(q) \in Seq(S)
<1>1. /\ Head(q) \in S /\ Tail(q) \in Seq(S) /\ Len(q) \in Nat \ {0}
      /\ Len(Tail(q)) = Len(q) - 1 /\ \A i \in 1..Len(Tail(q)) : Tail(q)[i] = q[i + 1]
      /\ Head(q) = q[1]
  BY HeadTailProperties, EmptySeq
<1>2. DOMAIN q = 1..Len(q) /\ DOMAIN Tail(q) = 1..Len(Tail(q))
  BY <1>1
<1>3. ASSUME NEW x \in Range(q)
      PROVE  x \in {Head(q)} \union Range(Tail(q))
  <2>1. PICK i \in 1..Len(q) : x = q[i]
    BY <1>2 DEF Range
  <2>2. CASE i = 1
    BY <1>1, <2>1, <2>2
  <2>3. CASE i # 1
    <3>1. i - 1 \in 1..Len(Tail(q)) /\ Tail(q)[i - 1] = x
      BY <1>1, <2>1, <2>3
    <3> QED
      BY <1>2, <3>1 DEF Range
  <2> QED
    BY <2>2, <2>3
<1>4. ASSUME NEW x \in Range(Tail(q))
      PROVE  x \in Range(q)
  <2>1. PICK i \in 1..Len(Tail(q)) : x = Tail(q)[i]
    BY <1>2 DEF Range
  <2>2. i + 1 \in 1..Len(q) /\ q[i + 1] = x
    BY <1>1, <2>1
  <2> QED
    BY <1>2, <2>2 DEF Range
<1>5. Head(q) \in Range(q)
  BY <1>1, <1>2 DEF Range
<1> QED
  BY <1>1, <1>3, <1>4, <1>5

\* The handler that closes sessions tells the next to stop, or passes over it.
LEMMA CloseSessionStep ==
    ASSUME SessionsAssumption, IInv, CloseSession
    PROVE  IInv'
<1> USE DEF windows
<1> DEFINE h == Head(closing)
<1>0. Typed /\ (\A t \in Ids : Lived(t)) /\ Agreed /\ Noticed /\ Prompted /\ Heard
  BY DEF IInv
<1>1. /\ closing # <<>>
      /\ UNCHANGED <<kind, worker, link, status, observer, router, bar, windows, dialogs, missed>>
      /\ \/ /\ life[h] = "open"
            /\ life' = [life EXCEPT ![h] = "closing"] /\ running' = [running EXCEPT ![h] = FALSE]
            /\ closing' = closing
         \/ /\ life[h] \notin Listed
            /\ closing' = Tail(closing) /\ life' = life /\ running' = running
  BY DEF CloseSession, Listed
<1>2. /\ Range(closing) = {h} \union Range(Tail(closing))
      /\ h \in Ids /\ Tail(closing) \in Seq(Ids)
  BY <1>0, <1>1, RangeOfTail DEF Typed
<1> HIDE DEF h
<1>3. PICK s \in Ids : s = h
  BY <1>2
<1>4. /\ life' \in [Ids -> {"none", "made", "open", "closing", "gone"}]
      /\ running' \in [Ids -> BOOLEAN] /\ closing' \in Seq(Ids)
      /\ \A t \in Ids \ {s} : life'[t] = life[t] /\ running'[t] = running[t]
      /\ \/ life[s] = "open" /\ life'[s] = "closing" /\ closing' = closing
         \/ life[s] \notin Listed /\ life'[s] = life[s] /\ running'[s] = running[s]
            /\ closing' = Tail(closing)
  <2>1. /\ life \in [Ids -> {"none", "made", "open", "closing", "gone"}]
        /\ running \in [Ids -> BOOLEAN] /\ closing \in Seq(Ids)
    BY <1>0 DEF Typed
  <2>2. CASE life[s] = "open"
    <3>1. /\ life' = [life EXCEPT ![s] = "closing"] /\ running' = [running EXCEPT ![s] = FALSE]
          /\ closing' = closing
      BY <1>1, <1>3, <2>2 DEF Listed
    <3> QED
      BY <2>1, <2>2, <3>1
  <2>3. CASE life[s] # "open"
    <3>1. life[s] \notin Listed /\ closing' = Tail(closing) /\ life' = life /\ running' = running
      BY <1>1, <1>3, <2>3
    <3> QED
      BY <1>2, <2>1, <3>1
  <2> QED
    BY <2>2, <2>3
<1>5. \A t \in Ids : life[t] # "made" /\ (t # s => life[t] # "closing")
  BY <1>0, <1>1, <1>3 DEF Lived, h
<1>6. Typed'
  BY <1>0, <1>1, <1>4 DEF Typed
<1>7. ASSUME NEW t \in Ids
      PROVE  Lived(t)'
  <2>1. Lived(t)
    BY <1>0
  <2>2. h = Head(closing)
    BY DEF h
  <2> QED
    BY <1>1, <1>3, <1>4, <1>5, <2>1, <2>2 DEF Lived, Listed, Working
<1>8. \A t \in Ids : (life'[t] \in Listed) = (life[t] \in Listed)
  BY <1>4 DEF Listed
<1>9. Agreed'
  <2>1. \A w \in Windows : \A t \in win[w].sessions : t \in Ids /\ life[t] \in Listed
    BY <1>0 DEF Typed, Window, Agreed, PointersAgree, Listed
  <2>2. \A w \in doomed : win[w].sessions \subseteq Range(closing')
    BY <1>0, <1>2, <1>3, <1>4, <2>1 DEF Agreed, Typed
  <2> QED
    BY <1>0, <1>1, <1>8, <2>1, <2>2 DEF Agreed, PointersAgree, Listed
<1>10. Noticed'
  <2>1. ASSUME NEW t \in Ids
        PROVE  Keeps(t)
    BY <1>1, <1>4, <1>5, <1>8 DEF Keeps, Over
  <2>2. BarsAgree'
    BY <1>0, <1>1 DEF BarsAgree, Noticed
  <2> QED
    BY <1>0, <1>1, <2>1, <2>2, NoticedStays
<1>11. Prompted'
  BY <1>0, <1>1, PromptedStays
<1>12. Heard'
  <2>1. \A t \in Ids : Said(t)' = Said(t)
    BY <1>1 DEF Said, Mail
  <2>2. \A t \in Ids : life'[t] = "open" /\ t \in Range(closing) => t \in Range(closing')
    BY <1>2, <1>3, <1>4 DEF Listed
  <2> QED
    BY <1>0, <1>1, <1>4, <1>5, <2>1, <2>2 DEF Heard
<1> QED
  BY <1>6, <1>7, <1>9, <1>10, <1>11, <1>12 DEF IInv

\* What a window left empty posts, if anything.
LEMMA EmptyPosts ==
    ASSUME Typed, NEW w \in Windows, NEW s, NEW after,
           posted' = [posted EXCEPT ![w] = @ \o GridEmpty(w, s, after)]
    PROVE  posted' = posted \/ \E n \in Notes : n.kind = "empty" /\ posted' = [posted EXCEPT ![w] = Append(@, n)]
<1> DEFINE n == [kind |-> "empty", session |-> NoSession, reason |-> "none", link |-> 0]
<1>1. n \in Notes
  BY DEF Notes
<1>2. posted[w] \in Seq(Notes) /\ posted \in [Windows -> Seq(Notes)]
  BY DEF Typed
<1>3. CASE GridEmpty(w, s, after) = <<>>
  <2>1. posted[w] \o <<>> = posted[w]
    BY <1>2, ConcatEmptySeq
  <2> QED
    BY <1>2, <1>3, <2>1
<1>4. CASE GridEmpty(w, s, after) = <<n>>
  <2>1. posted[w] \o <<n>> = Append(posted[w], n)
    BY <1>1, <1>2, AppendIsConcat
  <2>2. posted' = [posted EXCEPT ![w] = Append(@, n)]
    BY <1>4, <2>1
  <2> HIDE DEF n
  <2>3. n.kind = "empty"
    BY DEF n
  <2> QED
    BY <1>1, <2>2, <2>3
<1> QED
  BY <1>3, <1>4 DEF GridEmpty

\* A thread that has been waited for leaves nothing of its session.
LEMMA StoppedStep ==
    ASSUME SessionsAssumption, IInv, Stopped
    PROVE  IInv'
<1>0. Typed /\ (\A t \in Ids : Lived(t)) /\ Agreed /\ Noticed /\ Prompted /\ Heard
  BY DEF IInv
<1>1. /\ Range(closing) = {Head(closing)} \union Range(Tail(closing))
      /\ Head(closing) \in Ids /\ Tail(closing) \in Seq(Ids)
  BY <1>0, RangeOfTail DEF Typed, Stopped
<1>2. PICK s \in Ids : s = Head(closing)
  BY <1>1
<1>3. life[s] = "closing" /\ worker[s] \in {"done", "none"}
  BY <1>2 DEF Stopped
<1>4. /\ observer[s] \in shown /\ router[s] = observer[s] /\ observer[s] \in Windows
      /\ \A v \in Windows : (s \in win[v].sessions) = (v = observer[s])
  BY <1>0, <1>3 DEF Typed, Agreed, PointersAgree
<1>5. PICK w \in Windows : w = observer[s]
  BY <1>4
<1>6. win[w] \in Window /\ Tidy(win[w]) /\ s \in win[w].sessions /\ win \in [Windows -> Window]
  BY <1>0, <1>4, <1>5 DEF Typed, Agreed, PointersAgree, Tidy
<1>7. PICK after \in TearDown(RemoveTarget(win[w], s), s) :
        /\ win' = [win EXCEPT ![w] = after]
        /\ posted' = [posted EXCEPT ![w] = @ \o GridEmpty(w, s, after)]
  <2> DEFINE routed == [win EXCEPT ![w] = RemoveTarget(@, s)]
  <2>1. PICK after \in TearDown(routed[w], s) :
          /\ win' = [routed EXCEPT ![w] = after]
          /\ posted' = [posted EXCEPT ![w] = @ \o GridEmpty(w, s, after)]
    BY <1>2, <1>4, <1>5 DEF Stopped
  <2>2. routed[w] = RemoveTarget(win[w], s) /\ [routed EXCEPT ![w] = after] = [win EXCEPT ![w] = after]
    BY <1>6
  <2> QED
    BY <2>1, <2>2
<1>8. IsWindow(after, win[w].sessions \ {s})
  BY <1>6, Goes
<1>9. /\ win' \in [Windows -> Window] /\ win'[w] = after /\ Tidy(after)
      /\ after.sessions = win[w].sessions \ {s} /\ \A v \in Windows \ {w} : win'[v] = win[v]
  BY <1>6, <1>7, <1>8 DEF IsWindow
<1>10. Erase(s) /\ closing' = Tail(closing) /\ UNCHANGED <<shown, doomed, dialogs>>
  BY <1>2 DEF Stopped
<1>11. /\ life' \in [Ids -> {"none", "made", "open", "closing", "gone"}] /\ life'[s] = "gone"
       /\ worker' \in [Ids -> {"none", "done"} \union Working] /\ worker'[s] = "none"
       /\ observer' \in [Ids -> Windows \union {NoWindow}] /\ observer'[s] = NoWindow
       /\ router' \in [Ids -> Windows \union {NoWindow}]
       /\ bar' \in [Ids -> BOOLEAN] /\ ~bar'[s] /\ missed' = missed \ {s}
  BY <1>0, <1>10 DEF Typed, Erase
<1>12. /\ kind' \in [Ids -> {"none", "ssh", "serial", "pty"}]
       /\ running' \in [Ids -> BOOLEAN] /\ link' \in [Ids -> 0..MaxLinks]
       /\ status' \in [Ids -> {"Connected", "Reconnecting", "Disconnected"}]
  BY <1>0, <1>10 DEF Typed, Erase, SessionsAssumption
<1>13. ASSUME NEW t \in Ids \ {s}
       PROVE  /\ life'[t] = life[t] /\ worker'[t] = worker[t] /\ observer'[t] = observer[t]
              /\ router'[t] = router[t] /\ bar'[t] = bar[t] /\ running'[t] = running[t]
              /\ link'[t] = link[t] /\ status'[t] = status[t]
  BY <1>0, <1>10 DEF Typed, Erase
<1>14. \A t \in Ids \ {s} : life[t] \notin {"made", "closing"}
  BY <1>0, <1>2 DEF Lived, Stopped
<1>15. posted' = posted \/ \E n \in Notes : n.kind = "empty" /\ posted' = [posted EXCEPT ![w] = Append(@, n)]
  BY <1>0, <1>7, EmptyPosts
<1>16. Typed'
  <2>1. posted' \in [Windows -> Seq(Notes)]
    BY <1>0, <1>15, Posts DEF Typed
  <2> QED
    BY <1>0, <1>1, <1>9, <1>10, <1>11, <1>12, <2>1 DEF Typed
<1>17. ASSUME NEW t \in Ids
       PROVE  Lived(t)'
  <2>1. CASE t = s
    <3>1. \A v \in Windows : s \notin win'[v].sessions
      BY <1>4, <1>5, <1>9
    <3> QED
      BY <1>11, <2>1, <3>1 DEF Lived, Listed, Working
  <2>2. CASE t # s
    <3>1. Lived(t)
      BY <1>0
    <3>2. \A v \in Windows : t \in win'[v].sessions => t \in win[v].sessions
      BY <1>9
    <3> QED
      BY <1>13, <1>14, <2>2, <3>1, <3>2 DEF Lived, Listed
  <2> QED
    BY <2>1, <2>2
<1>18. Agreed'
  <2>1. ASSUME NEW t \in Ids, life'[t] \in {"open", "closing"}
        PROVE  /\ observer'[t] \in shown' /\ router'[t] = observer'[t]
               /\ \A v \in Windows : (t \in win'[v].sessions) = (v = observer'[t])
    <3>1. t # s
      BY <1>11, <2>1
    <3>2. /\ observer[t] \in shown /\ router[t] = observer[t]
          /\ \A v \in Windows : (t \in win[v].sessions) = (v = observer[t])
      BY <1>0, <1>13, <2>1, <3>1 DEF Agreed, PointersAgree
    <3> QED
      BY <1>9, <1>10, <1>13, <3>1, <3>2
  <2>2. ASSUME NEW v \in Windows
        PROVE  Tidy(win'[v]) /\ \A t \in win'[v].sessions : life'[t] \in {"open", "closing"}
    <3>1. \A t \in win[v].sessions : t \in Ids /\ life[t] \in {"open", "closing"}
      BY <1>0 DEF Typed, Window, Agreed, PointersAgree
    <3>2. Tidy(win[v])
      BY <1>0 DEF Agreed, PointersAgree, Tidy
    <3>3. s \notin win'[v].sessions
      BY <1>4, <1>5, <1>9
    <3> QED
      BY <1>9, <1>13, <3>1, <3>2, <3>3
  <2>3. ASSUME NEW v \in doomed'
        PROVE  win'[v].sessions \subseteq Range(closing')
    <3>1. v \in doomed /\ v \in Windows
      BY <1>0, <1>10 DEF Typed
    <3>2. win[v].sessions \subseteq Range(closing)
      BY <1>0, <3>1 DEF Agreed
    <3>3. win'[v].sessions \subseteq win[v].sessions \ {s}
      BY <1>4, <1>5, <1>9, <3>1
    <3> QED
      BY <1>1, <1>2, <1>10, <3>2, <3>3
  <2> QED
    BY <2>1, <2>2, <2>3 DEF Agreed, PointersAgree, Tidy
<1>19. Noticed'
  <2>1. ASSUME NEW t \in Ids
        PROVE  Keeps(t)
    BY <1>3, <1>11, <1>13 DEF Keeps, Over, Listed
  <2>2. BarsAgree'
    BY <1>0, <1>11, <1>13 DEF BarsAgree, Noticed
  <2>3. CASE posted' = posted
    BY <1>0, <2>1, <2>2, <2>3, NoticedStays
  <2>4. ASSUME NEW n \in Notes, n.kind = "empty", posted' = [posted EXCEPT ![w] = Append(@, n)]
        PROVE  Noticed'
    <3>1. True(n)'
      BY <2>4 DEF True
    <3> QED
      BY <1>0, <2>1, <2>2, <2>4, <3>1, NoticedPosts
  <2> QED
    BY <1>15, <2>3, <2>4
<1>20. Prompted'
  <2>1. \A t \in Ids : worker[t] = "prompting" => worker'[t] = "prompting"
    BY <1>3, <1>13
  <2>2. CASE posted' = posted
    BY <1>0, <1>10, <2>1, <2>2, PromptedStays
  <2>3. ASSUME NEW n \in Notes, n.kind = "empty", posted' = [posted EXCEPT ![w] = Append(@, n)]
        PROVE  Prompted'
    BY <1>0, <1>10, <2>1, <2>3, PromptedPosts
  <2> QED
    BY <1>15, <2>2, <2>3
<1>21. Heard'
  <2>1. \A t \in Ids : Said(t) => Said(t)'
    <3>1. CASE posted' = posted
      BY <3>1 DEF Said, Mail
    <3>2. ASSUME NEW n \in Notes, n.kind = "empty", posted' = [posted EXCEPT ![w] = Append(@, n)]
          PROVE  \A t \in Ids : Said(t) => Said(t)'
      BY <1>0, <3>2, SaidPosts
    <3> QED
      BY <1>15, <3>1, <3>2
  <2> QED
    BY <1>0, <1>1, <1>2, <1>10, <1>11, <1>13, <2>1 DEF Heard
<1> QED
  BY <1>16, <1>17, <1>18, <1>19, <1>20, <1>21 DEF IInv

\* Between handlers no session is being made or closed.
LEMMA WhenFree ==
    ASSUME IInv, Free
    PROVE  /\ closing = <<>> /\ Range(closing) = {}
           /\ \A s \in Ids : life[s] \notin {"made", "closing"}
           /\ \A w \in doomed : win[w].sessions = {}
<1>1. closing = <<>> /\ \A s \in Ids : life[s] # "made"
  BY DEF Free
<1>2. Range(closing) = {}
  BY <1>1 DEF Range
<1> QED
  BY <1>1, <1>2 DEF IInv, Lived, Agreed

\* A handler that closes nothing, or one session, agrees with whatever there is.
LEMMA AgreedFree ==
    ASSUME IInv, Free, UNCHANGED <<life, observer, router, win, shown>>,
           \A w \in doomed' : win[w].sessions = {}
    PROVE  Agreed'
BY DEF IInv, Agreed, PointersAgree

-----------------------------------------------------------------------------
(* What was posted to a window *)

\* A session that ended is closed, or shows the bar, or is not in this window.
LEMMA EndedStep ==
    ASSUME SessionsAssumption, IInv, NEW w \in Windows, NEW n \in Notes, Free, posted[w] # <<>>,
           n = Head(posted[w]), n.kind = "ended", posted' = [posted EXCEPT ![w] = Tail(@)],
           Ended(w, n), UNCHANGED <<thread, record, win, shown>>
    PROVE  IInv'
<1> USE DEF thread, record
<1> DEFINE s == n.session
<1>0. Typed /\ (\A t \in Ids : Lived(t)) /\ Agreed /\ Noticed /\ Prompted /\ Heard
  BY DEF IInv
<1>1. True(n)
  <2>1. 1 \in Mail(w) /\ n = posted[w][1]
    BY <1>0, Reads
  <2> QED
    BY <1>0, <2>1, OnItsWay
<1>2. /\ s \in Ids /\ n.reason \in {"Clean", "Interrupted", "Deliberate"}
      /\ life[s] # "gone" => Over(s) /\ (n.reason = "Deliberate" => life[s] = "closing")
  BY <1>1 DEF True, Notes
<1> HIDE DEF s
<1>3. /\ closing = <<>> /\ Range(closing) = {}
      /\ \A t \in Ids : life[t] \notin {"made", "closing"}
      /\ \A v \in doomed : win[v].sessions = {}
  BY WhenFree
<1>4. /\ closing' = IF n.reason = "Clean" \/ (n.reason = "Interrupted" /\ kind[s] = "pty")
                    THEN <<s>> ELSE <<>>
      /\ bar' = [bar EXCEPT ![s] = @ \/ (n.reason = "Interrupted" /\ s \in win[w].sessions)]
      /\ missed' = IF n.reason = "Interrupted" /\ s \notin win[w].sessions /\ life[s] = "open"
                   THEN missed \union {s} ELSE missed
      /\ UNCHANGED <<dialogs, doomed>>
  BY DEF Ended, s
<1>5. /\ closing' \in Seq(Ids) /\ missed' \subseteq Ids /\ missed \subseteq missed'
      /\ closing' = <<s>> \/ closing' = <<>>
  BY <1>0, <1>2, <1>4 DEF Typed
<1>6. /\ bar' \in [Ids -> BOOLEAN] /\ \A t \in Ids \ {s} : bar'[t] = bar[t]
      /\ bar'[s] = (bar[s] \/ (n.reason = "Interrupted" /\ s \in win[w].sessions))
  BY <1>0, <1>2, <1>4 DEF Typed
<1>7. s \in win[w].sessions => life[s] \in Listed
  BY <1>0 DEF Agreed, PointersAgree, Listed
<1>8. posted' \in [Windows -> Seq(Notes)]
  BY <1>0, Reads
<1>9. Typed'
  BY <1>0, <1>4, <1>5, <1>6, <1>8 DEF Typed
<1>10. ASSUME NEW t \in Ids
       PROVE  Lived(t)'
  <2>1. Lived(t)
    BY <1>0
  <2> QED
    BY <1>3, <1>4, <1>6, <1>7, <2>1 DEF Lived, Listed
<1>11. Agreed'
  BY <1>3, <1>4, AgreedFree
<1>12. Noticed'
  <2>1. ASSUME NEW t \in Ids, Said(t), ~IsAbout(Head(posted[w]), "ended", t)
        PROVE  Keeps(t)
    <3>1. t # s
      BY <2>1 DEF IsAbout, s
    <3> QED
      BY <1>6, <3>1 DEF Keeps, Over
  <2>2. ASSUME NEW t \in Ids, bar'[t]
        PROVE  worker'[t] = "done" /\ status'[t] = "Disconnected"
    <3>1. bar[t] => worker[t] = "done" /\ status[t] = "Disconnected"
      BY <1>0 DEF Noticed
    <3>2. CASE bar[t]
      BY <3>1, <3>2
    <3>3. CASE ~bar[t]
      <4>1. t = s /\ s \in win[w].sessions
        BY <1>6, <2>2, <3>3
      <4>2. Over(s)
        BY <1>2, <1>7, <4>1 DEF Listed
      <4> QED
        BY <4>1, <4>2 DEF Over
    <3> QED
      BY <3>2, <3>3
  <2> QED
    BY <1>0, <2>1, <2>2, NoticedReads DEF BarsAgree
<1>13. Prompted'
  BY <1>0, <1>4, PromptedReads
<1>14. Heard'
  <2>1. \A t \in Ids : Said(t) => Said(t)' \/ t = s
    <3>1. ASSUME NEW t \in Ids, Said(t)
          PROVE  Said(t)' \/ t = s
      BY <1>0, <3>1, SaidReads DEF IsAbout, s
    <3> QED
      BY <3>1
  <2>2. ASSUME life[s] = "open"
        PROVE  s \in missed' \/ bar'[s] \/ s \in Range(closing')
    <3>1. CASE closing' = <<s>>
      BY <3>1 DEF Range
    <3>2. CASE closing' # <<s>>
      BY <1>2, <1>4, <1>6, <2>2, <3>2
    <3> QED
      BY <3>1, <3>2
  <2> QED
    BY <1>0, <1>2, <1>3, <1>5, <1>6, <2>1, <2>2 DEF Heard
<1> QED
  BY <1>9, <1>10, <1>11, <1>12, <1>13, <1>14 DEF IInv

\* Whatever else was posted leaves the bars as they are.
LEMMA OtherStep ==
    ASSUME SessionsAssumption, IInv, NEW w \in Windows, NEW n \in Notes, Free, posted[w] # <<>>,
           n = Head(posted[w]), n.kind # "ended", posted' = [posted EXCEPT ![w] = Tail(@)],
           \/ n.kind = "prompt" /\ Prompt(n)
           \/ n.kind = "close" /\ CloseTab(n)
           \/ n.kind = "empty" /\ CloseIfEmpty(w),
           UNCHANGED <<thread, record, win, shown>>
    PROVE  IInv'
<1> USE DEF thread, record
<1>0. Typed /\ (\A t \in Ids : Lived(t)) /\ Agreed /\ Noticed /\ Prompted /\ Heard
  BY DEF IInv
<1>1. True(n)
  <2>1. 1 \in Mail(w) /\ n = posted[w][1]
    BY <1>0, Reads
  <2> QED
    BY <1>0, <2>1, OnItsWay
<1>2. n.kind # "empty" => n.session \in Ids
  BY <1>1 DEF True
<1>3. /\ closing = <<>> /\ Range(closing) = {}
      /\ \A t \in Ids : life[t] \notin {"made", "closing"}
      /\ \A v \in doomed : win[v].sessions = {}
  BY WhenFree
<1>4. /\ bar' = bar /\ missed' = missed
      /\ dialogs' = IF n.kind = "prompt" THEN Append(dialogs, n.session) ELSE dialogs
      /\ closing' = closing \/ (n.session \in Ids /\ closing' = <<n.session>>)
      /\ \A v \in doomed' : v \in Windows /\ win[v].sessions = {}
  <2>1. doomed \subseteq Windows
    BY <1>0 DEF Typed
  <2> QED
    BY <1>2, <1>3, <2>1 DEF Prompt, CloseTab, CloseIfEmpty
<1>5. /\ closing' \in Seq(Ids) /\ doomed' \subseteq Windows /\ dialogs' \in Seq(Ids)
      /\ posted' \in [Windows -> Seq(Notes)]
  <2>1. posted' \in [Windows -> Seq(Notes)]
    BY <1>0, Reads
  <2>2. dialogs' \in Seq(Ids)
    <3>1. dialogs \in Seq(Ids)
      BY <1>0 DEF Typed
    <3>2. CASE n.kind = "prompt"
      <4>1. n.session \in Ids /\ dialogs' = Append(dialogs, n.session)
        BY <1>2, <1>4, <3>2
      <4> QED
        BY <3>1, <4>1, AppendProperties
    <3>3. CASE n.kind # "prompt"
      BY <1>4, <3>1, <3>3
    <3> QED
      BY <3>2, <3>3
  <2>3. closing' \in Seq(Ids)
    <3>1. closing \in Seq(Ids)
      BY <1>0 DEF Typed
    <3>2. ASSUME NEW x \in Ids
          PROVE  <<x>> \in Seq(Ids)
      OBVIOUS
    <3> QED
      BY <1>4, <3>1, <3>2
  <2> QED
    BY <1>4, <2>1, <2>2, <2>3
<1>6. Typed'
  BY <1>0, <1>4, <1>5 DEF Typed
<1>7. ASSUME NEW t \in Ids
      PROVE  Lived(t)'
  <2>1. Lived(t)
    BY <1>0
  <2> QED
    BY <1>3, <1>4, <2>1 DEF Lived
<1>8. Agreed'
  BY <1>4, AgreedFree
<1>9. Noticed'
  <2>1. \A t \in Ids : Keeps(t)
    BY <1>4 DEF Keeps, Over
  <2>2. BarsAgree'
    BY <1>0, <1>4 DEF BarsAgree, Noticed
  <2> QED
    BY <1>0, <2>1, <2>2, NoticedReads
<1>10. Prompted'
  BY <1>0, <1>4, PromptedReads
<1>11. Heard'
  <2>1. ASSUME NEW t \in Ids, Said(t)
        PROVE  Said(t)'
    BY <1>0, <2>1, SaidReads DEF IsAbout
  <2> QED
    BY <1>0, <1>3, <1>4, <2>1 DEF Heard
<1> QED
  BY <1>6, <1>7, <1>8, <1>9, <1>10, <1>11 DEF IInv

\* Handling what was posted to a window.
LEMMA HandleStep ==
    ASSUME SessionsAssumption, IInv, NEW w \in Windows, Handle(w)
    PROVE  IInv'
<1>1. Head(posted[w]) \in Notes
  BY Reads DEF Handle, IInv
<1>2. PICK n \in Notes : n = Head(posted[w])
  BY <1>1
<1>3. /\ Free /\ posted[w] # <<>> /\ posted' = [posted EXCEPT ![w] = Tail(@)]
      /\ UNCHANGED <<thread, record, win, shown>>
  BY DEF Handle
<1>4. \/ n.kind = "ended" /\ Ended(w, n)
      \/ n.kind = "prompt" /\ Prompt(n)
      \/ n.kind = "close" /\ CloseTab(n)
      \/ n.kind = "empty" /\ CloseIfEmpty(w)
  BY <1>2 DEF Handle
<1>5. CASE n.kind = "ended"
  BY <1>2, <1>3, <1>4, <1>5, EndedStep
<1>6. CASE n.kind # "ended"
  BY <1>2, <1>3, <1>4, <1>6, OtherStep
<1> QED
  BY <1>5, <1>6

\* What a sequence holds beside its last.
LEMMA AllButLast ==
    ASSUME NEW S, NEW q \in Seq(S), q # <<>>
    PROVE  /\ Front(q) \in Seq(S) /\ Len(Front(q)) = Len(q) - 1
           /\ \A i \in 1..(Len(q) - 1) : Front(q)[i] = q[i]
<1>1. PICK k \in Nat : Len(q) = k + 1
  <2>1. Len(q) \in Nat /\ Len(q) # 0
    BY EmptySeq
  <2> QED
    BY <2>1
<1>2. /\ SubSeq(q, 1, k) \in Seq(S) /\ Len(SubSeq(q, 1, k)) = k
      /\ \A i \in 1..k : SubSeq(q, 1, k)[i] = q[i]
  BY <1>1
<1>3. Len(q) - 1 = k
  BY <1>1
<1> QED
  BY <1>2, <1>3 DEF Front

\* The user answers, and the thread that asked connects on.
LEMMA AnswerStep ==
    ASSUME SessionsAssumption, IInv, Answer
    PROVE  IInv'
<1> USE DEF record, windows
<1>0. Typed /\ (\A t \in Ids : Lived(t)) /\ Agreed /\ Noticed /\ Prompted /\ Heard
  BY DEF IInv
<1>1. /\ dialogs # <<>>
      /\ worker' = [worker EXCEPT ![Last(dialogs)] = "connecting"]
      /\ dialogs' = Front(dialogs)
      /\ UNCHANGED <<kind, running, link, status, record, bar, windows, closing, missed>>
  BY DEF Answer
<1> DEFINE m == Len(dialogs)
<1>2. dialogs \in Seq(Ids) /\ m \in Nat \ {0} /\ Last(dialogs) = dialogs[m] /\ dialogs[m] \in Ids
  <2>1. dialogs \in Seq(Ids)
    BY <1>0 DEF Typed
  <2>2. m \in Nat \ {0}
    BY <1>1, <2>1, EmptySeq
  <2>3. dialogs[m] \in Ids
    BY <2>1, <2>2, ElementOfSeq
  <2> QED
    BY <2>1, <2>2, <2>3 DEF Last
<1>3. PICK s \in Ids : s = dialogs[m]
  BY <1>2
<1>4. worker[s] = "prompting"
  BY <1>0, <1>2, <1>3 DEF Prompted
<1>5. /\ worker' \in [Ids -> {"none", "done"} \union Working] /\ worker'[s] = "connecting"
      /\ \A t \in Ids \ {s} : worker'[t] = worker[t]
  BY <1>0, <1>1, <1>2, <1>3 DEF Typed, Working
<1>6. /\ dialogs' \in Seq(Ids) /\ Len(dialogs') = m - 1 /\ \A i \in 1..(m - 1) : dialogs'[i] = dialogs[i]
  <2>1. dialogs' = Front(dialogs)
    BY <1>1
  <2> QED
    BY <1>1, <1>2, <2>1, AllButLast
<1>7. ASSUME NEW i \in 1..(m - 1)
      PROVE  dialogs[i] \in Ids /\ dialogs[i] # s /\ worker[dialogs[i]] = "prompting"
  BY <1>0, <1>2, <1>3 DEF Prompted
<1>8. Typed'
  BY <1>0, <1>1, <1>5, <1>6 DEF Typed
<1>9. ASSUME NEW t \in Ids
      PROVE  Lived(t)'
  <2>1. Lived(t)
    BY <1>0
  <2>2. life[t] # "made"
    BY <1>1, <2>1 DEF Lived
  <2> QED
    BY <1>1, <1>4, <1>5, <2>1, <2>2 DEF Lived, Working
<1>10. Agreed'
  BY <1>0, <1>1, AgreedStays
<1>11. Noticed'
  <2>1. \A t \in Ids : Keeps(t)
    BY <1>1, <1>4, <1>5 DEF Keeps, Over
  <2>2. BarsAgree'
    BY <1>0, <1>1, <1>4, <1>5 DEF BarsAgree, Noticed
  <2> QED
    BY <1>0, <1>1, <2>1, <2>2, NoticedStays
<1>12. Prompted'
  <2>1. Once("prompt")'
    BY <1>0, <1>1 DEF Prompted, Once, Mail
  <2>2. ASSUME NEW w \in Windows, NEW i \in Mail(w)', posted'[w][i].kind = "prompt"
        PROVE  worker'[posted'[w][i].session] = "prompting" /\ posted'[w][i].session \notin Range(dialogs')
    <3>1. i \in Mail(w) /\ posted'[w][i] = posted[w][i]
      BY <1>1 DEF Mail
    <3>2. True(posted[w][i])
      BY <1>0, <3>1, OnItsWay
    <3>3. /\ posted[w][i].session \in Ids /\ worker[posted[w][i].session] = "prompting"
          /\ posted[w][i].session \notin Range(dialogs)
      BY <1>0, <2>2, <3>1, <3>2 DEF Prompted, True
    <3>4. s \in Range(dialogs)
      BY <1>2, <1>3 DEF Range
    <3>5. ASSUME NEW x \in Range(dialogs')
          PROVE  x \in Range(dialogs)
      BY <1>2, <1>6 DEF Range
    <3> QED
      BY <1>5, <3>1, <3>3, <3>4, <3>5
  <2>3. \A i \in 1..Len(dialogs') : worker'[dialogs'[i]] = "prompting"
    BY <1>5, <1>6, <1>7
  <2>4. \A i, j \in 1..Len(dialogs') : dialogs'[i] = dialogs'[j] => i = j
    BY <1>0, <1>2, <1>6 DEF Prompted
  <2> QED
    BY <2>1, <2>2, <2>3, <2>4 DEF Prompted
<1>13. Heard'
  <2>1. \A t \in Ids : Said(t)' = Said(t)
    BY <1>1 DEF Said, Mail
  <2> QED
    BY <1>0, <1>1, <1>5, <2>1 DEF Heard
<1> QED
  BY <1>8, <1>9, <1>10, <1>11, <1>12, <1>13 DEF IInv

-----------------------------------------------------------------------------
(* The user *)

\* A close that is asked for is posted.
LEMMA RequestCloseStep ==
    ASSUME SessionsAssumption, IInv, NEW w \in Windows, NEW s \in Ids, RequestClose(w, s)
    PROVE  IInv'
<1> USE DEF thread, record
<1>0. Typed /\ (\A t \in Ids : Lived(t)) /\ Agreed /\ Noticed /\ Prompted /\ Heard
  BY DEF IInv
<1>1. Note("close", s, "none") \in Notes
  BY <1>0 DEF Typed, Notes, Note
<1>2. PICK n \in Notes : n = Note("close", s, "none")
  BY <1>1
<1>3. n.kind = "close" /\ n.session = s
  BY <1>2 DEF Note
<1>4. /\ posted' = [posted EXCEPT ![w] = Append(@, n)]
      /\ UNCHANGED <<thread, record, bar, win, shown, doomed, dialogs, closing, missed>>
  BY <1>2 DEF RequestClose
<1>5. posted' \in [Windows -> Seq(Notes)]
  BY <1>0, <1>4, Posts
<1>6. Typed'
  BY <1>0, <1>4, <1>5 DEF Typed
<1>7. \A t \in Ids : Lived(t)'
  BY <1>0, <1>4 DEF Lived
<1>8. Agreed'
  BY <1>0, <1>4, AgreedStays
<1>9. Noticed'
  <2>1. \A t \in Ids : Keeps(t)
    BY <1>4 DEF Keeps, Over
  <2>2. BarsAgree'
    BY <1>0, <1>4 DEF BarsAgree, Noticed
  <2>3. True(n)'
    BY <1>3 DEF True
  <2> QED
    BY <1>0, <1>3, <1>4, <2>1, <2>2, <2>3, NoticedPosts
<1>10. Prompted'
  BY <1>0, <1>3, <1>4, PromptedPosts
<1>11. Heard'
  <2>1. \A t \in Ids : Said(t) => Said(t)'
    BY <1>0, <1>4, SaidPosts
  <2> QED
    BY <1>0, <1>4, <2>1 DEF Heard
<1> QED
  BY <1>6, <1>7, <1>8, <1>9, <1>10, <1>11 DEF IInv

\* The steps of the user that touch neither a session nor what was posted.
LEMMA UserQuiet ==
    ASSUME SessionsAssumption, IInv, Free, UNCHANGED <<thread, record, bar, posted, dialogs, missed>>,
           closing' \in Seq(Ids), shown' \subseteq Windows, doomed' \subseteq Windows, Agreed',
           win' \in [Windows -> Window], \A w \in Windows : win'[w].sessions = win[w].sessions
    PROVE  IInv'
<1> USE DEF thread, record
<1>0. Typed /\ (\A t \in Ids : Lived(t)) /\ Noticed /\ Prompted /\ Heard
  BY DEF IInv
<1>1. Range(closing) = {} /\ \A t \in Ids : life[t] \notin {"made", "closing"}
  BY WhenFree
<1>2. Typed'
  BY <1>0 DEF Typed
<1>3. ASSUME NEW t \in Ids
      PROVE  Lived(t)'
  <2>1. Lived(t)
    BY <1>0
  <2> QED
    BY <1>1, <2>1 DEF Lived
<1>4. Noticed'
  <2>1. \A t \in Ids : Keeps(t)
    BY DEF Keeps, Over
  <2>2. BarsAgree'
    BY <1>0 DEF BarsAgree, Noticed
  <2> QED
    BY <1>0, <2>1, <2>2, NoticedStays
<1>5. Prompted'
  BY <1>0, PromptedStays
<1>6. Heard'
  <2>1. \A t \in Ids : Said(t)' = Said(t)
    BY DEF Said, Mail
  <2> QED
    BY <1>0, <1>1, <2>1 DEF Heard
<1> QED
  BY <1>2, <1>3, <1>4, <1>5, <1>6 DEF IInv

\* A set put in a row is all in it.
LEMMA AllInARow ==
    ASSUME NEW S, IsFiniteSet(S), NEW q \in SetToSeqs(S)
    PROVE  q \in Seq(S) /\ Range(q) = S
<1>1. PICK n \in Nat : n = Cardinality(S)
  BY FS_CardinalityType
<1>2. q \in [1..n -> S] /\ \A i, j \in 1..n : i # j => q[i] # q[j]
  BY <1>1 DEF SetToSeqs
<1>3. q \in Injection(1..n, S)
  BY <1>2 DEF Injection, IsInjective
<1>4. Cardinality(1..n) = n
  BY FS_Interval
<1>5. q \in Surjection(1..n, S)
  BY <1>1, <1>3, <1>4, FS_Injection
<1>6. q \in Seq(S)
  BY <1>2
<1>7. DOMAIN q = 1..n /\ \A x \in S : \E i \in 1..n : q[i] = x
  BY <1>2, <1>5 DEF Surjection
<1> QED
  BY <1>2, <1>6, <1>7 DEF Range

\* What the user does to a window or a bar: closes, activates, broadcasts.
LEMMA WindowSteps ==
    ASSUME SessionsAssumption, IInv,
           \/ \E s \in Ids : BarClose(s)
           \/ \E w \in Windows : CloseWindow(w) \/ Destroy(w)
           \/ \E w \in Windows, s \in Ids : ToggleTileBroadcast(w, s) \/ Activate(w, s)
    PROVE  IInv'
<1> USE DEF windows
<1>0. Typed /\ Agreed
  BY DEF IInv
<1>1. win \in [Windows -> Window] /\ closing \in Seq(Ids) /\ shown \subseteq Windows /\ doomed \subseteq Windows
  BY <1>0 DEF Typed
<1>2. ASSUME Free
      PROVE  /\ closing = <<>> /\ Range(closing) = {}
             /\ \A s \in Ids : life[s] \notin {"made", "closing"}
             /\ \A w \in doomed : win[w].sessions = {}
  BY <1>2, WhenFree
<1>3. ASSUME NEW s \in Ids, BarClose(s)
      PROVE  IInv'
  <2>1. /\ Free /\ closing' = <<s>> /\ UNCHANGED <<thread, record, bar, windows, dialogs, missed>>
    BY <1>3 DEF BarClose, UserFree
  <2>2. Agreed'
    BY <1>2, <2>1, AgreedFree DEF record
  <2>3. closing' \in Seq(Ids)
    BY <2>1
  <2> QED
    BY <1>1, <2>1, <2>2, <2>3, UserQuiet
<1>4. ASSUME NEW w \in Windows, CloseWindow(w)
      PROVE  IInv'
  <2>1. /\ Free /\ closing' \in SetToSeqs(win[w].sessions) /\ doomed' = doomed \union {w}
        /\ UNCHANGED <<thread, record, bar, win, posted, shown, dialogs, missed>>
    BY <1>4 DEF CloseWindow, UserFree
  <2>2. IsFiniteSet(win[w].sessions) /\ win[w].sessions \subseteq Ids
    BY <1>1, FS_Subset DEF SessionsAssumption, Window
  <2>3. closing' \in Seq(win[w].sessions) /\ Range(closing') = win[w].sessions
    BY <2>1, <2>2, AllInARow
  <2>4. closing' \in Seq(Ids)
    BY <2>2, <2>3
  <2>5. \A v \in doomed' : win'[v].sessions \subseteq Range(closing')
    BY <1>2, <2>1, <2>3
  <2>6. Agreed'
    BY <1>0, <2>1, <2>5 DEF Agreed, PointersAgree, record
  <2> QED
    BY <1>1, <2>1, <2>4, <2>6, UserQuiet
<1>5. ASSUME NEW w \in Windows, Destroy(w)
      PROVE  IInv'
  <2>1. /\ Free /\ w \in doomed /\ shown' = shown \ {w}
        /\ UNCHANGED <<thread, record, bar, win, posted, doomed, dialogs, closing, missed>>
    BY <1>5 DEF Destroy
  <2>2. \A s \in Ids : life[s] \in {"open", "closing"} => observer[s] # w
    BY <1>0, <1>2, <2>1 DEF Agreed, PointersAgree
  <2>3. Agreed'
    BY <1>0, <1>2, <2>1, <2>2 DEF Agreed, PointersAgree, record
  <2> QED
    BY <1>1, <2>1, <2>3, UserQuiet
<1>6. ASSUME NEW w \in Windows, NEW r, IsWindow(r, win[w].sessions), Free, win' = [win EXCEPT ![w] = r],
             UNCHANGED <<thread, record, bar, posted, shown, doomed, dialogs, closing, missed>>
      PROVE  IInv'
  <2>1. /\ win' \in [Windows -> Window] /\ win'[w] = r /\ r.sessions = win[w].sessions /\ Tidy(r)
        /\ \A v \in Windows \ {w} : win'[v] = win[v]
    BY <1>1, <1>6 DEF IsWindow
  <2>2. \A v \in Windows : win'[v].sessions = win[v].sessions
    BY <2>1
  <2>3. \A v \in Windows : Tidy(win'[v])
    <3>1. \A v \in Windows : Tidy(win[v])
      BY <1>0 DEF Agreed, PointersAgree, Tidy
    <3> QED
      BY <2>1, <3>1
  <2>4. Agreed'
    BY <1>0, <1>1, <1>6, <2>2, <2>3 DEF Agreed, PointersAgree, Tidy, record
  <2> QED
    BY <1>1, <1>6, <2>1, <2>2, <2>4, UserQuiet
<1>7. \A w \in Windows : win[w] \in Window /\ Tidy(win[w])
  BY <1>0, <1>1 DEF Agreed, PointersAgree, Tidy
<1>8. ASSUME NEW w \in Windows, NEW s \in Ids, ToggleTileBroadcast(w, s)
      PROVE  IInv'
  <2> DEFINE r == [win[w] EXCEPT !.selected = IF s \in @ THEN @ \ {s} ELSE @ \union {s}]
  <2>1. /\ Free /\ s \in win[w].sessions
        /\ win' = [win EXCEPT ![w].selected = IF s \in @ THEN @ \ {s} ELSE @ \union {s}]
        /\ UNCHANGED <<thread, record, bar, posted, shown, doomed, dialogs, closing, missed>>
    BY <1>8 DEF ToggleTileBroadcast, UserFree
  <2>2. win' = [win EXCEPT ![w] = r]
    BY <1>1, <2>1
  <2>3. IsWindow(r, win[w].sessions)
    BY <1>7, <2>1 DEF IsWindow, Window, Tidy
  <2> HIDE DEF r
  <2> QED
    BY <1>6, <2>1, <2>2, <2>3
<1>9. ASSUME NEW w \in Windows, NEW s \in Ids, Activate(w, s)
      PROVE  IInv'
  <2> DEFINE r == RequestActivate(win[w], s)
  <2>1. /\ Free /\ s \in win[w].sessions /\ win' = [win EXCEPT ![w] = r]
        /\ UNCHANGED <<thread, record, bar, posted, shown, doomed, dialogs, closing, missed>>
    BY <1>1, <1>9 DEF Activate, UserFree
  <2>2. IsWindow(r, win[w].sessions)
    BY <1>7, <2>1, Activated DEF Tidy
  <2> HIDE DEF r
  <2> QED
    BY <1>6, <2>1, <2>2
<1> QED
  BY <1>3, <1>4, <1>5, <1>8, <1>9

\* The bar's button makes a new connection for a session whose end has been handled.
LEMMA ReplaceStep ==
    ASSUME SessionsAssumption, IInv, NEW s \in Ids, ReplaceConnection(s)
    PROVE  IInv'
<1> USE DEF record, windows
<1>0. Typed /\ (\A t \in Ids : Lived(t)) /\ Agreed /\ Noticed /\ Prompted /\ Heard
  BY DEF IInv
<1>1. /\ Free /\ bar[s] /\ life[s] = "open" /\ link[s] < MaxLinks
      /\ bar' = [bar EXCEPT ![s] = FALSE] /\ link' = [link EXCEPT ![s] = @ + 1]
      /\ status' = [status EXCEPT ![s] = "Reconnecting"]
      /\ Start(s, kind[s])
      /\ UNCHANGED <<kind, record, windows, dialogs, closing>>
  BY DEF ReplaceConnection, UserFree
<1>2. /\ worker' \in [Ids -> {"none", "done"} \union Working]
      /\ running' \in [Ids -> BOOLEAN] /\ missed' \subseteq Ids /\ missed \subseteq missed'
      /\ \A t \in Ids \ {s} : worker'[t] = worker[t] /\ running'[t] = running[t]
      /\ \/ worker'[s] = "none" /\ s \in missed'
         \/ worker'[s] \in {"connecting", "looping"} /\ running'[s]
  BY <1>0, <1>1, Starts
<1>3. /\ bar' \in [Ids -> BOOLEAN] /\ ~bar'[s]
      /\ link' \in [Ids -> 0..MaxLinks]
      /\ status' \in [Ids -> {"Connected", "Reconnecting", "Disconnected"}]
      /\ \A t \in Ids \ {s} : bar'[t] = bar[t] /\ link'[t] = link[t] /\ status'[t] = status[t]
  BY <1>0, <1>1 DEF Typed, SessionsAssumption
<1>4. worker[s] = "done" /\ ~Said(s)
  BY <1>0, <1>1, SaidIsOver DEF Noticed, Over
<1>5. Typed'
  BY <1>0, <1>1, <1>2, <1>3 DEF Typed
<1>6. ASSUME NEW t \in Ids
      PROVE  Lived(t)'
  <2>1. Lived(t)
    BY <1>0
  <2> QED
    BY <1>1, <1>2, <1>3, <2>1 DEF Lived, Working
<1>7. Agreed'
  BY <1>0, <1>1, AgreedStays
<1>8. Noticed'
  <2>1. ASSUME NEW t \in Ids, Said(t)
        PROVE  Keeps(t)
    <3>1. t # s
      BY <1>4, <2>1
    <3> QED
      BY <1>1, <1>2, <1>3, <3>1 DEF Keeps, Over
  <2>2. BarsAgree'
    BY <1>0, <1>2, <1>3 DEF BarsAgree, Noticed
  <2> QED
    BY <1>0, <1>1, <2>1, <2>2, NoticedStays
<1>9. Prompted'
  <2>1. \A t \in Ids : worker[t] = "prompting" => worker'[t] = "prompting"
    BY <1>2, <1>4
  <2> QED
    BY <1>0, <1>1, <2>1, PromptedStays
<1>10. Heard'
  <2>1. \A t \in Ids : Said(t)' = Said(t)
    BY <1>1 DEF Said, Mail
  <2> QED
    BY <1>0, <1>1, <1>2, <1>3, <2>1 DEF Heard
<1> QED
  BY <1>5, <1>6, <1>7, <1>8, <1>9, <1>10 DEF IInv

\* What a move makes of the windows.
LEMMA Moves ==
    ASSUME SessionsAssumption, IInv, NEW s \in Ids, NEW src \in Windows, NEW dst \in Windows,
           DropSession(s, src, dst)
    PROVE  /\ win' \in [Windows -> Window] /\ \A v \in Windows : Tidy(win'[v])
           /\ \A v \in Windows :
                win'[v].sessions = (win[v].sessions \ {s}) \union (IF v = dst THEN {s} ELSE {})
           /\ posted' = posted \/ \E n \in Notes : n.kind = "empty" /\ posted' = [posted EXCEPT ![src] = Append(@, n)]
<1>0. Typed /\ Agreed
  BY DEF IInv
<1> DEFINE moved == IF src = dst THEN win
                    ELSE [win EXCEPT ![src] = RemoveTarget(@, s), ![dst] = AddTarget(@, s)]
<1>1. PICK left \in TearDown(moved[src], s) :
        /\ win' = [[moved EXCEPT ![src] = left] EXCEPT ![dst] = TakeSession(@, s)]
        /\ posted' = [posted EXCEPT ![src] = @ \o GridEmpty(src, s, left)]
  BY DEF DropSession
<1>2. /\ win \in [Windows -> Window]
      /\ \A v \in Windows : win[v] \in Window /\ Tidy(win[v])
  BY <1>0 DEF Typed, Agreed, PointersAgree, Tidy
<1>3. /\ s \in win[src].sessions
      /\ \A v \in Windows : (s \in win[v].sessions) = (v = src)
  <2>1. s \in win[src].sessions
    BY DEF DropSession
  <2>2. life[s] \in {"open", "closing"}
    BY <1>0, <2>1 DEF Agreed, PointersAgree
  <2>3. \A v \in Windows : (s \in win[v].sessions) = (v = observer[s])
    BY <1>0, <2>2 DEF Agreed, PointersAgree
  <2> QED
    BY <2>1, <2>3
<1>4. posted' = posted \/ \E n \in Notes : n.kind = "empty" /\ posted' = [posted EXCEPT ![src] = Append(@, n)]
  BY <1>0, <1>1, EmptyPosts
<1>5. CASE src = dst
  <2> DEFINE r == TakeSession(left, s)
  <2>1. left \in TearDown(win[src], s)
    BY <1>1, <1>5
  <2>2. IsWindow(r, win[src].sessions)
    BY <1>2, <1>3, <2>1, ComesBack
  <2>3. win' = [win EXCEPT ![src] = r]
    <3> DEFINE q == [win EXCEPT ![src] = left]
    <3>0. ASSUME NEW x
          PROVE  [q EXCEPT ![src] = x] = [win EXCEPT ![src] = x]
      BY <1>2
    <3>1. q[src] = left
      BY <1>2
    <3>2. moved = win
      BY <1>5
    <3> HIDE DEF moved
    <3>3. win' = [q EXCEPT ![src] = TakeSession(@, s)]
      BY <1>1, <1>5, <3>2
    <3>4. win' = [q EXCEPT ![src] = r]
      BY <3>1, <3>3
    <3> HIDE DEF r
    <3>5. [q EXCEPT ![src] = r] = [win EXCEPT ![src] = r]
      BY <3>0
    <3> QED
      BY <3>4, <3>5
  <2> HIDE DEF r
  <2>4. /\ win' \in [Windows -> Window] /\ win'[src] = r /\ r.sessions = win[src].sessions /\ Tidy(r)
        /\ \A v \in Windows \ {src} : win'[v] = win[v]
    BY <1>2, <2>2, <2>3 DEF IsWindow
  <2>5. \A v \in Windows : Tidy(win'[v])
    BY <1>2, <2>4
  <2>6. ASSUME NEW v \in Windows
        PROVE  win'[v].sessions = (win[v].sessions \ {s}) \union (IF v = dst THEN {s} ELSE {})
    <3>1. win'[v].sessions = win[v].sessions
      BY <2>4
    <3> QED
      BY <1>3, <1>5, <3>1
  <2> QED
    BY <1>4, <2>4, <2>5, <2>6
<1>6. CASE src # dst
  <2> DEFINE r == TakeSession(AddTarget(win[dst], s), s)
             m == [win EXCEPT ![src] = RemoveTarget(@, s), ![dst] = AddTarget(@, s)]
  <2>1. /\ m[src] = RemoveTarget(win[src], s) /\ m[dst] = AddTarget(win[dst], s)
        /\ DOMAIN m = Windows /\ \A v \in Windows \ {src, dst} : m[v] = win[v]
    BY <1>2, <1>6
  <2>2. moved = m
    BY <1>6
  <2> HIDE DEF m, moved
  <2>3. left \in TearDown(RemoveTarget(win[src], s), s)
    BY <1>1, <2>1, <2>2
  <2>4. IsWindow(left, win[src].sessions \ {s})
    BY <1>2, <1>3, <2>3, Goes
  <2>5. IsWindow(r, win[dst].sessions \union {s})
    BY <1>2, Takes DEF Tidy
  <2>6. /\ DOMAIN win' = Windows /\ win'[src] = left /\ win'[dst] = r
        /\ \A v \in Windows \ {src, dst} : win'[v] = win[v]
        /\ win' = [v \in Windows |-> win'[v]]
    <3> DEFINE q == [m EXCEPT ![src] = left]
    <3>1. DOMAIN q = Windows /\ q[src] = left /\ q[dst] = m[dst] /\ \A v \in Windows \ {src, dst} : q[v] = m[v]
      BY <1>6, <2>1
    <3> HIDE DEF q
    <3>2. win' = [q EXCEPT ![dst] = TakeSession(@, s)]
      BY <1>1, <2>2 DEF q
    <3> QED
      BY <1>6, <2>1, <3>1, <3>2
  <2> HIDE DEF r
  <2>7. /\ \A v \in Windows : win'[v] \in Window /\ Tidy(win'[v])
        /\ win'[src].sessions = win[src].sessions \ {s}
        /\ win'[dst].sessions = win[dst].sessions \union {s}
    BY <1>2, <2>4, <2>5, <2>6 DEF IsWindow
  <2>8. win' \in [Windows -> Window]
    BY <2>6, <2>7
  <2>9. ASSUME NEW v \in Windows
        PROVE  win'[v].sessions = (win[v].sessions \ {s}) \union (IF v = dst THEN {s} ELSE {})
    BY <1>3, <1>6, <2>6, <2>7
  <2> QED
    BY <1>4, <2>7, <2>8, <2>9
<1> QED
  BY <1>5, <1>6

\* A session that moves takes its observer along, and leaves its bar behind.
LEMMA DropStep ==
    ASSUME SessionsAssumption, IInv, NEW s \in Ids, NEW src \in Windows, NEW dst \in Windows,
           DropSession(s, src, dst)
    PROVE  IInv'
<1> USE DEF thread
<1>0. Typed /\ (\A t \in Ids : Lived(t)) /\ Agreed /\ Noticed /\ Prompted /\ Heard
  BY DEF IInv
<1>1. /\ Free /\ src \in shown /\ dst \notin doomed /\ s \in win[src].sessions
      /\ observer' = [observer EXCEPT ![s] = dst] /\ router' = [router EXCEPT ![s] = dst]
      /\ shown' = shown \union {dst}
      /\ missed' = IF bar[s] THEN missed \union {s} ELSE missed
      /\ bar' = [bar EXCEPT ![s] = FALSE]
      /\ UNCHANGED <<thread, life, doomed, dialogs, closing>>
  BY DEF DropSession, UserFree, Usable, SetSessionObserver
<1>2. /\ win' \in [Windows -> Window] /\ \A v \in Windows : Tidy(win'[v])
      /\ \A v \in Windows :
           win'[v].sessions = (win[v].sessions \ {s}) \union (IF v = dst THEN {s} ELSE {})
      /\ posted' = posted \/ \E n \in Notes : n.kind = "empty" /\ posted' = [posted EXCEPT ![src] = Append(@, n)]
  BY Moves
<1>3. /\ closing = <<>> /\ Range(closing) = {}
      /\ \A t \in Ids : life[t] \notin {"made", "closing"}
      /\ \A v \in doomed : win[v].sessions = {}
  BY <1>1, WhenFree
<1>4. life[s] = "open"
  BY <1>0, <1>1, <1>3 DEF Agreed, PointersAgree
<1>5. /\ observer' \in [Ids -> Windows \union {NoWindow}] /\ observer'[s] = dst
      /\ router' \in [Ids -> Windows \union {NoWindow}] /\ router'[s] = dst
      /\ bar' \in [Ids -> BOOLEAN] /\ ~bar'[s]
      /\ missed' \subseteq Ids /\ missed \subseteq missed' /\ (bar[s] => s \in missed')
      /\ \A t \in Ids \ {s} : observer'[t] = observer[t] /\ router'[t] = router[t] /\ bar'[t] = bar[t]
  BY <1>0, <1>1 DEF Typed
<1>6. Typed'
  <2>1. posted' \in [Windows -> Seq(Notes)]
    BY <1>0, <1>2, Posts DEF Typed
  <2> QED
    BY <1>0, <1>1, <1>2, <1>5, <2>1 DEF Typed
<1>7. ASSUME NEW t \in Ids
      PROVE  Lived(t)'
  <2>1. Lived(t)
    BY <1>0
  <2>2. CASE t = s
    BY <1>1, <1>4, <1>5, <2>1, <2>2 DEF Lived, Listed
  <2>3. CASE t # s
    <3>1. \A v \in Windows : t \in win'[v].sessions => t \in win[v].sessions
      BY <1>2, <2>3
    <3> QED
      BY <1>1, <1>5, <2>1, <2>3, <3>1 DEF Lived, Listed
  <2> QED
    BY <2>2, <2>3
<1>8. Agreed'
  <2>1. ASSUME NEW t \in Ids, life'[t] \in {"open", "closing"}
        PROVE  /\ observer'[t] \in shown' /\ router'[t] = observer'[t]
               /\ \A v \in Windows : (t \in win'[v].sessions) = (v = observer'[t])
    <3>1. CASE t = s
      <4>1. \A v \in Windows : (s \in win'[v].sessions) = (v = dst)
        BY <1>2
      <4> QED
        BY <1>1, <1>5, <3>1, <4>1
    <3>2. CASE t # s
      <4>1. /\ observer[t] \in shown /\ router[t] = observer[t]
            /\ \A v \in Windows : (t \in win[v].sessions) = (v = observer[t])
        BY <1>0, <1>1, <2>1 DEF Agreed, PointersAgree
      <4>2. \A v \in Windows : (t \in win'[v].sessions) = (t \in win[v].sessions)
        BY <1>2, <3>2
      <4> QED
        BY <1>1, <1>5, <3>2, <4>1, <4>2
    <3> QED
      BY <3>1, <3>2
  <2>2. ASSUME NEW v \in Windows
        PROVE  \A t \in win'[v].sessions : life'[t] \in {"open", "closing"}
    <3>1. \A t \in win[v].sessions : life[t] \in {"open", "closing"}
      BY <1>0 DEF Agreed, PointersAgree
    <3> QED
      BY <1>1, <1>2, <1>4, <3>1
  <2>3. \A v \in doomed' : win'[v].sessions \subseteq Range(closing')
    <3>1. ASSUME NEW v \in doomed
          PROVE  v \in Windows /\ win'[v].sessions = {}
      <4>1. v \in Windows /\ v # dst /\ win[v].sessions = {}
        BY <1>0, <1>1, <1>3 DEF Typed
      <4> QED
        BY <1>2, <4>1
    <3> QED
      BY <1>1, <3>1
  <2> QED
    BY <1>2, <2>1, <2>2, <2>3 DEF Agreed, PointersAgree, Tidy
<1>9. Noticed'
  <2>1. ASSUME NEW t \in Ids
        PROVE  Keeps(t)
    BY <1>1, <1>5 DEF Keeps, Over
  <2>2. BarsAgree'
    BY <1>0, <1>1, <1>5 DEF BarsAgree, Noticed
  <2>3. CASE posted' = posted
    BY <1>0, <2>1, <2>2, <2>3, NoticedStays
  <2>4. ASSUME NEW n \in Notes, n.kind = "empty", posted' = [posted EXCEPT ![src] = Append(@, n)]
        PROVE  Noticed'
    <3>1. True(n)'
      BY <2>4 DEF True
    <3> QED
      BY <1>0, <2>1, <2>2, <2>4, <3>1, NoticedPosts
  <2> QED
    BY <1>2, <2>3, <2>4
<1>10. Prompted'
  <2>1. \A t \in Ids : worker[t] = "prompting" => worker'[t] = "prompting"
    BY <1>1
  <2>2. CASE posted' = posted
    BY <1>0, <1>1, <2>1, <2>2, PromptedStays
  <2>3. ASSUME NEW n \in Notes, n.kind = "empty", posted' = [posted EXCEPT ![src] = Append(@, n)]
        PROVE  Prompted'
    BY <1>0, <1>1, <2>1, <2>3, PromptedPosts
  <2> QED
    BY <1>2, <2>2, <2>3
<1>11. Heard'
  <2>1. \A t \in Ids : Said(t) => Said(t)'
    <3>1. CASE posted' = posted
      BY <3>1 DEF Said, Mail
    <3>2. ASSUME NEW n \in Notes, n.kind = "empty", posted' = [posted EXCEPT ![src] = Append(@, n)]
          PROVE  \A t \in Ids : Said(t) => Said(t)'
      BY <1>0, <3>2, SaidPosts
    <3> QED
      BY <1>2, <3>1, <3>2
  <2> QED
    BY <1>0, <1>1, <1>3, <1>5, <2>1 DEF Heard
<1> QED
  BY <1>6, <1>7, <1>8, <1>9, <1>10, <1>11 DEF IInv

-----------------------------------------------------------------------------
(* The whole *)

\* It holds at the start.
LEMMA InitIInv ==
    ASSUME SessionsAssumption, Init
    PROVE  IInv
<1>1. Blank \in Window /\ Tidy(Blank)
  BY DEF Blank, Window, Tidy
<1>2. /\ \A w \in Windows : Mail(w) = {}
      /\ Range(closing) = {}
  BY DEF Init, Mail, Range
<1>3. Typed
  BY <1>1 DEF Init, Typed, SessionsAssumption
<1>4. \A s \in Ids : Lived(s)
  BY DEF Init, Lived, Listed, Working, Blank
<1>5. Agreed
  BY <1>1 DEF Init, Agreed, PointersAgree, Tidy, Blank
<1>6. Noticed
  BY <1>2 DEF Init, Noticed, Once
<1>7. Prompted
  BY <1>2 DEF Init, Prompted, Once
<1>8. Heard
  BY DEF Init, Heard
<1> QED
  BY <1>3, <1>4, <1>5, <1>6, <1>7, <1>8 DEF IInv

\* It holds after every step.
LEMMA NextIInv ==
    ASSUME SessionsAssumption, IInv, [Next]_vars
    PROVE  IInv'
<1>1. CASE Launch
  BY <1>1, CreateStep, ObserveStep DEF Launch
<1>2. CASE Threads
  BY <1>2, ThreadStep DEF Threads
<1>3. CASE Interface
  <2>1. CASE \E w \in Windows : Destroy(w)
    BY <2>1, WindowSteps
  <2> QED
    BY <1>3, <2>1, CloseSessionStep, StoppedStep, AnswerStep, HandleStep DEF Interface
<1>4. CASE User
  <2>1. CASE \/ \E s \in Ids : BarClose(s)
             \/ \E w \in Windows : CloseWindow(w)
             \/ \E w \in Windows, s \in Ids : ToggleTileBroadcast(w, s) \/ Activate(w, s)
    BY <2>1, WindowSteps
  <2> QED
    BY <1>4, <2>1, ReplaceStep, RequestCloseStep, DropStep DEF User
<1>5. CASE UNCHANGED vars
  BY <1>5 DEF vars, thread, record, windows, IInv, Typed, Lived, Agreed, PointersAgree, Noticed, Once,
       Mail, True, Over, Prompted, Heard, Said
<1> QED
  BY <1>1, <1>2, <1>3, <1>4, <1>5 DEF Next

\* Sessions, windows and what is posted between them are as IInv has them, always.
THEOREM SessionsGood == Spec => []IInv
<1>1. Init => IInv
  BY SessionsAssumption, InitIInv
<1>2. IInv /\ [Next]_vars => IInv'
  BY SessionsAssumption, NextIInv
<1> QED
  BY <1>1, <1>2, PTL DEF Spec

\* The notices of a kind about a session, by their places.
LEMMA Pendings ==
    ASSUME Typed, NEW s, NEW k
    PROVE  \A n : n \in Pending(s, k) <=>
             \E w \in Windows : \E i \in Mail(w) : n = posted[w][i] /\ IsAbout(n, k, s)
<1>1. ASSUME NEW w \in Windows
      PROVE  Range(posted[w]) = {posted[w][i] : i \in Mail(w)}
  <2>1. posted[w] \in Seq(Notes)
    BY DEF Typed
  <2>2. DOMAIN posted[w] = 1..Len(posted[w])
    BY <2>1
  <2> QED
    BY <2>2 DEF Range, Mail
<1> QED
  BY <1>1 DEF Pending, IsAbout

\* What is posted, what is shown and what the threads did agree in all that Sessions
\* asks of them.
LEMMA WhatIInvSays ==
    ASSUME IInv
    PROVE  NoticeIsAboutTheLink /\ PointersAgree /\ EndsAreHeard
<1>0. Typed /\ Agreed /\ Noticed /\ Heard
  BY DEF IInv
<1>1. ASSUME NEW s \in Ids
      PROVE  Cardinality(Pending(s, "ended")) <= 1
  <2>1. ASSUME NEW m \in Pending(s, "ended"), NEW n \in Pending(s, "ended")
        PROVE  m = n
    <3>1. PICK v \in Windows : \E i \in Mail(v) : m = posted[v][i] /\ IsAbout(m, "ended", s)
      BY <1>0, Pendings
    <3>2. PICK i \in Mail(v) : m = posted[v][i] /\ IsAbout(m, "ended", s)
      BY <3>1
    <3>3. PICK w \in Windows : \E j \in Mail(w) : n = posted[w][j] /\ IsAbout(n, "ended", s)
      BY <1>0, Pendings
    <3>4. PICK j \in Mail(w) : n = posted[w][j] /\ IsAbout(n, "ended", s)
      BY <3>3
    <3>5. v = w /\ i = j
      BY <1>0, <3>2, <3>4 DEF Noticed, Once, IsAbout
    <3> QED
      BY <3>2, <3>4, <3>5
  <2>2. CASE Pending(s, "ended") = {}
    BY <2>2, FS_EmptySet
  <2>3. CASE Pending(s, "ended") # {}
    <3>1. PICK n \in Pending(s, "ended") : TRUE
      BY <2>3
    <3>2. Pending(s, "ended") = {n}
      BY <2>1, <3>1
    <3> QED
      BY <3>2, FS_Singleton
  <2> QED
    BY <2>2, <2>3
<1>2. ASSUME NEW s \in Ids, life[s] # "gone", NEW n \in Pending(s, "ended")
      PROVE  n.link = link[s] /\ worker[s] = "done" /\ ~bar[s]
  <2>1. PICK w \in Windows : \E i \in Mail(w) : n = posted[w][i] /\ IsAbout(n, "ended", s)
    BY <1>0, Pendings
  <2>2. PICK i \in Mail(w) : n = posted[w][i] /\ IsAbout(n, "ended", s)
    BY <2>1
  <2>3. True(posted[w][i])
    BY <1>0, OnItsWay
  <2> QED
    BY <1>2, <2>2, <2>3 DEF True, Over, IsAbout
<1>3. NoticeIsAboutTheLink
  BY <1>0, <1>1, <1>2 DEF NoticeIsAboutTheLink, Noticed
<1>4. ASSUME NEW s \in Ids, Said(s)
      PROVE  Pending(s, "ended") # {}
  <2>1. PICK w \in Windows : \E i \in Mail(w) : IsAbout(posted[w][i], "ended", s)
    BY <1>4 DEF Said
  <2>2. PICK i \in Mail(w) : IsAbout(posted[w][i], "ended", s)
    BY <2>1
  <2>3. posted[w][i] \in Pending(s, "ended")
    BY <1>0, <2>2, Pendings
  <2> QED
    BY <2>3
<1>5. EndsAreHeard
  BY <1>0, <1>4 DEF EndsAreHeard, Heard
<1> QED
  BY <1>0, <1>3, <1>5 DEF Agreed

\* A notice that a connection ended is about the connection its session has: the
\* only way to a new one is the bar, which is the notice handled (SessionManager's
\* ReconnectSession, UIManager's session-ended handler).
THEOREM NoticesAreAboutTheLink == Spec => []NoticeIsAboutTheLink
<1>1. IInv => NoticeIsAboutTheLink
  BY WhatIInvSays
<1> QED
  BY <1>1, SessionsGood, PTL

\* Observer, router, window and keys agree on who has a session, through moves,
\* closes and windows going away in any order (App::DropSession,
\* SessionManager::CloseSession, MainFrame::OnClose, InputRouter).
THEOREM PointersAlwaysAgree == Spec => []PointersAgree
<1>1. IInv => PointersAgree
  BY WhatIInvSays
<1> QED
  BY <1>1, SessionsGood, PTL

\* No open session is over without a word, but for the three ways the code has
\* (Session's observer and what UIManager does with its notices).
THEOREM EndsAreAlwaysHeard == Spec => []EndsAreHeard
<1>1. IInv => EndsAreHeard
  BY WhatIInvSays
<1> QED
  BY <1>1, SessionsGood, PTL

\* The types hold, and a session on its way out is the one being closed.
THEOREM SessionsTypes == Spec => []TypeOK
<1>1. ASSUME IInv
      PROVE  TypeOK
  <2>1. Typed /\ \A s \in Ids : Lived(s)
    BY <1>1 DEF IInv
  <2>2. Range(dialogs) \union Range(closing) \subseteq Ids
    <3>1. dialogs \in Seq(Ids) /\ closing \in Seq(Ids)
      BY <2>1 DEF Typed
    <3>2. ASSUME NEW q \in Seq(Ids)
          PROVE  Range(q) \subseteq Ids
      BY DEF Range
    <3> QED
      BY <3>1, <3>2
  <2>3. \A w \in Windows : win[w] \in Window
    BY <2>1 DEF Typed
  <2>4. \A w \in Windows :
          /\ win[w].sessions \union win[w].targets \union win[w].selected \subseteq Ids
          /\ {win[w].active, win[w].focused} \subseteq Ids \union {NoSession}
    BY <2>3 DEF Window
  <2> QED
    BY <2>1, <2>2, <2>4 DEF TypeOK, Typed, Lived, Working
<1> QED
  BY <1>1, SessionsGood, PTL

-----------------------------------------------------------------------------
(* The main screen: its document *)

ScreenLine == [cells : Nat, text : 0..1]
Doc == [lines : Seq(ScreenLine), line : Nat \ {0}, col : Nat, start : Nat \ {0},
        saved : [line : Int, col : Nat], insert : BOOLEAN, cr : BOOLEAN,
        phantom : BOOLEAN, clearing : BOOLEAN]

\* A document whose cursor is on a line there is, or on the one after the last.
IsDocument(d) == d \in Doc /\ d.line \in 1..(Len(d.lines) + 1)

NoteTypes == {"UpdateLine", "CursorMove", "InsertLine", "DeleteLine", "CanvasReset"}
ScreenStages == [doc : Doc, says : Seq([type : NoteTypes, at : Nat]),
           moves : [way : {"none", "in", "out"}, at : Nat]]

\* A line that comes or goes is announced by itself.
MovesAsTold(s) ==
    CASE s.moves.way = "in" -> Len(s.says) = 1 /\ s.says[1].type = "InsertLine"
      [] s.moves.way = "out" -> Len(s.says) = 1 /\ s.says[1].type = "DeleteLine"
      [] OTHER -> \A k \in 1..Len(s.says) : s.says[k].type \notin {"InsertLine", "DeleteLine"}

\* Updates alone are announced only of a change in place, and of every line whose
\* text or cursor it changes.
InPlace(d, e) == Len(e.lines) = Len(d.lines) /\ e.line = d.line
TellsAll(d, s) ==
    \/ \E k \in 1..Len(s.says) : s.says[k].type # "UpdateLine"
    \/ /\ InPlace(d, s.doc)
       /\ \A l \in 1..Len(d.lines) :
             \/ s.doc.lines[l] = d.lines[l] /\ (l = d.line => s.doc.col = d.col)
             \/ \E k \in 1..Len(s.says) : s.says[k].at = l

\* What stages that begin at document d are.
GoodStage(d, s) == s \in ScreenStages /\ IsDocument(s.doc) /\ MovesAsTold(s) /\ TellsAll(d, s)
GoodStages(d, all) ==
    /\ all \in Seq(ScreenStages)
    /\ \A k \in 1..Len(all) : GoodStage(IF k = 1 THEN d ELSE all[k - 1].doc, all[k])

GoodOperation(d, all) == GoodStages(d, all) /\ all # <<>>

LEMMA ColsArePositive == cols_ \in Nat \ {0} /\ Cols \in Nat \ {0}
BY ScreenAssumption DEF cols_

LEMMA NoteIsOne ==
    ASSUME NEW e \in Doc, NEW type \in NoteTypes, NEW as \in Nat,
           NEW way \in {"none", "in", "out"}, NEW at \in Nat
    PROVE  [doc |-> e, says |-> <<[type |-> type, at |-> as]>>,
            moves |-> [way |-> way, at |-> at]] \in ScreenStages
<1> DEFINE N == [type : NoteTypes, at : Nat]
<1>1. [type |-> type, at |-> as] \in N
  OBVIOUS
<1> HIDE DEF N
<1>2. <<[type |-> type, at |-> as]>> \in Seq(N)
  BY <1>1
<1> QED
  BY <1>2 DEF ScreenStages, N

LEMMA NoStages == \A d : GoodStages(d, <<>>)
BY DEF GoodStages

LEMMA FirstStage ==
    ASSUME NEW d, NEW all, GoodStages(d, all), all # <<>>
    PROVE  GoodStage(d, Head(all)) /\ GoodStages(Head(all).doc, Tail(all))
<1>1. all \in Seq(ScreenStages) /\ Len(all) \in Nat \ {0} /\ Head(all) = all[1]
  BY DEF GoodStages
<1>2. /\ Tail(all) \in Seq(ScreenStages) /\ Len(Tail(all)) = Len(all) - 1
      /\ \A k \in 1..(Len(all) - 1) : Tail(all)[k] = all[k + 1]
  BY <1>1
<1>3. ASSUME NEW k \in 1..Len(Tail(all))
      PROVE  GoodStage(IF k = 1 THEN Head(all).doc ELSE Tail(all)[k - 1].doc, Tail(all)[k])
  <2>1. /\ k + 1 \in 1..Len(all) /\ k + 1 # 1 /\ (k + 1) - 1 = k /\ Tail(all)[k] = all[k + 1]
        /\ k # 1 => k - 1 \in 1..(Len(all) - 1) /\ Tail(all)[k - 1] = all[k]
    BY <1>1, <1>2
  <2>2. GoodStage(all[k].doc, all[k + 1])
    BY <2>1 DEF GoodStages
  <2> QED
    BY <1>1, <2>1, <2>2
<1>4. GoodStage(d, all[1])
  BY <1>1 DEF GoodStages
<1> QED
  BY <1>1, <1>2, <1>3, <1>4 DEF GoodStages

LEMMA StageBefore ==
    ASSUME NEW d, NEW s, GoodStage(d, s), NEW all, GoodStages(s.doc, all)
    PROVE  GoodOperation(d, <<s>> \o all)
<1> DEFINE both == <<s>> \o all
<1>1. all \in Seq(ScreenStages) /\ <<s>> \in Seq(ScreenStages) /\ Len(<<s>>) = 1 /\ <<s>>[1] = s
  BY DEF GoodStages, GoodStage
<1>2. /\ both \in Seq(ScreenStages) /\ Len(both) = Len(all) + 1 /\ both[1] = s
      /\ \A k \in 1..Len(all) : both[k + 1] = all[k]
  BY <1>1
<1> HIDE DEF both
<1>3. ASSUME NEW k \in 1..Len(both)
      PROVE  GoodStage(IF k = 1 THEN d ELSE both[k - 1].doc, both[k])
  <2>1. CASE k = 1
    BY <1>2, <2>1
  <2>2. CASE k # 1
    <3>1. /\ k - 1 \in 1..Len(all) /\ both[k] = all[k - 1]
          /\ k - 1 = 1 => both[k - 1] = s
          /\ k - 1 # 1 => both[k - 1] = all[k - 2]
      <4>1. k - 1 \in 1..Len(all) /\ (k - 1) + 1 = k
        BY <1>1, <1>2, <2>2
      <4>2. k - 1 # 1 => k - 2 \in 1..Len(all) /\ (k - 2) + 1 = k - 1
        BY <4>1
      <4> QED
        BY <1>2, <4>1, <4>2
    <3>2. GoodStage(IF k - 1 = 1 THEN s.doc ELSE all[(k - 1) - 1].doc, all[k - 1])
      BY <3>1 DEF GoodStages
    <3>3. (k - 1) - 1 = k - 2
      OBVIOUS
    <3> QED
      BY <2>2, <3>1, <3>2, <3>3
  <2> QED
    BY <2>1, <2>2
<1>4. both # <<>>
  BY <1>2
<1> QED
  BY <1>2, <1>3, <1>4 DEF GoodStages, GoodOperation, both

LEMMA OneStage ==
    ASSUME NEW d, NEW s, GoodStage(d, s)
    PROVE  GoodOperation(d, <<s>>)
BY DEF GoodStages, GoodStage, GoodOperation

\* A cursor that moves, and lines that come for it, are announced at once.
LEMMA MoveIsTold ==
    ASSUME NEW d, NEW e, IsDocument(e)
    PROVE  GoodOperation(d, Told(e, "CursorMove"))
<1> DEFINE s == Change(e, <<Notice("CursorMove", e.line)>>)
<1>1. e \in Doc /\ e.line \in Nat
  BY DEF IsDocument, Doc
<1>2. /\ s.doc = e /\ s.moves = [way |-> "none", at |-> 0]
      /\ s.says = <<[type |-> "CursorMove", at |-> e.line]>>
  BY DEF Change, Notice, Nowhere
<1>3. s = [doc |-> s.doc, says |-> s.says, moves |-> s.moves]
  BY DEF Change
<1> HIDE DEF s
<1>4. s \in ScreenStages /\ Len(s.says) = 1 /\ s.says[1].type = "CursorMove"
  BY <1>1, <1>2, <1>3, NoteIsOne DEF NoteTypes
<1>5. MovesAsTold(s) /\ TellsAll(d, s)
  BY <1>2, <1>4 DEF MovesAsTold, TellsAll
<1>6. GoodStage(d, s)
  BY <1>2, <1>4, <1>5 DEF GoodStage
<1>7. GoodOperation(d, <<s>>)
  BY <1>6, OneStage
<1> QED
  BY <1>7 DEF Told, s

\* A change of the cursor's line, which the cursor stays in.
LEMMA UpdateIsTold ==
    ASSUME NEW d, NEW e, IsDocument(d), IsDocument(e), InPlace(d, e),
           \A l \in 1..Len(d.lines) : l # d.line => e.lines[l] = d.lines[l]
    PROVE  GoodOperation(d, Told(e, "UpdateLine"))
<1> DEFINE s == Change(e, <<Notice("UpdateLine", e.line)>>)
<1>1. e \in Doc /\ e.line \in Nat
  BY DEF IsDocument, Doc
<1>2. /\ s.doc = e /\ s.moves = [way |-> "none", at |-> 0]
      /\ s.says = <<[type |-> "UpdateLine", at |-> e.line]>>
  BY DEF Change, Notice, Nowhere
<1>3. s = [doc |-> s.doc, says |-> s.says, moves |-> s.moves]
  BY DEF Change
<1> HIDE DEF s
<1>4. /\ s \in ScreenStages /\ Len(s.says) = 1
      /\ s.says[1].type = "UpdateLine" /\ s.says[1].at = d.line
  BY <1>1, <1>2, <1>3, NoteIsOne DEF InPlace, NoteTypes
<1>5. MovesAsTold(s) /\ TellsAll(d, s)
  BY <1>2, <1>4 DEF MovesAsTold, TellsAll
<1>6. GoodStage(d, s)
  BY <1>2, <1>4, <1>5 DEF GoodStage
<1>7. GoodOperation(d, <<s>>)
  BY <1>6, OneStage
<1> QED
  BY <1>7 DEF Told, s

\* A change that shows nowhere.
LEMMA SilenceIsGood ==
    ASSUME NEW d, NEW e, IsDocument(d), IsDocument(e), e.lines = d.lines,
           e.line = d.line, e.col = d.col
    PROVE  GoodOperation(d, Silent(e))
<1> DEFINE s == Change(e, <<>>)
<1>1. e \in Doc
  BY DEF IsDocument
<1>2. s \in ScreenStages /\ s.doc = e /\ s.says = <<>> /\ s.moves.way = "none"
  BY <1>1 DEF Change, Nowhere, ScreenStages
<1> HIDE DEF s
<1>3. MovesAsTold(s) /\ TellsAll(d, s)
  BY <1>2 DEF MovesAsTold, TellsAll, InPlace
<1>4. GoodStage(d, s)
  BY <1>2, <1>3 DEF GoodStage
<1>5. GoodOperation(d, <<s>>)
  BY <1>4, OneStage
<1> QED
  BY <1>5 DEF Silent, s

LEMMA GrownIsGood ==
    ASSUME NEW d, NEW e, IsDocument(e), NEW at \in Nat, NEW as \in Nat
    PROVE  GoodStage(d, Grown(e, at, as))
<1>1. e \in Doc
  BY DEF IsDocument
<1>2. Grown(e, at, as) \in ScreenStages
  BY <1>1, NoteIsOne DEF Grown, Notice, NoteTypes
<1> QED
  BY <1>2 DEF Grown, Notice, GoodStage, MovesAsTold, TellsAll

LEMMA ShrunkIsGood ==
    ASSUME NEW d, NEW e, IsDocument(e), NEW at \in Nat, NEW as \in Nat
    PROVE  GoodStage(d, Shrunk(e, at, as))
<1>1. e \in Doc
  BY DEF IsDocument
<1>2. Shrunk(e, at, as) \in ScreenStages
  BY <1>1, NoteIsOne DEF Shrunk, Notice, NoteTypes
<1> QED
  BY <1>2 DEF Shrunk, Notice, GoodStage, MovesAsTold, TellsAll

-----------------------------------------------------------------------------
(* The document's operations *)

LEMMA BoundsAre ==
    /\ \A a, b \in Nat : Lesser(a, b) \in Nat /\ Greater(a, b) \in Nat /\ Back(a, b) \in Nat
    /\ \A a, b \in Nat : Lesser(a, b) <= b /\ a <= Greater(a, b) /\ b <= Greater(a, b)
    /\ \A a, b \in Nat : b <= a => Back(a, b) = a - b
    /\ \A a, b \in Nat : a <= b => Back(a, b) = 0
BY DEF Lesser, Greater, Back

LEMMA Divided ==
    ASSUME NEW a \in Nat, NEW b \in Nat \ {0}
    PROVE  a \div b \in Nat /\ a % b \in Nat
OBVIOUS

LEMMA Times ==
    ASSUME NEW a \in Nat, NEW b \in Nat
    PROVE  a * b \in Nat
OBVIOUS

LEMMA LinesAre ==
    /\ NewLineText \in ScreenLine
    /\ \A l \in ScreenLine, n \in Nat : Written(l, n) \in ScreenLine
    /\ \A l \in ScreenLine, c \in Nat : TruncateFrom(l, c) \in ScreenLine
    /\ \A l \in ScreenLine : Blanked(l) \in ScreenLine
BY DEF ScreenLine, NewLineText, Written, TruncateFrom, Blanked

LEMMA CellsAre ==
    ASSUME NEW ins, NEW n \in Nat, NEW c \in Nat, NEW w
    PROVE  WriteCells(ins, n, c, w) \in Nat
BY DEF WriteCells, WriteAt, Greater

\* What a document's fields are.
LEMMA FieldsAre ==
    ASSUME NEW d, IsDocument(d)
    PROVE  /\ d.lines \in Seq(ScreenLine) /\ d.line <= Len(d.lines) + 1 /\ d.col \in Nat
           /\ d.start \in Nat \ {0} /\ Len(d.lines) \in Nat /\ d.line \in Nat \ {0}
           /\ d.saved.line \in Int /\ d.saved.col \in Nat
           /\ DOMAIN d.lines = 1..Len(d.lines)
<1>1. /\ d.lines \in Seq(ScreenLine) /\ d.line \in 1..(Len(d.lines) + 1) /\ d.col \in Nat
      /\ d.start \in Nat \ {0} /\ d.line \in Nat \ {0}
      /\ d.saved.line \in Int /\ d.saved.col \in Nat
  BY DEF IsDocument, Doc
<1>2. Len(d.lines) \in Nat /\ DOMAIN d.lines = 1..Len(d.lines)
  BY <1>1
<1> QED
  BY <1>1, <1>2

\* What the cursor's line is, where there is one.
LEMMA LineIs ==
    ASSUME NEW d, IsDocument(d), HasLine(d)
    PROVE  /\ d.line \in 1..Len(d.lines) /\ d.lines[d.line] \in ScreenLine
           /\ d.lines[d.line].cells \in Nat
<1>1. d.line \in 1..Len(d.lines) /\ d.lines \in Seq(ScreenLine)
  BY FieldsAre DEF HasLine
<1>2. d.lines[d.line] \in ScreenLine
  BY <1>1
<1>3. d.lines[d.line].cells \in Nat
  BY <1>2 DEF ScreenLine
<1> QED
  BY <1>1, <1>2, <1>3

\* The cursor's line is another.
LEMMA Rewritten ==
    ASSUME NEW d, IsDocument(d), HasLine(d), NEW x \in ScreenLine
    PROVE  LET L == [d.lines EXCEPT ![d.line] = x]
           IN /\ L \in Seq(ScreenLine) /\ Len(L) = Len(d.lines) /\ L[d.line] = x
              /\ \A l \in 1..Len(d.lines) : l # d.line => L[l] = d.lines[l]
BY FieldsAre, LineIs

Rewrite(d, x, c, phantom, clearing) ==
    [d EXCEPT !.lines[d.line] = x, !.col = c, !.phantom = phantom, !.clearing = clearing]

LEMMA RewrittenIsTold ==
    ASSUME NEW d, IsDocument(d), HasLine(d), NEW x \in ScreenLine, NEW c \in Nat,
           NEW phantom \in BOOLEAN, NEW clearing \in BOOLEAN
    PROVE  LET e == Rewrite(d, x, c, phantom, clearing)
           IN IsDocument(e) /\ GoodOperation(d, Told(e, "UpdateLine"))
<1> DEFINE L == [d.lines EXCEPT ![d.line] = x]
           e == [d EXCEPT !.lines = L, !.col = c, !.phantom = phantom, !.clearing = clearing]
<1>1. /\ L \in Seq(ScreenLine) /\ Len(L) = Len(d.lines)
      /\ \A l \in 1..Len(d.lines) : l # d.line => L[l] = d.lines[l]
  BY Rewritten
<1> HIDE DEF L
<1>2. e.lines = L /\ e.line = d.line
  BY DEF IsDocument, Doc
<1>3. IsDocument(e)
  BY <1>1, <1>2 DEF IsDocument, Doc
<1> HIDE DEF e
<1>4. GoodOperation(d, Told(e, "UpdateLine"))
  BY <1>1, <1>2, <1>3, UpdateIsTold DEF InPlace
<1>5. Rewrite(d, x, c, phantom, clearing) = e
  BY DEF e, L, IsDocument, Doc, Rewrite
<1> QED
  BY <1>3, <1>4, <1>5

LEMMA AppendRunIsGood ==
    ASSUME NEW d, IsDocument(d), HasLine(d), NEW w \in Nat
    PROVE  GoodOperation(d, AppendRun(d, w))
<1> DEFINE x == Written(d.lines[d.line], WriteCells(d.insert, d.lines[d.line].cells, d.col, w))
           e == [d EXCEPT !.lines[d.line] = x, !.col = @ + w, !.phantom = FALSE]
<1>1. x \in ScreenLine
  BY FieldsAre, LineIs, LinesAre, CellsAre
<1> HIDE DEF x
<1>2. d.clearing \in BOOLEAN /\ d.col + w \in Nat
  BY DEF IsDocument, Doc
<1>3. e = Rewrite(d, x, d.col + w, FALSE, d.clearing)
  BY DEF IsDocument, Doc, Rewrite
<1> HIDE DEF e
<1>4. GoodOperation(d, Told(e, "UpdateLine"))
  BY <1>1, <1>2, <1>3, RewrittenIsTold
<1> QED
  BY <1>4 DEF AppendRun, e, x

LEMMA EraseCharIsGood ==
    ASSUME NEW d, IsDocument(d), HasLine(d), NEW n
    PROVE  GoodOperation(d, EraseChar(d, n))
<1> DEFINE l == d.lines[d.line]
           x == IF d.col < l.cells THEN Blanked(l) ELSE l
           e == [d EXCEPT !.lines[d.line] = IF d.col < @.cells THEN Blanked(@) ELSE @]
<1>1. x \in ScreenLine
  BY FieldsAre, LineIs, LinesAre
<1>2. d.clearing \in BOOLEAN /\ d.phantom \in BOOLEAN /\ d.col \in Nat
  BY DEF IsDocument, Doc
<1>3. e = Rewrite(d, x, d.col, d.phantom, d.clearing)
  BY DEF IsDocument, Doc, Rewrite
<1> HIDE DEF e, x
<1>4. GoodOperation(d, Told(e, "UpdateLine"))
  BY <1>1, <1>2, <1>3, RewrittenIsTold
<1> QED
  BY <1>4 DEF EraseChar, e

LEMMA InsertCharIsGood ==
    ASSUME NEW d, IsDocument(d), HasLine(d), NEW n \in Nat
    PROVE  GoodOperation(d, InsertChar(d, n))
<1> DEFINE l == d.lines[d.line]
           x == Written(l, Greater(l.cells, d.col) + n)
           e == [d EXCEPT !.lines[d.line] = Written(@, Greater(@.cells, d.col) + n)]
<1>1. x \in ScreenLine
  <2>1. Greater(l.cells, d.col) + n \in Nat
    BY FieldsAre, LineIs DEF Greater
  <2> QED
    BY <2>1, FieldsAre, LineIs, LinesAre
<1>2. d.clearing \in BOOLEAN /\ d.phantom \in BOOLEAN /\ d.col \in Nat
  BY DEF IsDocument, Doc
<1>3. e = Rewrite(d, x, d.col, d.phantom, d.clearing)
  BY DEF IsDocument, Doc, Rewrite
<1> HIDE DEF e, x
<1>4. GoodOperation(d, Told(e, "UpdateLine"))
  BY <1>1, <1>2, <1>3, RewrittenIsTold
<1> QED
  BY <1>4 DEF InsertChar, e

LEMMA DeleteCharIsGood ==
    ASSUME NEW d, IsDocument(d), HasLine(d), NEW n \in Nat
    PROVE  GoodOperation(d, DeleteChar(d, n))
<1> DEFINE l == d.lines[d.line]
           end == (d.col \div cols_ + 1) * cols_
           long == l.cells > cols_
           gone == Lesser(n, Back(IF long THEN Lesser(end, l.cells) ELSE l.cells, d.col))
           left == IF long /\ l.cells > end THEN l.cells ELSE l.cells - gone
           x == IF gone > 0 THEN Written(l, left) ELSE l
           e == [d EXCEPT !.lines[d.line] = IF gone > 0 THEN Written(@, left) ELSE @,
                          !.clearing = @ \/ long]
<1>1. l \in ScreenLine /\ l.cells \in Nat /\ d.col \in Nat
  BY FieldsAre, LineIs
<1>2. end \in Nat
  <2>1. d.col \div cols_ + 1 \in Nat
    BY <1>1, ColsArePositive, Divided
  <2> QED
    BY <2>1, ColsArePositive, Times
<1> HIDE DEF end, l
<1>3. left \in Nat
  BY <1>1, <1>2 DEF Lesser, Back
<1> HIDE DEF left, gone
<1>4. x \in ScreenLine
  BY <1>1, <1>3, LinesAre
<1>5. d.clearing \in BOOLEAN /\ d.phantom \in BOOLEAN /\ (d.clearing \/ long) \in BOOLEAN
  BY DEF IsDocument, Doc
<1>6. e = Rewrite(d, x, d.col, d.phantom, d.clearing \/ long)
  BY DEF IsDocument, Doc, Rewrite, l
<1> HIDE DEF e, x, long
<1>7. GoodOperation(d, Told(e, "UpdateLine"))
  BY <1>1, <1>4, <1>5, <1>6, RewrittenIsTold
<1> QED
  BY <1>7 DEF DeleteChar, e, left, gone, long, end, l

\* The cursor moves within its line.
LEMMA MoveCursorToIsGood ==
    ASSUME NEW d, IsDocument(d), NEW c \in Nat
    PROVE  GoodOperation(d, MoveCursorTo(d, c))
<1>1. IsDocument([d EXCEPT !.col = c])
  BY DEF IsDocument, Doc
<1> QED
  BY <1>1, MoveIsTold DEF MoveCursorTo

LEMMA CursorMovesAreGood ==
    ASSUME NEW d, IsDocument(d), NEW n \in Nat \ {0}
    PROVE  /\ GoodOperation(d, CarriageReturn(d))
           /\ GoodOperation(d, MoveCursorLeft(d, n))
           /\ GoodOperation(d, MoveCursorRight(d, n))
           /\ GoodOperation(d, MoveCursorDown(d, n))
           /\ GoodOperation(d, MoveCursorToColumn(d, n))
           /\ GoodOperation(d, MoveCursorToLineStart(d))
           /\ HasLine(d) => GoodOperation(d, MoveCursorToLineEnd(d))
           /\ GoodOperation(d, SoftReset(d))
<1>1. /\ d.col \in Nat /\ cols_ \in Nat \ {0}
      /\ (d.col \div cols_) * cols_ \in Nat /\ n * cols_ \in Nat
  <2>1. d.col \in Nat /\ cols_ \in Nat \ {0}
    BY FieldsAre, ColsArePositive
  <2>2. d.col \div cols_ \in Nat
    BY <2>1, Divided
  <2> QED
    BY <2>1, <2>2, Times
<1>2. GoodOperation(d, CarriageReturn(d))
  <2> DEFINE e == [d EXCEPT !.col = (@ \div cols_) * cols_, !.cr = TRUE]
  <2>1. e = [d EXCEPT !.col = (d.col \div cols_) * cols_, !.cr = TRUE]
    BY DEF IsDocument, Doc
  <2> HIDE DEF e
  <2>2. IsDocument(e)
    BY <1>1, <2>1 DEF IsDocument, Doc
  <2> QED
    BY <2>2, MoveIsTold DEF CarriageReturn, e
<1>3. GoodOperation(d, MoveCursorLeft(d, n))
  <2>1. Back(d.col, n) \in Nat
    BY <1>1 DEF Back
  <2> QED
    BY <2>1, MoveCursorToIsGood DEF MoveCursorLeft
<1>4. GoodOperation(d, MoveCursorRight(d, n))
  BY <1>1, MoveCursorToIsGood DEF MoveCursorRight
<1>5. GoodOperation(d, MoveCursorDown(d, n))
  <2>1. d.col + n * cols_ \in Nat
    BY <1>1
  <2> QED
    BY <2>1, MoveCursorToIsGood DEF MoveCursorDown
<1>6. GoodOperation(d, MoveCursorToColumn(d, n))
  <2>1. (d.col \div cols_) * cols_ + n - 1 \in Nat
    BY <1>1
  <2> QED
    BY <2>1, MoveCursorToIsGood DEF MoveCursorToColumn
<1>7. GoodOperation(d, MoveCursorToLineStart(d))
  BY MoveCursorToIsGood DEF MoveCursorToLineStart
<1>8. ASSUME HasLine(d) PROVE GoodOperation(d, MoveCursorToLineEnd(d))
  BY <1>8, LineIs, MoveCursorToIsGood DEF MoveCursorToLineEnd
<1>9. GoodOperation(d, SoftReset(d))
  <2>1. IsDocument([d EXCEPT !.insert = FALSE, !.clearing = FALSE])
    BY DEF IsDocument, Doc
  <2> QED
    BY <2>1, MoveIsTold DEF SoftReset
<1> QED
  BY <1>2, <1>3, <1>4, <1>5, <1>6, <1>7, <1>8, <1>9

LEMMA ModesAreGood ==
    ASSUME NEW d, IsDocument(d), NEW on \in BOOLEAN
    PROVE  GoodOperation(d, SaveCursor(d)) /\ GoodOperation(d, SetInsertMode(d, on))
<1>1. GoodOperation(d, SaveCursor(d))
  <2> DEFINE e == [d EXCEPT !.saved = [line |-> d.line - d.start, col |-> d.col]]
  <2>1. [line |-> d.line - d.start, col |-> d.col] \in [line : Int, col : Nat]
    BY FieldsAre
  <2>2. IsDocument(e) /\ e.lines = d.lines /\ e.line = d.line /\ e.col = d.col
    BY <2>1 DEF IsDocument, Doc
  <2> HIDE DEF e
  <2> QED
    BY <2>2, SilenceIsGood DEF SaveCursor, e
<1>2. GoodOperation(d, SetInsertMode(d, on))
  <2> DEFINE e == [d EXCEPT !.insert = on]
  <2>1. IsDocument(e) /\ e.lines = d.lines /\ e.line = d.line /\ e.col = d.col
    BY DEF IsDocument, Doc
  <2> HIDE DEF e
  <2> QED
    BY <2>1, SilenceIsGood DEF SetInsertMode, e
<1> QED
  BY <1>1, <1>2

\* There are lines as far as is asked for.
LEMMA ReachingDoes ==
    ASSUME NEW L \in Seq(ScreenLine), NEW l \in Nat
    PROVE  /\ Reaching(L, l) \in Seq(ScreenLine)
           /\ l <= Len(Reaching(L, l)) /\ Len(L) <= Len(Reaching(L, l))
<1> DEFINE n == Back(l, Len(L))
           more == [k \in 1..n |-> NewLineText]
<1>1. n \in Nat /\ l <= Len(L) + n
  BY DEF Back
<1> HIDE DEF n
<1>2. more \in Seq(ScreenLine) /\ Len(more) = n
  BY <1>1, LinesAre
<1> HIDE DEF more
<1>3. L \o more \in Seq(ScreenLine) /\ Len(L \o more) = Len(L) + n
  BY <1>2
<1> QED
  BY <1>1, <1>3 DEF Reaching, more, n

\* The cursor goes to a line, which there is then.
Reach(d, l, c) == [d EXCEPT !.lines = Reaching(@, l), !.line = l, !.col = c]

LEMMA ReachedIsGood ==
    ASSUME NEW d, IsDocument(d), NEW l \in Nat \ {0}, NEW c \in Nat
    PROVE  GoodOperation(d, Told(Reach(d, l, c), "CursorMove"))
<1> DEFINE L == Reaching(d.lines, l)
           e == Reach(d, l, c)
<1>1. L \in Seq(ScreenLine) /\ l <= Len(L)
  BY FieldsAre, ReachingDoes
<1>2. l \in 1..Len(L) /\ l \in 1..(Len(L) + 1)
  BY <1>1
<1>3. e = [d EXCEPT !.lines = L, !.line = l, !.col = c]
  BY DEF IsDocument, Doc, Reach
<1> HIDE DEF e, L
<1>4. IsDocument(e)
  <2>1. e.lines = L /\ e.line = l
    BY <1>3 DEF IsDocument, Doc
  <2>2. l \in Nat \ {0} /\ L \in Seq(ScreenLine)
    BY <1>1, <1>2
  <2>3. d \in Doc
    BY DEF IsDocument
  <2>4. e \in Doc
    BY <1>3, <2>2, <2>3 DEF Doc
  <2> QED
    BY <1>2, <2>1, <2>4 DEF IsDocument
<1> QED
  BY <1>4, MoveIsTold DEF e

LEMMA RestoreCursorIsGood ==
    ASSUME NEW d, IsDocument(d), HasSaved(d)
    PROVE  GoodOperation(d, RestoreCursor(d))
<1> DEFINE l == d.start + d.saved.line
           e == Reach(d, l, d.saved.col)
<1>1. l \in Nat \ {0} /\ d.saved.col \in Nat
  BY FieldsAre DEF HasSaved
<1>2. RestoreCursor(d) = Told(e, "CursorMove")
  BY DEF RestoreCursor, Reach
<1> HIDE DEF l
<1>3. GoodOperation(d, Told(e, "CursorMove"))
  BY <1>1, ReachedIsGood
<1> HIDE DEF e
<1> QED
  BY <1>2, <1>3

\* The rows below the canvas's first, k of them.
RowAfterRow(d, k, g) ==
    g = [j \in 0..k |-> IF j = 0 THEN [line |-> d.start, row |-> 0] ELSE RowBelow(d, g[j - 1])]

SmallerThan == {ss \in Nat \X Nat : ss[1] < ss[2]}

\* What holds at first, and after a number whenever before it, always holds.
LEMMA CountOn ==
    ASSUME NEW T, 0 \in T, \A k \in Nat \ {0} : k - 1 \in T => k \in T
    PROVE  \A k \in Nat : k \in T
<1> DEFINE Out == {k \in Nat : k \notin T}
<1> SUFFICES ASSUME Out # {} PROVE FALSE
  OBVIOUS
<1>1. Out \in SUBSET Nat
  OBVIOUS
<1>2. IsWellFoundedOn(SmallerThan, Nat)
  BY NatLessThanWellFounded, Zenon DEF OpToRel, SmallerThan
<1> HIDE DEF Out
<1>3. PICK x \in Out : \A y \in Out : ~ (<<y, x>> \in SmallerThan)
  BY <1>1, <1>2, WFMin
<1>4. \A y \in Out : ~(y < x)
  BY <1>1, <1>3 DEF SmallerThan
<1>5. x \in Nat \ {0} /\ x \notin T
  BY <1>3 DEF Out
<1>6. x - 1 \in T
  <2>1. x - 1 \in Nat /\ x - 1 < x
    BY <1>5
  <2> QED
    BY <1>4, <2>1 DEF Out
<1> QED
  BY <1>5, <1>6

\* PtyToDoc counts as it says: there is such a function, however many rows.
LEMMA RowsBelowAre ==
    ASSUME NEW d
    PROVE  \A k \in Nat : \E g : RowAfterRow(d, k, g)
<1> DEFINE T == {k \in Nat : \E g : RowAfterRow(d, k, g)}
           Top0 == [line |-> d.start, row |-> 0]
<1>1. 0 \in T
  <2> DEFINE g == [j \in 0..0 |-> Top0]
  <2>1. RowAfterRow(d, 0, g)
    BY DEF RowAfterRow
  <2> HIDE DEF g
  <2> QED
    BY <2>1
<1>2. ASSUME NEW k \in Nat \ {0}, k - 1 \in T PROVE k \in T
  <2>1. PICK g : RowAfterRow(d, k - 1, g)
    BY <1>2
  <2> DEFINE Below(p) == RowBelow(d, p)
             h == [j \in 0..k |-> IF j = k THEN Below(g[k - 1]) ELSE g[j]]
  <2>2. g = [j \in 0..(k - 1) |-> IF j = 0 THEN Top0 ELSE Below(g[j - 1])]
    BY <2>1 DEF RowAfterRow
  <2> HIDE DEF Below, Top0
  <2>3. h = [j \in 0..k |-> IF j = 0 THEN Top0 ELSE Below(h[j - 1])]
    <3>1. ASSUME NEW j \in 0..k PROVE h[j] = IF j = 0 THEN Top0 ELSE Below(h[j - 1])
      <4>1. CASE j = 0
        BY <1>2, <2>2, <4>1
      <4>2. CASE j = k
        <5>1. k - 1 \in 0..k /\ k - 1 # k /\ k # 0
          BY <1>2
        <5>2. h[k - 1] = g[k - 1]
          BY <5>1
        <5> QED
          BY <5>1, <5>2, <4>2
      <4>3. CASE j \in 1..(k - 1)
        <5>1. /\ j - 1 \in 0..k /\ j - 1 # k /\ j # 0 /\ j # k /\ j \in 0..(k - 1)
          BY <1>2, <4>3
        <5>2. h[j - 1] = g[j - 1] /\ h[j] = g[j]
          BY <5>1
        <5> QED
          BY <2>2, <5>1, <5>2
      <4> QED
        BY <1>2, <4>1, <4>2, <4>3
    <3> QED
      BY <3>1
  <2> HIDE DEF h
  <2>4. RowAfterRow(d, k, h)
    BY <2>3 DEF RowAfterRow, Below, Top0
  <2> QED
    BY <1>2, <2>4
<1> HIDE DEF T
<1>3. \A k \in Nat : k \in T
  BY <1>1, <1>2, CountOn
<1> QED
  BY <1>3 DEF T

\* A row of the canvas is on some line.
LEMMA PtyToDocIs ==
    ASSUME NEW d, IsDocument(d), NEW r \in Nat
    PROVE  LET p == PtyToDoc(d, r)
           IN p.line \in Nat \ {0} /\ p.row \in Nat
<1> DEFINE n == Back(r, 1)
           P(g) == g = [j \in 0..Back(r, 1) |-> IF j = 0 THEN [line |-> d.start, row |-> 0]
                                                ELSE RowBelow(d, g[j - 1])]
           at == CHOOSE g : P(g)
           OK(p) == p \in [line : Nat \ {0}, row : Nat]
           T == {k \in Nat : k <= n => OK(at[k])}
<1>1. n \in Nat
  BY DEF Back
<1>2. \E g : P(g)
  BY <1>1, RowsBelowAre DEF RowAfterRow
<1>3. P(at)
  BY <1>2
<1>4. PtyToDoc(d, r) = at[n]
  BY Zenon DEF PtyToDoc
<1>5. at = [j \in 0..n |-> IF j = 0 THEN [line |-> d.start, row |-> 0]
                           ELSE RowBelow(d, at[j - 1])]
  BY <1>3
<1> HIDE DEF at, n, P
<1>6. 0 \in T
  <2>1. at[0] = [line |-> d.start, row |-> 0]
    BY <1>1, <1>5
  <2> QED
    BY <2>1, FieldsAre
<1>7. ASSUME NEW k \in Nat \ {0}, k - 1 \in T PROVE k \in T
  <2> SUFFICES ASSUME k <= n PROVE OK(at[k])
    BY <1>7
  <2>1. k \in 0..n /\ k # 0 /\ k - 1 \in Nat /\ k - 1 <= n
    BY <1>1
  <2>2. at[k] = RowBelow(d, at[k - 1]) /\ OK(at[k - 1])
    BY <1>5, <1>7, <2>1
  <2> QED
    BY <2>2 DEF RowBelow
<1> HIDE DEF T
<1>8. n \in T
  BY <1>1, <1>6, <1>7, CountOn
<1>9. OK(at[n])
  BY <1>1, <1>8 DEF T
<1> QED
  BY <1>4, <1>9

LEMMA PositionsAreGood ==
    ASSUME NEW d, IsDocument(d), NEW r \in Nat \ {0}, NEW c \in Nat \ {0}
    PROVE  GoodOperation(d, MoveCursorToPosition(d, r, c)) /\ GoodOperation(d, MoveCursorToRow(d, r))
<1>1. ASSUME NEW b \in Nat \ {0} PROVE GoodOperation(d, MoveCursorToPosition(d, r, b))
  <2> DEFINE p == PtyToDoc(d, r)
  <2>1. p.line \in Nat \ {0} /\ p.row \in Nat
    BY PtyToDocIs
  <2> HIDE DEF p
  <2>2. p.row * cols_ \in Nat
    BY <2>1, ColsArePositive, Times
  <2>3. p.row * cols_ + b - 1 \in Nat
    BY <1>1, <2>2
  <2> DEFINE c1 == p.row * cols_ + b - 1
             e == Reach(d, p.line, c1)
  <2>4. MoveCursorToPosition(d, r, b) = Told(e, "CursorMove")
    BY DEF MoveCursorToPosition, p, Reach
  <2> HIDE DEF c1
  <2>5. GoodOperation(d, Told(e, "CursorMove"))
    BY <2>1, <2>3, ReachedIsGood DEF c1
  <2> HIDE DEF e
  <2> QED
    BY <2>4, <2>5
<1>2. (d.col % cols_) + 1 \in Nat \ {0}
  <2>1. d.col % cols_ \in Nat
    BY FieldsAre, ColsArePositive, Divided
  <2> QED
    BY <2>1
<1> QED
  BY <1>1, <1>2 DEF MoveCursorToRow

\* A line at the end of all.
LEMMA LineAdded ==
    ASSUME NEW L \in Seq(ScreenLine)
    PROVE  Append(L, NewLineText) \in Seq(ScreenLine) /\ Len(Append(L, NewLineText)) = Len(L) + 1
BY LinesAre

\* A line is added at the end, and the first one goes when there are too many.
LEMMA NewLineIsGood ==
    ASSUME NEW d, IsDocument(d), HasLine(d)
    PROVE  GoodOperation(d, NewLine(d))
<1> DEFINE at == d.col \div cols_
           next == [d EXCEPT !.lines = Append(@, NewLineText), !.line = @ + 1, !.col = 0,
                             !.phantom = at > LastSubRow(d) /\ ~d.cr, !.cr = FALSE]
           pruned == [next EXCEPT !.lines = Tail(@), !.line = @ - 1, !.start = Greater(1, @ - 1)]
           L == Append(d.lines, NewLineText)
           ph == at > LastSubRow(d) /\ ~d.cr
<1>1. /\ d \in Doc /\ d.line \in 1..Len(d.lines) /\ d.start \in Nat \ {0}
      /\ d.line \in Nat \ {0} /\ Len(d.lines) \in Nat
  BY FieldsAre, LineIs DEF IsDocument
<1>2. L \in Seq(ScreenLine) /\ Len(L) = Len(d.lines) + 1 /\ Len(L) \in Nat
  BY FieldsAre, LineAdded
<1>3. ph \in BOOLEAN
  OBVIOUS
<1>4. next = [d EXCEPT !.lines = L, !.line = d.line + 1, !.col = 0, !.phantom = ph, !.cr = FALSE]
  BY <1>1 DEF Doc
<1> HIDE DEF next, L, ph
<1>5. next \in Doc /\ next.lines = L /\ next.line = d.line + 1 /\ next.start = d.start
  <2>1. d.line + 1 \in Nat \ {0}
    BY <1>1
  <2>2. next.lines = L /\ next.line = d.line + 1 /\ next.start = d.start
    BY <1>1, <1>4 DEF Doc
  <2>3. next \in Doc
    BY <1>1, <1>2, <1>3, <1>4, <2>1 DEF Doc
  <2> QED
    BY <2>2, <2>3
<1>6. IsDocument(next)
  BY <1>1, <1>2, <1>5 DEF IsDocument
<1>7. GoodStage(d, Grown(next, Len(next.lines), next.line))
  BY <1>2, <1>5, <1>6, FieldsAre, GrownIsGood
<1>8. ASSUME Len(next.lines) > maxLines_
      PROVE  GoodStages(next, <<Shrunk(pruned, 1, 1)>>)
  <2>1. maxLines_ \in Nat \ {0}
    BY ScreenAssumption
  <2>2. Len(L) >= 2 /\ L # <<>>
    BY <1>2, <1>5, <1>8, <2>1
  <2>3. Tail(L) \in Seq(ScreenLine) /\ Len(Tail(L)) = Len(L) - 1
    BY <1>2, <2>2
  <2>4. pruned = [next EXCEPT !.lines = Tail(L), !.line = d.line, !.start = Greater(1, d.start - 1)]
    <3>1. (d.line + 1) - 1 = d.line
      BY <1>1
    <3> QED
      BY <1>5, <3>1 DEF Doc
  <2>5. Greater(1, d.start - 1) \in Nat \ {0}
    BY <1>1 DEF Greater
  <2> HIDE DEF pruned
  <2>6. /\ pruned \in Doc /\ pruned.lines = Tail(L) /\ pruned.line = d.line
        /\ pruned.start = Greater(1, d.start - 1)
    BY <1>1, <1>5, <2>3, <2>4, <2>5, FieldsAre DEF Doc
  <2>7. IsDocument(pruned)
    BY <1>1, <1>2, <2>3, <2>5, <2>6 DEF IsDocument
  <2>8. GoodStage(next, Shrunk(pruned, 1, 1))
    BY <2>7, ShrunkIsGood
  <2> QED
    BY <2>8, OneStage DEF GoodOperation
<1>9. GoodOperation(d, <<Grown(next, Len(next.lines), next.line)>>
            \o (IF Len(next.lines) > maxLines_ THEN <<Shrunk(pruned, 1, 1)>> ELSE <<>>))
  <2>1. GoodStages(next, IF Len(next.lines) > maxLines_ THEN <<Shrunk(pruned, 1, 1)>> ELSE <<>>)
    BY <1>8, NoStages
  <2>2. Grown(next, Len(next.lines), next.line).doc = next
    BY DEF Grown
  <2> QED
    BY <1>7, <2>1, <2>2, StageBefore
<1>10. GoodOperation(d, Told([d EXCEPT !.col = (at + 1) * cols_, !.cr = FALSE], "CursorMove"))
  <2>1. at \in Nat
    BY FieldsAre, ColsArePositive, Divided
  <2>2. (at + 1) * cols_ \in Nat
    <3>1. at + 1 \in Nat
      BY <2>1
    <3> QED
      BY <3>1, ColsArePositive, Times
  <2> HIDE DEF at
  <2>3. IsDocument([d EXCEPT !.col = (at + 1) * cols_, !.cr = FALSE])
    BY <2>2 DEF IsDocument, Doc
  <2> QED
    BY <2>3, MoveIsTold
<1> QED
  BY <1>9, <1>10 DEF NewLine, next, ph, L

\* The last line goes, and the cursor to the line above its own.
LEMMA PopLineIsGood ==
    ASSUME NEW d, IsDocument(d), HasLine(d), d.line > 1
    PROVE  IsDocument(PopLine(d).doc) /\ GoodStage(d, PopLine(d))
<1> DEFINE up == d.line - 1
           e == [d EXCEPT !.lines = Front(@), !.line = up, !.col = d.lines[up].cells,
                          !.phantom = FALSE]
           L == Front(d.lines)
<1>1. /\ d \in Doc /\ d.lines \in Seq(ScreenLine) /\ d.line \in 1..Len(d.lines)
      /\ d.line \in Nat /\ Len(d.lines) \in Nat
  BY FieldsAre, LineIs DEF IsDocument
<1>2. up \in 1..Len(d.lines) /\ up \in Nat \ {0} /\ up <= Len(d.lines) - 1
      /\ up \in 1..((Len(d.lines) - 1) + 1)
  <2>1. ASSUME NEW n \in Nat, NEW k \in 1..n, k > 1
        PROVE  k - 1 \in 1..n /\ k - 1 \in Nat \ {0} /\ k - 1 <= n - 1 /\ k - 1 \in 1..((n - 1) + 1)
    BY <2>1
  <2> QED
    BY <1>1, <2>1
<1>3. L \in Seq(ScreenLine) /\ Len(L) = Len(d.lines) - 1
  <2>1. Len(d.lines) - 1 \in Nat
    BY <1>1, <1>2
  <2> QED
    BY <1>1, <2>1 DEF Front
<1>4. d.lines[up].cells \in Nat
  <2>1. d.lines[up] \in ScreenLine
    BY <1>1, <1>2
  <2> QED
    BY <2>1 DEF ScreenLine
<1>5. e = [d EXCEPT !.lines = L, !.line = up, !.col = d.lines[up].cells, !.phantom = FALSE]
  BY <1>1 DEF Doc
<1> HIDE DEF e, L, up
<1>6. e \in Doc /\ e.lines = L /\ e.line = up
  BY <1>1, <1>2, <1>3, <1>4, <1>5 DEF Doc
<1>7. IsDocument(e)
  BY <1>2, <1>3, <1>6 DEF IsDocument
<1>8. GoodStage(d, Shrunk(e, Len(d.lines), d.line))
  BY <1>1, <1>7, ShrunkIsGood
<1>9. PopLine(d) = Shrunk(e, Len(d.lines), d.line)
  BY DEF PopLine, e, up
<1> QED
  BY <1>7, <1>8, <1>9 DEF Shrunk

LEMMA MoveCursorUpIsGood ==
    ASSUME NEW d, IsDocument(d), NEW n \in Nat
    PROVE  GoodOperation(d, MoveCursorUp(d, n))
<1> DEFINE empty == d.col = 0 /\ d.line > d.start /\ d.line = Len(d.lines)
                    /\ d.lines[d.line].cells = 0
           popped == PopLine(d)
<1>1. ASSUME NEW f, IsDocument(f) PROVE GoodOperation(f, MoveCursorTo(f, Back(f.col, n * cols_)))
  <2>1. f.col \in Nat /\ n * cols_ \in Nat
    BY <1>1, FieldsAre, ColsArePositive, Times
  <2>2. Back(f.col, n * cols_) \in Nat
    BY <2>1, BoundsAre
  <2> QED
    BY <1>1, <2>2, MoveCursorToIsGood
<1>2. CASE empty
  <2>1. IsDocument(popped.doc) /\ GoodStage(d, popped)
    <3>1. d.start \in Nat \ {0} /\ d.line \in Nat \ {0} /\ DOMAIN d.lines = 1..Len(d.lines)
          /\ Len(d.lines) \in Nat
      BY FieldsAre
    <3>2. HasLine(d) /\ d.line > 1
      BY <1>2, <3>1 DEF HasLine
    <3> QED
      BY <3>2, PopLineIsGood
  <2>2. GoodOperation(popped.doc, MoveCursorTo(popped.doc, Back(popped.doc.col, n * cols_)))
    BY <1>1, <2>1
  <2> HIDE DEF popped
  <2>3. GoodOperation(d, <<popped>> \o MoveCursorTo(popped.doc, Back(popped.doc.col, n * cols_)))
    BY <2>1, <2>2, StageBefore DEF GoodOperation
  <2> QED
    BY <1>2, <2>3 DEF MoveCursorUp, popped
<1>3. CASE ~empty
  <2>1. GoodOperation(d, MoveCursorTo(d, Back(d.col, n * cols_)))
    BY <1>1
  <2>2. MoveCursorUp(d, n) = <<>> \o MoveCursorTo(d, Back(d.col, n * cols_))
    BY <1>3 DEF MoveCursorUp
  <2>3. <<>> \o MoveCursorTo(d, Back(d.col, n * cols_)) = MoveCursorTo(d, Back(d.col, n * cols_))
    BY <2>1, ConcatEmptySeq DEF GoodOperation, GoodStages
  <2> QED
    BY <2>1, <2>2, <2>3
<1> QED
  BY <1>2, <1>3

LEMMA EraseInLineIsGood ==
    ASSUME NEW d, IsDocument(d), HasLine(d), NEW mode, NEW blanks \in Nat
    PROVE  GoodOperation(d, EraseInLine(d, mode, blanks))
<1> DEFINE kept == TruncateFrom(d.lines[d.line], d.col)
           trims == d.clearing /\ d.col > 0 /\ d.col % cols_ = 0
           end == Back(kept.cells, blanks)
           done == [d EXCEPT !.clearing = FALSE]
           pops == mode = 0 /\ d.col = 0 /\ d.lines[d.line].cells = 0 /\ d.line > 1 /\ d.phantom
<1>1. d \in Doc /\ d.col \in Nat /\ d.lines[d.line] \in ScreenLine
  BY FieldsAre, LineIs DEF IsDocument
<1>2. d.phantom \in BOOLEAN /\ d.clearing \in BOOLEAN
  BY <1>1 DEF Doc
<1>3. kept \in ScreenLine /\ kept.cells \in Nat
  <2>1. kept \in ScreenLine
    BY <1>1, LinesAre
  <2> QED
    BY <2>1 DEF ScreenLine
<1>4. end \in Nat
  BY <1>3, BoundsAre
<1> HIDE DEF kept, end, trims
<1>5. ASSUME NEW x \in ScreenLine, NEW c \in Nat, NEW q \in BOOLEAN
      PROVE  GoodOperation(d, Told(Rewrite(d, x, c, d.phantom, q), "UpdateLine"))
  BY <1>2, <1>5, RewrittenIsTold
<1>6. GoodOperation(d, Told([done EXCEPT !.lines[d.line] = TruncateFrom(kept, end), !.col = end],
                         "UpdateLine"))
  <2>1. TruncateFrom(kept, end) \in ScreenLine
    BY <1>3, <1>4, LinesAre
  <2>2. [done EXCEPT !.lines[d.line] = TruncateFrom(kept, end), !.col = end]
          = Rewrite(d, TruncateFrom(kept, end), end, d.phantom, FALSE)
    BY <1>1 DEF Doc, Rewrite
  <2> QED
    BY <1>4, <1>5, <2>1, <2>2
<1>7. GoodOperation(d, Told([done EXCEPT !.lines[d.line] = kept], "UpdateLine"))
  <2>1. [done EXCEPT !.lines[d.line] = kept]
          = Rewrite(d, kept, d.col, d.phantom, FALSE)
    BY <1>1 DEF Doc, Rewrite
  <2> QED
    BY <1>1, <1>3, <1>5, <2>1
<1>8. GoodOperation(d, Told([d EXCEPT !.lines[d.line] = Blanked(@)], "UpdateLine"))
  <2>1. Blanked(d.lines[d.line]) \in ScreenLine
    BY <1>1, LinesAre
  <2>2. [d EXCEPT !.lines[d.line] = Blanked(@)]
          = Rewrite(d, Blanked(d.lines[d.line]), d.col, d.phantom, d.clearing)
    BY <1>1, FieldsAre DEF Doc, Rewrite
  <2> QED
    BY <1>1, <1>2, <1>5, <2>1, <2>2
<1>9. GoodOperation(d, Told([d EXCEPT !.lines[d.line] = TruncateFrom(@, 0)], "UpdateLine"))
  <2>1. TruncateFrom(d.lines[d.line], 0) \in ScreenLine
    BY <1>1, LinesAre
  <2>2. [d EXCEPT !.lines[d.line] = TruncateFrom(@, 0)]
          = Rewrite(d, TruncateFrom(d.lines[d.line], 0), d.col, d.phantom, d.clearing)
    BY <1>1, FieldsAre DEF Doc, Rewrite
  <2> QED
    BY <1>1, <1>2, <1>5, <2>1, <2>2
<1>10. ASSUME pops PROVE GoodOperation(d, <<PopLine(done)>>)
  <2>1. done \in Doc /\ done.lines = d.lines /\ done.line = d.line
    BY <1>1 DEF Doc
  <2> HIDE DEF done
  <2>2. IsDocument(done)
    BY <2>1 DEF IsDocument
  <2>3. HasLine(done) /\ done.line > 1
    BY <1>10, <2>1 DEF HasLine
  <2>4. GoodStage(done, PopLine(done))
    BY <2>2, <2>3, PopLineIsGood
  <2>5. GoodStage(d, PopLine(done))
    <3>1. PopLine(done).says[1].type # "UpdateLine" /\ Len(PopLine(done).says) = 1
      BY DEF PopLine, Shrunk, Notice
    <3> QED
      BY <2>4, <3>1 DEF GoodStage, TellsAll
  <2> QED
    BY <2>5, OneStage
<1> HIDE DEF done
<1>11. EraseInLine(d, mode, blanks) =
         CASE pops -> <<PopLine(done)>>
           [] mode = 0 /\ trims
                -> Told([done EXCEPT !.lines[d.line] = TruncateFrom(kept, end), !.col = end],
                        "UpdateLine")
           [] mode = 0 -> Told([done EXCEPT !.lines[d.line] = kept], "UpdateLine")
           [] mode = 1 -> Told([d EXCEPT !.lines[d.line] = Blanked(@)], "UpdateLine")
           [] OTHER -> Told([d EXCEPT !.lines[d.line] = TruncateFrom(@, 0)], "UpdateLine")
  BY DEF EraseInLine, done, kept, end, trims
<1> HIDE DEF pops
<1> DEFINE E == EraseInLine(d, mode, blanks)
<1>12. \/ pops /\ E = <<PopLine(done)>>
       \/ E = Told([done EXCEPT !.lines[d.line] = TruncateFrom(kept, end), !.col = end],
                   "UpdateLine")
       \/ E = Told([done EXCEPT !.lines[d.line] = kept], "UpdateLine")
       \/ E = Told([d EXCEPT !.lines[d.line] = Blanked(@)], "UpdateLine")
       \/ E = Told([d EXCEPT !.lines[d.line] = TruncateFrom(@, 0)], "UpdateLine")
  BY <1>11
<1> HIDE DEF E
<1>13. GoodOperation(d, E)
  BY <1>6, <1>7, <1>8, <1>9, <1>10, <1>12
<1> QED
  BY <1>13 DEF E

LEMMA Parted ==
    ASSUME NEW L \in Seq(ScreenLine), NEW x \in Nat \ {0}, x <= Len(L) + 1
    PROVE  /\ SubSeq(L, 1, x - 1) \in Seq(ScreenLine) /\ Len(SubSeq(L, 1, x - 1)) = x - 1
           /\ SubSeq(L, x, Len(L)) \in Seq(ScreenLine) /\ Len(SubSeq(L, x, Len(L))) \in Nat
OBVIOUS

LEMMA LinesJoined ==
    ASSUME NEW a \in Seq(ScreenLine), NEW b \in Seq(ScreenLine)
    PROVE  a \o b \in Seq(ScreenLine) /\ Len(a \o b) = Len(a) + Len(b)
OBVIOUS

\* Another text with the cursor where it is.
LEMMA OtherLines ==
    ASSUME NEW d, IsDocument(d), NEW L \in Seq(ScreenLine), d.line <= Len(L) + 1
    PROVE  LET e == [d EXCEPT !.lines = L]
           IN IsDocument(e) /\ e.lines = L /\ e.line = d.line /\ e.col = d.col
<1> DEFINE e == [d EXCEPT !.lines = L]
<1>1. d \in Doc /\ d.line \in Nat \ {0}
  BY FieldsAre DEF IsDocument
<1>2. e \in Doc /\ e.lines = L /\ e.line = d.line /\ e.col = d.col
  BY <1>1 DEF Doc
<1> HIDE DEF e
<1>3. IsDocument(e)
  BY <1>1, <1>2 DEF IsDocument
<1> QED
  BY <1>2, <1>3 DEF e

LEMMA InsertLinesIsGood ==
    ASSUME NEW d, IsDocument(d), NEW n \in Nat \ {0}
    PROVE  GoodOperation(d, InsertLines(d, n))
<1> DEFINE More(k) == SubSeq(d.lines, 1, d.line - 1) \o [j \in 1..k |-> NewLineText]
                      \o SubSeq(d.lines, d.line, Len(d.lines))
           S(k) == Grown([d EXCEPT !.lines = More(k)], d.line, d.line)
           all == [k \in 1..n |-> S(k)]
<1>1. ASSUME NEW k \in 1..n, NEW f PROVE GoodStage(f, S(k))
  <2> DEFINE a == SubSeq(d.lines, 1, d.line - 1)
             b == [j \in 1..k |-> NewLineText]
             c == SubSeq(d.lines, d.line, Len(d.lines))
  <2>1. /\ d.lines \in Seq(ScreenLine) /\ d.line <= Len(d.lines) + 1 /\ Len(d.lines) \in Nat
        /\ d.line \in Nat \ {0}
    BY FieldsAre
  <2>2. a \in Seq(ScreenLine) /\ Len(a) = d.line - 1
    BY <2>1
  <2>3. b \in Seq(ScreenLine) /\ Len(b) = k
    BY LinesAre
  <2>4. c \in Seq(ScreenLine) /\ Len(c) = Len(d.lines) - d.line + 1
    BY <2>1
  <2> HIDE DEF a, b, c
  <2>5. a \o b \o c \in Seq(ScreenLine) /\ Len(a \o b \o c) = (d.line - 1 + k) + (Len(d.lines) - d.line + 1)
    <3>1. a \o b \in Seq(ScreenLine) /\ Len(a \o b) = d.line - 1 + k
      BY <2>2, <2>3, LinesJoined
    <3>2. a \o b \o c \in Seq(ScreenLine) /\ Len(a \o b \o c) = Len(a \o b) + Len(c)
      BY <2>4, <3>1, LinesJoined
    <3> QED
      BY <2>4, <3>1, <3>2
  <2>6. d.line <= Len(a \o b \o c) + 1
    <3>1. \A x, y \in Nat : x <= y + 1 => x <= (x - 1 + k) + (y - x + 1) + 1
      OBVIOUS
    <3> QED
      BY <2>1, <2>5, <3>1
  <2>7. IsDocument([d EXCEPT !.lines = a \o b \o c])
    BY <2>5, <2>6, OtherLines
  <2>8. GoodStage(f, Grown([d EXCEPT !.lines = a \o b \o c], d.line, d.line))
    BY <2>1, <2>7, GrownIsGood
  <2> QED
    BY <2>8 DEF a, b, c
<1>2. InsertLines(d, n) = all
  BY DEF InsertLines
<1> HIDE DEF S
<1>3. all \in Seq(ScreenStages) /\ Len(all) = n
  BY <1>1 DEF GoodStage
<1>4. ASSUME NEW k \in 1..Len(all)
      PROVE  GoodStage(IF k = 1 THEN d ELSE all[k - 1].doc, all[k])
  <2>1. k \in 1..n /\ all[k] = S(k)
    BY <1>3
  <2> QED
    BY <1>1, <2>1
<1> HIDE DEF all
<1>5. GoodOperation(d, all)
  BY <1>3, <1>4 DEF GoodStages, GoodOperation
<1> QED
  BY <1>2, <1>5

\* The lines below may all go, and the cursor's too.
LEMMA DeleteLinesIsGood ==
    ASSUME NEW d, IsDocument(d), NEW n \in Nat \ {0}
    PROVE  GoodStages(d, DeleteLines(d, n))
<1> DEFINE m == Lesser(n, Back(Len(d.lines) + 1, d.line))
           Left(k) == SubSeq(d.lines, 1, d.line - 1) \o SubSeq(d.lines, d.line + k, Len(d.lines))
           S(k) == Shrunk([d EXCEPT !.lines = Left(k)], d.line, d.line)
           all == [k \in 1..m |-> S(k)]
<1>1. /\ d.lines \in Seq(ScreenLine) /\ d.line <= Len(d.lines) + 1 /\ Len(d.lines) \in Nat
      /\ d.line \in Nat \ {0}
  BY FieldsAre
<1>2. m \in Nat /\ \A k \in 1..m : d.line + k <= Len(d.lines) + 1
  <2>1. ASSUME NEW x \in Nat \ {0}, NEW y \in Nat, x <= y + 1
        PROVE  LET q == Lesser(n, Back(y + 1, x)) IN q \in Nat /\ \A k \in 1..q : x + k <= y + 1
    BY <2>1 DEF Lesser, Back
  <2> QED
    BY <1>1, <2>1
<1> HIDE DEF m
<1>3. ASSUME NEW k \in 1..m, NEW f PROVE GoodStage(f, S(k))
  <2> DEFINE a == SubSeq(d.lines, 1, d.line - 1)
             b == SubSeq(d.lines, d.line + k, Len(d.lines))
  <2>1. k \in Nat \ {0} /\ d.line + k <= Len(d.lines) + 1 /\ d.line + k \in Nat \ {0}
    BY <1>1, <1>2
  <2>2. a \in Seq(ScreenLine) /\ Len(a) = d.line - 1
    BY <1>1, Parted
  <2>3. b \in Seq(ScreenLine) /\ Len(b) \in Nat
    BY <1>1, <2>1, Parted
  <2> HIDE DEF a, b
  <2>4. a \o b \in Seq(ScreenLine) /\ Len(a \o b) = (d.line - 1) + Len(b)
    BY <2>2, <2>3, LinesJoined
  <2>5. d.line <= Len(a \o b) + 1
    BY <1>1, <2>3, <2>4
  <2>6. IsDocument([d EXCEPT !.lines = a \o b])
    BY <2>4, <2>5, OtherLines
  <2>7. GoodStage(f, Shrunk([d EXCEPT !.lines = a \o b], d.line, d.line))
    BY <1>1, <2>6, ShrunkIsGood
  <2> QED
    BY <2>7 DEF a, b
<1>4. DeleteLines(d, n) = all
  BY DEF DeleteLines, IsDocument, Doc, m
<1> HIDE DEF S
<1>5. all \in Seq(ScreenStages) /\ Len(all) = m
  BY <1>2, <1>3 DEF GoodStage
<1>6. ASSUME NEW k \in 1..Len(all)
      PROVE  GoodStage(IF k = 1 THEN d ELSE all[k - 1].doc, all[k])
  <2>1. k \in 1..m /\ all[k] = S(k)
    BY <1>5
  <2> QED
    BY <1>3, <2>1
<1> QED
  BY <1>4, <1>5, <1>6 DEF GoodStages

\* A canvas of its own.
LEMMA CanvasIsTold ==
    ASSUME NEW d, NEW e, IsDocument(e), NEW at \in Nat
    PROVE  GoodOperation(d, <<Change(e, <<Notice("CanvasReset", at)>>)>>)
<1> DEFINE s == Change(e, <<Notice("CanvasReset", at)>>)
<1>1. e \in Doc
  BY DEF IsDocument
<1>2. /\ s = [doc |-> e, says |-> <<[type |-> "CanvasReset", at |-> at]>>,
              moves |-> [way |-> "none", at |-> 0]]
  BY DEF Change, Notice, Nowhere
<1> HIDE DEF s
<1>3. s \in ScreenStages /\ s.doc = e /\ Len(s.says) = 1 /\ s.says[1].type = "CanvasReset"
  BY <1>1, <1>2, NoteIsOne DEF NoteTypes
<1>4. MovesAsTold(s) /\ TellsAll(d, s)
  BY <1>2, <1>3 DEF MovesAsTold, TellsAll
<1>5. GoodStage(d, s)
  BY <1>3, <1>4 DEF GoodStage
<1>6. GoodOperation(d, <<s>>)
  BY <1>5, OneStage
<1> QED
  BY <1>6 DEF s

LEMMA AdvanceCanvasIsGood ==
    ASSUME NEW d, IsDocument(d)
    PROVE  GoodOperation(d, AdvanceCanvas(d))
<1> DEFINE last == Len(d.lines) + 1
           L == Append(d.lines, NewLineText)
           e == [d EXCEPT !.lines = Append(@, NewLineText), !.start = last, !.line = last,
                          !.col = 0]
<1>1. d \in Doc /\ d.lines \in Seq(ScreenLine) /\ last \in Nat \ {0}
  BY FieldsAre DEF IsDocument
<1>2. L \in Seq(ScreenLine) /\ Len(L) = last
  BY <1>1, LineAdded
<1>3. e = [d EXCEPT !.lines = L, !.start = last, !.line = last, !.col = 0]
  BY <1>1 DEF Doc
<1> HIDE DEF e, L, last
<1>4. e \in Doc /\ e.lines = L /\ e.line = last
  BY <1>1, <1>2, <1>3 DEF Doc
<1>5. IsDocument(e)
  BY <1>1, <1>2, <1>4 DEF IsDocument
<1>6. GoodOperation(d, <<Change(e, <<Notice("CanvasReset", last)>>)>>)
  BY <1>1, <1>5, CanvasIsTold
<1> QED
  BY <1>6 DEF AdvanceCanvas, e, last

LEMMA FullResetIsGood ==
    ASSUME NEW d, IsDocument(d), NEW clear \in BOOLEAN
    PROVE  GoodOperation(d, FullReset(d, clear))
<1> DEFINE reset == [d EXCEPT !.insert = FALSE, !.clearing = FALSE]
           e == [reset EXCEPT !.lines = <<NewLineText>>, !.line = 1, !.col = 0, !.start = 1]
<1>1. IsDocument(reset)
  BY DEF IsDocument, Doc
<1>2. \A f : IsDocument(f) => GoodOperation(d, AdvanceCanvas(f))
  <2> TAKE f
  <2> HAVE IsDocument(f)
  <2>1. GoodOperation(f, AdvanceCanvas(f)) /\ Len(AdvanceCanvas(f)) = 1
    <3>1. GoodOperation(f, AdvanceCanvas(f))
      BY AdvanceCanvasIsGood
    <3>2. Len(AdvanceCanvas(f)) = 1
      BY DEF AdvanceCanvas
    <3> QED
      BY <3>1, <3>2
  <2>2. GoodStage(f, AdvanceCanvas(f)[1])
    BY <2>1 DEF GoodStages, GoodOperation
  <2>3. AdvanceCanvas(f)[1].says[1].type = "CanvasReset" /\ Len(AdvanceCanvas(f)[1].says) = 1
    BY DEF AdvanceCanvas, Change, Notice
  <2>4. GoodStage(d, AdvanceCanvas(f)[1])
    BY <2>2, <2>3 DEF GoodStage, TellsAll
  <2> QED
    BY <2>1, <2>4 DEF GoodStages, GoodOperation
<1>3. IsDocument(e)
  <2> DEFINE L == <<NewLineText>>
             one == 1
  <2>1. L \in Seq(ScreenLine) /\ Len(L) = 1 /\ one \in Nat \ {0} /\ one = 1
    BY LinesAre
  <2>2. reset \in Doc
    BY <1>1 DEF IsDocument
  <2> HIDE DEF L, reset, one
  <2>3. e = [reset EXCEPT !.lines = L, !.line = one, !.col = 0, !.start = one]
    BY <2>1 DEF L
  <2> HIDE DEF e
  <2>4. e \in Doc /\ e.lines = L /\ e.line = one
    BY <2>1, <2>2, <2>3 DEF Doc
  <2>5. one \in 1..(Len(L) + 1)
    BY <2>1
  <2> QED
    BY <2>4, <2>5 DEF IsDocument
<1> HIDE DEF reset, e
<1>4. GoodOperation(d, <<Change(e, <<Notice("CanvasReset", 1)>>)>>)
  BY <1>3, CanvasIsTold
<1>5. GoodOperation(d, AdvanceCanvas(reset))
  BY <1>1, <1>2
<1> QED
  BY <1>4, <1>5 DEF FullReset, e, reset

LEMMA LoadScrollbackIsGood ==
    ASSUME NEW d, IsDocument(d), NEW n \in Nat
    PROVE  GoodOperation(d, LoadScrollback(d, n))
<1> DEFINE more == [k \in 1..(n + 1) |-> [cells |-> 1, text |-> 0]]
           L == more \o d.lines
           e == [d EXCEPT !.lines = more \o @, !.start = @ + n + 1, !.line = @ + n + 1]
<1>1. d \in Doc /\ d.lines \in Seq(ScreenLine) /\ d.start \in Nat \ {0}
      /\ d.line <= Len(d.lines) + 1 /\ d.line \in Nat \ {0} /\ Len(d.lines) \in Nat
  BY FieldsAre DEF IsDocument
<1>2. more \in Seq(ScreenLine) /\ Len(more) = n + 1
  BY DEF ScreenLine
<1> HIDE DEF more
<1>3. L \in Seq(ScreenLine) /\ Len(L) = n + 1 + Len(d.lines)
  BY <1>1, <1>2, LinesJoined
<1>4. e = [d EXCEPT !.lines = L, !.start = d.start + n + 1, !.line = d.line + n + 1]
  BY <1>1 DEF Doc
<1>5. /\ d.start + n + 1 \in Nat \ {0} /\ d.line + n + 1 \in Nat \ {0}
      /\ d.line + n + 1 \in 1..((n + 1 + Len(d.lines)) + 1)
  <2>1. ASSUME NEW x \in Nat \ {0}, NEW y \in Nat \ {0}, NEW z \in Nat, y <= z + 1
        PROVE  /\ x + n + 1 \in Nat \ {0} /\ y + n + 1 \in Nat \ {0}
               /\ y + n + 1 \in 1..((n + 1 + z) + 1)
    BY <2>1
  <2> HIDE DEF e, L
  <2> QED
    BY <1>1, <2>1
<1> HIDE DEF e, L
<1>6. e \in Doc /\ e.lines = L /\ e.line = d.line + n + 1
  BY <1>1, <1>3, <1>4, <1>5 DEF Doc
<1>7. IsDocument(e)
  BY <1>3, <1>5, <1>6 DEF IsDocument
<1>8. GoodOperation(d, <<Change(e, <<Notice("CanvasReset", d.start + n + 1)>>)>>)
  BY <1>5, <1>7, CanvasIsTold
<1> QED
  BY <1>8 DEF LoadScrollback, e, more

LEMMA UpdatesAre ==
    ASSUME NEW a \in Nat \ {0}, NEW b \in Nat
    PROVE  /\ Updates(a, b) \in Seq([type : NoteTypes, at : Nat])
           /\ \A k \in 1..Len(Updates(a, b)) : Updates(a, b)[k].type = "UpdateLine"
           /\ \A l \in a..b : \E k \in 1..Len(Updates(a, b)) : Updates(a, b)[k].at = l
<1> DEFINE n == Back(b + 1, a)
           N == [type : NoteTypes, at : Nat]
           u == [k \in 1..n |-> Notice("UpdateLine", a + k - 1)]
<1>1. n \in Nat /\ (a <= b => n = b + 1 - a)
  BY DEF Back
<1> HIDE DEF n
<1>2. \A k \in 1..n : Notice("UpdateLine", a + k - 1) \in N
  <2> TAKE k \in 1..n
  <2>1. a + k - 1 \in Nat
    OBVIOUS
  <2> QED
    BY <2>1 DEF Notice, NoteTypes
<1> HIDE DEF N
<1>3. u \in Seq(N) /\ Len(u) = n
  BY <1>1, <1>2
<1>4. ASSUME NEW k \in 1..n PROVE u[k].type = "UpdateLine" /\ u[k].at = a + k - 1
  BY <1>4 DEF Notice
<1>5. Updates(a, b) = u
  BY DEF Updates, n
<1> HIDE DEF u
<1>6. ASSUME NEW l \in a..b PROVE \E k \in 1..n : u[k].at = l
  <2>1. l - a + 1 \in 1..n /\ a + (l - a + 1) - 1 = l
    BY <1>1
  <2> QED
    BY <1>4, <2>1
<1> QED
  BY <1>3, <1>4, <1>5, <1>6 DEF N

\* Lines are cleared, and each is announced.
LEMMA ClearedIsGood ==
    ASSUME NEW d, IsDocument(d), NEW a \in Nat \ {0}, NEW b \in Nat
    PROVE  LET e == ClearedLines(d, a..b)
           IN /\ IsDocument(e) /\ InPlace(d, e)
              /\ GoodStage(d, Change(e, Updates(a, b)))
<1> DEFINE L == [l \in DOMAIN d.lines |-> IF l \in a..b THEN TruncateFrom(d.lines[l], 0)
                                          ELSE d.lines[l]]
           e == ClearedLines(d, a..b)
           s == Change(e, Updates(a, b))
<1>1. d \in Doc /\ d.lines \in Seq(ScreenLine) /\ DOMAIN d.lines = 1..Len(d.lines)
      /\ Len(d.lines) \in Nat /\ d.line <= Len(d.lines) + 1
  BY FieldsAre DEF IsDocument
<1>2. \A l \in 1..Len(d.lines) : d.lines[l] \in ScreenLine /\ TruncateFrom(d.lines[l], 0) \in ScreenLine
  <2> TAKE l \in 1..Len(d.lines)
  <2>1. d.lines[l] \in ScreenLine
    BY <1>1
  <2> QED
    BY <2>1, LinesAre
<1>3. L \in Seq(ScreenLine) /\ Len(L) = Len(d.lines)
  BY <1>1, <1>2
<1>4. \A l \in 1..Len(d.lines) : l \notin a..b => L[l] = d.lines[l]
  BY <1>1
<1>5. e = [d EXCEPT !.lines = L]
  BY <1>1 DEF ClearedLines, Doc
<1> HIDE DEF L, e
<1>6. IsDocument(e) /\ e.lines = L /\ e.line = d.line /\ e.col = d.col
  BY <1>1, <1>3, <1>5, OtherLines
<1>7. InPlace(d, e)
  BY <1>3, <1>6 DEF InPlace
<1>8. /\ Updates(a, b) \in Seq([type : NoteTypes, at : Nat])
      /\ \A k \in 1..Len(Updates(a, b)) : Updates(a, b)[k].type = "UpdateLine"
      /\ \A l \in a..b : \E k \in 1..Len(Updates(a, b)) : Updates(a, b)[k].at = l
  BY UpdatesAre
<1>9. s \in ScreenStages /\ s.doc = e /\ s.says = Updates(a, b) /\ s.moves.way = "none"
  <2>1. e \in Doc
    BY <1>6 DEF IsDocument
  <2> QED
    BY <1>8, <2>1 DEF ScreenStages, Change, Nowhere
<1> HIDE DEF s
<1>10. MovesAsTold(s)
  BY <1>8, <1>9 DEF MovesAsTold
<1>11. TellsAll(d, s)
  <2>1. ASSUME NEW l \in 1..Len(d.lines)
        PROVE  \/ s.doc.lines[l] = d.lines[l] /\ (l = d.line => s.doc.col = d.col)
               \/ \E k \in 1..Len(s.says) : s.says[k].at = l
    <3>1. CASE l \in a..b
      BY <1>8, <1>9, <3>1
    <3>2. CASE l \notin a..b
      BY <1>4, <1>6, <1>9, <3>2
    <3> QED
      BY <3>1, <3>2
  <2> QED
    BY <1>7, <1>9, <2>1 DEF TellsAll
<1>12. GoodStage(d, s)
  BY <1>6, <1>9, <1>10, <1>11 DEF GoodStage
<1> QED
  BY <1>6, <1>7, <1>12 DEF e, s

LEMMA EraseInDisplayIsGood ==
    ASSUME NEW d, IsDocument(d), NEW mode \in 0..2, HasLine(d) \/ AsksForCanvas(d, mode)
    PROVE  GoodOperation(d, EraseInDisplay(d, mode))
<1> DEFINE kept == [d EXCEPT !.lines[d.line] = TruncateFrom(@, d.col)]
           below == Len(d.lines)
           above == ClearedLines(d, d.start..(d.line - 1))
           rest == Change(ClearedLines(kept, (d.line + 1)..below), Updates(d.line + 1, below))
           first == Change(above, Updates(d.start, d.line - 1))
           blank == [above EXCEPT !.lines[d.line] = Blanked(@)]
<1>1. /\ d \in Doc /\ d.col \in Nat /\ d.line \in Nat \ {0}
      /\ d.start \in Nat \ {0} /\ below \in Nat
      /\ d.lines \in Seq(ScreenLine)
  BY FieldsAre DEF IsDocument
<1>2. ASSUME NEW f, IsDocument(f), HasLine(f), NEW x \in ScreenLine
      PROVE  LET e == [f EXCEPT !.lines[f.line] = x]
             IN IsDocument(e) /\ GoodOperation(f, Told(e, "UpdateLine"))
  <2>1. f \in Doc /\ f.col \in Nat /\ f.phantom \in BOOLEAN /\ f.clearing \in BOOLEAN
    BY <1>2 DEF IsDocument, Doc
  <2>2. [f EXCEPT !.lines[f.line] = x]
          = Rewrite(f, x, f.col, f.phantom, f.clearing)
    BY <2>1 DEF Doc, Rewrite
  <2> DEFINE e == Rewrite(f, x, f.col, f.phantom, f.clearing)
  <2>3. IsDocument(e) /\ GoodOperation(f, Told(e, "UpdateLine"))
    BY <1>2, <2>1, RewrittenIsTold
  <2> QED
    BY <2>2, <2>3
<1>3. ASSUME HasLine(d) PROVE GoodOperation(d, Told(kept, "UpdateLine") \o <<rest>>)
  <2> DEFINE x == TruncateFrom(d.lines[d.line], d.col)
  <2>1. x \in ScreenLine
    BY <1>1, <1>3, LineIs, LinesAre
  <2>2. kept = [d EXCEPT !.lines[d.line] = x]
    BY <1>1 DEF Doc
  <2> HIDE DEF x, kept
  <2>3. IsDocument(kept) /\ GoodOperation(d, Told(kept, "UpdateLine"))
    BY <1>2, <1>3, <2>1, <2>2
  <2>4. d.line + 1 \in Nat \ {0}
    BY <1>1
  <2>5. GoodStage(kept, rest)
    BY <1>1, <2>3, <2>4, ClearedIsGood
  <2> DEFINE s == Change(kept, <<Notice("UpdateLine", kept.line)>>)
  <2>6. Told(kept, "UpdateLine") = <<s>> /\ s.doc = kept
    BY DEF Told, Change
  <2> HIDE DEF s, rest
  <2>7. GoodStage(d, s)
    BY <2>3, <2>6, FirstStage DEF GoodOperation
  <2>8. GoodOperation(kept, <<rest>>)
    BY <2>5, OneStage
  <2> QED
    BY <2>6, <2>7, <2>8, StageBefore DEF GoodOperation
<1>4. ASSUME HasLine(d) PROVE GoodOperation(d, <<first>> \o Told(blank, "UpdateLine"))
  <2>1. d.line - 1 \in Nat
    BY <1>1
  <2>2. IsDocument(above) /\ InPlace(d, above) /\ GoodStage(d, first)
    BY <1>1, <2>1, ClearedIsGood
  <2>3. above.line = d.line /\ HasLine(above)
    <3>1. above.line = d.line /\ Len(above.lines) = Len(d.lines)
      BY <2>2 DEF InPlace
    <3>2. DOMAIN above.lines = 1..Len(above.lines) /\ DOMAIN d.lines = 1..Len(d.lines)
      BY <2>2, FieldsAre
    <3> HIDE DEF above
    <3> QED
      BY <1>4, <3>1, <3>2 DEF HasLine
  <2> DEFINE x == Blanked(above.lines[d.line])
  <2>4. x \in ScreenLine
    BY <2>2, <2>3, LineIs, LinesAre
  <2>5. blank = [above EXCEPT !.lines[above.line] = x]
    <3>1. above \in Doc /\ above.lines \in Seq(ScreenLine) /\ above.line \in DOMAIN above.lines
      BY <2>2, <2>3, FieldsAre DEF IsDocument, HasLine
    <3> HIDE DEF above
    <3> QED
      BY <2>3, <3>1 DEF Doc
  <2>6. first.doc = above
    BY DEF Change
  <2> HIDE DEF above, x, blank, first
  <2>7. GoodOperation(above, Told(blank, "UpdateLine"))
    BY <1>2, <2>2, <2>3, <2>4, <2>5
  <2> QED
    BY <2>2, <2>6, <2>7, StageBefore DEF GoodOperation
<1>5. GoodOperation(d, AdvanceCanvas(d))
  BY AdvanceCanvasIsGood
<1> DEFINE E == EraseInDisplay(d, mode)
<1>6. \/ HasLine(d) /\ E = Told(kept, "UpdateLine") \o <<rest>>
      \/ HasLine(d) /\ E = <<first>> \o Told(blank, "UpdateLine")
      \/ E = AdvanceCanvas(d)
  <2> HIDE DEF kept, rest, first, blank
  <2>1. E = CASE mode = 0 /\ ~AsksForCanvas(d, mode)
                   -> Told(kept, "UpdateLine") \o <<rest>>
              [] mode = 1 -> <<first>> \o Told(blank, "UpdateLine")
              [] OTHER -> AdvanceCanvas(d)
    BY DEF EraseInDisplay, kept, rest, first, blank
  <2> HIDE DEF E
  <2>2. mode = 1 => ~AsksForCanvas(d, mode)
    BY DEF AsksForCanvas
  <2> QED
    BY <2>1, <2>2
<1> HIDE DEF E, kept, rest, first, blank
<1>7. GoodOperation(d, E)
  BY <1>3, <1>4, <1>5, <1>6
<1> QED
  BY <1>7 DEF E

-----------------------------------------------------------------------------
(* The view *)

ViewFields == {"line", "row", "auto", "left", "clamped", "all", "dirty", "slid"}

\* A view that does not follow the output stays; one that does may only move.
LEMMA FollowedDoes ==
    ASSUME NEW d, NEW v, DOMAIN v = ViewFields
    PROVE  LET w == Followed(d, v)
           IN /\ DOMAIN w = ViewFields /\ w.all = v.all /\ w.dirty = v.dirty /\ w.slid = v.slid
              /\ IF v.auto THEN w.auto = TRUE ELSE w = v
BY DEF Followed, ScrollToEnd, At, ViewFields

LEMMA TrackedDoes ==
    ASSUME NEW d, NEW v, DOMAIN v = ViewFields
    PROVE  LET w == Tracked(d, v)
           IN /\ DOMAIN w = ViewFields /\ w.all = v.all /\ w.dirty = v.dirty /\ w.slid = v.slid
              /\ IF v.auto THEN w.auto = TRUE ELSE w = v
<1> DEFINE u == ScrollToEnd(d, v)
           n == LeftFor(d, u.left)
<1>1. /\ DOMAIN u = ViewFields /\ u.all = v.all /\ u.dirty = v.dirty /\ u.slid = v.slid
      /\ u.auto = TRUE
  BY DEF ScrollToEnd, At, ViewFields
<1>2. Tracked(d, v) = IF v.auto THEN (IF wrap \/ ~u.clamped THEN u ELSE [u EXCEPT !.left = n])
                      ELSE v
  BY DEF Tracked, EnsureCursorVisibleHorizontally
<1> HIDE DEF u, n
<1> QED
  BY <1>1, <1>2 DEF ViewFields

LEMMA MarkAllDoes ==
    ASSUME NEW v, DOMAIN v = ViewFields
    PROVE  LET w == MarkAll(v)
           IN DOMAIN w = ViewFields /\ w.all = TRUE /\ w.auto = v.auto /\ w.line = v.line
BY DEF MarkAll, ViewFields

\* Of anything but an update all rows are to be painted.
LEMMA AllIsMarked ==
    ASSUME NEW d, NEW v, DOMAIN v = ViewFields, NEW note, note.type # "UpdateLine"
    PROVE  LET w == OnDocumentChanged(d, v, note) IN DOMAIN w = ViewFields /\ w.all = TRUE
<1> DEFINE w == OnDocumentChanged(d, v, note)
<1> DEFINE u == CASE note.type = "CursorMove" -> Tracked(d, v)
                  [] note.type = "InsertLine" -> LineInserted(d, v, note.at)
                  [] note.type = "DeleteLine" -> LineDeleted(d, v, note.at)
                  [] OTHER -> [At(v, Anchor(note.at, 0)) EXCEPT !.auto = TRUE]
<1>1. DOMAIN Tracked(d, v) = ViewFields
  BY TrackedDoes
<1>2. DOMAIN LineInserted(d, v, note.at) = ViewFields
  <2>1. DOMAIN (IF note.at <= v.line THEN [v EXCEPT !.line = @ + 1] ELSE v) = ViewFields
    OBVIOUS
  <2> QED
    BY <2>1, FollowedDoes DEF LineInserted
<1>3. DOMAIN LineDeleted(d, v, note.at) = ViewFields
  <2>1. DOMAIN (IF note.at < v.line THEN [v EXCEPT !.line = @ - 1]
                ELSE IF note.at = v.line
                       THEN At(v, Anchor(Lesser(note.at, Greater(1, Len(d.lines))), 0))
                ELSE v) = ViewFields
    BY DEF At
  <2> QED
    BY <2>1, FollowedDoes DEF LineDeleted
<1>4. DOMAIN [At(v, Anchor(note.at, 0)) EXCEPT !.auto = TRUE] = ViewFields
  BY DEF At
<1>5. DOMAIN u = ViewFields
  BY <1>1, <1>2, <1>3, <1>4
<1>6. w = MarkAll(u)
  BY DEF OnDocumentChanged
<1> HIDE DEF u
<1> QED
  BY <1>5, <1>6, MarkAllDoes

\* What a note marks, of a view that it makes w of: where it leaves the top of the
\* view, and moves the view sideways, that is kept.
Marks(d, v, note, w) ==
    /\ DOMAIN w = ViewFields
    /\ \/ w.all = TRUE
       \/ /\ note.type = "UpdateLine" /\ Top(w) = Top(v)
          /\ w.all = v.all /\ w.dirty = v.dirty \union RowsFor(d, v, note.at)
          /\ v.slid => w.slid
          /\ v.all \/ w.slid \/ w.left = v.left

\* Of an update the rows of its line are to be painted, unless the view moves.
LEMMA Marked ==
    ASSUME NEW d, NEW v, DOMAIN v = ViewFields, NEW note
    PROVE  Marks(d, v, note, OnDocumentChanged(d, v, note))
<1> DEFINE w == OnDocumentChanged(d, v, note)
<1>1. CASE note.type = "UpdateLine"
  <2> DEFINE to == Tracked(d, v)
  <2>1. DOMAIN to = ViewFields /\ to.all = v.all /\ to.dirty = v.dirty /\ to.slid = v.slid
    BY TrackedDoes
  <2>2. w = IF Top(to) # Top(v) THEN MarkAll(to)
            ELSE [to EXCEPT !.dirty = @ \cup RowsFor(d, to, note.at),
                            !.slid = @ \/ (to.left # v.left /\ ~v.all)]
    BY <1>1 DEF OnDocumentChanged, LineUpdated
  <2> HIDE DEF to, w
  <2>3. ASSUME Top(to) # Top(v) PROVE Marks(d, v, note, w)
    <3>1. DOMAIN w = ViewFields /\ w.all = TRUE
      BY <2>1, <2>2, <2>3, MarkAllDoes
    <3> QED
      BY <3>1 DEF Marks
  <2>4. ASSUME Top(to) = Top(v) PROVE Marks(d, v, note, w)
    <3> DEFINE rows == RowsFor(d, to, note.at)
               slides == to.left # v.left /\ ~v.all
    <3>1. rows = RowsFor(d, v, note.at)
      BY <2>4 DEF RowsFor
    <3> HIDE DEF rows, slides
    <3>2. w = [to EXCEPT !.dirty = @ \cup rows, !.slid = @ \/ slides]
      BY <2>2, <2>4 DEF rows, slides
    <3>3. /\ DOMAIN w = ViewFields /\ w.all = to.all /\ w.dirty = to.dirty \union rows
          /\ w.line = to.line /\ w.row = to.row /\ w.left = to.left
          /\ w.slid = (to.slid \/ slides)
      BY <2>1, <3>2 DEF ViewFields
    <3>4. Top(w) = Top(to)
      BY <3>3 DEF Top
    <3>5. (v.slid => w.slid) /\ (v.all \/ w.slid \/ w.left = v.left)
      BY <2>1, <3>3 DEF slides
    <3> QED
      BY <1>1, <2>1, <2>4, <3>1, <3>3, <3>4, <3>5 DEF Marks
  <2>5. Marks(d, v, note, w)
    BY <2>3, <2>4
  <2> QED
    BY <2>5 DEF w
<1>2. CASE note.type # "UpdateLine"
  <2>1. DOMAIN w = ViewFields /\ w.all = TRUE
    BY <1>2, AllIsMarked
  <2> HIDE DEF w
  <2>2. Marks(d, v, note, w)
    BY <2>1 DEF Marks
  <2> QED
    BY <2>2 DEF w
<1> QED
  BY <1>1, <1>2

\* Where a note takes a view that does not follow the output.
TakesTo(v, note, w) ==
    \/ w.auto = TRUE
    \/ /\ note.type = "InsertLine"
       /\ w.line = IF note.at <= v.line THEN v.line + 1 ELSE v.line
    \/ /\ note.type = "DeleteLine"
       /\ note.at # v.line => w.line = IF note.at < v.line THEN v.line - 1 ELSE v.line
    \/ note.type \notin {"InsertLine", "DeleteLine"} /\ w.line = v.line

\* A view that does not follow the output goes with the line at its top.
LEMMA ViewStays ==
    ASSUME NEW d, NEW v, DOMAIN v = ViewFields, ~v.auto, NEW note
    PROVE  LET w == OnDocumentChanged(d, v, note)
           IN \/ w.auto = TRUE
              \/ /\ note.type = "InsertLine"
                 /\ w.line = IF note.at <= v.line THEN v.line + 1 ELSE v.line
              \/ /\ note.type = "DeleteLine"
                 /\ note.at # v.line => w.line = IF note.at < v.line THEN v.line - 1 ELSE v.line
              \/ note.type \notin {"InsertLine", "DeleteLine"} /\ w.line = v.line
<1> DEFINE w == OnDocumentChanged(d, v, note)
<1>1. Tracked(d, v) = v
  BY TrackedDoes
<1>2. CASE note.type = "UpdateLine"
  <2>1. w = [v EXCEPT !.dirty = @ \cup RowsFor(d, v, note.at),
                      !.slid = @ \/ (v.left # v.left /\ ~v.all)]
    BY <1>1, <1>2 DEF OnDocumentChanged, LineUpdated
  <2> QED
    BY <1>2, <2>1 DEF ViewFields
<1>3. CASE note.type = "CursorMove"
  <2>1. w = MarkAll(v)
    BY <1>1, <1>3 DEF OnDocumentChanged
  <2> QED
    BY <1>3, <2>1, MarkAllDoes
<1>4. CASE note.type = "InsertLine"
  <2> DEFINE u == IF note.at <= v.line THEN [v EXCEPT !.line = @ + 1] ELSE v
  <2>1. DOMAIN u = ViewFields /\ u.auto = v.auto
        /\ u.line = IF note.at <= v.line THEN v.line + 1 ELSE v.line
    BY DEF ViewFields
  <2>2. w = MarkAll(Followed(d, u))
    BY <1>4 DEF OnDocumentChanged, LineInserted
  <2> HIDE DEF u
  <2>3. Followed(d, u) = u
    BY <2>1, FollowedDoes
  <2>4. w.line = u.line
    BY <2>1, <2>2, <2>3, MarkAllDoes
  <2> QED
    BY <1>4, <2>1, <2>4
<1>5. CASE note.type = "DeleteLine"
  <2> SUFFICES ASSUME note.at # v.line
               PROVE  w.line = IF note.at < v.line THEN v.line - 1 ELSE v.line
    BY <1>5
  <2> DEFINE u == IF note.at < v.line THEN [v EXCEPT !.line = @ - 1] ELSE v
  <2>1. DOMAIN u = ViewFields /\ u.auto = v.auto
        /\ u.line = IF note.at < v.line THEN v.line - 1 ELSE v.line
    BY DEF ViewFields
  <2>2. w = MarkAll(Followed(d, u))
    BY <1>5 DEF OnDocumentChanged, LineDeleted
  <2> HIDE DEF u
  <2>3. Followed(d, u) = u
    BY <2>1, FollowedDoes
  <2> QED
    BY <2>1, <2>2, <2>3, MarkAllDoes
<1>6. CASE note.type \notin {"UpdateLine", "CursorMove", "InsertLine", "DeleteLine"}
  <2> DEFINE u == [At(v, Anchor(note.at, 0)) EXCEPT !.auto = TRUE]
  <2>1. w = MarkAll(u)
    BY <1>6 DEF OnDocumentChanged
  <2>2. DOMAIN u = ViewFields /\ u.auto = TRUE
    BY DEF At, ViewFields
  <2> HIDE DEF u
  <2> QED
    BY <2>1, <2>2, MarkAllDoes
<1> QED
  BY <1>2, <1>3, <1>4, <1>5, <1>6

LEMMA Taken ==
    ASSUME NEW d, NEW v, DOMAIN v = ViewFields, ~v.auto, NEW note
    PROVE  TakesTo(v, note, OnDocumentChanged(d, v, note))
<1> DEFINE w == OnDocumentChanged(d, v, note)
<1>1. \/ w.auto = TRUE
      \/ /\ note.type = "InsertLine"
         /\ w.line = IF note.at <= v.line THEN v.line + 1 ELSE v.line
      \/ /\ note.type = "DeleteLine"
         /\ note.at # v.line => w.line = IF note.at < v.line THEN v.line - 1 ELSE v.line
      \/ note.type \notin {"InsertLine", "DeleteLine"} /\ w.line = v.line
  BY ViewStays
<1> HIDE DEF w
<1>2. TakesTo(v, note, w)
  BY <1>1 DEF TakesTo
<1> QED
  BY <1>2 DEF w

\* Where lines do not wrap, which line a row shows is a matter of how many there are.
LEMMA RowsAreLines ==
    ASSUME ~wrap, NEW d, NEW e, d.lines \in Seq(ScreenLine), e.lines \in Seq(ScreenLine),
           Len(d.lines) = Len(e.lines), NEW a, NEW n
    PROVE  WalkDown(d, a, n) = WalkDown(e, a, n)
<1>1. DOMAIN d.lines = DOMAIN e.lines
  OBVIOUS
<1>2. \A l : EffectiveCount(d, l) = EffectiveCount(e, l)
  BY DEF EffectiveCount, VisualCount
<1>3. [l \in DOMAIN d.lines |-> [r \in 1..EffectiveCount(d, l) |-> Anchor(l, r - 1)]]
        = [l \in DOMAIN e.lines |-> [r \in 1..EffectiveCount(e, l) |-> Anchor(l, r - 1)]]
  BY <1>1, <1>2
<1>4. RowsOf(d) = RowsOf(e)
  BY <1>3 DEF RowsOf
<1>5. RowNumber(d, a) = RowNumber(e, a)
  BY <1>1, <1>4 DEF RowNumber, SelectInSeq
<1> QED
  BY <1>4, <1>5 DEF WalkDown

\* A line that did not change shows what it did.
LEMMA LineShowsTheSame ==
    ASSUME NEW d, NEW e, d.lines \in Seq(ScreenLine), e.lines \in Seq(ScreenLine),
           InPlace(d, e), NEW a, NEW left,
           a.line \in 1..Len(d.lines) =>
              e.lines[a.line] = d.lines[a.line] /\ (a.line = d.line => e.col = d.col)
    PROVE  BuildRenderedLine(d, a, left) = BuildRenderedLine(e, a, left)
<1>1. DOMAIN d.lines = DOMAIN e.lines /\ DOMAIN d.lines = 1..Len(d.lines) /\ e.line = d.line
  BY DEF InPlace
<1>2. CASE a.line \notin DOMAIN d.lines
  BY <1>1, <1>2 DEF BuildRenderedLine
<1>3. CASE a.line \in DOMAIN d.lines
  <2>1. e.lines[a.line] = d.lines[a.line] /\ (a.line = d.line => e.col = d.col)
    BY <1>1, <1>3
  <2>2. CASE a.line = d.line
    BY <1>1, <1>3, <2>1, <2>2 DEF BuildRenderedLine
  <2>3. CASE a.line # d.line
    BY <1>1, <1>3, <2>1, <2>3 DEF BuildRenderedLine
  <2> QED
    BY <2>2, <2>3
<1> QED
  BY <1>2, <1>3

\* The same view of the same document shows the same, whatever else changes.
LEMMA WrapStays ==
    ASSUME wrap' = wrap, NEW d, NEW v
    PROVE  /\ \A r, left : RenderedRow(d, v, r, left)' = RenderedRow(d, v, r, left)
           /\ \A l : RowsFor(d, v, l)' = RowsFor(d, v, l)
<1>1. \A l : EffectiveCount(d, l)' = EffectiveCount(d, l)
  BY DEF EffectiveCount, VisualCount
<1>2. RowsOf(d)' = RowsOf(d)
  <2> DEFINE F == [l \in DOMAIN d.lines |-> [r \in 1..EffectiveCount(d, l) |-> Anchor(l, r - 1)]]
  <2>1. F' = F
    BY <1>1 DEF Anchor
  <2> HIDE DEF F
  <2>2. FlattenSeq(F)' = FlattenSeq(F)
    BY <2>1
  <2> QED
    BY <2>1, <2>2 DEF F, RowsOf, Anchor
<1>3. \A a : RowNumber(d, a)' = RowNumber(d, a)
  BY <1>2 DEF RowNumber, SelectInSeq, Anchor
<1>4. \A a, n : WalkDown(d, a, n)' = WalkDown(d, a, n)
  BY <1>2, <1>3 DEF WalkDown
<1>5. \A a, left : BuildRenderedLine(d, a, left)' = BuildRenderedLine(d, a, left)
  BY DEF BuildRenderedLine, BlankRow, NoCursor
<1>6. \A r, left : RenderedRow(d, v, r, left)' = RenderedRow(d, v, r, left)
  BY <1>4, <1>5 DEF RenderedRow
<1>7. ASSUME NEW l PROVE RowsFor(d, v, l)' = RowsFor(d, v, l)
  BY <1>4 DEF RowsFor
<1> QED
  BY <1>6, <1>7

LEMMA TopDecides ==
    ASSUME NEW d, NEW v, NEW w, Top(w) = Top(v)
    PROVE  /\ \A r, left : RenderedRow(d, w, r, left) = RenderedRow(d, v, r, left)
           /\ \A l : RowsFor(d, w, l) = RowsFor(d, v, l)
BY DEF RenderedRow, RowsFor

\* Where lines do not wrap, a row that is painted shows its line from the column the
\* view has.
LEMMA RowsShowTheirLines ==
    ASSUME ~wrap, NEW d, NEW v, NEW r \in 1..Rows
    PROVE  /\ Rendered(d, v)[r].from = v.left
           /\ Rendered(d, v)[r] = RenderedRow(d, v, r, Rendered(d, v)[r].from)
<1>1. Rendered(d, v)[r] = BuildRenderedLine(d, WalkDown(d, Top(v), r - 1), v.left)
  BY DEF Rendered, RenderedRow
<1>2. \A a : BuildRenderedLine(d, a, v.left).from = v.left
  BY DEF BuildRenderedLine, BlankRow
<1> QED
  BY <1>1, <1>2 DEF RenderedRow

-----------------------------------------------------------------------------
(* What every step keeps *)

\* Where what is still to be announced leaves the line the user reads.
ReadingKept ==
    reading # 0 =>
        /\ ~layout.auto
        /\ \/ /\ layout.line = reading
              /\ \A k \in 1..Len(notes) : notes[k].type \notin {"InsertLine", "DeleteLine"}
           \/ /\ Len(notes) = 1 /\ notes[1].type = "InsertLine"
              /\ reading = IF notes[1].at <= layout.line THEN layout.line + 1 ELSE layout.line
           \/ /\ Len(notes) = 1 /\ notes[1].type = "DeleteLine" /\ notes[1].at # layout.line
              /\ reading = IF notes[1].at < layout.line THEN layout.line - 1 ELSE layout.line

\* What is still to be announced marks row r.
ToldOf(r) ==
    \E k \in 1..Len(notes) : notes[k].type # "UpdateLine" \/ r \in RowsFor(doc, layout, notes[k].at)

\* A row shows its line as it is, or is to be painted, or will be.
PaintedOrOwed ==
    ~wrap => \A r \in 1..Rows :
                \/ ShowsItsLine(r)
                \/ r \in damage \/ layout.all \/ r \in layout.dirty \/ ToldOf(r)

\* What is marked has a refresh on its way.
MarksAreSeen == layout.all \/ layout.dirty # {} => pendingRefresh \/ timer

ScreenInv ==
    /\ IsDocument(doc) /\ GoodStages(doc, stages)
    /\ notes \in Seq([type : NoteTypes, at : Nat])
    /\ DOMAIN layout = ViewFields
    /\ painted = [r \in 1..Rows |-> painted[r]]
    /\ ReadingKept /\ PaintedOrOwed /\ MarksAreSeen

\* A stage changes nothing that it does not tell of.
LEMMA StageIsToldOf ==
    ASSUME IsDocument(doc), ~wrap, NEW s, GoodStage(doc, s), NEW r \in 1..Rows, NEW left
    PROVE  \/ RenderedRow(s.doc, layout, r, left) = RenderedRow(doc, layout, r, left)
           \/ \E k \in 1..Len(s.says) :
                 s.says[k].type # "UpdateLine" \/ r \in RowsFor(s.doc, layout, s.says[k].at)
<1> SUFFICES ASSUME \A k \in 1..Len(s.says) : s.says[k].type = "UpdateLine"
             PROVE  \/ RenderedRow(s.doc, layout, r, left) = RenderedRow(doc, layout, r, left)
                    \/ \E k \in 1..Len(s.says) : r \in RowsFor(s.doc, layout, s.says[k].at)
  OBVIOUS
<1> DEFINE e == s.doc
           a == WalkDown(doc, Top(layout), r - 1)
<1>1. /\ InPlace(doc, e)
      /\ \A l \in 1..Len(doc.lines) :
            \/ e.lines[l] = doc.lines[l] /\ (l = doc.line => e.col = doc.col)
            \/ \E k \in 1..Len(s.says) : s.says[k].at = l
  BY DEF GoodStage, TellsAll
<1>2. doc.lines \in Seq(ScreenLine) /\ e.lines \in Seq(ScreenLine) /\ Len(e.lines) = Len(doc.lines)
  BY <1>1, FieldsAre DEF GoodStage, InPlace
<1>3. WalkDown(e, Top(layout), r - 1) = a
  BY <1>2, RowsAreLines
<1> HIDE DEF a, e
<1>4. /\ RenderedRow(doc, layout, r, left) = BuildRenderedLine(doc, a, left)
      /\ RenderedRow(e, layout, r, left) = BuildRenderedLine(e, a, left)
  BY <1>3 DEF RenderedRow, a
<1>5. CASE a.line \in 1..Len(doc.lines) =>
              e.lines[a.line] = doc.lines[a.line] /\ (a.line = doc.line => e.col = doc.col)
  BY <1>1, <1>2, <1>4, <1>5, LineShowsTheSame DEF e
<1>6. CASE /\ a.line \in 1..Len(doc.lines)
           /\ ~(e.lines[a.line] = doc.lines[a.line] /\ (a.line = doc.line => e.col = doc.col))
  <2>1. PICK k \in 1..Len(s.says) : s.says[k].at = a.line
    BY <1>1, <1>6
  <2>2. a.line <= Len(e.lines)
    BY <1>2, <1>6
  <2>3. r \in RowsFor(e, layout, a.line)
    BY <1>3, <2>2 DEF RowsFor
  <2> QED
    BY <2>1, <2>3 DEF e
<1> QED
  BY <1>5, <1>6

\* The document changes, and what is announced of it is still to come.
LEMMA StageKeeps ==
    ASSUME ScreenInv, NEW s, NEW rest, notes = <<>>, GoodStage(doc, s),
           GoodStages(s.doc, rest), Stage(s, rest)
    PROVE  ScreenInv'
<1>1. /\ doc' = s.doc /\ notes' = s.says /\ stages' = rest /\ reading' = Follow(reading, s)
      /\ wrap' = wrap /\ layout' = layout /\ pendingRefresh' = pendingRefresh /\ timer' = timer
      /\ damage' = damage /\ painted' = painted
  BY DEF Stage, panel
<1>2. s.says \in Seq([type : NoteTypes, at : Nat]) /\ IsDocument(s.doc) /\ MovesAsTold(s)
      /\ s.moves.way \in {"none", "in", "out"}
  BY DEF GoodStage, ScreenStages
<1>3. ReadingKept'
  <2> SUFFICES ASSUME reading' # 0 PROVE ReadingKept'
    BY DEF ReadingKept
  <2>1. reading # 0 /\ reading' = Follow(reading, s)
    BY <1>1 DEF Follow
  <2>2. ~layout.auto /\ layout.line = reading
    BY <2>1 DEF ScreenInv, ReadingKept
  <2>3. CASE s.moves.way = "in"
    <3>1. Len(s.says) = 1 /\ s.says[1].type = "InsertLine"
      BY <1>2, <2>3 DEF MovesAsTold
    <3>2. reading' = IF s.says[1].at <= reading THEN reading + 1 ELSE reading
      BY <2>1, <2>3 DEF Follow
    <3> QED
      BY <1>1, <2>2, <3>1, <3>2 DEF ReadingKept
  <2>4. CASE s.moves.way = "out"
    <3>1. Len(s.says) = 1 /\ s.says[1].type = "DeleteLine"
      BY <1>2, <2>4 DEF MovesAsTold
    <3>2. /\ s.says[1].at # reading
          /\ reading' = IF s.says[1].at < reading THEN reading - 1 ELSE reading
      BY <2>1, <2>4, <3>1 DEF Follow
    <3> QED
      BY <1>1, <2>2, <3>1, <3>2 DEF ReadingKept
  <2>5. CASE s.moves.way = "none"
    <3>1. \A k \in 1..Len(s.says) : s.says[k].type \notin {"InsertLine", "DeleteLine"}
      BY <1>2, <2>5 DEF MovesAsTold
    <3>2. reading' = reading
      BY <2>1, <2>5 DEF Follow
    <3> QED
      BY <1>1, <2>2, <3>1, <3>2 DEF ReadingKept
  <2> QED
    BY <1>2, <2>3, <2>4, <2>5
<1>4. PaintedOrOwed'
  <2> SUFFICES ASSUME ~wrap, NEW r \in 1..Rows
               PROVE  \/ ShowsItsLine(r)'
                      \/ r \in damage \/ layout.all \/ r \in layout.dirty \/ ToldOf(r)'
    BY <1>1 DEF PaintedOrOwed
  <2>1. \A left : RenderedRow(doc, layout, r, left)' = RenderedRow(s.doc, layout, r, left)
    BY <1>1, WrapStays
  <2>2. \A l : RowsFor(doc, layout, l)' = RowsFor(s.doc, layout, l)
    BY <1>1, WrapStays
  <2>3. CASE \E k \in 1..Len(s.says) :
                s.says[k].type # "UpdateLine" \/ r \in RowsFor(s.doc, layout, s.says[k].at)
    <3>1. ToldOf(r)'
      BY <1>1, <2>2, <2>3 DEF ToldOf
    <3> QED
      BY <3>1
  <2>4. CASE \A left : RenderedRow(s.doc, layout, r, left) = RenderedRow(doc, layout, r, left)
    <3>1. ~ToldOf(r)
      BY DEF ToldOf
    <3>2. \/ ShowsItsLine(r)
          \/ r \in damage \/ layout.all \/ r \in layout.dirty
      BY <3>1 DEF ScreenInv, PaintedOrOwed
    <3>3. ShowsItsLine(r) => ShowsItsLine(r)'
      BY <1>1, <2>1, <2>4 DEF ShowsItsLine
    <3> QED
      BY <3>2, <3>3
  <2> QED
    BY <2>3, <2>4, StageIsToldOf DEF ScreenInv
<1>5. MarksAreSeen'
  BY <1>1 DEF ScreenInv, MarksAreSeen
<1> QED
  BY <1>1, <1>2, <1>3, <1>4, <1>5 DEF ScreenInv

LEMMA RunsKeeps ==
    ASSUME ScreenInv, NEW all, GoodOperation(doc, all), Runs(all)
    PROVE  ScreenInv'
<1>1. notes = <<>> /\ Stage(Head(all), Tail(all))
  BY DEF Runs, Idle
<1>2. GoodStage(doc, Head(all)) /\ GoodStages(Head(all).doc, Tail(all))
  BY FirstStage DEF GoodOperation
<1> QED
  BY <1>1, <1>2, StageKeeps

LEMMA ContinueKeeps ==
    ASSUME ScreenInv, Continue
    PROVE  ScreenInv'
<1>1. notes = <<>> /\ stages # <<>> /\ Stage(Head(stages), Tail(stages))
  BY DEF Continue
<1>2. GoodStages(doc, stages)
  BY DEF ScreenInv
<1>3. GoodStage(doc, Head(stages)) /\ GoodStages(Head(stages).doc, Tail(stages))
  BY <1>1, <1>2, FirstStage
<1> QED
  BY <1>1, <1>3, StageKeeps

\* A note is taken: what it marks is marked, and what it moves the view by the line
\* the user reads had already been moved by.
LEMMA NoteKeeps ==
    ASSUME ScreenInv, Announce, NEW note, note = Head(notes),
           NEW w, w = OnDocumentChanged(doc, layout, note)
    PROVE  ScreenInv'
<1>1. /\ notes \in Seq([type : NoteTypes, at : Nat]) /\ Len(notes) \in Nat \ {0}
      /\ notes[1] = note
  BY DEF ScreenInv, Announce
<1>2. /\ layout' = w /\ notes' = Tail(notes) /\ pendingRefresh' = TRUE
      /\ reading' = (IF layout'.auto THEN 0 ELSE reading)
      /\ wrap' = wrap /\ doc' = doc /\ stages' = stages /\ timer' = timer /\ damage' = damage
      /\ painted' = painted
  BY DEF Announce
<1>3. /\ notes' \in Seq([type : NoteTypes, at : Nat]) /\ Len(notes') = Len(notes) - 1
      /\ \A k \in 1..Len(notes') : notes'[k] = notes[k + 1]
  BY <1>1, <1>2
<1>4. DOMAIN layout = ViewFields
  BY DEF ScreenInv
<1>5. /\ DOMAIN w = ViewFields
      /\ \/ w.all = TRUE
         \/ /\ note.type = "UpdateLine" /\ Top(w) = Top(layout)
            /\ w.all = layout.all /\ w.dirty = layout.dirty \union RowsFor(doc, layout, note.at)
            /\ layout.slid => w.slid
            /\ layout.all \/ w.slid \/ w.left = layout.left
  <2>1. Marks(doc, layout, note, w)
    BY <1>4, Marked
  <2> QED
    BY <2>1 DEF Marks
<1>10. \/ layout.auto
       \/ w.auto = TRUE
       \/ /\ note.type = "InsertLine"
          /\ w.line = IF note.at <= layout.line THEN layout.line + 1 ELSE layout.line
       \/ /\ note.type = "DeleteLine"
          /\ note.at # layout.line =>
                w.line = IF note.at < layout.line THEN layout.line - 1 ELSE layout.line
       \/ note.type \notin {"InsertLine", "DeleteLine"} /\ w.line = layout.line
  <2>1. layout.auto \/ TakesTo(layout, note, w)
    BY <1>4, Taken
  <2> QED
    BY <2>1 DEF TakesTo
<1>6. ReadingKept'
  <2> SUFFICES ASSUME reading' # 0 PROVE ReadingKept'
    BY DEF ReadingKept
  <2>1. ~w.auto /\ reading' = reading /\ reading # 0
    BY <1>2
  <2>2. /\ ~layout.auto
        /\ \/ /\ layout.line = reading
              /\ \A k \in 1..Len(notes) : notes[k].type \notin {"InsertLine", "DeleteLine"}
           \/ /\ Len(notes) = 1 /\ note.type = "InsertLine"
              /\ reading = IF note.at <= layout.line THEN layout.line + 1 ELSE layout.line
           \/ /\ Len(notes) = 1 /\ note.type = "DeleteLine" /\ note.at # layout.line
              /\ reading = IF note.at < layout.line THEN layout.line - 1 ELSE layout.line
    BY <1>1, <2>1 DEF ScreenInv, ReadingKept
  <2>4. w.line = reading
    BY <1>1, <1>10, <2>1, <2>2
  <2>5. \A k \in 1..Len(notes') : notes'[k].type \notin {"InsertLine", "DeleteLine"}
    <3> TAKE k \in 1..Len(notes')
    <3>1. notes'[k] = notes[k + 1]
      BY <1>3
    <3>2. Len(notes) \in Nat /\ k \in 1..(Len(notes) - 1)
      BY <1>1, <1>3
    <3>3. Len(notes) # 1 /\ k + 1 \in 1..Len(notes)
      <4>1. \A n \in Nat : \A j \in 1..(n - 1) : n # 1 /\ j + 1 \in 1..n
        OBVIOUS
      <4> QED
        BY <3>2, <4>1
    <3> QED
      BY <2>2, <3>1, <3>3
  <2> QED
    BY <1>2, <2>1, <2>4, <2>5 DEF ReadingKept
<1>7. PaintedOrOwed'
  <2> SUFFICES ASSUME ~wrap, NEW r \in 1..Rows
               PROVE  \/ ShowsItsLine(r)'
                      \/ r \in damage \/ w.all \/ r \in w.dirty \/ ToldOf(r)'
    BY <1>2 DEF PaintedOrOwed
  <2>1. CASE w.all = TRUE
    BY <2>1
  <2>2. CASE /\ note.type = "UpdateLine" /\ Top(w) = Top(layout)
             /\ w.all = layout.all /\ w.dirty = layout.dirty \union RowsFor(doc, layout, note.at)
             /\ layout.slid => w.slid
             /\ layout.all \/ w.slid \/ w.left = layout.left
    <3>1. \A left : RenderedRow(doc, layout, r, left)' = RenderedRow(doc, w, r, left)
      BY <1>2, WrapStays
    <3>2. \A left : RenderedRow(doc, w, r, left) = RenderedRow(doc, layout, r, left)
      BY <2>2, TopDecides
    <3>3. \A l : RowsFor(doc, layout, l)' = RowsFor(doc, w, l)
      BY <1>2, WrapStays
    <3>4. \A l : RowsFor(doc, w, l) = RowsFor(doc, layout, l)
      BY <2>2, TopDecides
    <3>5. \/ ShowsItsLine(r)
          \/ r \in damage \/ layout.all \/ r \in layout.dirty \/ ToldOf(r)
      BY DEF ScreenInv, PaintedOrOwed
    <3>7. ASSUME ShowsItsLine(r), ~layout.all PROVE ShowsItsLine(r)'
      BY <1>2, <2>2, <3>1, <3>2, <3>7 DEF ShowsItsLine
    <3>6. ASSUME ToldOf(r) PROVE r \in w.dirty \/ ToldOf(r)'
      <4>1. PICK k \in 1..Len(notes) : \/ notes[k].type # "UpdateLine"
                                       \/ r \in RowsFor(doc, layout, notes[k].at)
        BY <3>6 DEF ToldOf
      <4>2. CASE k = 1
        BY <2>2, <4>1, <4>2
      <4>3. CASE k # 1
        <5>1. k - 1 \in 1..Len(notes') /\ notes'[k - 1] = notes[k]
          <6>1. k - 1 \in 1..Len(notes') /\ (k - 1) + 1 = k
            BY <1>1, <1>3, <4>3
          <6> QED
            BY <1>3, <6>1
        <5> QED
          BY <3>3, <3>4, <4>1, <5>1 DEF ToldOf
      <4> QED
        BY <4>2, <4>3
    <3> QED
      BY <2>2, <3>5, <3>6, <3>7
  <2> QED
    BY <1>5, <2>1, <2>2
<1>8. MarksAreSeen'
  BY <1>2 DEF MarksAreSeen
<1>9. IsDocument(doc') /\ GoodStages(doc', stages') /\ painted' = [r \in 1..Rows |-> painted'[r]]
  BY <1>2 DEF ScreenInv
<1> QED
  BY <1>2, <1>3, <1>5, <1>6, <1>7, <1>8, <1>9 DEF ScreenInv

LEMMA AnnounceKeeps ==
    ASSUME ScreenInv, Announce
    PROVE  ScreenInv'
BY NoteKeeps

\* What the interface thread changes is announced at once, of all rows.
LEMMA InterfaceKeeps ==
    ASSUME ScreenInv, NEW all, GoodOperation(doc, all), OnInterface(all),
           Head(all).moves.way = "none", Len(Head(all).says) = 1,
           Head(all).says[1].type \in {"CursorMove", "CanvasReset"}
    PROVE  ScreenInv'
<1> DEFINE s == Head(all)
           note == s.says[1]
           w == OnDocumentChanged(s.doc, layout, note)
<1>1. GoodStage(doc, s)
  BY FirstStage DEF GoodOperation
<1>2. s.says \in Seq([type : NoteTypes, at : Nat]) /\ IsDocument(s.doc)
  BY <1>1 DEF GoodStage, ScreenStages
<1>3. Head(s.says) = note
  BY <1>2
<1>4. /\ notes = <<>> /\ stages = <<>> /\ doc' = s.doc /\ layout' = w /\ pendingRefresh' = TRUE
      /\ reading' = (IF layout'.auto THEN 0 ELSE Follow(reading, s))
      /\ stages' = stages /\ notes' = notes /\ painted' = painted
  BY <1>3 DEF OnInterface, Idle
<1>5. DOMAIN layout = ViewFields
  BY DEF ScreenInv
<1>6. DOMAIN w = ViewFields /\ w.all = TRUE
  BY <1>3, <1>5, AllIsMarked
<1>7. ReadingKept'
  <2> SUFFICES ASSUME reading' # 0 PROVE ReadingKept'
    BY DEF ReadingKept
  <2>1. ~w.auto /\ reading' = Follow(reading, s) /\ reading # 0
    BY <1>4 DEF Follow
  <2>2. reading' = reading
    BY <2>1 DEF Follow
  <2>3. ~layout.auto /\ layout.line = reading
    BY <1>4, <2>1 DEF ScreenInv, ReadingKept
  <2>4. w.line = layout.line
    <3>1. \/ w.auto = TRUE
          \/ /\ note.type = "InsertLine"
             /\ w.line = IF note.at <= layout.line THEN layout.line + 1 ELSE layout.line
          \/ /\ note.type = "DeleteLine"
             /\ note.at # layout.line =>
                   w.line = IF note.at < layout.line THEN layout.line - 1 ELSE layout.line
          \/ note.type \notin {"InsertLine", "DeleteLine"} /\ w.line = layout.line
      <4> HIDE DEF note, s
      <4>1. TakesTo(layout, note, w)
        BY <1>5, <2>3, Taken
      <4> QED
        BY <4>1 DEF TakesTo
    <3> QED
      BY <2>1, <3>1
  <2> QED
    BY <1>4, <2>1, <2>2, <2>3, <2>4 DEF ReadingKept
<1> HIDE DEF w
<1>8. PaintedOrOwed'
  BY <1>4, <1>6 DEF PaintedOrOwed
<1>9. MarksAreSeen'
  BY <1>4 DEF MarksAreSeen
<1>10. GoodStages(doc', stages')
  BY <1>4, NoStages
<1> QED
  BY <1>2, <1>4, <1>6, <1>7, <1>8, <1>9, <1>10 DEF ScreenInv

\* A view that the user moves keeps what is marked.
Moved(v, w) == DOMAIN w = ViewFields /\ w.all = v.all /\ w.dirty = v.dirty

\* The user's own moves paint all rows.
LEMMA LooksKeeps ==
    ASSUME ScreenInv, NEW v, Looks(v), Moved(layout, v)
    PROVE  ScreenInv'
<1> DEFINE w == [v EXCEPT !.slid = FALSE]
<1>1. /\ layout' = w /\ damage' = 1..Rows
      /\ reading' = (IF v.auto \/ notes # <<>> THEN 0 ELSE v.line)
      /\ doc' = doc /\ stages' = stages /\ notes' = notes /\ pendingRefresh' = pendingRefresh
      /\ timer' = timer /\ painted' = painted
  BY DEF Looks, output
<1>2. /\ DOMAIN w = ViewFields /\ w.all = layout.all /\ w.dirty = layout.dirty
      /\ w.auto = v.auto /\ w.line = v.line
  BY DEF Moved, ViewFields
<1> HIDE DEF w
<1>3. ReadingKept'
  BY <1>1, <1>2 DEF ReadingKept
<1>4. PaintedOrOwed'
  BY <1>1 DEF PaintedOrOwed
<1>5. MarksAreSeen'
  BY <1>1, <1>2 DEF ScreenInv, MarksAreSeen
<1> QED
  BY <1>1, <1>2, <1>3, <1>4, <1>5 DEF ScreenInv

LEMMA MovedTwice ==
    ASSUME NEW u, NEW v, NEW w, Moved(u, v), Moved(v, w)
    PROVE  Moved(u, w)
BY DEF Moved

LEMMA AtMoves ==
    ASSUME NEW v, DOMAIN v = ViewFields, NEW a
    PROVE  Moved(v, At(v, a))
BY DEF Moved, At, ViewFields

LEMMA ScrollLooked ==
    ASSUME NEW d, NEW v, DOMAIN v = ViewFields, NEW row, NEW w, w = SetTopVisualRow(d, v, row)
    PROVE  Moved(v, w)
<1> DEFINE total == FoldLeft(LAMBDA n, l: n + VisualCount(d, l), 0,
                             [l \in DOMAIN d.lines |-> l])
           a == WalkDown(d, Anchor(1, 0), Lesser(row, Back(total, Rows)))
           at == At(v, a)
           end == IsAtEnd(d, a)
<1>1. w = [at EXCEPT !.auto = end]
  BY Zenon DEF SetTopVisualRow
<1> HIDE DEF end, a
<1>2. Moved(v, at) /\ DOMAIN at = ViewFields
  BY AtMoves DEF Moved
<1> HIDE DEF at
<1>3. Moved(at, w)
  BY <1>1, <1>2 DEF Moved, ViewFields
<1> QED
  BY <1>2, <1>3, MovedTwice

LEMMA SidewaysLooked ==
    ASSUME NEW d, NEW v, DOMAIN v = ViewFields, NEW col
    PROVE  Moved(v, SetLeftCol(d, v, col))
<1> DEFINE left == Lesser(col, Back(MaxVisibleWidth(d, v), Cols))
           home == left = 0
<1>1. SetLeftCol(d, v, col) = [v EXCEPT !.left = left, !.clamped = home]
  BY DEF SetLeftCol
<1> HIDE DEF left, home
<1> QED
  BY <1>1 DEF Moved, ViewFields

LEMMA EndLooked ==
    ASSUME NEW d, NEW v, DOMAIN v = ViewFields
    PROVE  Moved(v, ScrollToEnd(d, v))
<1> DEFINE at == At(v, TheEnd(d))
<1>1. Moved(v, at) /\ DOMAIN at = ViewFields
  BY AtMoves DEF Moved
<1>2. ScrollToEnd(d, v) = [at EXCEPT !.auto = TRUE]
  BY DEF ScrollToEnd
<1> HIDE DEF at
<1>3. Moved(at, ScrollToEnd(d, v))
  BY <1>1, <1>2 DEF Moved, ViewFields
<1> QED
  BY <1>1, <1>3, MovedTwice

LEMMA CursorLooked ==
    ASSUME NEW d, NEW v, DOMAIN v = ViewFields
    PROVE  Moved(v, EnsureCursorVisible(d, v))
<1> DEFINE free == [v EXCEPT !.clamped = TRUE]
           up == EnsureCursorVisibleVertically(d, free)
           to == EnsureCursorVisibleHorizontally(d, up)
           left == Lesser(to.left, Back(MaxVisibleWidth(d, up), Cols))
           near == LeftFor(d, up.left)
           end == EnsureCursorVisible(d, v)
<1>1. Moved(v, free) /\ DOMAIN free = ViewFields
  BY DEF Moved, ViewFields
<1>2. up = free \/ \E a : up = At(free, a)
  <2> HIDE DEF free
  <2> QED
    BY DEF EnsureCursorVisibleVertically
<1>3. to = up \/ to = [up EXCEPT !.left = near]
  <2> HIDE DEF up
  <2> QED
    BY DEF EnsureCursorVisibleHorizontally
<1>4. end = to \/ end = [to EXCEPT !.left = left]
  BY DEF EnsureCursorVisible
<1> HIDE DEF free, up, to, left, near, end
<1>5. Moved(free, up) /\ DOMAIN up = ViewFields
  BY <1>1, <1>2, AtMoves DEF Moved
<1>6. Moved(up, to) /\ DOMAIN to = ViewFields
  BY <1>3, <1>5 DEF Moved, ViewFields
<1>7. Moved(to, end)
  BY <1>4, <1>6 DEF Moved, ViewFields
<1>8. Moved(v, end)
  BY <1>1, <1>5, <1>6, <1>7, MovedTwice
<1> QED
  BY <1>8 DEF end

LEMMA UserLooks ==
    ASSUME ScreenInv, OnScroll \/ OnHScroll \/ OnKey \/ CloseSearchBar
    PROVE  ScreenInv'
<1>1. DOMAIN layout = ViewFields
  BY DEF ScreenInv
<1>2. CASE OnScroll
  <2>1. PICK row \in 0..Len(RowsOf(doc)) : Looks(SetTopVisualRow(doc, layout, row))
    BY <1>2 DEF OnScroll
  <2>2. PICK v : v = SetTopVisualRow(doc, layout, row)
    OBVIOUS
  <2>3. Moved(layout, v)
    BY <1>1, <2>2, ScrollLooked
  <2> QED
    BY <2>1, <2>2, <2>3, LooksKeeps
<1>3. CASE OnHScroll
  <2>1. PICK col \in 0..MaxCells : Looks(SetLeftCol(doc, layout, col))
    BY <1>3 DEF OnHScroll
  <2> QED
    BY <1>1, <2>1, SidewaysLooked, LooksKeeps
<1>4. CASE OnKey
  <2> DEFINE e == ScrollToEnd(doc, layout)
             v == EnsureCursorVisible(doc, e)
  <2>1. Moved(layout, e) /\ DOMAIN e = ViewFields
    BY <1>1, EndLooked DEF Moved
  <2> HIDE DEF e
  <2>2. Moved(layout, v)
    BY <2>1, CursorLooked, MovedTwice
  <2>3. Looks(v)
    BY <1>4 DEF OnKey, e
  <2> QED
    BY <2>2, <2>3, LooksKeeps
<1>5. CASE CloseSearchBar
  <2>1. Moved(layout, EnsureCursorVisible(doc, layout))
    BY <1>1, CursorLooked
  <2>2. Looks(EnsureCursorVisible(doc, layout))
    BY <1>5 DEF CloseSearchBar
  <2> QED
    BY <2>1, <2>2, LooksKeeps
<1> QED
  BY <1>2, <1>3, <1>4, <1>5

\* A refresh is under way, then a frame, and then the rows are painted.
LEMMA UpdateKeeps ==
    ASSUME ScreenInv, OnDocumentUpdate
    PROVE  ScreenInv'
<1>1. /\ wrap' = wrap /\ doc' = doc /\ stages' = stages /\ notes' = notes /\ layout' = layout
      /\ damage' = damage /\ painted' = painted /\ reading' = reading /\ timer' = TRUE
  BY DEF OnDocumentUpdate, output
<1>2. \A r, left : RenderedRow(doc, layout, r, left)' = RenderedRow(doc, layout, r, left)
  BY <1>1, WrapStays
<1>3. \A l : RowsFor(doc, layout, l)' = RowsFor(doc, layout, l)
  BY <1>1, WrapStays
<1>4. PaintedOrOwed'
  BY <1>1, <1>2, <1>3 DEF ScreenInv, PaintedOrOwed, ToldOf, ShowsItsLine
<1>5. ReadingKept' /\ MarksAreSeen'
  BY <1>1 DEF ScreenInv, ReadingKept, MarksAreSeen
<1> QED
  BY <1>1, <1>4, <1>5 DEF ScreenInv

LEMMA RenderKeeps ==
    ASSUME ScreenInv, OnRenderTimer
    PROVE  ScreenInv'
<1> DEFINE w == [layout EXCEPT !.all = FALSE, !.dirty = {}]
<1>1. /\ wrap' = wrap /\ doc' = doc /\ stages' = stages /\ notes' = notes /\ layout' = w
      /\ damage' = (IF layout.all THEN 1..Rows ELSE damage \cup layout.dirty)
      /\ painted' = painted /\ reading' = reading
  BY DEF OnRenderTimer, output
<1>2. /\ DOMAIN w = ViewFields /\ w.all = FALSE /\ w.dirty = {}
      /\ w.auto = layout.auto /\ w.line = layout.line /\ w.row = layout.row
      /\ w.left = layout.left /\ w.slid = layout.slid
  BY DEF ScreenInv, ViewFields
<1> HIDE DEF w
<1>3. Top(w) = Top(layout)
  BY <1>2 DEF Top
<1>4. ASSUME NEW r, NEW left
      PROVE  RenderedRow(doc, layout, r, left)' = RenderedRow(doc, layout, r, left)
  <2>1. RenderedRow(doc, layout, r, left)' = RenderedRow(doc, w, r, left)
    BY <1>1, WrapStays
  <2> QED
    BY <1>3, <2>1, TopDecides
<1>5. ASSUME NEW l PROVE RowsFor(doc, layout, l)' = RowsFor(doc, layout, l)
  <2>1. RowsFor(doc, layout, l)' = RowsFor(doc, w, l)
    BY <1>1, WrapStays
  <2> QED
    BY <1>3, <2>1, TopDecides
<1>6. PaintedOrOwed'
  <2> SUFFICES ASSUME ~wrap, NEW r \in 1..Rows
               PROVE  ShowsItsLine(r)' \/ r \in damage' \/ ToldOf(r)'
    BY <1>1 DEF PaintedOrOwed
  <2>1. \/ ShowsItsLine(r)
        \/ r \in damage \/ layout.all \/ r \in layout.dirty \/ ToldOf(r)
    BY DEF ScreenInv, PaintedOrOwed
  <2>2. ToldOf(r) => ToldOf(r)'
    BY <1>1, <1>5 DEF ToldOf
  <2>3. ShowsItsLine(r) => ShowsItsLine(r)'
    BY <1>1, <1>2, <1>4 DEF ShowsItsLine
  <2> QED
    BY <1>1, <2>1, <2>2, <2>3
<1>7. ReadingKept' /\ MarksAreSeen'
  BY <1>1, <1>2 DEF ScreenInv, ReadingKept, MarksAreSeen
<1> QED
  BY <1>1, <1>2, <1>6, <1>7 DEF ScreenInv

LEMMA PaintKeeps ==
    ASSUME ScreenInv, OnPaint
    PROVE  ScreenInv'
<1> DEFINE damaged == {r \in 1..Rows : (\E a \in damage : a <= r) /\ (\E b \in damage : r <= b)}
           current == Rendered(doc, layout)
<1>1. /\ wrap' = wrap /\ doc' = doc /\ stages' = stages /\ notes' = notes /\ layout' = layout
      /\ painted' = [r \in 1..Rows |-> IF r \in damaged THEN current[r] ELSE painted[r]]
      /\ pendingRefresh' = pendingRefresh /\ timer' = timer /\ reading' = reading
  BY DEF OnPaint, output
<1>2. ASSUME NEW r \in 1..Rows, r \in damage PROVE r \in damaged
  BY <1>2
<1> HIDE DEF damaged
<1>3. \A r, left : RenderedRow(doc, layout, r, left)' = RenderedRow(doc, layout, r, left)
  BY <1>1, WrapStays
<1>4. \A l : RowsFor(doc, layout, l)' = RowsFor(doc, layout, l)
  BY <1>1, WrapStays
<1> HIDE DEF current
<1>5. PaintedOrOwed'
  <2> SUFFICES ASSUME ~wrap, NEW r \in 1..Rows
               PROVE  \/ ShowsItsLine(r)'
                      \/ layout.all \/ r \in layout.dirty \/ ToldOf(r)'
    BY <1>1 DEF PaintedOrOwed
  <2>1. \/ ShowsItsLine(r)
        \/ r \in damage \/ layout.all \/ r \in layout.dirty \/ ToldOf(r)
    BY DEF ScreenInv, PaintedOrOwed
  <2>2. ToldOf(r) => ToldOf(r)'
    BY <1>1, <1>4 DEF ToldOf
  <2>3. CASE r \in damaged
    <3>1. painted'[r] = current[r]
      BY <1>1, <2>3
    <3>2. current[r].from = layout.left
          /\ current[r] = RenderedRow(doc, layout, r, current[r].from)
      BY RowsShowTheirLines DEF current
    <3>3. ShowsItsLine(r)'
      BY <1>1, <1>3, <3>1, <3>2 DEF ShowsItsLine
    <3> QED
      BY <3>3
  <2>4. CASE r \notin damaged
    <3>1. painted'[r] = painted[r]
      BY <1>1, <2>4
    <3>2. ShowsItsLine(r) => ShowsItsLine(r)'
      BY <1>1, <1>3, <3>1 DEF ShowsItsLine
    <3> QED
      BY <1>2, <2>1, <2>2, <2>4, <3>2
  <2> QED
    BY <2>3, <2>4
<1>6. ReadingKept' /\ MarksAreSeen'
  BY <1>1 DEF ScreenInv, ReadingKept, MarksAreSeen
<1>7. painted' = [r \in 1..Rows |-> painted'[r]]
  BY <1>1
<1> QED
  BY <1>1, <1>5, <1>6, <1>7 DEF ScreenInv

\* A session starts with its saved lines painted.
LEMMA NewIsADocument == IsDocument(NewDocument)
<1>1. NewLineText \in ScreenLine
  BY LinesAre
<1>2. <<NewLineText>> \in Seq(ScreenLine) /\ Len(<<NewLineText>>) = 1
  BY <1>1
<1> HIDE DEF ScreenLine
<1> QED
  BY <1>2 DEF NewDocument, IsDocument, Doc

LEMMA ScreenStarts ==
    ASSUME InitScreen
    PROVE  ScreenInv
<1>1. PICK n \in Restored :
        doc = IF n = 0 THEN NewDocument ELSE Head(LoadScrollback(NewDocument, n)).doc
  BY DEF InitScreen
<1>2. IsDocument(doc)
  <2>1. n \in Nat
    BY ScreenAssumption
  <2>2. GoodOperation(NewDocument, LoadScrollback(NewDocument, n))
    BY <2>1, NewIsADocument, LoadScrollbackIsGood
  <2>3. IsDocument(Head(LoadScrollback(NewDocument, n)).doc)
    BY <2>2, FirstStage DEF GoodOperation, GoodStage
  <2> QED
    BY <1>1, <2>3, NewIsADocument
<1>3. /\ stages = <<>> /\ notes = <<>> /\ reading = 0 /\ painted = Rendered(doc, layout)
      /\ layout = [line |-> doc.start, row |-> 0, auto |-> TRUE, left |-> 0, clamped |-> TRUE,
                   all |-> FALSE, dirty |-> {}, slid |-> FALSE]
  BY DEF InitScreen
<1>4. DOMAIN layout = ViewFields /\ layout.all = FALSE /\ layout.dirty = {}
  BY <1>3 DEF ViewFields
<1>5. notes \in Seq([type : NoteTypes, at : Nat])
  BY <1>3
<1>6. painted = [r \in 1..Rows |-> painted[r]]
  BY <1>3 DEF Rendered
<1>7. PaintedOrOwed
  BY <1>3, RowsShowTheirLines DEF PaintedOrOwed, ShowsItsLine
<1> QED
  BY <1>2, <1>3, <1>4, <1>5, <1>6, <1>7, NoStages DEF ScreenInv, ReadingKept, MarksAreSeen

\* What the remote writes.
LEMMA WritesKeep ==
    ASSUME ScreenInv, Writes
    PROVE  ScreenInv'
<1>1. IsDocument(doc)
  BY DEF ScreenInv
<1>2. ASSUME NEW w \in Widths, HasLine(doc), Runs(AppendRun(doc, w)) PROVE ScreenInv'
  <2>1. GoodOperation(doc, AppendRun(doc, w))
    BY <1>1, <1>2, ScreenAssumption, AppendRunIsGood
  <2> QED
    BY <1>2, <2>1, RunsKeeps
<1>3. ASSUME HasLine(doc), Runs(NewLine(doc)) PROVE ScreenInv'
  BY <1>1, <1>3, NewLineIsGood, RunsKeeps
<1>4. ASSUME NEW n \in Counts, HasLine(doc), Runs(InsertChar(doc, n)) PROVE ScreenInv'
  <2>1. GoodOperation(doc, InsertChar(doc, n))
    BY <1>1, <1>4, InsertCharIsGood DEF Counts
  <2> QED
    BY <1>4, <2>1, RunsKeeps
<1>5. ASSUME NEW on \in BOOLEAN, Runs(SetInsertMode(doc, on)) PROVE ScreenInv'
  <2>1. GoodOperation(doc, SetInsertMode(doc, on))
    BY <1>1, ModesAreGood
  <2> QED
    BY <1>5, <2>1, RunsKeeps
<1> QED
  BY <1>2, <1>3, <1>4, <1>5 DEF Writes

LEMMA MovesKeep ==
    ASSUME ScreenInv, MovesTheCursor
    PROVE  ScreenInv'
<1>1. IsDocument(doc) /\ Counts \subseteq Nat \ {0}
  BY ScreenAssumption DEF ScreenInv, Counts
<1>2. \A all : GoodOperation(doc, all) /\ Runs(all) => ScreenInv'
  BY RunsKeeps
<1>3. CASE Runs(CarriageReturn(doc)) \/ Runs(MoveCursorToLineStart(doc))
           \/ (HasLine(doc) /\ Runs(MoveCursorToLineEnd(doc)))
  <2>1. 1 \in Nat \ {0}
    OBVIOUS
  <2>2. /\ GoodOperation(doc, CarriageReturn(doc)) /\ GoodOperation(doc, MoveCursorToLineStart(doc))
        /\ HasLine(doc) => GoodOperation(doc, MoveCursorToLineEnd(doc))
    BY <1>1, <2>1, CursorMovesAreGood
  <2> QED
    BY <1>2, <1>3, <2>2
<1>4. ASSUME NEW n \in Counts,
             \/ Runs(MoveCursorLeft(doc, n)) \/ Runs(MoveCursorRight(doc, n))
             \/ Runs(MoveCursorUp(doc, n)) \/ Runs(MoveCursorDown(doc, n))
             \/ Runs(MoveCursorToColumn(doc, n))
             \/ HasCanvas(doc) /\ Runs(MoveCursorToRow(doc, n))
      PROVE  ScreenInv'
  <2>1. n \in Nat \ {0} /\ n \in Nat /\ 1 \in Nat \ {0}
    BY <1>1
  <2>2. /\ GoodOperation(doc, MoveCursorLeft(doc, n)) /\ GoodOperation(doc, MoveCursorRight(doc, n))
        /\ GoodOperation(doc, MoveCursorDown(doc, n)) /\ GoodOperation(doc, MoveCursorToColumn(doc, n))
    BY <1>1, <2>1, CursorMovesAreGood
  <2>3. GoodOperation(doc, MoveCursorUp(doc, n))
    BY <1>1, <2>1, MoveCursorUpIsGood
  <2>4. HasCanvas(doc) => GoodOperation(doc, MoveCursorToRow(doc, n))
    BY <1>1, <2>1, PositionsAreGood
  <2> QED
    BY <1>2, <1>4, <2>2, <2>3, <2>4
<1>5. ASSUME NEW r \in Counts, NEW c \in Counts,
             HasCanvas(doc) /\ Runs(MoveCursorToPosition(doc, r, c))
      PROVE  ScreenInv'
  <2>1. r \in Nat \ {0} /\ c \in Nat \ {0}
    BY <1>1
  <2>2. GoodOperation(doc, MoveCursorToPosition(doc, r, c))
    BY <1>1, <1>5, <2>1, PositionsAreGood
  <2> QED
    BY <1>2, <1>5, <2>2
<1>6. CASE Runs(SaveCursor(doc))
  <2>1. GoodOperation(doc, SaveCursor(doc))
    BY <1>1, ModesAreGood
  <2> QED
    BY <1>2, <1>6, <2>1
<1>7. CASE HasSaved(doc) /\ Runs(RestoreCursor(doc))
  BY <1>1, <1>2, <1>7, RestoreCursorIsGood
<1> QED
  BY <1>3, <1>4, <1>5, <1>6, <1>7 DEF MovesTheCursor

LEMMA ErasesKeep ==
    ASSUME ScreenInv, Erases
    PROVE  ScreenInv'
<1>1. IsDocument(doc) /\ Counts \subseteq Nat \ {0}
  BY ScreenAssumption DEF ScreenInv, Counts
<1>2. \A all : GoodOperation(doc, all) /\ Runs(all) => ScreenInv'
  BY RunsKeeps
<1>3. ASSUME NEW mode \in 0..2, NEW b \in 0..1, HasLine(doc), Runs(EraseInLine(doc, mode, b))
      PROVE  ScreenInv'
  <2>1. GoodOperation(doc, EraseInLine(doc, mode, b))
    <3>1. b \in Nat
      OBVIOUS
    <3> QED
      BY <1>1, <1>3, <3>1, EraseInLineIsGood
  <2> QED
    BY <1>2, <1>3, <2>1
<1>4. ASSUME NEW mode \in 0..2, HasLine(doc) \/ AsksForCanvas(doc, mode),
             Runs(EraseInDisplay(doc, mode))
      PROVE  ScreenInv'
  BY <1>1, <1>2, <1>4, EraseInDisplayIsGood
<1>5. ASSUME NEW n \in Counts,
             \/ HasLine(doc) /\ Runs(EraseChar(doc, n))
             \/ HasLine(doc) /\ Runs(DeleteChar(doc, n))
             \/ Runs(InsertLines(doc, n)) \/ Runs(DeleteLines(doc, n))
      PROVE  ScreenInv'
  <2>1. n \in Nat \ {0} /\ n \in Nat
    BY <1>1
  <2>2. HasLine(doc) =>
           GoodOperation(doc, EraseChar(doc, n)) /\ GoodOperation(doc, DeleteChar(doc, n))
    BY <1>1, <2>1, EraseCharIsGood, DeleteCharIsGood
  <2>3. GoodOperation(doc, InsertLines(doc, n))
    BY <1>1, <2>1, InsertLinesIsGood
  <2>4. Runs(DeleteLines(doc, n)) => GoodOperation(doc, DeleteLines(doc, n))
    BY <1>1, <2>1, DeleteLinesIsGood DEF Runs, GoodOperation
  <2> QED
    BY <1>2, <1>5, <2>2, <2>3, <2>4
<1>6. CASE Runs(FullReset(doc, FALSE))
  BY <1>1, <1>2, <1>6, FullResetIsGood
<1> QED
  BY <1>3, <1>4, <1>5, <1>6 DEF Erases

\* What the interface itself does to the document.
LEMMA ResetsKeep ==
    ASSUME ScreenInv, ResetTerminal \/ OnLoadScrollback
    PROVE  ScreenInv'
<1>1. IsDocument(doc) /\ Counts \subseteq Nat
  BY DEF ScreenInv, Counts
<1>2. CASE OnInterface(FullReset(doc, TRUE))
  <2>1. GoodOperation(doc, FullReset(doc, TRUE))
    BY <1>1, FullResetIsGood
  <2>2. /\ Head(FullReset(doc, TRUE)).moves.way = "none"
        /\ Len(Head(FullReset(doc, TRUE)).says) = 1
        /\ Head(FullReset(doc, TRUE)).says[1].type = "CanvasReset"
    BY DEF FullReset, Change, Notice, Nowhere
  <2> QED
    BY <1>2, <2>1, <2>2, InterfaceKeeps
<1>3. CASE OnInterface(SoftReset(doc))
  <2>1. GoodOperation(doc, SoftReset(doc))
    <3>1. 1 \in Nat \ {0}
      OBVIOUS
    <3> QED
      BY <1>1, <3>1, CursorMovesAreGood
  <2>2. /\ Head(SoftReset(doc)).moves.way = "none"
        /\ Len(Head(SoftReset(doc)).says) = 1
        /\ Head(SoftReset(doc)).says[1].type = "CursorMove"
    BY DEF SoftReset, Told, Change, Notice, Nowhere
  <2> QED
    BY <1>3, <2>1, <2>2, InterfaceKeeps
<1>4. ASSUME NEW n \in Counts, OnInterface(LoadScrollback(doc, n)) PROVE ScreenInv'
  <2>1. GoodOperation(doc, LoadScrollback(doc, n))
    BY <1>1, LoadScrollbackIsGood
  <2>2. /\ Head(LoadScrollback(doc, n)).moves.way = "none"
        /\ Len(Head(LoadScrollback(doc, n)).says) = 1
        /\ Head(LoadScrollback(doc, n)).says[1].type = "CanvasReset"
    BY DEF LoadScrollback, Change, Notice, Nowhere
  <2> QED
    BY <1>4, <2>1, <2>2, InterfaceKeeps
<1> QED
  BY <1>2, <1>3, <1>4 DEF ResetTerminal, OnLoadScrollback

LEMMA ScreenStuttering ==
    ASSUME ScreenInv, UNCHANGED screenVars
    PROVE  ScreenInv'
<1>1. /\ wrap' = wrap /\ doc' = doc /\ stages' = stages /\ notes' = notes /\ layout' = layout
      /\ damage' = damage /\ painted' = painted /\ reading' = reading /\ timer' = timer
      /\ pendingRefresh' = pendingRefresh
  BY DEF screenVars, output, panel
<1>2. \A r, left : RenderedRow(doc, layout, r, left)' = RenderedRow(doc, layout, r, left)
  BY <1>1, WrapStays
<1>3. \A l : RowsFor(doc, layout, l)' = RowsFor(doc, layout, l)
  BY <1>1, WrapStays
<1>4. PaintedOrOwed'
  BY <1>1, <1>2, <1>3 DEF ScreenInv, PaintedOrOwed, ToldOf, ShowsItsLine
<1>5. ReadingKept' /\ MarksAreSeen'
  BY <1>1 DEF ScreenInv, ReadingKept, MarksAreSeen
<1> QED
  BY <1>1, <1>4, <1>5 DEF ScreenInv

\* The inductive invariant of the screen: the cursor is on a line there is or on the
\* one after the last, what is announced tells all that changed, every row shows its
\* line or is to be painted, at the view's column unless an update moved the view
\* sideways, and the line the user reads is where the announcements leave it.
THEOREM ScreenInvariant == ScreenSpec => []ScreenInv
<1>1. InitScreen => ScreenInv
  BY ScreenStarts
<1>2. ScreenInv /\ [NextScreen]_screenVars => ScreenInv'
  <2> SUFFICES ASSUME ScreenInv, [NextScreen]_screenVars PROVE ScreenInv'
    OBVIOUS
  <2>1. CASE Writes
    BY <2>1, WritesKeep
  <2>2. CASE MovesTheCursor
    BY <2>2, MovesKeep
  <2>3. CASE Erases
    BY <2>3, ErasesKeep
  <2>4. CASE Continue
    BY <2>4, ContinueKeeps
  <2>5. CASE Announce
    BY <2>5, AnnounceKeeps
  <2>6. CASE ResetTerminal \/ OnLoadScrollback
    BY <2>6, ResetsKeep
  <2>7. CASE OnScroll \/ OnHScroll \/ OnKey \/ CloseSearchBar
    BY <2>7, UserLooks
  <2>8. CASE OnDocumentUpdate
    BY <2>8, UpdateKeeps
  <2>9. CASE OnRenderTimer
    BY <2>9, RenderKeeps
  <2>10. CASE OnPaint
    BY <2>10, PaintKeeps
  <2>11. CASE UNCHANGED screenVars
    BY <2>11, ScreenStuttering
  <2> QED
    BY <2>1, <2>2, <2>3, <2>4, <2>5, <2>6, <2>7, <2>8, <2>9, <2>10, <2>11 DEF NextScreen
<1> QED
  BY <1>1, <1>2, PTL DEF ScreenSpec

\* The line a user reads stays at the top of the view.
THEOREM ScreenReadingStays == ScreenSpec => []ReadingStays
<1>1. ScreenInv => ReadingStays
  BY DEF ScreenInv, ReadingKept, ReadingStays
<1> QED
  BY <1>1, ScreenInvariant, PTL

\* Where lines do not wrap, every row of a screen at rest shows its line as it is,
\* whatever was written, announced, coalesced and painted late, and shows it from the
\* column the view has unless an update moved the view sideways.
THEOREM ScreenShownIsCurrent == ScreenSpec => []ShownIsCurrent
<1>1. ScreenInv => ShownIsCurrent
  <2> SUFFICES ASSUME ScreenInv, ~wrap, AtRest, NEW r \in 1..Rows PROVE ShowsItsLine(r)
    BY DEF ShownIsCurrent, Shown
  <2>1. notes = <<>> /\ damage = {} /\ ~layout.all /\ layout.dirty = {}
    BY DEF ScreenInv, MarksAreSeen, AtRest, Idle
  <2> QED
    BY <2>1 DEF ScreenInv, PaintedOrOwed, ToldOf
<1> QED
  BY <1>1, ScreenInvariant, PTL

=============================================================================
