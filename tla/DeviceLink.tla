---------------------------- MODULE DeviceLink ----------------------------
(***************************************************************************)
(* transport/PtyTransport and transport/SerialTransport: a shell behind a  *)
(* pseudo terminal, or a serial port, and the thread that reads it.  Stop, *)
(* on the thread of the user interface, closes the descriptor under it.    *)
(***************************************************************************)
EXTENDS Link

CONSTANT MaxOutput  \* bound: pieces of output not read yet

ASSUME DeviceAssumption == MaxOutput \in Nat \ {0}

VARIABLES
    peer,    \* the shell or the device: "there" or "gone"; "left" unreaped
    output,  \* what it has written and nobody has read
    unseen,  \* it is gone, and so is output of it that was never read
    fd       \* master_fd_ or fd_: "open" or "closed"

deviceVars == <<peer, output, unseen, fd>>

\* The constructor: forkpty, or open and ConfigureTty.
InitDevice == peer = "there" /\ output = 0 /\ unseen = FALSE /\ fd = "open"

\* A port with a dial script runs it first, while the interface waits.
StartDevice ==
    /\ stage = "new" /\ ui = "free" /\ running' = TRUE
    /\ stage' \in {"reading"} \union (IF kind = "serial" THEN {"dialing"} ELSE {})
    /\ UNCHANGED <<kind, why, heard, asked, ui, deviceVars>>

RunDialScript ==
    /\ stage = "dialing"
    /\ \/ stage' = "reading" /\ UNCHANGED <<running, heard>>
       \/ stage' = "dead" /\ heard' = "error" /\ running' = FALSE
    /\ UNCHANGED <<kind, why, asked, ui, deviceVars>>

\* The top of ReadLoop.
Look ==
    /\ stage = "reading" /\ Goto(IF running THEN "polling" ELSE "leaving")
    /\ UNCHANGED deviceVars

\* poll: a hangup comes before what is still to be read.
Poll ==
    /\ stage = "polling"
    /\ \/ fd = "closed" /\ (Goto("reading") \/ Goto("leaving")) /\ UNCHANGED unseen
       \/ /\ fd = "open" /\ peer = "gone" /\ Goto("leaving")
          /\ unseen' = (output > 0)
       \/ fd = "open" /\ peer = "there" /\ output > 0 /\ Goto("readable") /\ UNCHANGED unseen
       \/ fd = "open" /\ ~running /\ Goto("reading") /\ UNCHANGED unseen
    /\ UNCHANGED <<peer, output, fd>>

\* read, and OnData.
Read ==
    /\ stage = "readable"
    /\ IF fd = "open" THEN Goto("reading") /\ output' = 0
       ELSE Goto("leaving") /\ UNCHANGED output
    /\ UNCHANGED <<peer, unseen, fd>>

\* The end of ReadLoop: the reason is read off running_.
Leave ==
    /\ stage = "leaving" /\ stage' = "telling" /\ running' = FALSE
    /\ why' = CASE ~running -> "Deliberate"
                [] kind = "pty" -> "Clean"
                [] OTHER -> "Interrupted"
    /\ UNCHANGED <<kind, heard, asked, ui, deviceVars>>

Reader == Look \/ Poll \/ Read \/ Leave

\* Stop, between running_ and the join; a shell is sent SIGHUP.
CloseDevice ==
    /\ ui \in {"close", "replace"} /\ fd = "open" /\ fd' = "closed"
    /\ UNCHANGED <<linkVars, peer, output, unseen>>

PeerWrites ==
    /\ peer = "there" /\ stage # "new" /\ output < MaxOutput /\ output' = output + 1
    /\ UNCHANGED <<linkVars, peer, unseen, fd>>

\* The shell exits, or the port is unplugged.
PeerGoes ==
    /\ peer = "there" /\ stage # "new" /\ peer' = "gone"
    /\ UNCHANGED <<linkVars, output, unseen, fd>>

\* After the join a shell that has not exited yet is left, unreaped.
CloseDeviceLink ==
    /\ fd = "closed" /\ Closed
    /\ peer' = IF kind = "pty" /\ peer = "there" THEN "left" ELSE peer
    /\ UNCHANGED <<output, unseen, fd>>

RenewDevice ==
    /\ fd = "closed" /\ Replaced
    /\ peer' = "there" /\ output' = 0 /\ unseen' = FALSE /\ fd' = "open"
=============================================================================
