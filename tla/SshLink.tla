------------------------------ MODULE SshLink ------------------------------
(***************************************************************************)
(* transport/SshTransport and what its worker is made of: SshAuthenticator,*)
(* BastionTunnel with the thread that carries a jump host's traffic, and   *)
(* the port forwards (PortForwards).                                       *)
(*                                                                         *)
(* Once connected the worker never blocks for longer than one poll without *)
(* looking at running_.  It does block while it connects, in a jump host's *)
(* part of the way in all of it, while the user is asked something, and    *)
(* while it takes its leave of a server.                                   *)
(***************************************************************************)
EXTENDS PortForwards

CONSTANTS
    Profiles     \* the profiles a session may have

ASSUME SshLinkAssumption ==
    \A p \in Profiles : /\ p.jump \in BOOLEAN /\ p.auth \in {"key", "agent", "prompt"}
                        /\ p.most \in Nat /\ 1..p.most \subseteq Ids /\ p.forwards \in 0..p.most /\ p.remote \subseteq Ids

VARIABLES
    net,      \* the network: "up", "silent" (nothing arrives) or "lost"
    asking,   \* OnKbdIntChallenge: "no", "posted", "shown", "answered"
    bridge    \* the jump host's thread: "none", "running", "over"; "mute" in a mutant

sshVars == <<profile, net, asking, bridge>>

Jump == profile.jump

\* The network as the session on the far side of it sees it.
Line ==
    CASE ~Jump \/ stage = "connect" -> net
      [] bridge = "over" -> "lost"
      [] bridge = "running" /\ net = "up" -> "up"
      [] OTHER -> "silent"

\* The stages that wait for the server, running_ looked at every 100 ms, and
\* that tell of a failure.
Polled == {"handshake", "authentication", "channel", "pty", "shell"}

InitSsh(p) ==
    /\ profile = p /\ net = "up" /\ asking = "no" /\ bridge = "none"
    /\ InitPortForwards

-----------------------------------------------------------------------------
(* The worker, up to its loop *)

StartSsh ==
    /\ stage = "new" /\ ui = "free" /\ stage' = "connect" /\ running' = TRUE
    /\ UNCHANGED <<kind, why, heard, asked, ui, sshVars, pfVars>>

Prompting == asking \in {"posted", "shown"}

\* A question of the server: the worker waits for the user.
OnKbdIntChallenge ==
    /\ profile.auth = "prompt" /\ asking = "no" /\ Line = "up"
    /\ stage = "authentication" \/ (Jump /\ stage = "connect")
    /\ asking' = "posted"
    /\ UNCHANGED <<linkVars, profile, net, bridge, pfVars>>

\* Failing to connect is told of; a tunnel frees what it has when it throws.
ConnectSocket ==
    /\ stage = "connect" /\ ~Jump
    /\ \/ net = "up" /\ Goto("handshake")
       \/ NotifyError
    /\ UNCHANGED <<sshVars, pfVars>>

ConnectTunnel ==
    /\ stage = "connect" /\ Jump /\ ~Prompting
    /\ \/ net = "up" /\ Goto("handshake") /\ bridge' = "running" /\ asking' = "no"
       \/ net # "silent" /\ NotifyError /\ UNCHANGED <<bridge, asking>>
    /\ UNCHANGED <<profile, net, pfVars>>

\* The server has answered what the stage was about.
Answered(s) == stage = s /\ Line = "up" /\ UNCHANGED <<sshVars, pfVars>>

PerformHandshake == Answered("handshake") /\ Goto("host key")

VerifyHostKey == stage = "host key" /\ Goto("authentication") /\ UNCHANGED <<sshVars, pfVars>>

Authenticate == Answered("authentication") /\ ~Prompting /\ Goto("channel")

OpenChannel == Answered("channel") /\ running /\ Goto("pty")

RequestPty == Answered("pty") /\ Goto("requests")

\* These stages go on whatever the answer.
Unanswered(s) == stage = s /\ (Line # "silent" \/ ~running) /\ UNCHANGED <<sshVars, pfVars>>

SetupForwarding == Unanswered("requests") /\ Goto("shell")

StartShell == Answered("shell") /\ Goto("pid")

ReadPid == Unanswered("pid") /\ Goto("loop")

Refused ==
    /\ stage = "host key" \/ (stage \in Polled /\ Line # "silent")
    /\ ~Prompting
    /\ NotifyError /\ UNCHANGED <<sshVars, pfVars>>

\* Mutant: a wait that is over is taken for a request to stop.
GivenUpEarly ==
    /\ stage \in Polled /\ ~Prompting
    /\ Goto("ended") /\ UNCHANGED <<sshVars, pfVars>>

\* Stopped meanwhile: without a word, but for a key the agent had and was still
\* trying.
GivenUp ==
    /\ stage \in Polled /\ ~running /\ ~Prompting
    /\ Goto("ended") \/ (stage = "authentication" /\ profile.auth = "agent" /\ NotifyError)
    /\ UNCHANGED <<sshVars, pfVars>>

-----------------------------------------------------------------------------
(* The loop, and the way out *)

\* One turn of ReadWriteLoop, as far as it is about the port forwards.
Turns ==
    /\ stage = "loop"
    /\ \/ running /\ ServiceQueue
       \/ (Line # "silent" \/ ~running) /\ (Serve \/ ServiceConns)
    /\ UNCHANGED <<linkVars, sshVars>>

\* The end that a read finds is what is reported, even if a stop comes meanwhile.
LeaveLoop ==
    /\ stage = "loop" /\ Teardown
    /\ \/ ~running /\ why' = "Deliberate"
       \/ Line = "up" /\ why' = "Clean"
       \/ Line = "lost" /\ why' = "Interrupted"
    /\ stage' = "closing" /\ running' = FALSE
    /\ UNCHANGED <<kind, heard, asked, ui, sshVars>>

\* Mutant: a line that is gone is taken leave of like any other.
TakeLeaveAlways ==
    /\ stage = "closing" /\ Line = "up"
    /\ Goto("telling") /\ UNCHANGED <<sshVars, pfVars>>

\* The file of the viewport's width is removed and the channel closed, in blocking
\* calls, unless the line is known to be dead; all is freed.
TakeLeave ==
    /\ stage = "closing" /\ (why = "Interrupted" \/ Line # "silent")
    /\ Goto("telling") /\ UNCHANGED <<sshVars, pfVars>>

Worker ==
    \/ ConnectSocket \/ ConnectTunnel \/ PerformHandshake \/ VerifyHostKey
    \/ OnKbdIntChallenge \/ Authenticate \/ OpenChannel \/ RequestPty
    \/ SetupForwarding \/ StartShell \/ ReadPid \/ Refused \/ GivenUp
    \/ Turns \/ LeaveLoop \/ TakeLeave

-----------------------------------------------------------------------------
(* The jump host's thread, the network and the user *)

\* ~BastionTunnel waits for it once the worker has been joined.
StopsTunnel == ui \in {"close", "replace"} /\ stage = "ended"

\* Mutant: the session is not told that its tunnel is gone.
BridgeEndsMute ==
    /\ bridge = "running" /\ (net = "lost" \/ StopsTunnel)
    /\ bridge' = "mute"
    /\ UNCHANGED <<linkVars, profile, net, asking, pfVars>>

\* BridgeLoop ends and shuts the session's socket down.
BridgeEnds ==
    /\ bridge = "running" /\ (net = "lost" \/ StopsTunnel)
    /\ bridge' = "over"
    /\ UNCHANGED <<linkVars, profile, net, asking, pfVars>>

\* It also ends when the far side closes, or takes nothing for 200 ms.
BridgeStalls ==
    /\ bridge = "running" /\ net # "lost" /\ bridge' = "over"
    /\ UNCHANGED <<linkVars, profile, net, asking, pfVars>>

\* A silence that passes is as if it had not been.
NetFails ==
    /\ stage # "new" /\ net = "up" /\ net' \in {"silent", "lost"}
    /\ UNCHANGED <<linkVars, profile, asking, bridge, pfVars>>

\* The probes of SO_KEEPALIVE go unanswered, or what was sent does.
KernelGivesUp ==
    /\ net = "silent" /\ net' = "lost"
    /\ UNCHANGED <<linkVars, profile, asking, bridge, pfVars>>

\* The dialog is modal; the interface does nothing else for the user meanwhile.
ShowChallenge ==
    /\ ui = "free" /\ asking = "posted" /\ asking' = "shown"
    /\ UNCHANGED <<linkVars, profile, net, bridge, pfVars>>

AnswerChallenge ==
    /\ ui = "free" /\ asking = "shown" /\ asking' = "answered"
    /\ UNCHANGED <<linkVars, profile, net, bridge, pfVars>>

SshInterface ==
    /\ ui = "free" /\ stage # "new" /\ Interface
    /\ asking = "shown" => posts' # posts
    /\ UNCHANGED <<linkVars, sshVars>>

\* A new transport for the same session.
RenewSsh ==
    /\ bridge # "running" /\ Replaced
    /\ net' = "up" /\ asking' = "no" /\ bridge' = "none" /\ UNCHANGED profile
    /\ Resubmit
=============================================================================
