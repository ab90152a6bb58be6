------------------------------- MODULE Links -------------------------------
(***************************************************************************)
(* A session and its connection, of whichever kind MakeTransport made it,  *)
(* and what the session may rely on.                                       *)
(***************************************************************************)
EXTENDS SshLink, DeviceLink

CONSTANT Kinds  \* the kinds of transport

ASSUME KindsAssumption == Kinds \subseteq {"ssh", "pty", "serial"}

vars == <<linkVars, sshVars, pfVars, deviceVars>>

Init ==
    /\ \E k \in Kinds : InitLink(k)
    /\ \E p \in Profiles : InitSsh(p) /\ (kind # "ssh" => p = CHOOSE q \in Profiles : TRUE)
    /\ InitDevice

Ssh == kind = "ssh" /\ UNCHANGED deviceVars
Device == kind # "ssh" /\ UNCHANGED <<sshVars, pfVars>>

SshWorker == Ssh /\ Worker
DeviceReader == Device /\ Reader
Ends == Ending /\ UNCHANGED <<sshVars, pfVars, deviceVars>>
Bridge == Ssh /\ BridgeEnds
KeepAlive == Ssh /\ ~Jump /\ KernelGivesUp

\* The thread of the user interface, at the user's command...
User ==
    \/ (CloseSession \/ ReplaceConnection) /\ asking # "shown"
       /\ UNCHANGED <<sshVars, pfVars, deviceVars>>
    \/ Ssh /\ (SshInterface \/ AnswerChallenge)

\* ... and of its own.
Waits ==
    \/ Ssh /\ bridge # "running" /\ Closed /\ UNCHANGED <<sshVars, pfVars>>
    \/ Ssh /\ (StartSsh \/ RenewSsh \/ ShowChallenge)
    \/ Device /\ (StartDevice \/ RunDialScript \/ CloseDevice \/ CloseDeviceLink \/ RenewDevice)

Shows == Ssh /\ SshInterface /\ (Wire \/ Seed \/ UpdateStatus)

Outside ==
    \/ Ssh /\ (BridgeStalls \/ NetFails \/ KernelGivesUp)
    \/ Device /\ (PeerWrites \/ PeerGoes)

Next == SshWorker \/ DeviceReader \/ Ends \/ Bridge \/ User \/ Waits \/ Outside

Spec == Init /\ [][Next]_vars

\* The threads run, the interface handles what is posted to it, and the kernel
\* probes a connection that has gone silent.  The user owes nothing, nor does the
\* shell that the server runs.  The worker looks for the end of the connection
\* once in each turn, whatever else it finds to do.
Fairness ==
    /\ WF_vars(SshWorker /\ stage # "loop") /\ WF_vars(SshWorker /\ batch # batch')
    /\ SF_vars(SshWorker /\ stage = "loop" /\ why' # "Clean" /\ stage' = "closing")
    /\ WF_vars(DeviceReader) /\ WF_vars(Ends) /\ WF_vars(Bridge)
    /\ WF_vars(Waits) /\ WF_vars(Shows) /\ WF_vars(KeepAlive)

FairSpec == Spec /\ Fairness

-----------------------------------------------------------------------------
(* Properties *)

\* Types.
TypeOK ==
    /\ kind \in Kinds /\ running \in BOOLEAN /\ asked \in BOOLEAN /\ why \in Reasons
    /\ heard \in Reasons \union {"open", "error"}
    /\ ui \in {"free", "close", "replace", "gone"}
    /\ profile \in Profiles /\ net \in {"up", "silent", "lost"}
    /\ asking \in {"no", "posted", "shown", "answered"} /\ bridge \in {"none", "running", "over"}
    /\ peer \in {"there", "gone", "left"} /\ output \in 0..MaxOutput /\ unseen \in BOOLEAN
    /\ fd \in {"open", "closed"} /\ PortForwardsTypeOK

\* What Transport promises, whatever the kind (ITransportTarget.h): one end, no
\* word after it, and no end without a word unless it was asked for.
Contract == INSTANCE Transport WITH
    worker <- CASE stage \in {"new", "dialing", "dead"} -> "none"
                [] stage = "ended" -> "over"
                [] OTHER -> "running"
LinkContract == Contract!Spec

\* Stop returns (the join in SshTransport::Stop, BastionTunnel::Stop and the
\* others), unless the worker is about to ask the user, whose thread this is, or a
\* jump host has fallen silent, which nobody probes.
Excused == kind = "ssh" /\ (asking = "posted" \/ (Jump /\ net = "silent"))
StopReturns == asked ~> (~asked \/ ui = "gone" \/ Excused)

\* A connection that has gone is noticed, through the jump host's thread or by the
\* keepalive probes, and the session told why it ended.
Gone ==
    IF kind = "ssh" THEN net = "lost" \/ (net = "silent" /\ ~Jump) ELSE peer = "gone"
LossNoticed ==
    (Gone /\ stage \notin {"new", "dead"}) ~>
        (heard \in Reasons \/ asked \/ ~Gone \/ Prompting \/ stage = "dead")

\* The worker has, or will once it has served what it was asked, the forwards the
\* session means to have: across failures, removals and reconnects
\* (ReplaceConnection, ServiceQueue).
EngineFollowsSession ==
    kind = "ssh" /\ running => WillHold = Meant

\* Whoever adds a forward to a connection that stays hears what became of it
\* (AddPortForward, ServiceQueue, UpdateStatus).
AddsSettle ==
    \A id \in Ids :
        (kind = "ssh" /\ id \in Meant /\ stage = "loop" /\ wired = "seeded") ~>
            \/ id \notin waiting /\ id \in DOMAIN cache
            \/ id \notin Meant \/ stage # "loop" \/ net = "silent" \/ ~running

-----------------------------------------------------------------------------
(* What the code says of itself, and does not keep *)

\* "TCP keepalive parameters applied to every established SSH socket"
\* (SshTransport.cpp:40): silence is noticed by way of a jump host, too.
SilenceNoticed ==
    (kind = "ssh" /\ net = "silent" /\ stage = "loop") ~>
        (heard \in Reasons \/ asked \/ net = "up")

\* "Stop() will be called by the session" when a dial script fails
\* (SerialTransport.cpp:169).
DialFailureStops == stage = "dead" ~> asked

\* "Signals the worker to stop and joins it" (SshTransport.h:57), also while the
\* worker waits for this thread to ask the user.
StopAlwaysReturns == asked ~> (~asked \/ ui = "gone" \/ (Jump /\ net = "silent"))
=============================================================================
