-------------------------------- MODULE Client --------------------------------
(***************************************************************************)
(* cmd/antclient: the process of the command-line client.                  *)
(*                                                                         *)
(* main opens a transport, runs the handshake, makes a TUN device, diverts *)
(* the traffic of the host into it, starts three loops and waits for a     *)
(* signal.  What it undoes it undoes by deferred calls, last made first    *)
(* undone, while the loops still run; it waits for none of them.  Before   *)
(* signal.Notify a signal ends the process where it stands.  os.Exit and a *)
(* panic of a loop run no deferred call.                                   *)
(*                                                                         *)
(* The transport is a UDP socket, or a stream (TLS, WebSocket) with a read *)
(* loop of its own that feeds a queue.  The frames of the stream are       *)
(* TLSFraming's.                                                           *)
(*                                                                         *)
(* Every command run on the host may fail, and main ignores it.  What is   *)
(* on the host is told apart as far as an undo call does: the routes into  *)
(* the device, the host route past it to the server ("bypass"), the        *)
(* resolvers ("dns"), the rule that drops ("drop"); and what no call       *)
(* removes: the ACCEPT rules of iptables ("accept") and a service whose    *)
(* resolvers were emptied where they should have been restored ("empty").  *)
(* Which packets the rules and the routes let through is HostNetwork's.    *)
(***************************************************************************)
EXTENDS Integers, Sequences

CONSTANT QueueSize      \* capacity of t.incoming, or of the socket buffer
ASSUME QueueSizeAssumption == QueueSize \in Nat \ {0}

VARIABLES
    flags,      \* the flags of the process, and the system it runs on
    main,       \* where main is
    defers,     \* its deferred calls, the last one first
    device,     \* the TUN device: "none", "open" or "closed"
    host,       \* what the client has put on the host
    service,    \* the DNS settings of a service were touched (macOS)
    stuck,      \* what an undo call has failed to remove
    stop,       \* stopCh is closed
    wiped,      \* the session is wiped
    closed,     \* the transport is closed
    link,       \* the stream is connected
    reader,     \* the read loop of the stream
    inbox,      \* packets received by the transport and not by the client
    egress, ingress, keepalive,
    proc        \* "up", or how the process ended

transportVars == <<link, reader, inbox>>
loopVars == <<egress, ingress, keepalive>>
undoVars == <<service, stuck>>
setupVars == <<flags, main, defers, device, host, undoVars>>
clientVars == <<flags, main, defers, device, host, service, stuck, stop, wiped, closed, link,
                reader, inbox, egress, ingress, keepalive, proc>>

\* What no call of the client removes.
Remains == {"accept", "empty"}

ClientInit ==
    /\ flags \in [linux : BOOLEAN, stream : BOOLEAN, routes : BOOLEAN, killSwitch : BOOLEAN]
    /\ main = "dial"
    /\ defers = <<>>
    /\ device = "none"
    /\ host = {} /\ service = FALSE /\ stuck = {}
    /\ stop = FALSE /\ wiped = FALSE /\ closed = FALSE
    /\ link = FALSE /\ reader = "none" /\ inbox = 0
    /\ egress = "none" /\ ingress = "none" /\ keepalive = "none"
    /\ proc = "up"

-----------------------------------------------------------------------------
(* The process and its main goroutine                                      *)

\* The kernel removes the device of a dead process and the routes through it.
End(how) ==
    /\ proc' = how
    /\ host' = host \ {"routes"}
    /\ UNCHANGED <<flags, main, defers, device, undoVars, stop, wiped, closed,
                   transportVars, loopVars>>

At(pc) == proc = "up" /\ main = pc

Dial ==
    /\ At("dial")
    /\ link' = flags.stream
    /\ reader' = IF flags.stream THEN "reading" ELSE "none"
    /\ defers' = <<"closeTransport">>
    /\ main' = "send"
    /\ UNCHANGED <<flags, device, host, undoVars, stop, wiped, closed, inbox, loopVars, proc>>

\* Every error up to the session calls os.Exit(1).
DialFails == At("dial") /\ End("exited")

SendInitiation ==
    /\ At("send")
    /\ main' = "await"
    /\ UNCHANGED <<flags, defers, device, host, undoVars, stop, wiped, closed,
                   transportVars, loopVars, proc>>

\* The name of the server, the initiation or the send.
SendFails == At("send") /\ End("exited")

\* tr.Receive, without a deadline, and ConsumeResponse.
Handshake ==
    /\ At("await") /\ inbox > 0
    /\ inbox' = inbox - 1
    /\ defers' = <<"wipe">> \o defers
    /\ main' = "tun"
    /\ UNCHANGED <<flags, device, host, undoVars, stop, wiped, closed, link, reader, loopVars, proc>>

\* The receive of a stream ends in an error only when it is closed.
HandshakeFails == At("await") /\ (inbox > 0 \/ ~ flags.stream) /\ End("exited")

\* Without a device the client goes on, "in test mode".
CreateTUN(ok) ==
    /\ At("tun")
    /\ device' = IF ok THEN "open" ELSE "none"
    /\ defers' = IF ok THEN <<"closeTUN">> \o defers ELSE defers
    /\ main' = IF ok /\ flags.routes THEN "routes" ELSE "loops"
    /\ UNCHANGED <<flags, host, undoVars, stop, wiped, closed, transportVars, loopVars, proc>>

\* SetupRoutes, SetupDNS and Enable each put on the host what their
\* commands could; main looks at no error.
RouterSetupRoutes(put) ==
    /\ At("routes")
    /\ put \subseteq {"routes", "bypass"}
    /\ host' = host \cup put
    /\ main' = "dns"
    /\ UNCHANGED <<flags, defers, device, undoVars, stop, wiped, closed,
                   transportVars, loopVars, proc>>

\* On Linux SetupDNS does nothing; on macOS it may find no service.
RouterSetupDNS(found, put) ==
    /\ At("dns")
    /\ found => ~ flags.linux
    /\ put \subseteq IF found THEN {"dns"} ELSE {}
    /\ host' = host \cup put
    /\ service' = found
    /\ defers' = <<"restoreDNS", "restoreRoutes">> \o defers
    /\ main' = IF flags.killSwitch THEN "filter" ELSE "loops"
    /\ UNCHANGED <<flags, device, stuck, stop, wiped, closed, transportVars, loopVars, proc>>

\* mutant: Disable is not deferred
EnableForGood(put) ==
    /\ At("filter")
    /\ put \subseteq IF flags.linux THEN {"accept", "drop"} ELSE {"drop"}
    /\ host' = host \cup put
    /\ main' = "loops"
    /\ UNCHANGED <<flags, defers, device, undoVars, stop, wiped, closed,
                   transportVars, loopVars, proc>>

KillSwitchEnable(put) ==
    /\ At("filter")
    /\ put \subseteq IF flags.linux THEN {"accept", "drop"} ELSE {"drop"}
    /\ host' = host \cup put
    /\ defers' = <<"disable">> \o defers
    /\ main' = "loops"
    /\ UNCHANGED <<flags, device, undoVars, stop, wiped, closed, transportVars, loopVars, proc>>

StartLoops ==
    /\ At("loops")
    /\ egress' = IF device = "open" THEN "reading" ELSE "none"
    /\ ingress' = "receive"
    /\ keepalive' = "select"
    /\ main' = "notify"
    /\ UNCHANGED <<flags, defers, device, host, undoVars, stop, wiped, closed, transportVars, proc>>

Notify ==
    /\ At("notify")
    /\ main' = "wait"
    /\ UNCHANGED <<flags, defers, device, host, undoVars, stop, wiped, closed,
                   transportVars, loopVars, proc>>

\* SIGINT or SIGTERM with its default action ...
Kill == proc = "up" /\ main \notin {"wait", "return"} /\ End("killed")

\* ... or caught: close(stopCh), return.
Signal ==
    /\ At("wait")
    /\ stop' = TRUE
    /\ main' = "return"
    /\ UNCHANGED <<flags, defers, device, host, undoVars, wiped, closed,
                   transportVars, loopVars, proc>>

\* What a deferred call takes off the host.  The routes through a device go
\* with the device.
Undoes(name) ==
    CASE name = "disable"       -> {"drop"}
      [] name = "restoreDNS"    -> {"dns"}
      [] name = "restoreRoutes" -> {"routes", "bypass"}
      [] name = "closeTUN"      -> {"routes"}
      [] OTHER                  -> {}

\* One deferred call, whose commands do not remove `failed`.  RestoreDNS
\* writes "Empty", not what the resolvers were before.
Call(name, failed) ==
    /\ name = "closeTUN" => failed = {}
    /\ host' = (host \ (Undoes(name) \ failed))
                  \cup (IF name = "restoreDNS" /\ service /\ "dns" \notin failed
                        THEN {"empty"} ELSE {})
    /\ stuck' = stuck \cup (host \cap failed)
    /\ device' = IF name = "closeTUN" THEN "closed" ELSE device
    /\ wiped' = (wiped \/ name = "wipe")
    /\ closed' = (closed \/ name = "closeTransport")
    /\ link' = (link /\ name # "closeTransport")
    /\ UNCHANGED <<flags, main, service, stop, reader, inbox, loopVars, proc>>

\* mutant: deferred calls in the order they were made
RunDeferInOrder ==
    /\ At("return") /\ defers # <<>>
    /\ \E failed \in SUBSET Undoes(defers[Len(defers)]) : Call(defers[Len(defers)], failed)
    /\ defers' = SubSeq(defers, 1, Len(defers) - 1)

RunDefer ==
    /\ At("return") /\ defers # <<>>
    /\ \E failed \in SUBSET Undoes(Head(defers)) : Call(Head(defers), failed)
    /\ defers' = Tail(defers)

\* mutant: main waits for its loops before it returns
ReturnAfterLoops ==
    /\ At("return") /\ defers = <<>>
    /\ egress \in {"none", "done"} /\ ingress = "done" /\ keepalive = "done"
    /\ End("exited")

Return == At("return") /\ defers = <<>> /\ End("exited")

-----------------------------------------------------------------------------
(* The transport                                                           *)

SetTransport(up, loop, packets) ==
    /\ link' = up /\ reader' = loop /\ inbox' = packets
    /\ UNCHANGED <<setupVars, stop, wiped, closed, loopVars, proc>>

\* A datagram; the socket drops it when its buffer is full.
DatagramArrives ==
    /\ proc = "up" /\ ~ flags.stream /\ ~ closed /\ main # "dial"
    /\ inbox < QueueSize
    /\ SetTransport(link, reader, inbox + 1)

\* clientReadLoop has a packet ...
FrameArrives == proc = "up" /\ reader = "reading" /\ link /\ SetTransport(link, "pushing", inbox)

\* ... and waits for room in the queue or for the end.
Push ==
    /\ proc = "up" /\ reader = "pushing" /\ inbox < QueueSize
    /\ SetTransport(link, "reading", inbox + 1)

PushEnds == proc = "up" /\ reader = "pushing" /\ closed /\ SetTransport(link, "ended", inbox)

\* The peer or the network breaks the stream.
Break == proc = "up" /\ link /\ SetTransport(FALSE, reader, inbox)

\* The read fails and the loop ends; nobody is told.
ReadFails == proc = "up" /\ reader = "reading" /\ ~ link /\ SetTransport(link, "ended", inbox)

-----------------------------------------------------------------------------
(* The loops                                                               *)

SetEgress(pc) ==
    /\ egress' = pc
    /\ UNCHANGED <<setupVars, stop, wiped, closed, transportVars, ingress, keepalive, proc>>

\* As in the daemon, a read under way when the device is closed may still
\* return a packet.
EgressRead == proc = "up" /\ egress = "reading" /\ SetEgress("encrypt")

EgressEnds == proc = "up" /\ egress = "reading" /\ device = "closed" /\ SetEgress("done")

\* EncryptPacket, then Send, whose error is ignored.
EgressEncrypt == proc = "up" /\ egress = "encrypt" /\ ~ wiped /\ SetEgress("reading")

EgressPanics == proc = "up" /\ egress = "encrypt" /\ wiped /\ End("panicked")

SetIngress(pc, packets) ==
    /\ ingress' = pc /\ inbox' = packets
    /\ UNCHANGED <<setupVars, stop, wiped, closed, link, reader, egress, keepalive, proc>>

\* tr.Receive.  With a packet and a closed transport either may come.
IngressReceive ==
    /\ proc = "up" /\ ingress = "receive" /\ inbox > 0
    /\ SetIngress("decrypt", inbox - 1)

IngressError ==
    /\ proc = "up" /\ ingress = "receive" /\ closed
    /\ SetIngress(IF stop THEN "done" ELSE "receive", inbox)

\* mutant: a packet that cannot be used ends the loop
IngressDropEnds == proc = "up" /\ ingress = "decrypt" /\ SetIngress("done", inbox)

\* A short header or another session's index.
IngressDrop == proc = "up" /\ ingress = "decrypt" /\ SetIngress("receive", inbox)

\* DecryptPacket; data goes to the device, if any.  After an error and
\* after a keepalive the loop goes on as after IngressDrop.
IngressDecrypt ==
    /\ proc = "up" /\ ingress = "decrypt" /\ ~ wiped
    /\ SetIngress(IF device = "none" THEN "receive" ELSE "write", inbox)

IngressPanics == proc = "up" /\ ingress = "decrypt" /\ wiped /\ End("panicked")

IngressWrite == proc = "up" /\ ingress = "write" /\ SetIngress("receive", inbox)

SetKeepalive(pc) ==
    /\ keepalive' = pc
    /\ UNCHANGED <<setupVars, stop, wiped, closed, transportVars, egress, ingress, proc>>

\* select may take the tick although stopCh is closed.
Tick == proc = "up" /\ keepalive = "select" /\ SetKeepalive("encrypt")

KeepaliveEncrypt == proc = "up" /\ keepalive = "encrypt" /\ ~ wiped /\ SetKeepalive("select")

KeepalivePanics == proc = "up" /\ keepalive = "encrypt" /\ wiped /\ End("panicked")

KeepaliveEnds == proc = "up" /\ keepalive = "select" /\ stop /\ SetKeepalive("done")

-----------------------------------------------------------------------------
Setup ==
    \/ Dial \/ DialFails \/ SendInitiation \/ SendFails \/ Handshake \/ HandshakeFails
    \/ \E ok \in BOOLEAN : CreateTUN(ok)
    \/ \E put \in SUBSET {"routes", "bypass"} : RouterSetupRoutes(put)
    \/ \E found \in BOOLEAN, put \in SUBSET {"dns"} : RouterSetupDNS(found, put)
    \/ \E put \in SUBSET {"accept", "drop"} : KillSwitchEnable(put)
    \/ StartLoops \/ Notify

Transport == DatagramArrives \/ FrameArrives \/ Push \/ PushEnds \/ Break \/ ReadFails

Egress == EgressRead \/ EgressEnds \/ EgressEncrypt \/ EgressPanics

Ingress ==
    \/ IngressReceive \/ IngressError \/ IngressDrop \/ IngressDecrypt \/ IngressPanics
    \/ IngressWrite

Keepalive == Tick \/ KeepaliveEncrypt \/ KeepalivePanics \/ KeepaliveEnds

ClientNext ==
    Setup \/ Kill \/ Signal \/ RunDefer \/ Return \/ Transport \/ Egress \/ Ingress \/ Keepalive

ClientSpec == ClientInit /\ [][ClientNext]_clientVars

\* Goroutines that can run are scheduled.  Nothing is assumed of the network
\* or of the user.
ClientFairness ==
    /\ WF_clientVars(RunDefer \/ Return)
    /\ WF_clientVars(Notify) /\ WF_clientVars(StartLoops)
    /\ WF_clientVars(Push)
    /\ WF_clientVars(Ingress)

ClientFairSpec == ClientSpec /\ ClientFairness

-----------------------------------------------------------------------------
ClientTypeOK ==
    /\ main \in {"dial", "send", "await", "tun", "routes", "dns", "filter", "loops", "notify",
                 "wait", "return"}
    /\ device \in {"none", "open", "closed"}
    /\ host \subseteq {"routes", "bypass", "dns", "drop"} \cup Remains
    /\ stuck \subseteq {"routes", "bypass", "dns", "drop"}
    /\ inbox \in 0 .. QueueSize
    /\ reader \in {"none", "reading", "pushing", "ended"}
    /\ proc \in {"up", "exited", "killed", "panicked"}

\* A client that ends by itself leaves nothing on the host but what a
\* command of its own undo calls failed to remove and what no call removes
\* (the ACCEPT rules, emptied resolvers): by whichever os.Exit it ends,
\* whatever part of the set-up had failed, and when a loop meets the wiped
\* session and panics in the middle of the deferred calls: every undo call
\* has been made before the wipe.
EndReleasesHost == proc \in {"exited", "panicked"} => host \subseteq stuck \cup Remains

\* Traffic of the host is diverted or dropped only while there is a tunnel
\* for it: the device open, the session alive, the transport not closed by
\* the client.  What an undo command failed to remove stays longer, but no
\* route leads into a device that is closed.
HostMatchesTunnel ==
    proc = "up" =>
        /\ host \ (stuck \cup Remains) # {} => device = "open" /\ ~ wiped /\ ~ closed
        /\ "routes" \in host => device = "open"

\* A client that has been signalled ends: main waits for no loop, and no
\* deferred call waits for one.
SignalEnds == stop ~> proc # "up"

\* The queue is served: once the loops run, the read loop does not wait for
\* room for ever, whatever packets come.
QueueIsServed == (reader = "pushing" /\ ingress # "none") ~> (reader # "pushing" \/ proc # "up")

-----------------------------------------------------------------------------
(* What the log line says.                                                 *)

\* "Terminating AnonymousAnt Client. Restoring routes and clearing memory.":
\* whenever the client ends, as far as its commands succeed.
HostAlwaysRestored == proc # "up" => host \subseteq stuck \cup Remains
=============================================================================
