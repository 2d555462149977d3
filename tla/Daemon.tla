-------------------------------- MODULE Daemon --------------------------------
(***************************************************************************)
(* cmd/ant-daemon: the privileged daemon that owns the tunnel.             *)
(*                                                                         *)
(* Requests from the UI and from the command line come in over IPC, each   *)
(* connection served by a goroutine of its own; SIGTERM is served by main. *)
(* They take d.mu for their whole length.  Two packet loops per connection *)
(* run without the lock and read the fields of DaemonState afresh in every *)
(* round, so a loop of one connection may meet the objects of the next.    *)
(*                                                                         *)
(* Transport, session, TUN device and stop channel are named by the number *)
(* of the connection that made them; 0 is nil.                             *)
(***************************************************************************)
EXTENDS Integers

CONSTANTS
    Handlers,     \* goroutines that serve an IPC client
    Main,         \* the main goroutine
    KillSwitch,   \* the values of EnableKillSwitch that requests carry
    MaxConns,     \* bound on the connections that get as far as a transport
    Nobody

ASSUME KillSwitchAssumption == KillSwitch \subseteq BOOLEAN
ASSUME MaxConnsAssumption == MaxConns \in Nat

VARIABLES
    waiting,      \* the request each goroutine has not answered yet
    op,           \* what the holder of d.mu is doing
    d,            \* the fields of DaemonState the loops and handlers share
    made,         \* connections whose transport was opened
    closed,       \* transports that are closed
    tunClosed,    \* TUN devices that are closed
    wiped,        \* sessions that are wiped
    stopped,      \* stop channels that are closed
    egress,       \* runEgressLoop of each connection
    ingress,      \* runIngressLoop of each connection
    host,         \* in force on the host: tunnel "routes", the "drop" rule
    proc          \* "up", "panicked" or "exited"

loopVars == <<egress, ingress>>
vars == <<waiting, op, d, made, closed, tunClosed, wiped, stopped, egress, ingress,
          host, proc>>

Callers == Handlers \cup {Main}
Conns == 1 .. MaxConns
Requests == {"connect", "disconnect", "status"}
Unlocked == [by |-> Nobody, step |-> "free", tun |-> FALSE]

Init ==
    /\ waiting = [h \in Callers |-> "none"]
    /\ op = Unlocked
    /\ d = [connected |-> FALSE, transport |-> 0, session |-> 0, tun |-> 0, stop |-> 0,
            router |-> FALSE, killSwitch |-> FALSE]
    /\ made = 0
    /\ closed = {} /\ tunClosed = {} /\ wiped = {} /\ stopped = {}
    /\ egress = [n \in Conns |-> [pc |-> "none", tun |-> 0]]
    /\ ingress = [n \in Conns |-> [pc |-> "none", from |-> 0]]
    /\ host = {}
    /\ proc = "up"

-----------------------------------------------------------------------------
(* Requests and the lock                                                   *)

\* An IPC request arrives, or the signal.
Ask(h, r) ==
    /\ proc = "up" /\ waiting[h] = "none"
    /\ h = Main => r = "disconnect"
    /\ waiting' = [waiting EXCEPT ![h] = r]
    /\ UNCHANGED <<op, d, made, closed, tunClosed, wiped, stopped, loopVars, host, proc>>

\* d.mu.Lock()
Lock(h) ==
    /\ proc = "up" /\ waiting[h] \in Requests /\ op = Unlocked
    /\ op' = [by |-> h, step |-> waiting[h], tun |-> FALSE]
    /\ UNCHANGED <<waiting, d, made, closed, tunClosed, wiped, stopped, loopVars, host, proc>>

\* The deferred Unlock and the response; main goes on to its end.
Answer ==
    /\ op' = Unlocked
    /\ waiting' = [waiting EXCEPT ![op.by] = IF op.by = Main THEN "exit" ELSE "none"]
    /\ UNCHANGED proc

\* server.Close, which waits for no handler, and the process ends, whatever
\* the others are doing.
Exit ==
    /\ proc = "up" /\ waiting[Main] = "exit"
    /\ proc' = "exited"
    /\ UNCHANGED <<waiting, op, d, made, closed, tunClosed, wiped, stopped, loopVars, host>>

At(step) == proc = "up" /\ op.step = step

-----------------------------------------------------------------------------
(* handleGetStatus                                                         *)

GetStatus ==
    /\ At("status")
    /\ Answer
    /\ UNCHANGED <<d, made, closed, tunClosed, wiped, stopped, loopVars, host>>

-----------------------------------------------------------------------------
(* handleConnect                                                           *)

\* "already connected", or a bad key, or no transport: nothing was made.
ConnectRefused ==
    /\ At("connect")
    /\ Answer
    /\ UNCHANGED <<d, made, closed, tunClosed, wiped, stopped, loopVars, host>>

\* The transport is open and the initiation sent.
OpenTransport ==
    /\ At("connect") /\ ~ d.connected
    /\ made < MaxConns
    /\ made' = made + 1
    /\ op' = [op EXCEPT !.step = "handshake"]
    /\ UNCHANGED <<waiting, d, closed, tunClosed, wiped, stopped, loopVars, host, proc>>

\* mutant: the transport is left open
HandshakeFailsLeaks ==
    /\ At("handshake")
    /\ Answer
    /\ UNCHANGED <<d, made, closed, tunClosed, wiped, stopped, loopVars, host>>

\* tr.Receive returns an error, or the response does not authenticate.
HandshakeFails ==
    /\ At("handshake")
    /\ closed' = closed \cup {made}
    /\ Answer
    /\ UNCHANGED <<d, made, tunClosed, wiped, stopped, loopVars, host>>

\* The response arrives and is good; CreateTUN succeeds or is only warned
\* about.  Until one of the two happens tr.Receive blocks, with d.mu held.
HandshakeDone(tun) ==
    /\ At("handshake")
    /\ op' = [op EXCEPT !.step = "transport", !.tun = tun]
    /\ d' = [d EXCEPT !.connected = TRUE]
    /\ UNCHANGED <<waiting, made, closed, tunClosed, wiped, stopped, loopVars, host, proc>>

\* The fields are assigned one by one under the eyes of older loops.
Publish ==
    /\ proc = "up"
    /\ \/ /\ op.step = "transport"
          /\ d' = [d EXCEPT !.transport = made]
          /\ op' = [op EXCEPT !.step = "session"]
       \/ /\ op.step = "session"
          /\ d' = [d EXCEPT !.session = made]
          /\ op' = [op EXCEPT !.step = "tun"]
       \/ /\ op.step = "tun"
          /\ d' = [d EXCEPT !.tun = IF op.tun THEN made ELSE 0]
          /\ op' = [op EXCEPT !.step = "stop"]
       \/ /\ op.step = "stop"
          /\ d' = [d EXCEPT !.stop = made]
          /\ op' = [op EXCEPT !.step = "host"]
    /\ UNCHANGED <<waiting, made, closed, tunClosed, wiped, stopped, loopVars, host, proc>>

\* mutant: killSwitch := ... declares a local variable and not the field
StartTunnelShadows(killSwitch) ==
    LET drop == op.tun /\ killSwitch
    IN  /\ At("host")
        /\ host' = host \cup (IF op.tun THEN {"routes"} ELSE {})
                         \cup (IF drop THEN {"drop"} ELSE {})
        /\ d' = [d EXCEPT !.router = @ \/ op.tun]
        /\ egress' = [egress EXCEPT ![made].pc = "start"]
        /\ ingress' = [ingress EXCEPT ![made].pc = "receive"]
        /\ Answer
        /\ UNCHANGED <<made, closed, tunClosed, wiped, stopped>>

\* With a TUN device: routes, DNS and, if asked for, the kill switch, each
\* remembered in d.  Then the two loops start and the request is answered.
StartTunnel(killSwitch) ==
    LET drop == op.tun /\ killSwitch
    IN  /\ At("host")
        /\ host' = host \cup (IF op.tun THEN {"routes"} ELSE {})
                         \cup (IF drop THEN {"drop"} ELSE {})
        /\ d' = [d EXCEPT !.router = @ \/ op.tun, !.killSwitch = @ \/ drop]
        /\ egress' = [egress EXCEPT ![made].pc = "start"]
        /\ ingress' = [ingress EXCEPT ![made].pc = "receive"]
        /\ Answer
        /\ UNCHANGED <<made, closed, tunClosed, wiped, stopped>>

-----------------------------------------------------------------------------
(* handleDisconnect                                                        *)

NotConnected ==
    /\ At("disconnect") /\ ~ d.connected
    /\ Answer
    /\ UNCHANGED <<d, made, closed, tunClosed, wiped, stopped, loopVars, host>>

\* close(d.stopCh), then the kill switch, the routes and DNS.  d.killSwitch
\* and d.router are never reset to nil: the ones of an earlier connection
\* are undone once more.
Restore ==
    /\ At("disconnect") /\ d.connected
    /\ stopped' = stopped \cup {d.stop}
    /\ host' = host \ ((IF d.killSwitch THEN {"drop"} ELSE {})
                       \cup (IF d.router THEN {"routes"} ELSE {}))
    /\ op' = [op EXCEPT !.step = "close tun"]
    /\ UNCHANGED <<waiting, d, made, closed, tunClosed, wiped, loopVars, proc>>

CloseTun ==
    /\ At("close tun")
    /\ tunClosed' = tunClosed \cup ({d.tun} \ {0})
    /\ op' = [op EXCEPT !.step = "close transport"]
    /\ UNCHANGED <<waiting, d, made, closed, wiped, stopped, loopVars, host, proc>>

\* mutant: the transport is closed together with the TUN device or not at all
CloseTransportWithTun ==
    /\ At("close transport")
    /\ closed' = IF d.tun = 0 THEN closed ELSE closed \cup {d.transport}
    /\ op' = [op EXCEPT !.step = "wipe"]
    /\ UNCHANGED <<waiting, d, made, tunClosed, wiped, stopped, loopVars, host, proc>>

CloseTransport ==
    /\ At("close transport")
    /\ closed' = closed \cup {d.transport}
    /\ op' = [op EXCEPT !.step = "wipe"]
    /\ UNCHANGED <<waiting, d, made, tunClosed, wiped, stopped, loopVars, host, proc>>

\* d.session.Wipe(), connected = false: "Daemon disconnected cleanly."
Wipe ==
    /\ At("wipe")
    /\ wiped' = wiped \cup {d.session}
    /\ d' = [d EXCEPT !.connected = FALSE]
    /\ Answer
    /\ UNCHANGED <<made, closed, tunClosed, stopped, loopVars, host>>

-----------------------------------------------------------------------------
(* runEgressLoop of connection n                                           *)

SetEgress(n, pc, tun) ==
    /\ egress' = [egress EXCEPT ![n] = [pc |-> pc, tun |-> tun]]
    /\ UNCHANGED <<waiting, op, d, made, closed, tunClosed, wiped, stopped, ingress,
                   host, proc>>

Panic ==
    /\ proc' = "panicked"
    /\ UNCHANGED <<waiting, op, d, made, closed, tunClosed, wiped, stopped, loopVars, host>>

\* mutant: the loop does not look whether there is a device
EgressStartBlind(n) ==
    /\ proc = "up" /\ egress[n].pc = "start"
    /\ SetEgress(n, "loop", 0)

EgressStart(n) ==
    /\ proc = "up" /\ egress[n].pc = "start"
    /\ SetEgress(n, IF d.tun = 0 THEN "done" ELSE "loop", 0)

\* d.tunDev.ReadPacket is called on the device of the moment and blocks.
EgressRead(n) ==
    /\ proc = "up" /\ egress[n].pc = "loop" /\ d.tun # 0
    /\ IF d.tun \in tunClosed THEN SetEgress(n, "done", 0)
                              ELSE SetEgress(n, "reading", d.tun)

\* ... or on a nil interface.
EgressReadPanics(n) ==
    /\ proc = "up" /\ egress[n].pc = "loop" /\ d.tun = 0
    /\ Panic

\* A packet comes.  The descriptor is in blocking mode, so a read that was
\* under way when the device was closed still returns the next packet.
EgressPacket(n) ==
    /\ proc = "up" /\ egress[n].pc = "reading"
    /\ SetEgress(n, "encrypt", 0)

\* The read may end with an error once the device is closed.
EgressEnds(n) ==
    /\ proc = "up" /\ egress[n].pc = "reading" /\ egress[n].tun \in tunClosed
    /\ SetEgress(n, "done", 0)

\* d.session.EncryptPacket, then d.transport.Send, whose error is ignored.
EgressEncrypt(n) ==
    /\ proc = "up" /\ egress[n].pc = "encrypt"
    /\ d.session \notin wiped
    /\ SetEgress(n, "loop", 0)

EgressEncryptPanics(n) ==
    /\ proc = "up" /\ egress[n].pc = "encrypt"
    /\ d.session \in wiped
    /\ Panic

-----------------------------------------------------------------------------
(* runIngressLoop of connection n                                          *)

SetIngress(n, pc, from) ==
    /\ ingress' = [ingress EXCEPT ![n] = [pc |-> pc, from |-> from]]
    /\ UNCHANGED <<waiting, op, d, made, closed, tunClosed, wiped, stopped, egress,
                   host, proc>>

\* d.transport.Receive is called on the transport of the moment and blocks.
IngressReceive(n) ==
    /\ proc = "up" /\ ingress[n].pc = "receive"
    /\ SetIngress(n, "blocked", d.transport)

\* It returns a packet; one that was queued may come after Close.
IngressPacket(n) ==
    /\ proc = "up" /\ ingress[n].pc = "blocked"
    /\ SetIngress(n, "decrypt", ingress[n].from)

\* It returns an error: the stop channel of the moment decides.
IngressError(n) ==
    /\ proc = "up" /\ ingress[n].pc = "blocked" /\ ingress[n].from \in closed
    /\ SetIngress(n, IF d.stop \in stopped THEN "done" ELSE "receive", 0)

\* The header is malformed, or its index is not the one of the session of
\* the moment.
IngressDrop(n) ==
    /\ proc = "up" /\ ingress[n].pc = "decrypt"
    /\ SetIngress(n, "receive", 0)

\* d.session is the session of the packet.  A good data packet is written to
\* the device, if there is one at this moment.
IngressDecrypt(n) ==
    /\ proc = "up" /\ ingress[n].pc = "decrypt"
    /\ ingress[n].from = d.session /\ d.session \notin wiped
    /\ d.tun # 0
    /\ SetIngress(n, "write", 0)

IngressDecryptPanics(n) ==
    /\ proc = "up" /\ ingress[n].pc = "decrypt"
    /\ ingress[n].from = d.session /\ d.session \in wiped
    /\ Panic

\* d.tunDev is read a second time.
IngressWrite(n) ==
    /\ proc = "up" /\ ingress[n].pc = "write" /\ d.tun # 0
    /\ SetIngress(n, "receive", 0)

IngressWritePanics(n) ==
    /\ proc = "up" /\ ingress[n].pc = "write" /\ d.tun = 0
    /\ Panic

-----------------------------------------------------------------------------
HandlerNext ==
    \/ GetStatus
    \/ ConnectRefused \/ OpenTransport \/ HandshakeFails
    \/ \E tun \in BOOLEAN : HandshakeDone(tun)
    \/ Publish
    \/ \E killSwitch \in KillSwitch : StartTunnel(killSwitch)
    \/ NotConnected \/ Restore \/ CloseTun \/ CloseTransport \/ Wipe

EgressNext(n) ==
    \/ EgressStart(n) \/ EgressRead(n) \/ EgressReadPanics(n) \/ EgressPacket(n)
    \/ EgressEnds(n) \/ EgressEncrypt(n) \/ EgressEncryptPanics(n)

IngressNext(n) ==
    \/ IngressReceive(n) \/ IngressPacket(n) \/ IngressError(n)
    \/ IngressDrop(n) \/ IngressDecrypt(n) \/ IngressDecryptPanics(n)
    \/ IngressWrite(n) \/ IngressWritePanics(n)

Next ==
    \/ \E h \in Callers, r \in Requests : Ask(h, r)
    \/ \E h \in Callers : Lock(h)
    \/ HandlerNext
    \/ Exit
    \/ \E n \in Conns : EgressNext(n) \/ IngressNext(n)

Spec == Init /\ [][Next]_vars

\* The runtime schedules every goroutine that can run, and a Receive on a
\* closed transport does not return packets for ever.  Nothing makes the
\* server answer a handshake.
Fairness ==
    /\ WF_vars(GetStatus \/ ConnectRefused \/ Publish
                 \/ (\E killSwitch \in KillSwitch : StartTunnel(killSwitch))
                 \/ NotConnected \/ Restore \/ CloseTun \/ CloseTransport \/ Wipe)
    /\ \A n \in Conns :
          /\ WF_vars(IngressReceive(n) \/ IngressDrop(n) \/ IngressDecrypt(n)
                     \/ IngressDecryptPanics(n) \/ IngressWrite(n) \/ IngressWritePanics(n))
          /\ SF_vars(IngressError(n))

FairSpec == Spec /\ Fairness

\* d.mu is handed to whoever waits for it: sync.Mutex does not starve.
LockFairSpec == FairSpec /\ \A h \in Callers : SF_vars(Lock(h))

-----------------------------------------------------------------------------
TypeOK ==
    /\ waiting \in [Callers -> Requests \cup {"none", "exit"}]
    /\ op.by \in Callers \cup {Nobody}
    /\ d \in [connected : BOOLEAN, transport : 0 .. MaxConns, session : 0 .. MaxConns,
              tun : 0 .. MaxConns, stop : 0 .. MaxConns,
              router : BOOLEAN, killSwitch : BOOLEAN]
    /\ made \in 0 .. MaxConns
    /\ closed \subseteq Conns /\ tunClosed \subseteq Conns
    /\ wiped \subseteq Conns /\ stopped \subseteq Conns
    /\ host \subseteq {"routes", "drop"}
    /\ proc \in {"up", "panicked", "exited"}

\* Between requests the daemon is either wholly connected, with the live
\* transport, session and stop channel of one connection, or wholly
\* disconnected, with every transport it ever opened closed: no error path
\* of handleConnect leaves something behind.
AllOrNothing ==
    op = Unlocked =>
        IF d.connected
        THEN /\ d.transport = made /\ d.session = made /\ d.stop = made
             /\ d.tun \in {0, made} \ tunClosed
             /\ made \notin closed \cup wiped \cup stopped
             /\ 1 .. made - 1 \subseteq closed
        ELSE 1 .. made \subseteq closed

\* A daemon that is disconnected, and one that ends so, leaves no route
\* through the tunnel and no DROP rule behind, whichever of its connections
\* had a TUN device or a kill switch.
HostRestored == op = Unlocked /\ ~ d.connected /\ proc # "panicked" => host = {}

\* A packet loop panics only after its own connection was disconnected: the
\* loops of the connection that is up, from its start to its disconnect,
\* reach neither a wiped session nor a nil device, although they read the
\* fields without the lock and loops of earlier connections may still run.
\* (Those may panic, also under a later connection: DisconnectIsClean.)
LoopPanics(n) ==
    \/ EgressReadPanics(n) \/ EgressEncryptPanics(n)
    \/ IngressDecryptPanics(n) \/ IngressWritePanics(n)
PanicNeedsDisconnect == [][\A n \in Conns \ stopped : ~ LoopPanics(n)]_vars

\* After a disconnect the ingress loop ends, unless the daemon connects
\* again first (the loop then serves the new connection).
IngressEnds ==
    \A n \in Conns :
        (n \in stopped /\ ingress[n].pc # "done") ~>
            (ingress[n].pc = "done" \/ made > n \/ proc # "up")

-----------------------------------------------------------------------------
(* What the comments and log lines say.                                    *)

\* "Daemon disconnected cleanly. Memory wiped.": the daemon lives on.
DisconnectIsClean == proc # "panicked"

\* "Daemon stopping...": the signal leaves nothing behind on the host.
ExitRestoresHost == proc = "exited" => host = {}

\* "StatusResponse contains real-time operational telemetry.": a request for
\* it is answered.
StatusIsAnswered ==
    \A h \in Handlers : waiting[h] = "status" ~> (waiting[h] # "status" \/ proc # "up")
=============================================================================
