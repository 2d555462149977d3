----------------------------- MODULE MobileBridge -----------------------------
(***************************************************************************)
(* pkg/mobile/bridge.go inside the iOS packet tunnel provider.             *)
(*                                                                         *)
(* The provider's callbacks (start, stop, packets to send, statistics) run *)
(* on threads of their own and meet in one global variable, globalEngine,  *)
(* which every statement reads afresh and nothing protects: the mutex is   *)
(* inside the engine.  The ingress loop of an engine keeps its own pointer.*)
(*                                                                         *)
(* An engine is named by the number of the transport it was made with; 0   *)
(* is nil.                                                                 *)
(***************************************************************************)
EXTENDS Integers

CONSTANT MaxEngines     \* bound on the transports that are opened
ASSUME MaxEnginesAssumption == MaxEngines \in Nat

VARIABLES
    globalEngine,
    made,               \* transports opened so far
    published,          \* engines that were assigned to globalEngine
    running,            \* engines whose field running is true
    stopped,            \* engines whose stopCh is closed
    closed,             \* transports that are closed
    wiped,              \* sessions that are wiped
    active,             \* isTunnelActive of the provider
    start, stop, packet, stats,   \* where the callbacks are
    ingress,            \* runNetworkIngress of each engine
    raced,              \* history: engines whose start ran into a stop
    proc                \* "up" or "panicked"

engineVars == <<made, published, running, stopped, closed, wiped>>
callbackVars == <<start, stop, packet, stats>>
vars == <<globalEngine, made, published, running, stopped, closed, wiped, active,
          start, stop, packet, stats, ingress, raced, proc>>

Engines == 1 .. MaxEngines

Init ==
    /\ globalEngine = 0
    /\ made = 0
    /\ published = {} /\ running = {} /\ stopped = {} /\ closed = {} /\ wiped = {}
    /\ active = FALSE
    /\ start = "idle" /\ stop = "idle" /\ packet = "idle" /\ stats = "idle"
    /\ ingress = [e \in Engines |-> "none"]
    /\ raced = {}
    /\ proc = "up"

Panic ==
    /\ proc' = "panicked"
    /\ UNCHANGED <<globalEngine, engineVars, active, callbackVars, ingress, raced>>

Up == proc = "up"

-----------------------------------------------------------------------------
(* startTunnel and StartTunnel                                             *)

SetStart(pc) ==
    /\ start' = pc
    /\ UNCHANGED <<globalEngine, published, running, stopped, wiped, active, stop, packet,
                   stats, ingress, proc>>

StartTunnel ==
    /\ Up /\ start = "idle" /\ made < MaxEngines
    /\ SetStart("check") /\ UNCHANGED <<made, closed, raced>>

\* globalEngine != nil && globalEngine.running, two reads.
StartCheckNil ==
    /\ Up /\ start = "check"
    /\ SetStart(IF globalEngine = 0 THEN "dial" ELSE "check running")
    /\ UNCHANGED <<made, closed, raced>>

\* mutant: whether the engine there is runs does not matter
StartCheckNothing ==
    /\ Up /\ start = "check running" /\ globalEngine # 0
    /\ SetStart("dial") /\ UNCHANGED <<made, closed, raced>>

StartCheckRunning ==
    /\ Up /\ start = "check running" /\ globalEngine # 0
    /\ SetStart(IF globalEngine \in running THEN "idle" ELSE "dial")
    /\ UNCHANGED <<made, closed, raced>>

\* A transport, and the initiation is sent.
Dial ==
    /\ Up /\ start = "dial"
    /\ made' = made + 1
    /\ raced' = IF stop = "idle" THEN raced ELSE raced \cup {made + 1}
    /\ SetStart("handshake") /\ UNCHANGED closed

\* A bad key, an unknown mode, no connection.
DialFails == Up /\ start = "dial" /\ SetStart("idle") /\ UNCHANGED <<made, closed, raced>>

\* mutant: an error return without tr.Close()
HandshakeFailsLeaks ==
    Up /\ start = "handshake" /\ SetStart("idle") /\ UNCHANGED <<made, closed, raced>>

\* Receive fails or the response is not authentic.
HandshakeFails ==
    /\ Up /\ start = "handshake"
    /\ closed' = closed \cup {made}
    /\ SetStart("idle") /\ UNCHANGED <<made, raced>>

\* The engine becomes the global one and its loop starts.
Publish ==
    /\ Up /\ start = "handshake"
    /\ globalEngine' = made
    /\ published' = published \cup {made}
    /\ running' = running \cup {made}
    /\ ingress' = [ingress EXCEPT ![made] = "receive"]
    /\ raced' = IF stop = "idle" THEN raced ELSE raced \cup {made}
    /\ start' = "activate"
    /\ UNCHANGED <<made, stopped, closed, wiped, active, stop, packet, stats, proc>>

\* isTunnelActive = true, startPacketReadLoop.
Activate ==
    /\ Up /\ start = "activate"
    /\ active' = TRUE
    /\ packet' = IF packet = "idle" THEN "loop" ELSE packet
    /\ start' = "idle"
    /\ UNCHANGED <<globalEngine, engineVars, stop, stats, ingress, raced, proc>>

-----------------------------------------------------------------------------
(* stopTunnel and StopTunnel                                               *)

SetStop(pc) ==
    /\ stop' = pc
    /\ UNCHANGED <<made, published, start, packet, stats, ingress, raced, proc>>

StopTunnel ==
    /\ Up /\ stop = "idle"
    /\ active' = FALSE
    /\ SetStop("check")
    /\ UNCHANGED <<globalEngine, running, stopped, closed, wiped>>

\* Without an engine there is nothing to stop.
StopCheckNil ==
    /\ Up /\ stop = "check"
    /\ SetStop(IF globalEngine = 0 THEN "idle" ELSE "lock")
    /\ UNCHANGED <<globalEngine, running, stopped, closed, wiped, active>>

\* globalEngine.mu.Lock(), which nobody else holds, and the look at running.
StopLock ==
    /\ Up /\ stop = "lock" /\ globalEngine # 0
    /\ SetStop(IF globalEngine \in running THEN "close stopCh" ELSE "idle")
    /\ UNCHANGED <<globalEngine, running, stopped, closed, wiped, active>>

StopCloseStopCh ==
    /\ Up /\ stop = "close stopCh" /\ globalEngine # 0
    /\ stopped' = stopped \cup {globalEngine}
    /\ SetStop("close transport")
    /\ UNCHANGED <<globalEngine, running, closed, wiped, active>>

StopCloseTransport ==
    /\ Up /\ stop = "close transport" /\ globalEngine # 0
    /\ closed' = closed \cup {globalEngine}
    /\ SetStop("wipe")
    /\ UNCHANGED <<globalEngine, running, stopped, wiped, active>>

StopWipe ==
    /\ Up /\ stop = "wipe" /\ globalEngine # 0
    /\ wiped' = wiped \cup {globalEngine}
    /\ SetStop("not running")
    /\ UNCHANGED <<globalEngine, running, stopped, closed, active>>

StopNotRunning ==
    /\ Up /\ stop = "not running" /\ globalEngine # 0
    /\ running' = running \ {globalEngine}
    /\ SetStop("clear")
    /\ UNCHANGED <<globalEngine, stopped, closed, wiped, active>>

\* globalEngine = nil, and the deferred Unlock.
StopClear ==
    /\ Up /\ stop = "clear"
    /\ globalEngine' = 0
    /\ SetStop("idle")
    /\ UNCHANGED <<running, stopped, closed, wiped, active>>

-----------------------------------------------------------------------------
(* The packet read loop and OnPacketFromDevice; handleAppMessage and       *)
(* GetStats                                                                *)

SetPacket(pc) ==
    /\ packet' = pc
    /\ UNCHANGED <<globalEngine, engineVars, active, start, stop, stats, ingress, raced, proc>>

PacketLoop == Up /\ packet = "loop" /\ SetPacket(IF active THEN "check" ELSE "idle")

PacketCheckNil ==
    Up /\ packet = "check" /\ SetPacket(IF globalEngine = 0 THEN "loop" ELSE "check running")

PacketCheckRunning ==
    /\ Up /\ packet = "check running" /\ globalEngine # 0
    /\ SetPacket(IF globalEngine \in running THEN "count" ELSE "loop")

PacketCount == Up /\ packet = "count" /\ globalEngine # 0 /\ SetPacket("encrypt")

PacketEncrypt ==
    /\ Up /\ packet = "encrypt" /\ globalEngine # 0 /\ globalEngine \notin wiped
    /\ SetPacket("send")

PacketEncryptPanics ==
    Up /\ packet = "encrypt" /\ globalEngine # 0 /\ globalEngine \in wiped /\ Panic

\* The error of a closed transport is ignored.
PacketSend == Up /\ packet = "send" /\ globalEngine # 0 /\ SetPacket("loop")

SetStats(pc) ==
    /\ stats' = pc
    /\ UNCHANGED <<globalEngine, engineVars, active, start, stop, packet, ingress, raced, proc>>

GetStats == Up /\ stats = "idle" /\ globalEngine # 0 /\ SetStats("read")
StatsRead == Up /\ stats = "read" /\ globalEngine # 0 /\ SetStats("idle")

\* mutant: statistics are asked for without the look
NilDereferenceAlways == Up /\ globalEngine = 0 /\ Panic

\* A callback that has found globalEngine # nil uses it when it is nil.
NilDereference ==
    /\ Up /\ globalEngine = 0
    /\ \/ start = "check running"
       \/ stop \in {"lock", "close stopCh", "close transport", "wipe", "not running"}
       \/ packet \in {"check running", "count", "encrypt", "send"}
       \/ stats = "read"
    /\ Panic

-----------------------------------------------------------------------------
(* runNetworkIngress of engine e                                           *)

SetIngress(e, pc) ==
    /\ ingress' = [ingress EXCEPT ![e] = pc]
    /\ UNCHANGED <<globalEngine, engineVars, active, callbackVars, raced, proc>>

\* A packet; one that was queued may come after Close.
IngressReceive(e) == Up /\ ingress[e] = "receive" /\ SetIngress(e, "decrypt")

\* mutant: every error is tried again
IngressErrorRetries(e) ==
    Up /\ ingress[e] = "receive" /\ e \in closed /\ SetIngress(e, "receive")

IngressError(e) ==
    /\ Up /\ ingress[e] = "receive" /\ e \in closed
    /\ SetIngress(e, IF e \in stopped THEN "done" ELSE "receive")

\* Dropped, or opened and handed to the provider.
IngressDecrypt(e) == Up /\ ingress[e] = "decrypt" /\ e \notin wiped /\ SetIngress(e, "receive")

IngressDrop(e) == Up /\ ingress[e] = "decrypt" /\ SetIngress(e, "receive")

IngressPanics(e) == Up /\ ingress[e] = "decrypt" /\ e \in wiped /\ Panic

-----------------------------------------------------------------------------
StartNext ==
    \/ StartCheckNil \/ StartCheckRunning \/ Dial \/ DialFails
    \/ HandshakeFails \/ Publish \/ Activate

StopNext ==
    \/ StopCheckNil \/ StopLock \/ StopCloseStopCh \/ StopCloseTransport
    \/ StopWipe \/ StopNotRunning \/ StopClear

PacketNext ==
    \/ PacketLoop \/ PacketCheckNil \/ PacketCheckRunning \/ PacketCount
    \/ PacketEncrypt \/ PacketEncryptPanics \/ PacketSend

IngressNext(e) ==
    IngressReceive(e) \/ IngressError(e) \/ IngressDecrypt(e) \/ IngressDrop(e) \/ IngressPanics(e)

Next ==
    \/ StartTunnel \/ StartNext \/ StopTunnel \/ StopNext \/ PacketNext
    \/ GetStats \/ StatsRead \/ NilDereference
    \/ \E e \in Engines : IngressNext(e)

Spec == Init /\ [][Next]_vars

\* A call of StopTunnel and the ingress loops are scheduled, and Receive on a
\* closed transport does not return packets for ever.
Fairness ==
    /\ WF_vars(StopNext)
    /\ \A e \in Engines :
          /\ WF_vars(IngressDecrypt(e) \/ IngressDrop(e) \/ IngressPanics(e))
          /\ SF_vars(IngressError(e))

FairSpec == Spec /\ Fairness

-----------------------------------------------------------------------------
TypeOK ==
    /\ globalEngine \in 0 .. MaxEngines /\ made \in 0 .. MaxEngines
    /\ running \subseteq published /\ published \subseteq 1 .. made
    /\ stopped \cup wiped \subseteq published /\ closed \subseteq 1 .. made
    /\ active \in BOOLEAN
    /\ proc \in {"up", "panicked"}

\* Between calls every transport that was opened is closed or belongs to a
\* running engine, and an engine runs with all its parts or has lost them
\* all, its keys included: no error return of StartTunnel and no early
\* return of StopTunnel leaves anything in between.
EnginesAreWhole ==
    /\ \A e \in 1 .. made : e \in closed \cup running \/ (start = "handshake" /\ e = made)
    /\ stop = "idle" =>
          \A e \in published :
             IF e \in running THEN e \notin stopped \cup closed \cup wiped
                              ELSE e \in stopped \cap closed \cap wiped

\* A running engine that StopTunnel can no longer reach comes only from a
\* start that overlapped a stop: StopTunnel's last two assignments let a
\* StartTunnel in between, whose engine is then overwritten with nil.
OrphanNeedsRace == \A e \in running : e = globalEngine \/ e \in raced

\* Packets in both directions and statistics do not crash the process until
\* a running tunnel is being stopped.
PanicNeedsStop == proc = "panicked" => stopped # {}

\* "StopTunnel cleanly terminates the mobile tunnel and zeroes keys.": an
\* engine that StopTunnel has begun to stop loses its keys and its loop
\* ends, unless the process panics.
StoppedEnginesEnd ==
    \A e \in Engines :
        e \in stopped ~> (e \in wiped \ running /\ ingress[e] = "done") \/ proc = "panicked"

-----------------------------------------------------------------------------
(* A stronger reading of the same comment, which the code does not have.   *)

\* "cleanly": no panic.
StopIsClean == proc = "up"
=============================================================================
