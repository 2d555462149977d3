-------------------------------- MODULE Server --------------------------------
(***************************************************************************)
(* cmd/antserver: the session table, the peer table that routes return     *)
(* traffic, one ingress goroutine per transport, and the goroutine that    *)
(* moves packets from the TUN device to the clients.                       *)
(*                                                                         *)
(* A session is the number of the initiation that made it, and stands for  *)
(* its index too: GenerateIndex is taken not to repeat itself.  Noise      *)
(* shows that only the client whose initiation it answered shares its      *)
(* keys, and Session that DecryptPacket accepts a packet once; here a      *)
(* client's packet either authenticates or never reaches this point.       *)
(* Transport and RemoteAddr are written and read together and are one      *)
(* value, the client they lead to.                                         *)
(***************************************************************************)
EXTENDS Integers, FiniteSets

CONSTANTS
    Clients,
    Ingress,       \* ingress goroutines, one per transport
    Via,           \* the transport a client uses
    VirtualIP,     \* the tunnel address of each client
    DefaultIP,     \* the -peer-ip flag, "10.8.0.2" unless set
    OtherIP,       \* a destination no client has, or a packet that is not IPv4
    MaxSessions,   \* bound on the initiations that arrive
    Goodbyes,      \* TRUE if clients send TypeDisconnect
    Stops          \* TRUE if the server may be told to stop

ASSUME MaxSessionsAssumption == MaxSessions \in Nat
ASSUME ViaAssumption == Via \in [Clients -> Ingress]

VARIABLES
    owner,         \* the client whose initiation made a session, per session
    holds,         \* the session each client uses, 0 before the handshake
    sessions,      \* SessionManager.sessions
    wiped,         \* sessions whose ciphers Wipe has set to nil
    peersByIP,     \* PeerTable.peersByIP
    lastActive,    \* PeerTable.lastActive, the address of that peer
    ingress,       \* what each ingress goroutine is doing
    egress,        \* what the TUN goroutine is doing
    heard,         \* history: clients whose IPv4 packets have been routed
    departed,      \* history: clients whose TypeDisconnect was handled
    running,       \* how far main is
    panicked       \* a nil cipher was dereferenced

vars == <<owner, holds, sessions, wiped, peersByIP, lastActive, ingress, egress,
          heard, departed, running, panicked>>

-----------------------------------------------------------------------------
SessionIds == 1 .. MaxSessions
IPs == {VirtualIP[c] : c \in Clients} \cup {DefaultIP}
None == "none"
NoPeer == [session |-> 0, addr |-> None]
Up == running # "exited" /\ ~ panicked
TableFree == Up /\ running # "clearing"     \* sm.mu can be taken

\* The nil of the model is neither a client nor an address.
ASSUME NoneAssumption == None \notin Clients \cup IPs \cup {OtherIP}

\* What a tunnel packet is to the peer table: IPv4 data, anything else that
\* is routed by the default address (other data, keepalives), a goodbye.
Packets == {"ipv4", "other"} \cup (IF Goodbyes THEN {"disconnect"} ELSE {})

IdleIngress == [pc |-> "idle", session |-> 0, client |-> None, packet |-> None]
IdleEgress == [pc |-> "idle", dst |-> None, learned |-> FALSE, peer |-> None, session |-> 0,
               via |-> None]

Init ==
    /\ owner = [s \in SessionIds |-> None]
    /\ holds = [c \in Clients |-> 0]
    /\ sessions = {}
    /\ wiped = {}
    /\ peersByIP = [ip \in IPs |-> NoPeer]
    /\ lastActive = None
    /\ ingress = [g \in Ingress |-> IdleIngress]
    /\ egress = IdleEgress
    /\ heard = {}
    /\ departed = {}
    /\ running = "serving"
    /\ panicked = FALSE

-----------------------------------------------------------------------------
(* PeerTable                                                               *)

\* Register, under pt.mu: the entry of the address is created or rewritten
\* and becomes the last active one.
RegisterPeer(ip, s, addr) ==
    /\ peersByIP' = [peersByIP EXCEPT ![ip] = [session |-> s, addr |-> addr]]
    /\ lastActive' = ip

\* mutant: the address is not looked at
LookupLastActive(ip) == lastActive

\* history: a client has sent from this address
Learned(ip) == \E c \in heard : VirtualIP[c] = ip

Known(ip) == ip \in IPs /\ peersByIP[ip] # NoPeer

\* Lookup, under pt.mu: the entry of the address, else the last active one.
\* The caller keeps the pointer, so what is returned is whose entry it is.
Lookup(ip) == IF Known(ip) THEN ip ELSE lastActive

-----------------------------------------------------------------------------
(* handleIncomingPacket: a handshake                                       *)

\* mutant: a new session takes the place of the others
HandshakeInitAlone(g, c) ==
    /\ TableFree /\ ingress[g].pc = "idle" /\ Via[c] = g
    /\ \E s \in SessionIds :
          /\ owner[s] = None
          /\ \A r \in SessionIds : r < s => owner[r] # None
          /\ owner' = [owner EXCEPT ![s] = c]
          /\ sessions' = {s}
          /\ ingress' = [ingress EXCEPT
                ![g] = [pc |-> "handshake", session |-> s, client |-> c, packet |-> None]]
    /\ UNCHANGED <<holds, wiped, peersByIP, lastActive, egress, heard, departed,
                   running, panicked>>

\* An initiation of the client arrives, the first or a copy of it, is
\* authenticated and becomes a session in the table.
HandshakeInit(g, c) ==
    /\ TableFree /\ ingress[g].pc = "idle" /\ Via[c] = g
    /\ \E s \in SessionIds :
          /\ owner[s] = None
          /\ \A r \in SessionIds : r < s => owner[r] # None
          /\ owner' = [owner EXCEPT ![s] = c]
          /\ sessions' = sessions \cup {s}
          /\ ingress' = [ingress EXCEPT
                ![g] = [pc |-> "handshake", session |-> s, client |-> c, packet |-> None]]
    /\ UNCHANGED <<holds, wiped, peersByIP, lastActive, egress, heard, departed,
                   running, panicked>>

\* mutant: the session that loses the route is wiped on the spot
HandshakeRouteWipes(g) ==
    /\ Up /\ ingress[g].pc = "handshake"
    /\ RegisterPeer(DefaultIP, ingress[g].session, ingress[g].client)
    /\ wiped' = wiped \cup ({peersByIP[DefaultIP].session} \ {0})
    /\ ingress' = [ingress EXCEPT ![g] = IdleIngress]
    /\ \/ holds' = [holds EXCEPT ![ingress[g].client] = ingress[g].session]
       \/ UNCHANGED holds
    /\ UNCHANGED <<owner, sessions, egress, heard, departed, running, panicked>>

\* The route of the default address is pointed at the new session and the
\* response is sent.  The client adopts the session if this is an answer it
\* waits for, to its first attempt or to a later one; the answer to a copy of
\* an initiation is lost on it.
HandshakeRoute(g) ==
    /\ Up /\ ingress[g].pc = "handshake"
    /\ RegisterPeer(DefaultIP, ingress[g].session, ingress[g].client)
    /\ ingress' = [ingress EXCEPT ![g] = IdleIngress]
    /\ \/ holds' = [holds EXCEPT ![ingress[g].client] = ingress[g].session]
       \/ UNCHANGED holds
    /\ UNCHANGED <<owner, sessions, wiped, egress, heard, departed, running, panicked>>

-----------------------------------------------------------------------------
(* handleIncomingPacket: a tunnel packet                                   *)

\* sessionMgr.Get finds the session the header names.
GetSession(g, c, packet) ==
    /\ TableFree /\ ingress[g].pc = "idle" /\ Via[c] = g
    /\ holds[c] \in sessions
    /\ ingress' = [ingress EXCEPT
          ![g] = [pc |-> "found", session |-> holds[c], client |-> c, packet |-> packet]]
    /\ UNCHANGED <<owner, holds, sessions, wiped, peersByIP, lastActive, egress,
                   heard, departed, running, panicked>>

\* DecryptPacket.
DecryptPacket(g) ==
    /\ Up /\ ingress[g].pc = "found"
    /\ ingress[g].session \notin wiped
    /\ ingress' = [ingress EXCEPT ![g].pc = "decrypted"]
    /\ UNCHANGED <<owner, holds, sessions, wiped, peersByIP, lastActive, egress,
                   heard, departed, running, panicked>>

\* ... on a session that was removed in the meantime.
DecryptPanics(g) ==
    /\ Up /\ ingress[g].pc = "found"
    /\ ingress[g].session \in wiped
    /\ panicked' = TRUE
    /\ UNCHANGED <<owner, holds, sessions, wiped, peersByIP, lastActive, ingress,
                   egress, heard, departed, running>>

\* mutant: a known address is not learned again
LearnRouteOnce(g) ==
    LET ip == IF ingress[g].packet = "ipv4" THEN VirtualIP[ingress[g].client]
                                             ELSE DefaultIP
    IN  /\ Up /\ ingress[g].pc = "decrypted" /\ ingress[g].packet # "disconnect"
        /\ IF Known(ip) THEN UNCHANGED <<peersByIP, lastActive>>
           ELSE RegisterPeer(ip, ingress[g].session, ingress[g].client)
        /\ heard' = heard \cup {ingress[g].client}
        /\ ingress' = [ingress EXCEPT ![g] = IdleIngress]
        /\ UNCHANGED <<owner, holds, sessions, wiped, egress, departed,
                       running, panicked>>

\* TypeData and TypeKeepalive: an IPv4 packet registers its source address,
\* everything else the default address.
LearnRoute(g) ==
    LET ip == IF ingress[g].packet = "ipv4" THEN VirtualIP[ingress[g].client]
                                             ELSE DefaultIP
    IN  /\ Up /\ ingress[g].pc = "decrypted" /\ ingress[g].packet # "disconnect"
        /\ RegisterPeer(ip, ingress[g].session, ingress[g].client)
        /\ heard' = IF ingress[g].packet = "ipv4" THEN heard \cup {ingress[g].client}
                                                  ELSE heard
        /\ ingress' = [ingress EXCEPT ![g] = IdleIngress]
        /\ UNCHANGED <<owner, holds, sessions, wiped, egress, departed,
                       running, panicked>>

\* TypeDisconnect: SessionManager.Remove wipes and deletes under sm.mu.  The
\* peer table keeps its entries.
Remove(g) ==
    /\ TableFree /\ ingress[g].pc = "decrypted" /\ ingress[g].packet = "disconnect"
    /\ wiped' = wiped \cup (sessions \cap {ingress[g].session})
    /\ sessions' = sessions \ {ingress[g].session}
    /\ departed' = departed \cup {ingress[g].client}
    /\ ingress' = [ingress EXCEPT ![g] = IdleIngress]
    /\ UNCHANGED <<owner, holds, peersByIP, lastActive, egress, heard, running, panicked>>

-----------------------------------------------------------------------------
(* The TUN egress loop                                                     *)

\* A packet for an address is read and its peer looked up; without a peer it
\* is dropped.
LookupPeer(dst) ==
    /\ Up /\ egress.pc = "idle"
    /\ Lookup(dst) # None
    /\ egress' = [pc |-> "found", dst |-> dst, learned |-> Learned(dst),
                  peer |-> Lookup(dst), session |-> 0, via |-> None]
    /\ UNCHANGED <<owner, holds, sessions, wiped, peersByIP, lastActive, ingress,
                   heard, departed, running, panicked>>

\* peer.Session is read, without pt.mu, and encrypts the packet.
EncryptPacket ==
    /\ Up /\ egress.pc = "found"
    /\ peersByIP[egress.peer].session \notin wiped
    /\ egress' = [egress EXCEPT !.pc = "sealed", !.session = peersByIP[egress.peer].session]
    /\ UNCHANGED <<owner, holds, sessions, wiped, peersByIP, lastActive, ingress,
                   heard, departed, running, panicked>>

EncryptPanics ==
    /\ Up /\ egress.pc = "found"
    /\ peersByIP[egress.peer].session \in wiped
    /\ panicked' = TRUE
    /\ UNCHANGED <<owner, holds, sessions, wiped, peersByIP, lastActive, ingress,
                   egress, heard, departed, running>>

\* peer.Transport is read, again without pt.mu: the transport of the client
\* the entry has at this moment ...
PickTransport ==
    /\ Up /\ egress.pc = "sealed"
    /\ egress' = [egress EXCEPT !.pc = "routed", !.via = Via[peersByIP[egress.peer].addr]]
    /\ UNCHANGED <<owner, holds, sessions, wiped, peersByIP, lastActive, ingress,
                   heard, departed, running, panicked>>

\* ... then peer.RemoteAddr ...
Target == peersByIP[egress.peer].addr

\* ... and the packet is sent there.
SendReturn ==
    /\ Up /\ egress.pc = "routed"
    /\ egress' = IdleEgress
    /\ UNCHANGED <<owner, holds, sessions, wiped, peersByIP, lastActive, ingress,
                   heard, departed, running, panicked>>

-----------------------------------------------------------------------------
(* SIGTERM: main returns.  The transports are closed, though a packet that *)
(* is already queued may still be received; Clear wipes the sessions one   *)
(* by one and holds sm.mu meanwhile; the process exits.  The other         *)
(* goroutines go on until then.                                            *)

Stop ==
    /\ Stops /\ Up /\ running = "serving"
    /\ running' = "stopping"
    /\ UNCHANGED <<owner, holds, sessions, wiped, peersByIP, lastActive, ingress,
                   egress, heard, departed, panicked>>

ClearOne ==
    /\ Up /\ running \in {"stopping", "clearing"}
    /\ \E s \in sessions :
          /\ sessions' = sessions \ {s}
          /\ wiped' = wiped \cup {s}
    /\ running' = "clearing"
    /\ UNCHANGED <<owner, holds, peersByIP, lastActive, ingress, egress,
                   heard, departed, panicked>>

Cleared ==
    /\ Up /\ running \in {"stopping", "clearing"} /\ sessions = {}
    /\ running' = "cleared"
    /\ UNCHANGED <<owner, holds, sessions, wiped, peersByIP, lastActive, ingress,
                   egress, heard, departed, panicked>>

Exit ==
    /\ Up /\ running = "cleared"
    /\ running' = "exited"
    /\ UNCHANGED <<owner, holds, sessions, wiped, peersByIP, lastActive, ingress,
                   egress, heard, departed, panicked>>

-----------------------------------------------------------------------------
IngressNext(g) ==
    \/ \E c \in Clients : HandshakeInit(g, c)
    \/ HandshakeRoute(g)
    \/ \E c \in Clients, packet \in Packets : GetSession(g, c, packet)
    \/ DecryptPacket(g)
    \/ DecryptPanics(g)
    \/ LearnRoute(g)
    \/ Remove(g)

EgressNext ==
    \/ \E dst \in IPs \cup {OtherIP} : LookupPeer(dst)
    \/ EncryptPacket
    \/ EncryptPanics
    \/ PickTransport
    \/ SendReturn

Next ==
    \/ \E g \in Ingress : IngressNext(g)
    \/ EgressNext
    \/ Stop \/ ClearOne \/ Cleared \/ Exit

Spec == Init /\ [][Next]_vars

\* The runtime schedules every goroutine, and the network is lossy but fair:
\* a client that keeps sending IPv4 packets gets one through again and again.
Fairness ==
    /\ \A g \in Ingress :
          WF_vars(HandshakeRoute(g) \/ DecryptPacket(g) \/ LearnRoute(g) \/ Remove(g))
    /\ \A c \in Clients : SF_vars(GetSession(Via[c], c, "ipv4"))

FairSpec == Spec /\ Fairness

-----------------------------------------------------------------------------
TypeOK ==
    /\ owner \in [SessionIds -> Clients \cup {None}]
    /\ holds \in [Clients -> SessionIds \cup {0}]
    /\ sessions \subseteq SessionIds /\ wiped \subseteq SessionIds
    /\ peersByIP \in [IPs -> [session : SessionIds \cup {0}, addr : Clients \cup {None}]]
    /\ lastActive \in IPs \cup {None}
    /\ egress.peer \in IF egress.pc = "idle" THEN {None} ELSE IPs
    /\ departed \subseteq Clients
    /\ running \in {"serving", "stopping", "clearing", "cleared", "exited"}
    /\ panicked \in BOOLEAN

\* A session a client uses stays in the table, with its ciphers, until that
\* client says goodbye or the server stops: no handshake, copy of a
\* handshake or other client's goodbye takes it away.
HeldSessionsLive ==
    \A c \in Clients :
        /\ holds[c] # 0 /\ c \notin departed /\ running = "serving"
        => /\ holds[c] \in sessions \ wiped
           /\ owner[holds[c]] = c

\* Nothing else makes the server panic: without a goodbye or a stop, no
\* interleaving of the goroutines reaches a nil cipher.
PanicNeedsWipe == panicked => departed # {} \/ running # "serving"

\* A source address that only this client sends from.  The server takes the
\* address from the packet and compares it with nothing.
OwnAddress(c) ==
    VirtualIP[c] # DefaultIP /\ \A e \in Clients \ {c} : VirtualIP[e] # VirtualIP[c]

\* Once a client's own address is learned from its packets, return traffic
\* for it is sealed for that client and sent to it, over its transport:
\* session, transport and address are read one after the other without the
\* lock, and yet belong together.
LearnedRoutesAreTheirs ==
    \A c \in Clients :
        OwnAddress(c) /\ egress.pc = "routed" /\ egress.dst = VirtualIP[c] /\ egress.learned
        => owner[egress.session] = c /\ egress.via = Via[c] /\ Target = c

\* A copy of a client's handshake points its route at a session the client
\* does not have.  The route does not stay there: it comes back to the
\* session the client uses, unless that client leaves or the server ends.
RouteHeals ==
    \A c \in Clients :
        holds[c] # 0 ~> \/ peersByIP[VirtualIP[c]].session = holds[c]
                        \/ c \in departed
                        \/ running # "serving" \/ panicked

-----------------------------------------------------------------------------
(* What the comments say of the peer table and of a disconnect.            *)

\* "PeerTable maps virtual IP addresses (e.g. 10.8.0.2) to client sessions":
\* a packet for the address of a client that has sent from it is not sealed
\* for another client.
RoutesByVirtualIP ==
    \A c \in Clients :
        egress.pc = "routed" /\ egress.dst = VirtualIP[c] /\ egress.learned =>
            owner[egress.session] = c

\* "ClientPeer tracks an active peer's virtual IP, session, and network
\* address for return routing": the packet goes where its session leads.
SentToItsSession == egress.pc = "routed" => owner[egress.session] = Target

\* "Client disconnected cleanly": the server survives a client's goodbye.
GoodbyeIsClean == running = "serving" => ~ panicked
=============================================================================
