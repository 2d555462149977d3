------------------------------ MODULE ServerProofs ------------------------------
(***************************************************************************)
(* The exit server for any number of clients, transports, sessions and     *)
(* addresses: a session in use is not taken away, nothing but a goodbye or *)
(* a stop lets a goroutine meet a wiped one, and what is sent back to an   *)
(* address that one client alone sends from reaches that client.           *)
(*                                                                         *)
(* The sessions argument follows ownership: whatever an ingress goroutine  *)
(* carries belongs to the client whose packet it read, so a goodbye wipes  *)
(* no other client's session.  The routing argument follows the entry of   *)
(* such an address from Register to Lookup and on to the two unlocked      *)
(* reads of the TUN goroutine: entries are rewritten but never removed,    *)
(* and only the owner of the address rewrites it.                          *)
(*                                                                         *)
(* The last part is about the connections of the TLS transport the server  *)
(* listens with (module TLSServer): an entry of its map is of a connection *)
(* still served.                                                           *)
(***************************************************************************)
EXTENDS Server, TLSServer, TLAPS

TypeInv ==
    /\ TypeOK
    /\ ingress \in [Ingress -> [pc : {"idle", "handshake", "found", "decrypted"},
                                session : SessionIds \cup {0}, client : Clients \cup {None},
                                packet : Packets \cup {None}]]
    /\ egress \in [pc : {"idle", "found", "sealed", "routed"}, dst : IPs \cup {OtherIP, None},
                   learned : BOOLEAN, peer : IPs \cup {None}, session : SessionIds \cup {0},
                   via : {Via[x] : x \in Clients \cup {None}} \cup {None}]
    /\ heard \subseteq Clients
    /\ \A g \in Ingress : ingress[g].pc # "idle" =>
          ingress[g].client \in Clients /\ ingress[g].session \in SessionIds

\* Sessions are owned, and goroutines and clients hold sessions of the right
\* client.
Owned ==
    /\ \A s \in sessions \cup wiped : owner[s] # None
    /\ \A c \in Clients : holds[c] # 0 => owner[holds[c]] = c
    /\ \A g \in Ingress :
          ingress[g].pc # "idle" => owner[ingress[g].session] = ingress[g].client

\* While the server serves, only the sessions of clients that have left are
\* removed or wiped.
Live ==
    /\ running = "serving" =>
          \A s \in SessionIds : owner[s] \in Clients \ departed => s \in sessions \ wiped
    /\ PanicNeedsWipe

\* An entry, or a packet sent, that leads to client c.
Leads(r, c) == r.session \in SessionIds /\ owner[r.session] = c /\ r.addr = c

Routes ==
    /\ \A c \in heard : peersByIP[VirtualIP[c]].session # 0
    /\ \A c \in Clients :
          OwnAddress(c) /\ peersByIP[VirtualIP[c]].session # 0 => Leads(peersByIP[VirtualIP[c]], c)

\* What the TUN goroutine took along from a look at a learned route.
Returns ==
    /\ egress.pc # "idle" /\ egress.learned =>
          /\ egress.peer = egress.dst
          /\ peersByIP[egress.dst].session # 0
    /\ \A c \in Clients :
          OwnAddress(c) /\ egress.learned /\ egress.dst = VirtualIP[c] =>
              /\ egress.pc \in {"sealed", "routed"} =>
                    egress.session \in SessionIds /\ owner[egress.session] = c
              /\ egress.pc = "routed" => egress.via = Via[c]

IInv == TypeInv /\ Owned /\ Live /\ Routes /\ Returns

-----------------------------------------------------------------------------
(***************************************************************************)
(* Every step keeps the variables in their types.                          *)
(***************************************************************************)
LEMMA TypeStep == IInv /\ [Next]_vars => TypeInv'
  <1> SUFFICES ASSUME IInv, [Next]_vars PROVE TypeInv'
    OBVIOUS
  <1> USE DEF IInv, TypeInv, TypeOK
  <1>1. ASSUME NEW g \in Ingress, NEW c \in Clients, HandshakeInit(g, c) PROVE TypeInv'
    <2>1. PICK s \in SessionIds :
             /\ owner' = [owner EXCEPT ![s] = c]
             /\ sessions' = sessions \cup {s}
             /\ ingress' = [ingress EXCEPT
                  ![g] = [pc |-> "handshake", session |-> s, client |-> c, packet |-> None]]
      BY <1>1 DEF HandshakeInit
    <2> QED
      BY <1>1, <2>1 DEF HandshakeInit
  <1>2. ASSUME NEW g \in Ingress, HandshakeRoute(g) PROVE TypeInv'
    <2>1. ingress[g].client \in Clients /\ ingress[g].session \in SessionIds
      BY <1>2 DEF HandshakeRoute
    <2>2. holds' \in [Clients -> SessionIds \cup {0}]
      BY <1>2, <2>1 DEF HandshakeRoute
    <2>3. /\ peersByIP' \in [IPs -> [session : SessionIds \cup {0}, addr : Clients \cup {None}]]
          /\ lastActive' \in IPs \cup {None}
      BY <1>2, <2>1 DEF HandshakeRoute, RegisterPeer, IPs
    <2> QED
      BY <1>2, <2>2, <2>3 DEF HandshakeRoute, IdleIngress
  <1>3. ASSUME NEW g \in Ingress, NEW c \in Clients, NEW p \in Packets, GetSession(g, c, p)
        PROVE  TypeInv'
    BY <1>3 DEF GetSession
  <1>4. ASSUME NEW g \in Ingress, DecryptPacket(g) PROVE TypeInv'
    BY <1>4, SMTT(30) DEF DecryptPacket
  <1>5. ASSUME NEW g \in Ingress, DecryptPanics(g) PROVE TypeInv'
    BY <1>5 DEF DecryptPanics
  <1>6. ASSUME NEW g \in Ingress, LearnRoute(g) PROVE TypeInv'
    <2>1. ingress[g].client \in Clients /\ ingress[g].session \in SessionIds
      BY <1>6 DEF LearnRoute
    <2>2. /\ peersByIP' \in [IPs -> [session : SessionIds \cup {0}, addr : Clients \cup {None}]]
          /\ lastActive' \in IPs \cup {None}
      BY <1>6, <2>1 DEF LearnRoute, RegisterPeer, IPs
    <2>3. heard' \subseteq Clients
      BY <1>6, <2>1 DEF LearnRoute
    <2> QED
      BY <1>6, <2>2, <2>3 DEF LearnRoute, IdleIngress
  <1>7. ASSUME NEW g \in Ingress, Remove(g) PROVE TypeInv'
    BY <1>7 DEF Remove, IdleIngress
  <1>8. ASSUME NEW dst \in IPs \cup {OtherIP}, LookupPeer(dst) PROVE TypeInv'
    <2>1. Lookup(dst) \in IPs
      BY <1>8 DEF LookupPeer, Lookup, Known
    <2>2. Learned(dst) \in BOOLEAN
      BY DEF Learned
    <2> QED
      BY <1>8, <2>1, <2>2 DEF LookupPeer
  <1>9. CASE EncryptPacket
    BY <1>9 DEF EncryptPacket
  <1>10. CASE EncryptPanics
    BY <1>10 DEF EncryptPanics
  <1>11. CASE SendReturn
    BY <1>11 DEF SendReturn, IdleEgress
  <1>12. CASE Stop
    BY <1>12 DEF Stop
  <1>13. CASE ClearOne
    BY <1>13 DEF ClearOne
  <1>14. CASE Cleared
    BY <1>14 DEF Cleared
  <1>15. CASE Exit
    BY <1>15 DEF Exit
  <1>16. CASE UNCHANGED vars
    BY <1>16 DEF vars
  <1> HIDE DEF IInv, TypeInv, TypeOK
  <1>17. CASE PickTransport
    <2>1. /\ egress.pc = "sealed"
          /\ egress' = [egress EXCEPT !.pc = "routed", !.via = Via[peersByIP[egress.peer].addr]]
      BY <1>17 DEF PickTransport
    <2>2. peersByIP[egress.peer].addr \in Clients \cup {None}
      BY <2>1 DEF IInv, TypeInv, TypeOK
    <2>3. Via[peersByIP[egress.peer].addr] \in {Via[x] : x \in Clients \cup {None}} \cup {None}
      BY <2>2
    <2> QED
      BY <1>17, <2>1, <2>3 DEF PickTransport, IInv, TypeInv, TypeOK
  <1> QED
    BY <1>1, <1>2, <1>3, <1>4, <1>5, <1>6, <1>7, <1>8, <1>9, <1>10, <1>11, <1>12, <1>13, <1>14,
       <1>15, <1>16, <1>17 DEF Next, IngressNext, EgressNext

(***************************************************************************)
(* Every step leaves sessions with the client they were made for.          *)
(***************************************************************************)
LEMMA OwnedStep == IInv /\ [Next]_vars => Owned'
  <1> SUFFICES ASSUME IInv, [Next]_vars PROVE Owned'
    OBVIOUS
  <1> USE DEF IInv, Owned
  <1>1. ASSUME NEW g \in Ingress, NEW c \in Clients, HandshakeInit(g, c) PROVE Owned'
    <2>1. PICK s \in SessionIds :
             /\ owner[s] = None
             /\ owner' = [owner EXCEPT ![s] = c]
             /\ sessions' = sessions \cup {s}
             /\ ingress' = [ingress EXCEPT
                  ![g] = [pc |-> "handshake", session |-> s, client |-> c, packet |-> None]]
      BY <1>1 DEF HandshakeInit
    <2>2. c # None /\ \A e \in Clients : e # None
      BY NoneAssumption
    <2>3. wiped' = wiped /\ holds' = holds
      BY <1>1 DEF HandshakeInit
    <2>4. \A r \in sessions' \cup wiped' : owner'[r] # None
      BY <2>1, <2>2, <2>3 DEF TypeInv, TypeOK
    <2>5. \A e \in Clients : holds'[e] # 0 => owner'[holds'[e]] = e
      BY <2>1, <2>2, <2>3 DEF TypeInv, TypeOK
    <2>6. \A h \in Ingress :
             ingress'[h].pc # "idle" => owner'[ingress'[h].session] = ingress'[h].client
      BY <2>1, <2>2 DEF TypeInv, TypeOK
    <2> QED
      BY <2>4, <2>5, <2>6
  <1>2. ASSUME NEW g \in Ingress, HandshakeRoute(g) PROVE Owned'
    <2>1. /\ owner' = owner /\ sessions' = sessions /\ wiped' = wiped
          /\ ingress' = [ingress EXCEPT ![g] = IdleIngress]
      BY <1>2 DEF HandshakeRoute
    <2>2. \A e \in Clients : holds'[e] # 0 => owner'[holds'[e]] = e
      BY <1>2 DEF HandshakeRoute, TypeInv, TypeOK
    <2> QED
      BY <2>1, <2>2 DEF IdleIngress, TypeInv
  <1>3. ASSUME NEW g \in Ingress, NEW c \in Clients, NEW p \in Packets, GetSession(g, c, p)
        PROVE  Owned'
    <2>1. holds[c] # 0
      BY <1>3, MaxSessionsAssumption DEF GetSession, TypeInv, TypeOK, SessionIds
    <2> QED
      BY <1>3, <2>1 DEF GetSession, TypeInv
  <1>4. ASSUME NEW g \in Ingress, DecryptPacket(g) PROVE Owned'
    BY <1>4 DEF DecryptPacket, TypeInv
  <1>5. ASSUME NEW g \in Ingress, DecryptPanics(g) PROVE Owned'
    BY <1>5 DEF DecryptPanics
  <1>6. ASSUME NEW g \in Ingress, LearnRoute(g) PROVE Owned'
    BY <1>6 DEF LearnRoute, IdleIngress, TypeInv
  <1>7. ASSUME NEW g \in Ingress, Remove(g) PROVE Owned'
    BY <1>7 DEF Remove, IdleIngress, TypeInv
  <1>8. ASSUME NEW dst \in IPs \cup {OtherIP}, LookupPeer(dst) PROVE Owned'
    BY <1>8 DEF LookupPeer
  <1>9. CASE EncryptPacket
    BY <1>9 DEF EncryptPacket
  <1>10. CASE EncryptPanics
    BY <1>10 DEF EncryptPanics
  <1>11. CASE SendReturn
    BY <1>11 DEF SendReturn
  <1>12. CASE Stop
    BY <1>12 DEF Stop
  <1>13. CASE ClearOne
    BY <1>13 DEF ClearOne
  <1>14. CASE Cleared
    BY <1>14 DEF Cleared
  <1>15. CASE Exit
    BY <1>15 DEF Exit
  <1>16. CASE UNCHANGED vars
    BY <1>16 DEF vars
  <1>17. CASE PickTransport
    BY <1>17 DEF PickTransport
  <1> HIDE DEF IInv, Owned
  <1> QED
    BY <1>1, <1>2, <1>3, <1>4, <1>5, <1>6, <1>7, <1>8, <1>9, <1>10, <1>11, <1>12, <1>13, <1>14,
       <1>15, <1>16, <1>17 DEF Next, IngressNext, EgressNext

(***************************************************************************)
(* While the server serves, a wiped session is one of a client that has    *)
(* left.                                                                   *)
(***************************************************************************)
LEMMA WipedHaveLeft ==
    ASSUME IInv, wiped # {}
    PROVE  departed # {} \/ running # "serving"
  <1>1. PICK s \in wiped : owner[s] # None
    BY DEF IInv, Owned
  <1>2. s \in SessionIds /\ owner[s] \in Clients
    BY <1>1 DEF IInv, TypeInv, TypeOK
  <1> QED
    BY <1>1, <1>2 DEF IInv, Live

(***************************************************************************)
(* Every step leaves the sessions of the other clients in the table.       *)
(***************************************************************************)
LEMMA LiveStep == IInv /\ [Next]_vars => Live'
  <1> SUFFICES ASSUME IInv, [Next]_vars PROVE Live'
    OBVIOUS
  <1> USE DEF Live, PanicNeedsWipe
  <1>1. ASSUME NEW g \in Ingress, NEW c \in Clients, HandshakeInit(g, c) PROVE Live'
    <2>1. PICK s \in SessionIds :
             /\ owner[s] = None
             /\ owner' = [owner EXCEPT ![s] = c]
             /\ sessions' = sessions \cup {s}
      BY <1>1 DEF HandshakeInit
    <2>2. s \notin wiped
      BY <2>1 DEF IInv, Owned
    <2>3. UNCHANGED <<wiped, departed, running, panicked>>
      BY <1>1 DEF HandshakeInit
    <2> QED
      BY <2>1, <2>2, <2>3 DEF IInv, TypeInv, TypeOK
  <1>2. ASSUME NEW g \in Ingress, HandshakeRoute(g) PROVE Live'
    BY <1>2 DEF HandshakeRoute, IInv
  <1>3. ASSUME NEW g \in Ingress, NEW c \in Clients, NEW p \in Packets, GetSession(g, c, p)
        PROVE  Live'
    BY <1>3 DEF GetSession, IInv
  <1>4. ASSUME NEW g \in Ingress, DecryptPacket(g) PROVE Live'
    BY <1>4 DEF DecryptPacket, IInv
  <1>5. ASSUME NEW g \in Ingress, DecryptPanics(g) PROVE Live'
    BY <1>5, WipedHaveLeft DEF DecryptPanics, IInv
  <1>6. ASSUME NEW g \in Ingress, LearnRoute(g) PROVE Live'
    BY <1>6 DEF LearnRoute, IInv
  <1>7. ASSUME NEW g \in Ingress, Remove(g) PROVE Live'
    <2>1. owner[ingress[g].session] = ingress[g].client
      BY <1>7 DEF Remove, IInv, Owned
    <2> QED
      BY <1>7, <2>1 DEF Remove, IInv
  <1>8. ASSUME NEW dst \in IPs \cup {OtherIP}, LookupPeer(dst) PROVE Live'
    BY <1>8 DEF LookupPeer, IInv
  <1>9. CASE EncryptPacket
    BY <1>9 DEF EncryptPacket, IInv
  <1>10. CASE EncryptPanics
    BY <1>10, WipedHaveLeft DEF EncryptPanics, IInv
  <1>11. CASE SendReturn
    BY <1>11 DEF SendReturn, IInv
  <1>12. CASE Stop
    BY <1>12 DEF Stop
  <1>13. CASE ClearOne
    BY <1>13 DEF ClearOne
  <1>14. CASE Cleared
    BY <1>14 DEF Cleared
  <1>15. CASE Exit
    BY <1>15 DEF Exit
  <1>16. CASE UNCHANGED vars
    BY <1>16 DEF vars, IInv
  <1>17. CASE PickTransport
    BY <1>17 DEF PickTransport, IInv
  <1> HIDE DEF Live, PanicNeedsWipe
  <1> QED
    BY <1>1, <1>2, <1>3, <1>4, <1>5, <1>6, <1>7, <1>8, <1>9, <1>10, <1>11, <1>12, <1>13, <1>14,
       <1>15, <1>16, <1>17 DEF Next, IngressNext, EgressNext

(***************************************************************************)
(* An initiation makes a session that nobody has referred to before: what  *)
(* led to a client goes on leading to it.                                  *)
(***************************************************************************)
LEMMA LeadsOn ==
    ASSUME IInv, NEW g \in Ingress, NEW c \in Clients, HandshakeInit(g, c),
           NEW s \in SessionIds, NEW e \in Clients, owner[s] = e
    PROVE  owner'[s] = e
  <1>1. PICK r \in SessionIds : owner[r] = None /\ owner' = [owner EXCEPT ![r] = c]
    BY DEF HandshakeInit
  <1>2. e # None
    BY NoneAssumption
  <1> QED
    BY <1>1, <1>2 DEF IInv, TypeInv, TypeOK

(***************************************************************************)
(* Register: the entry leads to the client whose packet was read, no entry *)
(* disappears, and an address of one client alone is rewritten by that     *)
(* client only.                                                            *)
(***************************************************************************)
LEMMA RegisterKeepsRoutes ==
    ASSUME IInv, NEW g \in Ingress, ingress[g].pc # "idle", NEW ip,
           ip = DefaultIP \/ ip = VirtualIP[ingress[g].client],
           RegisterPeer(ip, ingress[g].session, ingress[g].client), owner' = owner
    PROVE  /\ peersByIP'[ip].session # 0
           /\ \A i \in IPs : peersByIP[i].session # 0 => peersByIP'[i].session # 0
           /\ \A c \in Clients :
                 OwnAddress(c) /\ peersByIP'[VirtualIP[c]].session # 0
                 => Leads(peersByIP[VirtualIP[c]], c)' 
  <1> DEFINE s == ingress[g].session
             e == ingress[g].client
  <1>1. e \in Clients /\ s \in SessionIds /\ owner[s] = e
    BY DEF IInv, TypeInv, Owned
  <1>2. s # 0
    BY <1>1, MaxSessionsAssumption DEF SessionIds
  <1>3. ip \in IPs
    BY <1>1 DEF IPs
  <1>4. peersByIP' = [peersByIP EXCEPT ![ip] = [session |-> s, addr |-> e]]
    BY DEF RegisterPeer
  <1>5. peersByIP \in [IPs -> [session : SessionIds \cup {0}, addr : Clients \cup {None}]]
    BY DEF IInv, TypeInv, TypeOK
  <1> HIDE DEF s, e
  <1>6. \A i \in IPs : peersByIP'[i] = IF i = ip THEN [session |-> s, addr |-> e] ELSE peersByIP[i]
    BY <1>3, <1>4, <1>5
  <1>7. \A c \in Clients : VirtualIP[c] \in IPs
    BY DEF IPs
  <1>8. ASSUME NEW c \in Clients, OwnAddress(c), peersByIP'[VirtualIP[c]].session # 0
        PROVE  Leads(peersByIP[VirtualIP[c]], c)'
    <2>1. CASE VirtualIP[c] = ip
      <3>1. c = e
        BY <1>1, <1>8, <2>1 DEF OwnAddress, e
      <3> QED
        BY <1>1, <1>6, <1>7, <2>1, <3>1 DEF Leads
    <2>2. CASE VirtualIP[c] # ip
      <3>1. peersByIP'[VirtualIP[c]] = peersByIP[VirtualIP[c]]
        BY <1>6, <1>7, <2>2
      <3>2. Leads(peersByIP[VirtualIP[c]], c)
        BY <1>8, <3>1 DEF IInv, Routes
      <3> QED
        BY <3>1, <3>2 DEF Leads
    <2> QED
      BY <2>1, <2>2
  <1> QED
    BY <1>2, <1>3, <1>6, <1>8

(***************************************************************************)
(* Every step leaves the learned routes with their owners.                 *)
(***************************************************************************)
LEMMA RoutesStep == IInv /\ [Next]_vars => Routes'
  <1> SUFFICES ASSUME IInv, [Next]_vars PROVE Routes'
    OBVIOUS
  <1>1. ASSUME NEW g \in Ingress, NEW c \in Clients, HandshakeInit(g, c) PROVE Routes'
    <2>1. UNCHANGED <<peersByIP, heard>>
      BY <1>1 DEF HandshakeInit
    <2>2. ASSUME NEW e \in Clients, OwnAddress(e), peersByIP[VirtualIP[e]].session # 0
          PROVE  Leads(peersByIP[VirtualIP[e]], e)'
      <3>1. Leads(peersByIP[VirtualIP[e]], e)
        BY <2>2 DEF IInv, Routes
      <3> QED
        BY <1>1, <2>1, <3>1, LeadsOn DEF Leads
    <2> QED
      BY <2>1, <2>2 DEF IInv, Routes
  <1>2. ASSUME NEW g \in Ingress, HandshakeRoute(g) PROVE Routes'
    <2>1. /\ ingress[g].pc # "idle" /\ owner' = owner /\ heard' = heard
          /\ RegisterPeer(DefaultIP, ingress[g].session, ingress[g].client)
      BY <1>2 DEF HandshakeRoute
    <2>2. \A c \in heard : VirtualIP[c] \in IPs
      BY DEF IInv, TypeInv, IPs
    <2> QED
      BY <2>1, <2>2, RegisterKeepsRoutes DEF IInv, Routes
  <1>3. ASSUME NEW g \in Ingress, NEW c \in Clients, NEW p \in Packets, GetSession(g, c, p)
        PROVE  Routes'
    BY <1>3 DEF GetSession, IInv, Routes, Leads
  <1>4. ASSUME NEW g \in Ingress, DecryptPacket(g) PROVE Routes'
    BY <1>4 DEF DecryptPacket, IInv, Routes, Leads
  <1>5. ASSUME NEW g \in Ingress, DecryptPanics(g) PROVE Routes'
    BY <1>5 DEF DecryptPanics, IInv, Routes, Leads
  <1>6. ASSUME NEW g \in Ingress, LearnRoute(g) PROVE Routes'
    <2>1. ingress[g].pc # "idle" /\ owner' = owner
      BY <1>6 DEF LearnRoute
    <2>2. \A c \in heard : VirtualIP[c] \in IPs
      BY DEF IInv, TypeInv, IPs
    <2>3. CASE ingress[g].packet = "ipv4"
      <3>1. /\ RegisterPeer(VirtualIP[ingress[g].client], ingress[g].session, ingress[g].client)
            /\ heard' = heard \cup {ingress[g].client}
        BY <1>6, <2>3 DEF LearnRoute
      <3> QED
        BY <2>1, <2>2, <3>1, RegisterKeepsRoutes DEF IInv, Routes
    <2>4. CASE ingress[g].packet # "ipv4"
      <3>1. /\ RegisterPeer(DefaultIP, ingress[g].session, ingress[g].client)
            /\ heard' = heard
        BY <1>6, <2>4 DEF LearnRoute
      <3> QED
        BY <2>1, <2>2, <3>1, RegisterKeepsRoutes DEF IInv, Routes
    <2> QED
      BY <2>3, <2>4
  <1>7. ASSUME NEW g \in Ingress, Remove(g) PROVE Routes'
    BY <1>7 DEF Remove, IInv, Routes, Leads
  <1>8. ASSUME NEW dst \in IPs \cup {OtherIP}, LookupPeer(dst) PROVE Routes'
    BY <1>8 DEF LookupPeer, IInv, Routes, Leads
  <1>9. CASE EncryptPacket
    BY <1>9 DEF EncryptPacket, IInv, Routes, Leads
  <1>10. CASE EncryptPanics
    BY <1>10 DEF EncryptPanics, IInv, Routes, Leads
  <1>11. CASE SendReturn
    BY <1>11 DEF SendReturn, IInv, Routes, Leads
  <1>12. CASE Stop
    BY <1>12 DEF Stop, IInv, Routes, Leads
  <1>13. CASE ClearOne
    BY <1>13 DEF ClearOne, IInv, Routes, Leads
  <1>14. CASE Cleared
    BY <1>14 DEF Cleared, IInv, Routes, Leads
  <1>15. CASE Exit
    BY <1>15 DEF Exit, IInv, Routes, Leads
  <1>16. CASE UNCHANGED vars
    BY <1>16 DEF vars, IInv, Routes, Leads
  <1>17. CASE PickTransport
    BY <1>17 DEF PickTransport, IInv, Routes, Leads
  <1> QED
    BY <1>1, <1>2, <1>3, <1>4, <1>5, <1>6, <1>7, <1>8, <1>9, <1>10, <1>11, <1>12, <1>13, <1>14,
       <1>15, <1>16, <1>17 DEF Next, IngressNext, EgressNext

(***************************************************************************)
(* The TUN goroutine's pointer into the peer table stays good between its  *)
(* unlocked reads.                                                         *)
(***************************************************************************)
LEMMA ReturnsStep == IInv /\ [Next]_vars => Returns'
  <1> SUFFICES ASSUME IInv, [Next]_vars PROVE Returns'
    OBVIOUS
  <1>0. /\ egress.pc # "idle" => egress.peer \in IPs
        /\ \A c \in Clients : VirtualIP[c] \in IPs
    BY DEF IInv, TypeInv, TypeOK, IPs
  <1>1. ASSUME NEW g \in Ingress, NEW c \in Clients, HandshakeInit(g, c) PROVE Returns'
    <2>1. UNCHANGED <<peersByIP, egress>>
      BY <1>1 DEF HandshakeInit
    <2>2. \A s \in SessionIds, e \in Clients : owner[s] = e => owner'[s] = e
      BY <1>1, LeadsOn
    <2> QED
      BY <2>1, <2>2 DEF IInv, Returns, Leads
  <1>2. ASSUME NEW g \in Ingress, HandshakeRoute(g) PROVE Returns'
    <2>1. /\ ingress[g].pc # "idle" /\ owner' = owner /\ egress' = egress
          /\ RegisterPeer(DefaultIP, ingress[g].session, ingress[g].client)
      BY <1>2 DEF HandshakeRoute
    <2>2. \A i \in IPs : peersByIP[i].session # 0 => peersByIP'[i].session # 0
      BY <2>1, RegisterKeepsRoutes
    <2> QED
      BY <1>0, <2>1, <2>2 DEF IInv, Returns, Leads
  <1>3. ASSUME NEW g \in Ingress, NEW c \in Clients, NEW p \in Packets, GetSession(g, c, p)
        PROVE  Returns'
    BY <1>3 DEF GetSession, IInv, Returns, Leads
  <1>4. ASSUME NEW g \in Ingress, DecryptPacket(g) PROVE Returns'
    BY <1>4 DEF DecryptPacket, IInv, Returns, Leads
  <1>5. ASSUME NEW g \in Ingress, DecryptPanics(g) PROVE Returns'
    BY <1>5 DEF DecryptPanics, IInv, Returns, Leads
  <1>6. ASSUME NEW g \in Ingress, LearnRoute(g) PROVE Returns'
    <2>1. /\ ingress[g].pc # "idle" /\ owner' = owner /\ egress' = egress
          /\ \/ RegisterPeer(DefaultIP, ingress[g].session, ingress[g].client)
             \/ RegisterPeer(VirtualIP[ingress[g].client], ingress[g].session, ingress[g].client)
      BY <1>6 DEF LearnRoute
    <2>2. \A i \in IPs : peersByIP[i].session # 0 => peersByIP'[i].session # 0
      BY <2>1, RegisterKeepsRoutes
    <2> QED
      BY <1>0, <2>1, <2>2 DEF IInv, Returns, Leads
  <1>7. ASSUME NEW g \in Ingress, Remove(g) PROVE Returns'
    BY <1>7 DEF Remove, IInv, Returns, Leads
  <1>8. ASSUME NEW dst \in IPs \cup {OtherIP}, LookupPeer(dst) PROVE Returns'
    <2>1. /\ egress' = [pc |-> "found", dst |-> dst, learned |-> Learned(dst),
                        peer |-> Lookup(dst), session |-> 0, via |-> None]
          /\ peersByIP' = peersByIP /\ owner' = owner
      BY <1>8 DEF LookupPeer
    <2>2. ASSUME Learned(dst) PROVE Lookup(dst) = dst /\ peersByIP[dst].session # 0
      <3>1. PICK c \in heard : VirtualIP[c] = dst
        BY <2>2 DEF Learned
      <3>2. dst \in IPs /\ peersByIP[dst].session # 0
        BY <1>0, <3>1 DEF IInv, TypeInv, Routes
      <3> QED
        BY <3>2 DEF Lookup, Known, NoPeer
    <2> QED
      BY <2>1, <2>2 DEF Returns
  <1>9. CASE EncryptPacket
    <2>1. /\ egress.pc = "found"
          /\ egress' = [egress EXCEPT !.pc = "sealed", !.session = peersByIP[egress.peer].session]
          /\ peersByIP' = peersByIP /\ owner' = owner
      BY <1>9 DEF EncryptPacket
    <2>2. /\ egress'.dst = egress.dst /\ egress'.learned = egress.learned
          /\ egress'.peer = egress.peer /\ egress'.session = peersByIP[egress.peer].session
      BY <2>1 DEF IInv, TypeInv
    <2>3. ASSUME NEW c \in Clients, OwnAddress(c), egress.learned, egress.dst = VirtualIP[c]
          PROVE  Leads(peersByIP[egress.peer], c)
      BY <2>1, <2>3 DEF IInv, Routes, Returns
    <2> QED
      BY <2>1, <2>2, <2>3 DEF IInv, Returns, Leads
  <1>10. CASE EncryptPanics
    BY <1>10 DEF EncryptPanics, IInv, Returns, Leads
  <1>11. CASE SendReturn
    BY <1>11 DEF SendReturn, Returns, IdleEgress
  <1>12. CASE Stop
    BY <1>12 DEF Stop, IInv, Returns, Leads
  <1>13. CASE ClearOne
    BY <1>13 DEF ClearOne, IInv, Returns, Leads
  <1>14. CASE Cleared
    BY <1>14 DEF Cleared, IInv, Returns, Leads
  <1>15. CASE Exit
    BY <1>15 DEF Exit, IInv, Returns, Leads
  <1>16. CASE UNCHANGED vars
    BY <1>16 DEF vars, IInv, Returns, Leads
  <1>17. CASE PickTransport
    <2>1. /\ egress.pc = "sealed"
          /\ egress' = [egress EXCEPT !.pc = "routed", !.via = Via[peersByIP[egress.peer].addr]]
          /\ peersByIP' = peersByIP /\ owner' = owner
      BY <1>17 DEF PickTransport
    <2>2. /\ egress'.dst = egress.dst /\ egress'.learned = egress.learned
          /\ egress'.peer = egress.peer /\ egress'.session = egress.session
          /\ egress'.via = Via[peersByIP[egress.peer].addr] /\ egress'.pc = "routed"
      BY <2>1 DEF IInv, TypeInv
    <2>3. ASSUME NEW c \in Clients, OwnAddress(c), egress.learned, egress.dst = VirtualIP[c]
          PROVE  /\ peersByIP[egress.peer].addr = c
                 /\ egress.session \in SessionIds /\ owner[egress.session] = c
      BY <2>1, <2>3 DEF IInv, Routes, Returns, Leads
    <2> QED
      BY <2>1, <2>2, <2>3 DEF IInv, Returns
  <1> QED
    BY <1>1, <1>2, <1>3, <1>4, <1>5, <1>6, <1>7, <1>8, <1>9, <1>10, <1>11, <1>12, <1>13, <1>14,
       <1>15, <1>16, <1>17 DEF Next, IngressNext, EgressNext

(***************************************************************************)
(* A server that has just started, with empty tables, satisfies it all.    *)
(***************************************************************************)
LEMMA InitIInv == Init => IInv
  <1> SUFFICES ASSUME Init PROVE IInv
    OBVIOUS
  <1>1. TypeInv
    BY DEF Init, TypeInv, TypeOK, NoPeer, IdleIngress, IdleEgress
  <1>2. Owned
    BY DEF Init, Owned, IdleIngress
  <1>3. Live
    BY NoneAssumption DEF Init, Live, PanicNeedsWipe
  <1>4. Routes
    BY DEF Init, Routes, NoPeer, IPs
  <1>5. Returns
    BY DEF Init, Returns, IdleEgress
  <1> QED
    BY <1>1, <1>2, <1>3, <1>4, <1>5 DEF IInv

-----------------------------------------------------------------------------
(***************************************************************************)
(* The inductive invariant of the exit server.                             *)
(***************************************************************************)
THEOREM IInvariant == Spec => []IInv
  <1>1. IInv /\ [Next]_vars => IInv'
    BY TypeStep, OwnedStep, LiveStep, RoutesStep, ReturnsStep DEF IInv
  <1> QED
    BY <1>1, InitIInv, PTL DEF Spec

(***************************************************************************)
(* No handshake, copy of one or other client's goodbye takes away the      *)
(* session a client uses while the server serves.                          *)
(***************************************************************************)
THEOREM SessionsStayLive == Spec => []HeldSessionsLive
  <1>1. ASSUME IInv PROVE HeldSessionsLive
    <2> SUFFICES ASSUME NEW c \in Clients, holds[c] # 0, c \notin departed, running = "serving"
                 PROVE  holds[c] \in sessions \ wiped /\ owner[holds[c]] = c
      BY DEF HeldSessionsLive
    <2>1. holds[c] \in SessionIds
      BY <1>1 DEF IInv, TypeInv, TypeOK
    <2>2. owner[holds[c]] = c
      BY <1>1 DEF IInv, Owned
    <2> QED
      BY <1>1, <2>1, <2>2 DEF IInv, Live
  <1> QED
    BY <1>1, IInvariant, PTL

(***************************************************************************)
(* Without a goodbye or a stop no goroutine dereferences a nil cipher.     *)
(***************************************************************************)
THEOREM PanicsNeedWipe == Spec => []PanicNeedsWipe
  <1>1. IInv => PanicNeedsWipe
    BY DEF IInv, Live
  <1> QED
    BY <1>1, IInvariant, PTL

(***************************************************************************)
(* Return traffic for a learned address of one client alone is sealed for  *)
(* that client and sent to it over its transport, although the TUN         *)
(* goroutine reads the peer entry three times without the lock.            *)
(***************************************************************************)
THEOREM ReturnsReachTheirClient == Spec => []LearnedRoutesAreTheirs
  <1>1. ASSUME IInv, NEW c \in Clients, OwnAddress(c), egress.pc = "routed", egress.learned,
               egress.dst = VirtualIP[c]
        PROVE  owner[egress.session] = c /\ egress.via = Via[c] /\ Target = c
    <2>1. egress.peer = VirtualIP[c] /\ peersByIP[VirtualIP[c]].session # 0
      BY <1>1 DEF IInv, Returns
    <2>2. peersByIP[VirtualIP[c]].addr = c
      BY <1>1, <2>1 DEF IInv, Routes, Leads
    <2> QED
      BY <1>1, <2>1, <2>2 DEF IInv, Returns, Target
  <1>2. IInv => LearnedRoutesAreTheirs
    BY <1>1 DEF LearnedRoutesAreTheirs
  <1> QED
    BY <1>2, IInvariant, PTL

-----------------------------------------------------------------------------
(* The map of connections of the TLS transport the server listens with     *)

\* The entries of the map and where the handlers are; what Send found was
\* registered once, and an ended handler has closed its connection.
Past == Registered \cup {"close", "ended"}

Entries ==
    /\ handler \in [Conns -> {"none", "sniff", "close", "ended"} \cup Registered]
    /\ connections \in [Addrs -> Conns \cup {NoConn}]
    /\ \A a \in Addrs :
          connections[a] # NoConn =>
              Addr[connections[a]] = a /\ handler[connections[a]] \in Registered

Found ==
    /\ sending # NotSending =>
          /\ sending.conn \in Conns /\ Addr[sending.conn] = sending.addr
          /\ handler[sending.conn] \in Past
    /\ \A k \in Conns : handler[k] = "ended" => k \notin open

(***************************************************************************)
(* The map: a handler is registered until its clean-up deletes the entry,  *)
(* and whatever the clean-up deletes, no entry is left of its connection.  *)
(***************************************************************************)
LEMMA EntriesStep == Entries /\ [ListenerNext]_listenerVars => Entries'
  <1> SUFFICES ASSUME Entries, [ListenerNext]_listenerVars PROVE Entries'
    OBVIOUS
  <1>1. ASSUME NEW c \in Conns, NEW pc \in {"sniff", "ended"} \cup Registered,
               handler[c] \in {"none", "sniff", "close"} \/ pc \in Registered,
               Goto(c, pc), UNCHANGED connections
        PROVE  Entries'
    <2>1. handler' \in [Conns -> {"none", "sniff", "close", "ended"} \cup Registered]
      BY <1>1 DEF Entries, Goto
    <2>2. \A k \in Conns : handler[k] \in Registered => handler'[k] \in Registered
      BY <1>1 DEF Entries, Goto, Registered
    <2> QED
      BY <1>1, <2>1, <2>2 DEF Entries
  <1>2. ASSUME NEW c \in Conns, Accept(c) \/ SniffFails(c) \/ Decoy(c) \/ CloseConn(c)
        PROVE  Entries'
    BY <1>1, <1>2 DEF Accept, SniffFails, Decoy, CloseConn, Registered
  <1>3. ASSUME NEW c \in Conns, Register(c) PROVE Entries'
    BY <1>3 DEF Register, Goto, Entries, Registered, Addrs
  <1>4. ASSUME NEW c \in Conns,
               \/ FirstPacket(c) \/ SkipFirst(c) \/ PushFirst(c)
               \/ ReadFrame(c) \/ ReadEnds(c)
               \/ Push(c) \/ PushStops(c)
        PROVE  Entries'
    BY <1>1, <1>4 DEF FirstPacket, SkipFirst, PushFirst, ReadFrame, ReadEnds, Push, PushStops,
                      Registered
  <1>5. ASSUME NEW c \in Conns, CleanUp(c) PROVE Entries'
    BY <1>5 DEF CleanUp, Goto, Entries, Addrs
  <1>6. CASE UNCHANGED <<handler, connections>>
    BY <1>6 DEF Entries
  <1> QED
    BY <1>2, <1>3, <1>4, <1>5, <1>6 DEF ListenerNext, HandlerNext, Reset, SendLookup, SendWrite,
                                        Receive, ReceiveFails, CloseChannel, CloseConnections,
                                        CloseListener, listenerVars

(***************************************************************************)
(* Send: a connection it found stays one that was registered.              *)
(***************************************************************************)
LEMMA FoundStep == Entries /\ Found /\ [ListenerNext]_listenerVars => Found'
  <1> SUFFICES ASSUME Entries, Found, [ListenerNext]_listenerVars PROVE Found'
    OBVIOUS
  <1>1. ASSUME NEW c \in Conns, NEW pc, Goto(c, pc), handler[c] \in Past => pc \in Past,
               UNCHANGED sending, open' \subseteq open \cup {c}, handler[c] # "ended",
               pc = "ended" => c \notin open'
        PROVE  Found'
    <2>1. \A k \in Conns : handler'[k] = IF k = c THEN pc ELSE handler[k]
      BY <1>1 DEF Goto, Entries
    <2> QED
      BY <1>1, <2>1 DEF Found
  <1>2. ASSUME NEW c \in Conns, Accept(c) \/ HandlerNext(c) PROVE Found'
    BY <1>1, <1>2 DEF HandlerNext, Accept, SniffFails, Decoy, Register, FirstPacket, SkipFirst,
       PushFirst, ReadFrame, ReadEnds, Push, PushStops, CleanUp, CloseConn, Past, Registered
  <1>3. ASSUME NEW a \in Addrs, SendLookup(a) PROVE Found'
    <2>1. connections[a] \in Conns /\ Addr[connections[a]] = a
          /\ handler[connections[a]] \in Registered
      BY <1>3 DEF SendLookup, Entries
    <2> QED
      BY <1>3, <2>1 DEF SendLookup, Found, Past
  <1>4. CASE SendWrite
    BY <1>4 DEF SendWrite, Found
  <1>5. CASE CloseConnections
    BY <1>5 DEF CloseConnections, Found
  <1>6. CASE UNCHANGED <<handler, open, sending>>
    BY <1>6 DEF Found
  <1> QED
    BY <1>2, <1>3, <1>4, <1>5, <1>6 DEF ListenerNext, Reset, Receive, ReceiveFails, CloseChannel,
                                        CloseListener, listenerVars

(***************************************************************************)
(* What the map has, and what Send writes to once it has released the      *)
(* lock, is a tunnel connection from the address, or closed: for any       *)
(* connections and addresses, though the clean-up of one connection        *)
(* deletes whatever the map has under its address.                         *)
(***************************************************************************)
THEOREM ServedEntries == ListenerSpec => []EntriesAreServed
  <1>1. ListenerInit => Entries /\ Found
    BY DEF ListenerInit, Entries, Found
  <1>2. Entries /\ Found => EntriesAreServed
    BY DEF Entries, Found, Past, EntriesAreServed
  <1> QED
    BY <1>1, <1>2, EntriesStep, FoundStep, PTL DEF ListenerSpec

=============================================================================
