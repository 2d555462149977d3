----------------------------- MODULE DaemonProofs -----------------------------
(***************************************************************************)
(* The daemon is connected wholly or not at all, gives the host back as it *)
(* was, and no packet loop panics before its own connection is             *)
(* disconnected: for any number of IPC clients and of connections.         *)
(*                                                                         *)
(* Between requests that is what AllOrNothing says; the inductive          *)
(* invariant says the same of every statement of a request, by the step    *)
(* the holder of d.mu has reached.                                         *)
(*                                                                         *)
(* The last part is about ant-ui, which starts the daemon (module Launcher):*)
(* handlers that do not race leave one daemon, and the one that serves can *)
(* be reached.                                                             *)
(***************************************************************************)
EXTENDS Daemon, Launcher, FiniteSetTheorems, TLAPS

Publishing == {"transport", "session", "tun", "stop", "host"}
Undoing == {"close tun", "close transport", "wipe"}
Settled == {"free"} \cup Requests     \* nothing was done yet, or all of it
Steps == Settled \cup {"handshake"} \cup Publishing \cup Undoing

TypeInv ==
    /\ TypeOK
    /\ op \in [by : Callers \cup {Nobody}, step : Steps, tun : BOOLEAN]
    /\ egress \in [Conns -> [pc : {"none", "start", "loop", "reading", "encrypt", "done"},
                             tun : 0 .. MaxConns]]
    /\ ingress \in [Conns -> [pc : {"none", "receive", "blocked", "decrypt", "write", "done"},
                              from : 0 .. MaxConns]]

\* A connection is there, in the making or being undone.
Current == d.connected \/ op.step = "handshake"

\* What is closed belongs to a connection.  All but the current one have
\* closed their transports, and the current one has lost nothing until
\* handleDisconnect takes it apart.
Resources ==
    /\ closed \subseteq 1 .. made /\ tunClosed \subseteq 1 .. made
    /\ wiped \subseteq 1 .. made /\ stopped \subseteq 1 .. made
    /\ Current => made >= 1
    /\ \A n \in 1 .. made : n \in closed \/ (Current /\ n = made)
    /\ Current /\ op.step \notin Undoing =>
          made \notin closed /\ made \notin tunClosed /\ made \notin wiped /\ made \notin stopped
    /\ op.step = "wipe" => made \in closed

\* The fields that have been assigned are those of the current connection.
Fields ==
    /\ op.step = "handshake" => ~ d.connected
    /\ op.step \in Publishing \cup Undoing => d.connected
    /\ d.connected =>
          /\ op.step # "transport" => d.transport = made
          /\ op.step \notin {"transport", "session"} => d.session = made
          /\ op.step \notin {"transport", "session", "tun"} => d.tun \in {0, made}
          /\ op.step \in {"stop", "host"} => d.tun = IF op.tun THEN made ELSE 0
          /\ op.step \notin Publishing \ {"host"} => d.stop = made

\* What is in force on the host is remembered in d, and nothing is while a
\* connection is made or undone.
HostInv ==
    /\ "drop" \in host => d.killSwitch
    /\ "routes" \in host => d.router
    /\ host # {} => d.connected /\ op.step \in Settled

\* A connection that was not disconnected and whose loops have started is
\* the current one, complete, and no request is changing it; a loop of it
\* that is past its look at the device has a device.
Live ==
    \A n \in Conns : n \notin stopped =>
        /\ egress[n].pc # "none" \/ ingress[n].pc # "none" =>
              d.connected /\ n = made /\ op.step \in Settled
        /\ egress[n].pc \in {"loop", "reading", "encrypt"} => d.tun # 0
        /\ ingress[n].pc = "write" => d.tun # 0

IInv == TypeInv /\ Resources /\ Fields /\ HostInv /\ Live

-----------------------------------------------------------------------------
(***************************************************************************)
(* A packet loop changes its own place, or the process panics.             *)
(***************************************************************************)
LEMMA LoopSteps ==
    ASSUME NEW n \in Conns, EgressNext(n) \/ IngressNext(n)
    PROVE  UNCHANGED <<waiting, op, d, made, closed, tunClosed, wiped, stopped, host>>
  BY DEF EgressNext, EgressStart, EgressRead, EgressReadPanics, EgressPacket, EgressEnds,
         EgressEncrypt, EgressEncryptPanics, SetEgress, IngressNext, IngressReceive,
         IngressPacket, IngressError, IngressDrop, IngressDecrypt, IngressDecryptPanics,
         IngressWrite, IngressWritePanics, SetIngress, Panic

(***************************************************************************)
(* The request that holds d.mu answers: its caller and the lock stay in    *)
(* their types.                                                            *)
(***************************************************************************)
LEMMA AnswerType ==
    ASSUME TypeInv, Answer
    PROVE  /\ waiting' \in [Callers -> Requests \cup {"none", "exit"}]
           /\ op' \in [by : Callers \cup {Nobody}, step : Steps, tun : BOOLEAN]
           /\ op'.step = "free"
           /\ proc' = proc
  <1>1. waiting' \in [Callers -> Requests \cup {"none", "exit"}]
    BY DEF Answer, TypeInv, TypeOK
  <1>2. op' \in [by : Callers \cup {Nobody}, step : Steps, tun : BOOLEAN]
    BY DEF Answer, Steps, Settled, Unlocked
  <1> QED
    BY <1>1, <1>2 DEF Answer, Unlocked

(***************************************************************************)
(* Once handleDisconnect has found d.connected, what it undoes is the      *)
(* current connection.                                                     *)
(***************************************************************************)
LEMMA CurrentIsMade ==
    ASSUME IInv, d.connected \/ op.step \in Undoing, op.step \in Settled \cup Undoing
    PROVE  /\ d.connected
           /\ d.transport = made /\ d.session = made /\ d.stop = made /\ d.tun \in {0, made}
           /\ made \in Conns
  <1>1. d.connected
    BY DEF IInv, Fields
  <1>2. d.transport = made /\ d.session = made /\ d.stop = made /\ d.tun \in {0, made}
    BY <1>1 DEF IInv, Fields, Publishing, Settled, Requests, Undoing
  <1>3. made \in Conns
    BY <1>1, MaxConnsAssumption DEF IInv, Resources, Current, TypeInv, TypeOK, Conns
  <1> QED
    BY <1>1, <1>2, <1>3

(***************************************************************************)
(* Every step keeps the variables in their types.  What is added to the    *)
(* closed objects are fields of d, which are not nil when that happens.    *)
(***************************************************************************)
LEMMA TypeStep == IInv /\ [Next]_vars => TypeInv'
  <1> SUFFICES ASSUME IInv, [Next]_vars PROVE TypeInv'
    OBVIOUS
  <1> USE MaxConnsAssumption DEF IInv, TypeInv, TypeOK
  <1>1. ASSUME NEW h \in Callers, NEW r \in Requests, Ask(h, r) PROVE TypeInv'
    BY <1>1 DEF Ask, loopVars
  <1>2. ASSUME NEW h \in Callers, Lock(h) PROVE TypeInv'
    BY <1>2 DEF Lock, loopVars, Steps, Settled
  <1>3. CASE GetStatus
    BY <1>3, AnswerType DEF GetStatus, loopVars
  <1>4. CASE ConnectRefused
    BY <1>4, AnswerType DEF ConnectRefused, loopVars
  <1>5. CASE OpenTransport
    BY <1>5 DEF OpenTransport, loopVars, Steps
  <1>6. CASE HandshakeFails
    <2>1. made \in Conns
      BY <1>6 DEF HandshakeFails, At, Resources, Current, Conns
    <2> QED
      BY <1>6, <2>1, AnswerType DEF HandshakeFails, loopVars
  <1>7. ASSUME NEW t \in BOOLEAN, HandshakeDone(t) PROVE TypeInv'
    BY <1>7 DEF HandshakeDone, loopVars, Steps, Publishing
  <1>8. CASE Publish
    BY <1>8 DEF Publish, loopVars, Steps, Publishing
  <1>9. ASSUME NEW k \in KillSwitch, StartTunnel(k) PROVE TypeInv'
    <2>1. host' \subseteq {"routes", "drop"}
      BY <1>9 DEF StartTunnel
    <2>2. d' \in [connected : BOOLEAN, transport : 0 .. MaxConns, session : 0 .. MaxConns,
                  tun : 0 .. MaxConns, stop : 0 .. MaxConns,
                  router : BOOLEAN, killSwitch : BOOLEAN]
      BY <1>9 DEF StartTunnel
    <2>3. egress' \in [Conns -> [pc : {"none", "start", "loop", "reading", "encrypt", "done"},
                                 tun : 0 .. MaxConns]]
      BY <1>9, ZenonT(60) DEF StartTunnel
    <2>4. ingress' \in [Conns -> [pc : {"none", "receive", "blocked", "decrypt", "write", "done"},
                                  from : 0 .. MaxConns]]
      BY <1>9, ZenonT(60) DEF StartTunnel
    <2> QED
      BY <1>9, <2>1, <2>2, <2>3, <2>4, AnswerType DEF StartTunnel
  <1>10. CASE NotConnected
    BY <1>10, AnswerType DEF NotConnected, loopVars
  <1>11. CASE Restore
    <2>1. d.stop \in Conns
      BY <1>11, CurrentIsMade DEF Restore, At, Settled, Requests
    <2>2. op' \in [by : Callers \cup {Nobody}, step : Steps, tun : BOOLEAN]
      BY <1>11 DEF Restore, Steps, Undoing
    <2> QED
      BY <1>11, <2>1, <2>2 DEF Restore, loopVars
  <1>12. CASE CloseTun
    <2>1. {d.tun} \ {0} \subseteq Conns
      BY DEF Conns
    <2>2. op' \in [by : Callers \cup {Nobody}, step : Steps, tun : BOOLEAN]
      BY <1>12 DEF CloseTun, Steps, Undoing
    <2> QED
      BY <1>12, <2>1, <2>2 DEF CloseTun, loopVars
  <1>13. CASE CloseTransport
    <2>1. d.transport \in Conns
      BY <1>13, CurrentIsMade DEF CloseTransport, At, Undoing
    <2>2. op' \in [by : Callers \cup {Nobody}, step : Steps, tun : BOOLEAN]
      BY <1>13 DEF CloseTransport, Steps, Undoing
    <2> QED
      BY <1>13, <2>1, <2>2 DEF CloseTransport, loopVars
  <1>14. CASE Wipe
    <2>1. d.session \in Conns
      BY <1>14, CurrentIsMade DEF Wipe, At, Undoing
    <2> QED
      BY <1>14, <2>1, AnswerType DEF Wipe, loopVars
  <1>15. CASE Exit
    BY <1>15 DEF Exit, loopVars
  <1>16. ASSUME NEW n \in Conns, EgressNext(n) PROVE TypeInv'
    <2>1. egress' \in [Conns -> [pc : {"none", "start", "loop", "reading", "encrypt", "done"},
                                 tun : 0 .. MaxConns]]
      BY <1>16 DEF EgressNext, EgressStart, EgressRead, EgressReadPanics, EgressPacket,
                   EgressEnds, EgressEncrypt, EgressEncryptPanics, SetEgress, Panic, loopVars
    <2>2. UNCHANGED ingress /\ proc' \in {proc, "panicked"}
      BY <1>16 DEF EgressNext, EgressStart, EgressRead, EgressReadPanics, EgressPacket,
                   EgressEnds, EgressEncrypt, EgressEncryptPanics, SetEgress, Panic, loopVars
    <2> QED
      BY <1>16, <2>1, <2>2, LoopSteps
  <1>17. ASSUME NEW n \in Conns, IngressNext(n) PROVE TypeInv'
    <2>1. ingress' \in [Conns -> [pc : {"none", "receive", "blocked", "decrypt", "write", "done"},
                                  from : 0 .. MaxConns]]
      BY <1>17 DEF IngressNext, IngressReceive, IngressPacket, IngressError, IngressDrop,
                   IngressDecrypt, IngressDecryptPanics, IngressWrite, IngressWritePanics,
                   SetIngress, Panic, loopVars
    <2>2. UNCHANGED egress /\ proc' \in {proc, "panicked"}
      BY <1>17 DEF IngressNext, IngressReceive, IngressPacket, IngressError, IngressDrop,
                   IngressDecrypt, IngressDecryptPanics, IngressWrite, IngressWritePanics,
                   SetIngress, Panic, loopVars
    <2> QED
      BY <1>17, <2>1, <2>2, LoopSteps
  <1>18. CASE UNCHANGED vars
    BY <1>18 DEF vars
  <1> HIDE DEF IInv, TypeInv, TypeOK
  <1> QED
    BY <1>1, <1>2, <1>3, <1>4, <1>5, <1>6, <1>7, <1>8, <1>9, <1>10, <1>11, <1>12, <1>13, <1>14,
       <1>15, <1>16, <1>17, <1>18
    DEF Next, HandlerNext

(***************************************************************************)
(* Every step keeps track of what is open and what is closed.              *)
(***************************************************************************)
LEMMA ResourcesStep == IInv /\ [Next]_vars => Resources'
  <1> SUFFICES ASSUME IInv, [Next]_vars PROVE Resources'
    OBVIOUS
  <1>1. ASSUME NEW h \in Callers, NEW r \in Requests, Ask(h, r) PROVE Resources'
    BY <1>1 DEF Ask, IInv, Current, Resources
  <1>2. ASSUME NEW h \in Callers, Lock(h) PROVE Resources'
    BY <1>2 DEF Lock, Requests, Unlocked, IInv, Current, Resources, Undoing
  <1>3. CASE GetStatus
    BY <1>3, AnswerType DEF GetStatus, At, IInv, Current, Resources, Undoing
  <1>4. CASE ConnectRefused
    BY <1>4, AnswerType DEF ConnectRefused, At, IInv, Current, Resources, Undoing
  <1>5. CASE OpenTransport
    <2>1. /\ made' = made + 1 /\ ~ Current /\ Current' /\ made \in Nat
          /\ closed' = closed /\ tunClosed' = tunClosed
          /\ wiped' = wiped /\ stopped' = stopped
          /\ op'.step = "handshake"
      BY <1>5 DEF OpenTransport, At, IInv, TypeInv, TypeOK, Current
    <2> QED
      BY <2>1 DEF IInv, Resources
  <1>6. CASE HandshakeFails
    <2>1. /\ closed' = closed \cup {made} /\ Current /\ ~ Current' /\ made \in Nat
          /\ made' = made /\ tunClosed' = tunClosed
          /\ wiped' = wiped /\ stopped' = stopped
          /\ op'.step = "free"
      BY <1>6, AnswerType DEF HandshakeFails, At, Fields, IInv, TypeInv, TypeOK, Current
    <2> QED
      BY <2>1 DEF IInv, Resources
  <1>7. ASSUME NEW t \in BOOLEAN, HandshakeDone(t) PROVE Resources'
    BY <1>7 DEF HandshakeDone, At, IInv, Current, Resources, Undoing
  <1>8. CASE Publish
    BY <1>8, ZenonT(30) DEF Publish, IInv, TypeInv, TypeOK, Current, Resources, Undoing
  <1>9. ASSUME NEW k \in KillSwitch, StartTunnel(k) PROVE Resources'
    BY <1>9, AnswerType DEF StartTunnel, At, IInv, TypeInv, TypeOK, Current, Resources, Undoing
  <1>10. CASE NotConnected
    BY <1>10, AnswerType DEF NotConnected, At, IInv, Current, Resources
  <1>11. CASE Restore
    <2>0. d.connected /\ op.step \in Settled
      BY <1>11 DEF Restore, At, Settled, Requests
    <2>1. d.stop = made /\ d.connected /\ made \in Nat /\ made >= 1
      BY <2>0, CurrentIsMade, MaxConnsAssumption DEF Conns
    <2>2. /\ stopped' = stopped \cup {made}
          /\ Current /\ Current' /\ made' = made
          /\ closed' = closed /\ tunClosed' = tunClosed /\ wiped' = wiped
          /\ op'.step = "close tun"
      BY <1>11, <2>0, <2>1 DEF Restore, At, IInv, TypeInv, Current
    <2>3. op'.step \in Undoing
      BY <2>2 DEF Undoing
    <2>4. stopped' \subseteq 1 .. made
      <3>1. stopped \subseteq 1 .. made
        BY DEF IInv, Resources
      <3>2. made \in 1 .. made
        BY <2>1
      <3>3. stopped' \subseteq stopped \cup {made}
        BY <2>2
      <3> QED
        BY <3>1, <3>2, <3>3
    <2> QED
      BY <2>1, <2>2, <2>3, <2>4 DEF IInv, Resources
  <1>12. CASE CloseTun
    <2>0. op.step \in Undoing
      BY <1>12 DEF CloseTun, At, Undoing
    <2>1. d.tun \in {0, made} /\ d.connected /\ made \in Nat /\ made >= 1
      BY <2>0, CurrentIsMade, MaxConnsAssumption DEF Conns
    <2>2. /\ tunClosed' \in {tunClosed, tunClosed \cup {made}}
          /\ Current /\ Current' /\ made' = made
          /\ closed' = closed /\ wiped' = wiped /\ stopped' = stopped
          /\ op'.step = "close transport"
      BY <1>12, <2>0, <2>1 DEF CloseTun, At, IInv, TypeInv, Current
    <2>3. op'.step \in Undoing
      BY <2>2 DEF Undoing
    <2>4. tunClosed' \subseteq 1 .. made
      <3>1. tunClosed \subseteq 1 .. made
        BY DEF IInv, Resources
      <3>2. made \in 1 .. made
        BY <2>1
      <3>3. tunClosed' \subseteq tunClosed \cup {made}
        BY <2>2
      <3> QED
        BY <3>1, <3>2, <3>3
    <2> QED
      BY <2>1, <2>2, <2>3, <2>4 DEF IInv, Resources
  <1>13. CASE CloseTransport
    <2>0. op.step \in Undoing
      BY <1>13 DEF CloseTransport, At, Undoing
    <2>1. d.transport = made /\ d.connected /\ made \in Nat
      BY <2>0, CurrentIsMade DEF Conns
    <2>2. /\ closed' = closed \cup {made}
          /\ Current /\ Current' /\ made' = made
          /\ tunClosed' = tunClosed /\ wiped' = wiped /\ stopped' = stopped
          /\ op'.step = "wipe"
      BY <1>13, <2>0, <2>1 DEF CloseTransport, At, IInv, TypeInv, Current
    <2>3. op'.step \in Undoing
      BY <2>2 DEF Undoing
    <2> QED
      BY <2>1, <2>2, <2>3 DEF IInv, Resources
  <1>14. CASE Wipe
    <2>1. d.session = made /\ d.connected /\ made \in Nat /\ made \in closed
      BY <1>14, CurrentIsMade DEF Wipe, At, Undoing, Conns, IInv, Resources
    <2>2. /\ wiped' = wiped \cup {made} /\ ~ Current' /\ made' = made
          /\ closed' = closed /\ tunClosed' = tunClosed /\ stopped' = stopped
          /\ op'.step = "free"
      BY <1>14, <2>1, AnswerType DEF Wipe, IInv, TypeInv, TypeOK, Current
    <2> QED
      BY <2>1, <2>2 DEF IInv, Resources
  <1>15. CASE Exit
    BY <1>15 DEF Exit, IInv, Current, Resources
  <1>16. ASSUME NEW n \in Conns, EgressNext(n) \/ IngressNext(n) PROVE Resources'
    <2>1. UNCHANGED <<op, d, made, closed, tunClosed, wiped, stopped>>
      BY <1>16, LoopSteps
    <2> QED
      BY <2>1 DEF IInv, Resources, Current
  <1>17. CASE UNCHANGED vars
    BY <1>17 DEF vars, IInv, Current, Resources
  <1> QED
    BY <1>1, <1>2, <1>3, <1>4, <1>5, <1>6, <1>7, <1>8, <1>9, <1>10, <1>11, <1>12, <1>13, <1>14,
       <1>15, <1>16, <1>17
    DEF Next, HandlerNext

(***************************************************************************)
(* Every step assigns the fields of the current connection.                *)
(***************************************************************************)
LEMMA FieldsStep == IInv /\ [Next]_vars => Fields'
  <1> SUFFICES ASSUME IInv, [Next]_vars PROVE Fields'
    OBVIOUS
  <1>1. ASSUME NEW h \in Callers, NEW r \in Requests, Ask(h, r) PROVE Fields'
    BY <1>1 DEF Ask, IInv, TypeInv, Fields, Publishing, Undoing
  <1>2. ASSUME NEW h \in Callers, Lock(h) PROVE Fields'
    BY <1>2 DEF Lock, Requests, Unlocked, IInv, Fields, Publishing, Undoing
  <1>3. CASE GetStatus
    BY <1>3, AnswerType DEF GetStatus, At, IInv, Fields, Publishing, Undoing
  <1>4. CASE ConnectRefused
    BY <1>4, AnswerType DEF ConnectRefused, At, IInv, Fields, Publishing, Undoing
  <1>5. CASE OpenTransport
    BY <1>5 DEF OpenTransport, Fields, Publishing, Undoing
  <1>6. CASE HandshakeFails
    BY <1>6, AnswerType DEF HandshakeFails, At, IInv, Fields, Publishing, Undoing
  <1>7. ASSUME NEW t \in BOOLEAN, HandshakeDone(t) PROVE Fields'
    BY <1>7 DEF HandshakeDone, Fields, Publishing
  <1>8. CASE Publish
    <2>1. CASE op.step = "transport"
      <3>1. /\ op'.step = "session" /\ made' = made /\ d'.connected = d.connected
            /\ d'.transport = made
        BY <1>8, <2>1 DEF Publish, IInv, TypeInv, TypeOK
      <3> QED
        BY <2>1, <3>1 DEF IInv, Fields, Publishing, Undoing
    <2>2. CASE op.step = "session"
      <3>1. /\ op'.step = "tun" /\ made' = made /\ d'.connected = d.connected
            /\ d'.session = made /\ d'.transport = d.transport
        BY <1>8, <2>2 DEF Publish, IInv, TypeInv, TypeOK
      <3> QED
        BY <2>2, <3>1 DEF IInv, Fields, Publishing, Undoing
    <2>3. CASE op.step = "tun"
      <3>1. /\ op'.step = "stop" /\ made' = made /\ d'.connected = d.connected
            /\ op'.tun = op.tun /\ d'.tun = IF op.tun THEN made ELSE 0
            /\ d'.session = d.session /\ d'.transport = d.transport
        BY <1>8, <2>3 DEF Publish, IInv, TypeInv, TypeOK
      <3> QED
        BY <2>3, <3>1 DEF IInv, Fields, Publishing, Undoing
    <2>4. CASE op.step = "stop"
      <3>1. /\ op'.step = "host" /\ made' = made /\ d'.connected = d.connected
            /\ op'.tun = op.tun /\ d'.tun = d.tun /\ d'.stop = made
            /\ d'.session = d.session /\ d'.transport = d.transport
        BY <1>8, <2>4 DEF Publish, IInv, TypeInv, TypeOK
      <3> QED
        BY <2>4, <3>1 DEF IInv, Fields, Publishing, Undoing
    <2> QED
      BY <1>8, <2>1, <2>2, <2>3, <2>4 DEF Publish
  <1>9. ASSUME NEW k \in KillSwitch, StartTunnel(k) PROVE Fields'
    <2>1. /\ d'.transport = d.transport /\ d'.session = d.session /\ d'.tun = d.tun
          /\ d'.stop = d.stop /\ d'.connected = d.connected
          /\ made' = made /\ op.step = "host" /\ op'.step = "free"
      BY <1>9, AnswerType DEF StartTunnel, At, IInv
    <2> QED
      BY <2>1 DEF IInv, Fields, Publishing, Undoing
  <1>10. CASE NotConnected
    BY <1>10, AnswerType DEF NotConnected, IInv, Fields, Publishing, Undoing
  <1>11. CASE Restore
    BY <1>11 DEF Restore, At, IInv, TypeInv, Fields, Publishing
  <1>12. CASE CloseTun
    BY <1>12 DEF CloseTun, At, IInv, TypeInv, Fields, Publishing, Undoing
  <1>13. CASE CloseTransport
    BY <1>13 DEF CloseTransport, At, IInv, TypeInv, Fields, Publishing, Undoing
  <1>14. CASE Wipe
    <2>1. ~ d'.connected /\ op'.step = "free"
      BY <1>14, AnswerType DEF Wipe, IInv
    <2> QED
      BY <2>1 DEF IInv, Fields, Publishing, Undoing
  <1>15. CASE Exit
    BY <1>15 DEF Exit, IInv, TypeInv, Fields, Publishing, Undoing
  <1>16. ASSUME NEW n \in Conns, EgressNext(n) \/ IngressNext(n) PROVE Fields'
    BY <1>16, LoopSteps DEF IInv, TypeInv, Fields, Publishing, Undoing
  <1>17. CASE UNCHANGED vars
    BY <1>17 DEF vars, IInv, TypeInv, Fields, Publishing, Undoing
  <1> QED
    BY <1>1, <1>2, <1>3, <1>4, <1>5, <1>6, <1>7, <1>8, <1>9, <1>10, <1>11, <1>12, <1>13, <1>14,
       <1>15, <1>16, <1>17
    DEF Next, HandlerNext

(***************************************************************************)
(* Every change of the host is remembered, and undone by handleDisconnect. *)
(***************************************************************************)
LEMMA HostStep == IInv /\ [Next]_vars => HostInv'
  <1> SUFFICES ASSUME IInv, [Next]_vars PROVE HostInv'
    OBVIOUS
  <1>1. ASSUME NEW h \in Callers, NEW r \in Requests, Ask(h, r) PROVE HostInv'
    BY <1>1 DEF Ask, IInv, HostInv
  <1>2. ASSUME NEW h \in Callers, Lock(h) PROVE HostInv'
    BY <1>2 DEF Lock, IInv, HostInv, Settled
  <1>3. CASE GetStatus
    BY <1>3, AnswerType DEF GetStatus, IInv, HostInv, Settled
  <1>4. CASE ConnectRefused
    BY <1>4, AnswerType DEF ConnectRefused, IInv, HostInv, Settled
  <1>5. CASE OpenTransport
    BY <1>5 DEF OpenTransport, IInv, HostInv
  <1>6. CASE HandshakeFails
    BY <1>6, AnswerType DEF HandshakeFails, IInv, HostInv, Settled
  <1>7. ASSUME NEW t \in BOOLEAN, HandshakeDone(t) PROVE HostInv'
    BY <1>7 DEF HandshakeDone, At, IInv, HostInv, Settled, Requests
  <1>8. CASE Publish
    BY <1>8 DEF Publish, IInv, HostInv, Settled, Requests
  <1>9. ASSUME NEW k \in KillSwitch, StartTunnel(k) PROVE HostInv'
    BY <1>9, AnswerType DEF StartTunnel, At, IInv, TypeInv, TypeOK, HostInv, Settled,
                            Publishing, Fields
  <1>10. CASE NotConnected
    BY <1>10, AnswerType DEF NotConnected, IInv, HostInv
  <1>11. CASE Restore
    <2>1. host' = {}
      BY <1>11 DEF Restore, IInv, TypeInv, TypeOK, HostInv
    <2> QED
      BY <2>1 DEF HostInv
  <1>12. CASE CloseTun
    BY <1>12 DEF CloseTun, At, IInv, HostInv, Settled, Requests
  <1>13. CASE CloseTransport
    BY <1>13 DEF CloseTransport, At, IInv, HostInv, Settled, Requests
  <1>14. CASE Wipe
    BY <1>14, AnswerType DEF Wipe, At, IInv, HostInv, Settled, Requests
  <1>15. CASE Exit
    BY <1>15 DEF Exit, IInv, HostInv
  <1>16. ASSUME NEW n \in Conns, EgressNext(n) \/ IngressNext(n) PROVE HostInv'
    BY <1>16, LoopSteps DEF IInv, HostInv
  <1>17. CASE UNCHANGED vars
    BY <1>17 DEF vars, IInv, HostInv
  <1> QED
    BY <1>1, <1>2, <1>3, <1>4, <1>5, <1>6, <1>7, <1>8, <1>9, <1>10, <1>11, <1>12, <1>13, <1>14,
       <1>15, <1>16, <1>17
    DEF Next, HandlerNext

(***************************************************************************)
(* No step before the first disconnect endangers a packet loop.            *)
(***************************************************************************)
LEMMA LiveStep == IInv /\ [Next]_vars => Live'
  <1> SUFFICES ASSUME IInv, [Next]_vars PROVE Live'
    OBVIOUS
  <1>1. ASSUME NEW h \in Callers, NEW r \in Requests, Ask(h, r) PROVE Live'
    BY <1>1 DEF Ask, loopVars, IInv, Live
  <1>2. ASSUME NEW h \in Callers, Lock(h) PROVE Live'
    BY <1>2 DEF Lock, loopVars, Requests, IInv, Live, Settled, Undoing
  <1>3. CASE GetStatus
    BY <1>3, AnswerType DEF GetStatus, loopVars, IInv, Live, Settled, Undoing
  <1>4. CASE ConnectRefused
    BY <1>4, AnswerType DEF ConnectRefused, loopVars, IInv, Live, Settled, Undoing
  <1>5. CASE OpenTransport
    BY <1>5 DEF OpenTransport, At, loopVars, IInv, Live, Undoing
  <1>6. CASE HandshakeFails
    BY <1>6, AnswerType DEF HandshakeFails, loopVars, IInv, Live, Settled, Undoing
  <1>7. ASSUME NEW t \in BOOLEAN, HandshakeDone(t) PROVE Live'
    BY <1>7 DEF HandshakeDone, At, loopVars, IInv, Live, Settled, Requests, Undoing
  <1>8. CASE Publish
    BY <1>8 DEF Publish, loopVars, IInv, TypeInv, Live, Settled, Requests, Undoing
  <1>9. ASSUME NEW k \in KillSwitch, StartTunnel(k) PROVE Live'
    <2>1. /\ op.step = "host" /\ op'.step = "free"
          /\ d'.connected = d.connected /\ d'.tun = d.tun
          /\ wiped' = wiped /\ stopped' = stopped /\ proc' = proc
      BY <1>9, AnswerType DEF StartTunnel, At, IInv, TypeInv, TypeOK
    <2>2. d.connected
      BY <2>1 DEF IInv, Fields, Publishing
    <2>3. \A n \in Conns : /\ egress'[n].pc = IF n = made THEN "start" ELSE egress[n].pc
                           /\ ingress'[n].pc = IF n = made THEN "receive" ELSE ingress[n].pc
      BY <1>9 DEF StartTunnel, IInv, TypeInv
    <2>4. op'.step \in Settled /\ op.step \notin Settled /\ made' = made
      BY <1>9, <2>1 DEF Settled, Requests, StartTunnel
    <2>5. \A n \in Conns : n \notin stopped =>
             egress[n].pc = "none" /\ ingress[n].pc = "none"
      BY <2>4 DEF IInv, Live
    <2> QED
      BY <2>1, <2>2, <2>3, <2>4, <2>5 DEF Live
  <1>10. CASE NotConnected
    BY <1>10, AnswerType DEF NotConnected, loopVars, IInv, Live, Undoing
  <1>11. CASE Restore
    <2>1. /\ d.connected /\ op.step \in Settled
          /\ stopped' = stopped \cup {d.stop} /\ UNCHANGED <<egress, ingress, d, made>>
      BY <1>11 DEF Restore, At, loopVars, Settled, Requests
    <2>2. d.stop = made
      BY <2>1, CurrentIsMade
    <2>3. \A n \in Conns : n \notin stopped' =>
             egress[n].pc = "none" /\ ingress[n].pc = "none"
      BY <2>1, <2>2 DEF IInv, Live
    <2> QED
      BY <2>1, <2>3 DEF Live
  <1>12. CASE CloseTun
    BY <1>12 DEF CloseTun, At, loopVars, IInv, Live, Settled, Requests
  <1>13. CASE CloseTransport
    BY <1>13 DEF CloseTransport, At, loopVars, IInv, Live, Settled, Requests
  <1>14. CASE Wipe
    <2>1. op.step = "wipe" /\ UNCHANGED <<egress, ingress, stopped>>
      BY <1>14 DEF Wipe, At, loopVars
    <2>2. \A n \in Conns : n \notin stopped =>
             egress[n].pc = "none" /\ ingress[n].pc = "none"
      BY <2>1 DEF IInv, Live, Settled, Requests
    <2> QED
      BY <2>1, <2>2 DEF Live
  <1>15. CASE Exit
    BY <1>15 DEF Exit, loopVars, IInv, Live
  <1>16. ASSUME NEW n \in Conns, EgressNext(n) PROVE Live'
    <2>1. UNCHANGED <<op, d, made, stopped>>
      BY <1>16, LoopSteps
    <2>2. /\ ingress' = ingress
          /\ egress[n].pc # "none"
          /\ \A m \in Conns : m # n => egress'[m].pc = egress[m].pc
          /\ egress'[n].pc \in {"loop", "reading", "encrypt"} =>
                d.tun # 0 \/ egress[n].pc \in {"loop", "reading", "encrypt"}
      BY <1>16 DEF EgressNext, EgressStart, EgressRead, EgressReadPanics, EgressPacket,
                   EgressEnds, EgressEncrypt, EgressEncryptPanics, SetEgress, Panic, loopVars,
                   IInv, TypeInv
    <2> QED
      BY <2>1, <2>2 DEF IInv, Live
  <1>17. ASSUME NEW n \in Conns, IngressNext(n) PROVE Live'
    <2>1. UNCHANGED <<op, d, made, stopped>>
      BY <1>17, LoopSteps
    <2>2. /\ egress' = egress
          /\ ingress[n].pc # "none"
          /\ \A m \in Conns : m # n => ingress'[m].pc = ingress[m].pc
          /\ ingress'[n].pc = "write" => d.tun # 0 \/ ingress[n].pc = "write"
      BY <1>17 DEF IngressNext, IngressReceive, IngressPacket, IngressError, IngressDrop,
                   IngressDecrypt, IngressDecryptPanics, IngressWrite, IngressWritePanics,
                   SetIngress, Panic, loopVars, IInv, TypeInv
    <2> QED
      BY <2>1, <2>2 DEF IInv, Live
  <1>18. CASE UNCHANGED vars
    BY <1>18 DEF vars, IInv, Live
  <1> QED
    BY <1>1, <1>2, <1>3, <1>4, <1>5, <1>6, <1>7, <1>8, <1>9, <1>10, <1>11, <1>12, <1>13, <1>14,
       <1>15, <1>16, <1>17, <1>18
    DEF Next, HandlerNext

(***************************************************************************)
(* A daemon that has just started, with nothing open, satisfies it all.    *)
(***************************************************************************)
LEMMA InitIInv == Init => IInv
  <1> SUFFICES ASSUME Init PROVE IInv
    OBVIOUS
  <1>1. TypeInv
    BY MaxConnsAssumption DEF Init, TypeInv, TypeOK, Unlocked, Steps, Settled
  <1>2. Resources
    BY DEF Init, Resources, Current, Unlocked
  <1>3. Fields
    BY DEF Init, Fields, Unlocked, Publishing, Undoing
  <1>4. HostInv
    BY DEF Init, HostInv
  <1>5. Live
    BY DEF Init, Live, Unlocked, Undoing
  <1> QED
    BY <1>1, <1>2, <1>3, <1>4, <1>5 DEF IInv

-----------------------------------------------------------------------------
(***************************************************************************)
(* The inductive invariant: at every statement of every request, what is   *)
(* open, assigned and in force on the host fits the step reached.          *)
(***************************************************************************)
THEOREM IInvariant == Spec => []IInv
  <1>1. IInv /\ [Next]_vars => IInv'
    BY TypeStep, ResourcesStep, FieldsStep, HostStep, LiveStep DEF IInv
  <1> QED
    BY <1>1, InitIInv, PTL DEF Spec

(***************************************************************************)
(* The fields of DaemonState name connections that were made, in every     *)
(* interleaving of requests and packet loops.                              *)
(***************************************************************************)
THEOREM TypeCorrect == Spec => []TypeOK
  <1>1. IInv => TypeOK
    BY DEF IInv, TypeInv
  <1> QED
    BY <1>1, IInvariant, PTL

(***************************************************************************)
(* Whenever d.mu is free, the daemon holds the live objects of one         *)
(* connection, or every transport it ever opened is closed.                *)
(***************************************************************************)
THEOREM WholeOrNotAtAll == Spec => []AllOrNothing
  <1>1. ASSUME IInv, op = Unlocked PROVE AllOrNothing
    <2>1. op.step = "free"
      BY <1>1 DEF Unlocked
    <2>2. CASE d.connected
      <3>1. d.transport = made /\ d.session = made /\ d.stop = made /\ d.tun \in {0, made}
        BY <1>1, <2>1, <2>2, CurrentIsMade DEF Settled
      <3>2. made \notin closed /\ made \notin tunClosed /\ made \notin wiped /\ made \notin stopped
        BY <1>1, <2>1, <2>2 DEF IInv, Resources, Current, Undoing
      <3>3. 0 \notin tunClosed
        BY <1>1 DEF IInv, TypeInv, TypeOK, Conns
      <3>4. 1 .. made - 1 \subseteq closed
        BY <1>1, MaxConnsAssumption DEF IInv, Resources, TypeInv, TypeOK
      <3> QED
        BY <2>2, <3>1, <3>2, <3>3, <3>4 DEF AllOrNothing
    <2>3. CASE ~ d.connected
      BY <1>1, <2>1, <2>3 DEF AllOrNothing, IInv, Resources, Current
    <2> QED
      BY <2>2, <2>3
  <1>2. IInv => AllOrNothing
    BY <1>1 DEF AllOrNothing
  <1> QED
    BY <1>2, IInvariant, PTL

(***************************************************************************)
(* Whatever kill switches and devices its connections had, a daemon that   *)
(* is disconnected has left neither a route nor a DROP rule on the host.   *)
(***************************************************************************)
THEOREM HostIsRestored == Spec => []HostRestored
  <1>1. IInv => HostRestored
    BY DEF IInv, HostInv, HostRestored
  <1> QED
    BY <1>1, IInvariant, PTL

(***************************************************************************)
(* A step that panics is one of a loop whose connection was disconnected:  *)
(* for a connection that was not, the session and the device the loop      *)
(* reads are its own and whole.                                            *)
(***************************************************************************)
THEOREM PanicsNeedDisconnect == Spec => PanicNeedsDisconnect
  <1>1. ASSUME IInv, NEW n \in Conns \ stopped, LoopPanics(n) PROVE FALSE
    <2>1. egress[n].pc # "none" \/ ingress[n].pc # "none"
      BY <1>1 DEF LoopPanics, EgressReadPanics, EgressEncryptPanics, IngressDecryptPanics,
                  IngressWritePanics
    <2>2. d.connected /\ n = made /\ op.step \in Settled
      BY <1>1, <2>1 DEF IInv, Live
    <2>3. d.session = made
      BY <1>1, <2>2, CurrentIsMade
    <2>4. made \notin wiped
      BY <1>1, <2>2 DEF IInv, Resources, Current, Settled, Requests, Undoing
    <2> QED
      BY <1>1, <2>3, <2>4 DEF LoopPanics, EgressReadPanics, EgressEncryptPanics,
         IngressDecryptPanics, IngressWritePanics, IInv, Live
  <1>2. IInv /\ [Next]_vars => [\A n \in Conns \ stopped : ~ LoopPanics(n)]_vars
    BY <1>1
  <1> QED
    BY <1>2, IInvariant, PTL DEF Spec, PanicNeedsDisconnect

-----------------------------------------------------------------------------
(* How ant-ui finds, starts and talks to the daemon                        *)

\* Where a daemon has an open listener, where it can be at all, and the
\* daemons of the shared name that can still come to serve.
Bound == {"chmod", "serve", "disconnect", "close"}
Places == {"none", "prompt", "gone", "unbound", "killed"} \cup Starting \cup Serving
Active == {p \in Daemons \ away : daemon[p] \in {"prompt"} \cup Starting \cup Serving}

\* The start requests that have found no daemon.
Launching == {h \in UIHandlers : ui[h].pc \in {"launch", "poll"}}

\* What the requests and the daemons rely on.
Types ==
    /\ network \in {"unix", "tcp"}
    /\ file \in [owner : 0 .. MaxDaemons, open : BOOLEAN]
    /\ daemon \in [Daemons -> Places]
    /\ away \subseteq Daemons
    /\ ui \in [UIHandlers -> [pc : {"idle", "dial", "launch", "poll", "sent"},
                            kind : Kinds \cup {"none"},
                            daemon : 0 .. MaxDaemons, polls : 0 .. MaxPolls]]
    /\ \A h \in UIHandlers : ui[h].pc \in {"poll", "sent"} => ui[h].daemon \in Daemons

\* What the model records of the daemons agrees with where they are, and
\* they are launched in the order of their numbers.
Books ==
    /\ listening = {p \in Daemons : daemon[p] \in Bound}
    /\ connected \subseteq {p \in Daemons : daemon[p] \in Serving}
    /\ file.owner # 0 => file.owner \notin away /\ daemon[file.owner] # "none"
    /\ \A p \in away : daemon[p] \notin {"none", "prompt"}
    /\ \E n \in 0 .. MaxDaemons : \A p \in Daemons : daemon[p] = "none" <=> p > n

\* The address of the daemons leads to daemon p.
Reached(p) ==
    IF network = "unix" THEN file = [owner |-> p, open |-> TRUE] ELSE listening \ away = {p}

\* One start request at a time launches, there is one daemon of the shared
\* name, and none when a request is about to launch one.
OneLaunch ==
    /\ \A g, h \in Launching : g = h
    /\ \A c, p \in Active : c = p
    /\ \A h \in UIHandlers : ui[h].pc = "launch" => Active = {}

\* Daemon p, of the shared name, is awaited until its prompt is answered, and
\* can be reached once it is up.
Behind(p) ==
    /\ daemon[p] # "unbound"
    /\ daemon[p] = "prompt" => \E h \in UIHandlers : ui[h].pc = "poll" /\ ui[h].daemon = p
    /\ daemon[p] = "listen" => Free
    /\ daemon[p] = "chmod" => IF network = "unix" THEN file = [owner |-> p, open |-> FALSE]
                              ELSE listening \ away = {p}
    /\ daemon[p] \in {"serve", "disconnect", "close"} => Reached(p)

\* The order holds as long as no start was raced.
LauncherInv ==
    /\ Types
    /\ Books
    /\ races = {} => OneLaunch /\ \A p \in Daemons \ away : Behind(p)

\* The daemon that net.Dial reaches is one that listens.
LEMMA DialledListens ==
    ASSUME Types, Books
    PROVE  /\ Dialled \in 0 .. MaxDaemons
           /\ Dialled # 0 => Dialled \in listening \ away
           /\ Dialled # 0 /\ network = "unix" => file.open /\ file.owner = Dialled
           /\ \A p \in Daemons : Reached(p) /\ daemon[p] \in Bound => Dialled = p
  <1>1. Daemons = 1 .. MaxDaemons /\ MaxDaemons \in Nat
    BY LauncherAssumption DEF Daemons
  <1>2. listening \subseteq Daemons /\ 0 \notin Daemons
    BY <1>1 DEF Books
  <1>3. CASE network = "unix"
    BY <1>1, <1>2, <1>3 DEF Dialled, Types, Books, Reached, Daemons
  <1>4. CASE network = "tcp"
    <2>1. CASE listening \subseteq away
      BY <1>1, <1>4, <2>1 DEF Dialled, Reached
    <2>2. CASE ~ (listening \subseteq away)
      <3> DEFINE c == CHOOSE p \in listening \ away : TRUE
      <3>1. c \in listening \ away
        BY <2>2
      <3> HIDE DEF c
      <3>2. Dialled = c
        BY <1>4, <2>2, Zenon DEF Dialled, c
      <3> QED
        BY <1>1, <1>2, <1>4, <2>2, <3>1, <3>2 DEF Reached
    <2> QED
      BY <2>1, <2>2
  <1> QED
    BY <1>3, <1>4 DEF Types

-----------------------------------------------------------------------------
(* The daemons                                                             *)

\* A step of daemon p keeps the books.
LEMMA DaemonKeepsBooks ==
    ASSUME Types, Books, NEW p \in Daemons, NEW pc \in Places \ {"none", "prompt"},
           daemon[p] # "none", SetDaemon(p, pc),
           listening' = IF pc \in Bound THEN listening \cup {p} ELSE listening \ {p},
           connected' \subseteq connected, pc \in Serving \/ p \notin connected',
           file' \in [owner : 0 .. MaxDaemons, open : BOOLEAN],
           p \in away => file' = file, file'.owner \in {0, file.owner, p}
    PROVE  Types' /\ Books'
  <1>1. daemon' = [daemon EXCEPT ![p] = pc] /\ UNCHANGED <<network, away, ui, races>>
    BY DEF SetDaemon
  <1>2. Types'
    BY <1>1 DEF Types
  <1>3. listening' = {e \in Daemons : daemon'[e] \in Bound}
    BY <1>1 DEF Books, Types
  <1>4. connected' \subseteq {e \in Daemons : daemon'[e] \in Serving}
    BY <1>1 DEF Books, Types
  <1>5. \A e \in Daemons : daemon'[e] = "none" <=> daemon[e] = "none"
    BY <1>1 DEF Types
  <1>6. \E n \in 0 .. MaxDaemons : \A e \in Daemons : daemon'[e] = "none" <=> e > n
    <2>1. PICK n \in 0 .. MaxDaemons : \A e \in Daemons : daemon[e] = "none" <=> e > n
      BY DEF Books
    <2> QED
      BY <1>5, <2>1
  <1>7. file'.owner # 0 => file'.owner \notin away' /\ daemon'[file'.owner] # "none"
    <2>1. file.owner \in 0 .. MaxDaemons /\ Daemons = 1 .. MaxDaemons /\ MaxDaemons \in Nat
      BY LauncherAssumption DEF Types, Daemons
    <2>2. file.owner # 0 => file.owner \in Daemons
      BY <2>1
    <2> QED
      BY <1>1, <1>5, <2>2 DEF Books
  <1>8. \A e \in away' : daemon'[e] \notin {"none", "prompt"}
    BY <1>1 DEF Books, Types
  <1> QED
    BY <1>2, <1>3, <1>4, <1>6, <1>7, <1>8 DEF Books

\* Where there is one daemon of the shared name, its step concerns no other,
\* and the step of a daemon of another name concerns none.
LEMMA DaemonKeepsOrder ==
    ASSUME Types, OneLaunch, \A e \in Daemons \ away : Behind(e),
           NEW p \in Daemons, NEW pc \in Places,
           daemon[p] \in {"prompt"} \cup Starting \cup Serving, SetDaemon(p, pc),
           listening' = IF pc \in Bound THEN listening \cup {p} ELSE listening \ {p},
           p \in away => file' = file, p \notin away => Behind(p)'
    PROVE  OneLaunch' /\ \A e \in Daemons \ away' : Behind(e)'
  <1>1. daemon' = [daemon EXCEPT ![p] = pc] /\ UNCHANGED <<network, away, ui, races>>
    BY DEF SetDaemon
  <1>2. Active' \subseteq Active
    BY <1>1 DEF Active, Types
  <1>3. OneLaunch'
    BY <1>1, <1>2 DEF OneLaunch, Launching
  <1>4. ASSUME NEW e \in Daemons \ away, e # p PROVE Behind(e)'
    <2>1. daemon'[e] = daemon[e] /\ Behind(e)
      BY <1>1, <1>4 DEF Types
    <2>2. CASE p \in away
      <3>1. listening' \ away' = listening \ away /\ file' = file /\ network' = network
        BY <1>1, <2>2
      <3>2. (Reached(e)' <=> Reached(e)) /\ (Free' <=> Free)
        BY <3>1 DEF Reached, Free
      <3> QED
        BY <1>1, <2>1, <3>1, <3>2 DEF Behind
    <2>3. CASE p \notin away
      <3>1. daemon[e] \notin {"prompt"} \cup Starting \cup Serving
        BY <1>4, <2>3 DEF OneLaunch, Active
      <3> QED
        BY <2>1, <3>1 DEF Behind, Starting, Serving
    <2> QED
      BY <2>2, <2>3
  <1> QED
    BY <1>1, <1>3, <1>4

\* The two together.
LEMMA DaemonStep ==
    ASSUME LauncherInv, NEW p \in Daemons, NEW pc \in Places \ {"none", "prompt"},
           daemon[p] \in {"prompt"} \cup Starting \cup Serving, SetDaemon(p, pc),
           listening' = IF pc \in Bound THEN listening \cup {p} ELSE listening \ {p},
           connected' \subseteq connected, pc \in Serving \/ p \notin connected',
           file' \in [owner : 0 .. MaxDaemons, open : BOOLEAN],
           p \in away => file' = file, file'.owner \in {0, file.owner, p},
           p \notin away /\ OneLaunch /\ Behind(p) => Behind(p)'
    PROVE  LauncherInv'
  <1>1. Types' /\ Books'
    BY DaemonKeepsBooks DEF LauncherInv, Starting, Serving
  <1>2. races' = races
    BY DEF SetDaemon
  <1> QED
    BY <1>1, <1>2, DaemonKeepsOrder DEF LauncherInv

\* A step of a daemon, action by action.
LEMMA DaemonNextStep ==
    ASSUME LauncherInv, NEW p \in Daemons, DaemonNext(p)
    PROVE  LauncherInv'
  <1>1. daemon[p] \in {"prompt"} \cup Starting \cup Serving
    BY DEF DaemonNext, Accept, Cancel, RemoveStale, Listen, ListenFails, Chmod, Signal,
           Disconnect, CloseListener, RemoveFile, Kill, Alive, Starting, Serving
  <1>2. /\ p \in 1 .. MaxDaemons /\ file \in [owner : 0 .. MaxDaemons, open : BOOLEAN]
        /\ NoFile \in [owner : 0 .. MaxDaemons, open : BOOLEAN] /\ NoFile.owner = 0
        /\ daemon \in [Daemons -> Places]
    BY LauncherAssumption DEF LauncherInv, Types, Daemons, NoFile
  <1>3. /\ p \in listening <=> daemon[p] \in Bound
        /\ p \in connected => daemon[p] \in Serving
    BY DEF LauncherInv, Books
  <1>4. p \notin away /\ OneLaunch => \A e \in listening \ away : e = p
    BY <1>1 DEF OneLaunch, Active, Bound, Starting, Serving, LauncherInv, Books
  <1> USE DEF Places, Bound, Starting, Serving
  <1>5. CASE Accept(p)
    <2>1. /\ SetDaemon(p, "start") /\ file' \in [owner : 0 .. MaxDaemons, open : BOOLEAN]
          /\ p \in away => file' = file
          /\ file'.owner \in {0, file.owner, p}
          /\ listening' = listening \ {p}
          /\ connected' \subseteq connected /\ p \notin connected'
      BY <1>2, <1>3, <1>5 DEF Accept
    <2>2. p \notin away /\ OneLaunch /\ Behind(p) => Behind(p)'
      BY <1>2, <1>3, <1>4, <1>5 DEF Accept, SetDaemon, Behind
    <2> QED
      BY <1>1, <2>1, <2>2, DaemonStep
  <1>6. CASE Cancel(p)
    <2>1. /\ SetDaemon(p, "gone") /\ file' \in [owner : 0 .. MaxDaemons, open : BOOLEAN]
          /\ p \in away => file' = file
          /\ file'.owner \in {0, file.owner, p}
          /\ listening' = listening \ {p}
          /\ connected' \subseteq connected /\ p \notin connected'
      BY <1>2, <1>3, <1>6 DEF Cancel
    <2>2. p \notin away /\ OneLaunch /\ Behind(p) => Behind(p)'
      BY <1>2, <1>3, <1>4, <1>6 DEF Cancel, SetDaemon, Behind
    <2> QED
      BY <1>1, <2>1, <2>2, DaemonStep
  <1>7. CASE RemoveStale(p)
    <2>1. /\ SetDaemon(p, "listen") /\ file' \in [owner : 0 .. MaxDaemons, open : BOOLEAN]
          /\ p \in away => file' = file
          /\ file'.owner \in {0, file.owner, p}
          /\ listening' = listening \ {p}
          /\ connected' \subseteq connected /\ p \notin connected'
      BY <1>2, <1>3, <1>7 DEF RemoveStale, SetFile
    <2>2. p \notin away /\ OneLaunch /\ Behind(p) => Behind(p)'
      BY <1>2, <1>3, <1>4, <1>7 DEF RemoveStale, SetFile, SetDaemon, Behind, Free
    <2> QED
      BY <1>1, <2>1, <2>2, DaemonStep
  <1>8. CASE Listen(p)
    <2>1. /\ SetDaemon(p, "chmod") /\ file' \in [owner : 0 .. MaxDaemons, open : BOOLEAN]
          /\ p \in away => file' = file
          /\ file'.owner \in {0, file.owner, p}
          /\ listening' = listening \cup {p}
          /\ connected' \subseteq connected /\ p \notin connected'
      BY <1>2, <1>3, <1>8 DEF Listen, SetFile
    <2>2. p \notin away /\ OneLaunch /\ Behind(p) => Behind(p)'
      BY <1>2, <1>3, <1>4, <1>8 DEF Listen, SetFile, SetDaemon, Behind, Free
    <2> QED
      BY <1>1, <2>1, <2>2, DaemonStep
  <1>9. CASE ListenFails(p)
    <2>1. /\ SetDaemon(p, "unbound") /\ file' \in [owner : 0 .. MaxDaemons, open : BOOLEAN]
          /\ p \in away => file' = file
          /\ file'.owner \in {0, file.owner, p}
          /\ listening' = listening \ {p}
          /\ connected' \subseteq connected /\ p \notin connected'
      BY <1>2, <1>3, <1>9 DEF ListenFails
    <2>2. p \notin away /\ OneLaunch /\ Behind(p) => Behind(p)'
      BY <1>2, <1>3, <1>4, <1>9 DEF ListenFails, SetDaemon, Behind
    <2> QED
      BY <1>1, <2>1, <2>2, DaemonStep
  <1>10. CASE Chmod(p)
    <2>1. /\ SetDaemon(p, "serve") /\ file' \in [owner : 0 .. MaxDaemons, open : BOOLEAN]
          /\ p \in away => file' = file
          /\ file'.owner \in {0, file.owner, p}
          /\ listening' = listening \cup {p}
          /\ connected' \subseteq connected
      <3>1. file' = IF p \in away THEN file ELSE [file EXCEPT !.open = (file.owner # 0)]
        BY <1>10 DEF Chmod, SetFile
      <3>2. /\ file' \in [owner : 0 .. MaxDaemons, open : BOOLEAN]
            /\ p \in away => file' = file
            /\ file'.owner = file.owner
        BY <1>2, <3>1
      <3> QED
        BY <1>3, <1>10, <3>2 DEF Chmod
    <2>2. p \notin away /\ OneLaunch /\ Behind(p) => Behind(p)'
      <3>1. network = "tcp" => UNCHANGED <<listening, network, away>>
        BY <1>10 DEF Chmod, SetDaemon
      <3>2. ASSUME file = [owner |-> p, open |-> FALSE], p \notin away
            PROVE  file' = [owner |-> p, open |-> TRUE]
        <4>1. file' = [file EXCEPT !.open = (file.owner # 0)] /\ file.owner = p
          BY <1>10, <3>2 DEF Chmod, SetFile
        <4>2. (file.owner # 0) = TRUE
          BY <1>2, <4>1
        <4>3. file' = [file EXCEPT !.open = TRUE]
          BY <4>1, <4>2, Zenon
        <4> QED
          BY <3>2, <4>3
      <3> QED
        BY <1>2, <1>10, <3>1, <3>2 DEF Chmod, SetDaemon, Behind, Reached
    <2> QED
      BY <1>1, <2>1, <2>2, DaemonStep
  <1>11. CASE Signal(p)
    <2>1. /\ SetDaemon(p, "disconnect") /\ file' \in [owner : 0 .. MaxDaemons, open : BOOLEAN]
          /\ p \in away => file' = file
          /\ file'.owner \in {0, file.owner, p}
          /\ listening' = listening \cup {p}
          /\ connected' \subseteq connected
      BY <1>2, <1>3, <1>11 DEF Signal
    <2>2. p \notin away /\ OneLaunch /\ Behind(p) => Behind(p)'
      BY <1>2, <1>3, <1>4, <1>11 DEF Signal, SetDaemon, Behind, Reached
    <2> QED
      BY <1>1, <2>1, <2>2, DaemonStep
  <1>12. CASE Disconnect(p)
    <2>1. /\ SetDaemon(p, "close") /\ file' \in [owner : 0 .. MaxDaemons, open : BOOLEAN]
          /\ p \in away => file' = file
          /\ file'.owner \in {0, file.owner, p}
          /\ listening' = listening \cup {p}
          /\ connected' \subseteq connected
      BY <1>2, <1>3, <1>12 DEF Disconnect
    <2>2. p \notin away /\ OneLaunch /\ Behind(p) => Behind(p)'
      BY <1>2, <1>3, <1>4, <1>12 DEF Disconnect, SetDaemon, Behind, Reached
    <2> QED
      BY <1>1, <2>1, <2>2, DaemonStep
  <1>13. CASE CloseListener(p)
    <2>1. /\ SetDaemon(p, "remove") /\ file' \in [owner : 0 .. MaxDaemons, open : BOOLEAN]
          /\ p \in away => file' = file
          /\ file'.owner \in {0, file.owner, p}
          /\ listening' = listening \ {p}
          /\ connected' \subseteq connected
      BY <1>2, <1>3, <1>13 DEF CloseListener, SetFile
    <2>2. p \notin away /\ OneLaunch /\ Behind(p) => Behind(p)'
      BY <1>2, <1>3, <1>4, <1>13 DEF CloseListener, SetFile, SetDaemon, Behind
    <2> QED
      BY <1>1, <2>1, <2>2, DaemonStep
  <1>14. CASE RemoveFile(p)
    <2>1. /\ SetDaemon(p, "gone") /\ file' \in [owner : 0 .. MaxDaemons, open : BOOLEAN]
          /\ p \in away => file' = file
          /\ file'.owner \in {0, file.owner, p}
          /\ listening' = listening \ {p}
          /\ connected' \subseteq connected /\ p \notin connected'
      BY <1>2, <1>3, <1>14 DEF RemoveFile, SetFile
    <2>2. p \notin away /\ OneLaunch /\ Behind(p) => Behind(p)'
      BY <1>2, <1>3, <1>4, <1>14 DEF RemoveFile, SetFile, SetDaemon, Behind
    <2> QED
      BY <1>1, <2>1, <2>2, DaemonStep
  <1>15. CASE Kill(p)
    <2>1. /\ SetDaemon(p, "killed") /\ file' \in [owner : 0 .. MaxDaemons, open : BOOLEAN]
          /\ p \in away => file' = file
          /\ file'.owner \in {0, file.owner, p}
          /\ listening' = listening \ {p}
          /\ connected' \subseteq connected /\ p \notin connected'
      BY <1>2, <1>3, <1>15 DEF Kill
    <2>2. p \notin away /\ OneLaunch /\ Behind(p) => Behind(p)'
      BY <1>2, <1>3, <1>4, <1>15 DEF Kill, SetDaemon, Behind
    <2> QED
      BY <1>1, <2>1, <2>2, DaemonStep
  <1> QED
    BY <1>5, <1>6, <1>7, <1>8, <1>9, <1>10, <1>11, <1>12, <1>13, <1>14, <1>15 DEF DaemonNext

-----------------------------------------------------------------------------
(* The requests                                                            *)

\* A request, in flight or not.
RequestType ==
    [pc : {"idle", "dial", "launch", "poll", "sent"}, kind : Kinds \cup {"none"},
     daemon : 0 .. MaxDaemons, polls : 0 .. MaxPolls]

\* A request that leaves the daemons alone, their tunnels aside.
LEMMA RequestKeepsBooks ==
    ASSUME Types, Books, NEW h \in UIHandlers, NEW r \in RequestType,
           SetUI(h, r),
           r.pc \in {"poll", "sent"} => r.daemon \in Daemons,
           connected' \subseteq {p \in Daemons : daemon[p] \in Serving}
    PROVE  Types' /\ Books'
  <1>1. ui' = [ui EXCEPT ![h] = r] /\ UNCHANGED <<network, file, daemon, away, listening>>
    BY DEF SetUI, daemonVars
  <1>2. ui \in [UIHandlers -> RequestType] /\ ui' \in [UIHandlers -> RequestType]
    BY <1>1 DEF Types, RequestType
  <1>3. \A g \in UIHandlers : ui'[g].pc \in {"poll", "sent"} => ui'[g].daemon \in Daemons
    BY <1>1, <1>2 DEF Types
  <1>4. Types'
    BY <1>1, <1>2, <1>3 DEF Types, RequestType
  <1>5. Books'
    BY <1>1 DEF Books
  <1> QED
    BY <1>4, <1>5

\* A request that does not launch a daemon, and is not needed by one whose
\* prompt has not been answered.
LEMMA RequestStep ==
    ASSUME LauncherInv, NEW h \in UIHandlers, NEW r \in RequestType,
           SetUI(h, r),
           r.pc \in {"poll", "sent"} => r.daemon \in Daemons,
           connected' \subseteq {p \in Daemons : daemon[p] \in Serving},
           races' = races,
           \/ r.pc \notin {"launch", "poll"}
           \/ r.pc = "poll" /\ ui[h].pc = "poll" /\ r.daemon = ui[h].daemon,
           ui[h].pc = "poll" /\ r.pc # "poll" /\ OneLaunch => daemon[ui[h].daemon] # "prompt"
    PROVE  LauncherInv'
  <1>1. Types' /\ Books'
    BY RequestKeepsBooks DEF LauncherInv
  <1>2. /\ ui' = [ui EXCEPT ![h] = r] /\ ui \in [UIHandlers -> RequestType]
        /\ UNCHANGED <<network, file, daemon, away, listening>>
    BY DEF SetUI, daemonVars, LauncherInv, Types, RequestType
  <1>3. SUFFICES ASSUME races = {}, OneLaunch, \A p \in Daemons \ away : Behind(p)
                 PROVE  OneLaunch' /\ \A p \in Daemons \ away : Behind(p)'
    BY <1>1, <1>2 DEF LauncherInv
  <1>4. \A g \in UIHandlers : ui'[g] = IF g = h THEN r ELSE ui[g]
    BY <1>2
  <1>5. Active' = Active
    BY <1>2 DEF Active
  <1>6. OneLaunch'
    BY <1>3, <1>4, <1>5 DEF OneLaunch, Launching
  <1>7. ASSUME NEW p \in Daemons \ away PROVE Behind(p)'
    <2>1. daemon[p] = "prompt" => \E g \in UIHandlers : ui'[g].pc = "poll" /\ ui'[g].daemon = p
      BY <1>3, <1>4 DEF Behind
    <2>2. (Free' <=> Free) /\ (Reached(p)' <=> Reached(p))
      BY <1>2 DEF Free, Reached
    <2> QED
      BY <1>2, <1>3, <2>1, <2>2 DEF Behind
  <1> QED
    BY <1>6, <1>7

\* A request that ends, or has not begun to launch, is no launching one.
LEMMA IdleType ==
    ASSUME NEW k \in Kinds
    PROVE  Idle \in RequestType /\ [Idle EXCEPT !.pc = "dial", !.kind = k] \in RequestType
  <1>1. 0 \in 0 .. MaxDaemons /\ 0 \in 0 .. MaxPolls
    BY LauncherAssumption
  <1>2. Idle \in RequestType
    BY <1>1 DEF Idle, RequestType
  <1>3. \A r \in RequestType : [r EXCEPT !.pc = "dial", !.kind = k] \in RequestType
    BY DEF RequestType
  <1> QED
    BY <1>2, <1>3

\* The start request that finds no daemon finds none to be there, but for
\* what it cannot see.
LEMMA StartCheckStep ==
    ASSUME LauncherInv, NEW h \in UIHandlers, StartCheck(h)
    PROVE  LauncherInv'
  <1> DEFINE r == [ui[h] EXCEPT !.pc = "launch"]
  <1>1. /\ ui[h] \in RequestType /\ ui[h].pc = "dial" /\ r \in RequestType /\ r.pc = "launch"
        /\ Idle \in RequestType /\ Idle.pc = "idle" /\ ui \in [UIHandlers -> RequestType]
        /\ connected' = connected
        /\ connected \subseteq {p \in Daemons : daemon[p] \in Serving}
    BY IdleType DEF LauncherInv, Types, Books, RequestType, StartCheck, Idle, Kinds
  <1> HIDE DEF r
  <1>2. CASE Dialled # 0
    <2>1. SetUI(h, Idle) /\ races' = races
      BY <1>2 DEF StartCheck, Respond
    <2> QED
      BY <1>1, <2>1, RequestStep
  <1>3. CASE Dialled = 0
    <2>1. SetUI(h, r) /\ races' = races \cup Unseen(h)
      BY <1>3 DEF StartCheck, r
    <2>2. Types' /\ Books'
      BY <1>1, <2>1, RequestKeepsBooks DEF LauncherInv
    <2>3. SUFFICES ASSUME races = {}, OneLaunch, \A p \in Daemons \ away : Behind(p),
                          Unseen(h) = {}
                   PROVE  OneLaunch' /\ \A p \in Daemons \ away : Behind(p)'
      BY <2>1, <2>2 DEF LauncherInv, SetUI, daemonVars
    <2>4. \A g \in UIHandlers : ui[g].pc \notin {"launch", "poll"}
      BY <1>1, <2>3 DEF Unseen
    <2>5. \A p \in Daemons \ away : daemon[p] \notin Starting \cup {"remove"}
      BY <2>3 DEF Unseen
    <2>6. Active = {}
      <3> SUFFICES ASSUME NEW p \in Active PROVE FALSE
        OBVIOUS
      <3>1. p \in Daemons \ away /\ p # 0 /\ Behind(p)
        BY <2>3, LauncherAssumption DEF Active, Daemons
      <3>2. daemon[p] # "prompt"
        BY <2>4, <3>1 DEF Behind
      <3>3. daemon[p] \in {"serve", "disconnect", "close"}
        BY <2>5, <3>1, <3>2 DEF Active, Serving
      <3>4. Reached(p) /\ daemon[p] \in Bound
        BY <3>1, <3>3 DEF Behind, Bound
      <3> QED
        BY <1>3, <3>1, <3>4, DialledListens DEF LauncherInv
    <2>7. /\ ui' = [ui EXCEPT ![h] = r] /\ UNCHANGED <<network, file, daemon, away, listening>>
      BY <2>1 DEF SetUI, daemonVars
    <2>8. Active' = {} /\ \A g \in UIHandlers : ui'[g] = IF g = h THEN r ELSE ui[g]
      BY <1>1, <2>6, <2>7 DEF Active
    <2>9. OneLaunch'
      BY <1>1, <2>4, <2>8 DEF OneLaunch, Launching
    <2>10. ASSUME NEW p \in Daemons \ away PROVE Behind(p)'
      BY <2>3, <2>6, <2>7 DEF Behind, Active, Starting, Serving
    <2> QED
      BY <2>9, <2>10
  <1> QED
    BY <1>2, <1>3

\* The daemon that is started is a new one.
LEMMA FreshDaemon ==
    ASSUME Types, Books, Launched # Daemons
    PROVE  /\ Cardinality(Launched) + 1 \in Daemons
           /\ \A p \in Daemons : daemon[p] = "none" <=> p >= Cardinality(Launched) + 1
  <1>1. MaxDaemons \in Nat /\ Daemons = 1 .. MaxDaemons
    BY LauncherAssumption DEF Daemons
  <1>2. PICK n \in 0 .. MaxDaemons : \A p \in Daemons : daemon[p] = "none" <=> p > n
    BY DEF Books
  <1>3. Launched = 1 .. n
    BY <1>1, <1>2 DEF Launched
  <1>4. Cardinality(Launched) = n
    <2>1. Cardinality(1 .. n) = IF 1 > n THEN 0 ELSE n - 1 + 1
      BY <1>1, FS_Interval
    <2> QED
      BY <1>1, <1>3, <2>1
  <1>5. n # MaxDaemons
    BY <1>1, <1>3
  <1> QED
    BY <1>1, <1>2, <1>4, <1>5

\* A new daemon, of either name, keeps the books.
LEMMA FreshKeepsBooks ==
    ASSUME Types, Books,
           NEW c \in Daemons, \A p \in Daemons : daemon[p] = "none" <=> p >= c,
           NEW pc \in {"prompt", "start"}, daemon' = [daemon EXCEPT ![c] = pc],
           away' \subseteq away \cup {c}, away \subseteq away', pc = "prompt" => away' = away,
           UNCHANGED <<network, file, listening, connected>>,
           ui' \in [UIHandlers -> RequestType],
           \A g \in UIHandlers : ui'[g].pc \in {"poll", "sent"} => ui'[g].daemon \in Daemons
    PROVE  /\ Types' /\ Books' /\ daemon[c] = "none" /\ c \notin listening /\ c \notin away
           /\ \A p \in Daemons : daemon'[p] = IF p = c THEN pc ELSE daemon[p]
  <1>1. daemon \in [Daemons -> Places] /\ MaxDaemons \in Nat /\ Daemons = 1 .. MaxDaemons
    BY LauncherAssumption DEF Types, Daemons
  <1>2. daemon[c] = "none"
    BY <1>1
  <1>3. \A p \in Daemons : daemon'[p] = IF p = c THEN pc ELSE daemon[p]
    BY <1>1, <1>2
  <1>4. Types'
    <2>1. daemon' \in [Daemons -> Places] /\ away' \subseteq Daemons
      BY <1>1, <1>2 DEF Places, Starting, Types
    <2> QED
      BY <2>1 DEF Types, RequestType
  <1>5. listening' = {p \in Daemons : daemon'[p] \in Bound} /\ c \notin listening
    BY <1>1, <1>2, <1>3 DEF Books, Bound
  <1>6. connected' \subseteq {p \in Daemons : daemon'[p] \in Serving}
    BY <1>1, <1>2, <1>3 DEF Books, Serving
  <1>7. \E n \in 0 .. MaxDaemons : \A p \in Daemons : daemon'[p] = "none" <=> p > n
    <2>1. \A p \in Daemons : daemon'[p] = "none" <=> p > c
      BY <1>1, <1>2, <1>3
    <2>2. c \in 0 .. MaxDaemons
      BY <1>1, <1>2
    <2> QED
      BY <2>1, <2>2, Zenon
  <1>8. file'.owner # 0 => file'.owner \notin away' /\ daemon'[file'.owner] # "none"
    <2>1. file.owner # 0 => file.owner \in Daemons
      BY <1>1, <1>2 DEF Types
    <2> QED
      BY <1>1, <1>2, <1>3, <2>1 DEF Books
  <1>9. c \notin away /\ \A p \in away' : daemon'[p] \notin {"none", "prompt"}
    <2>1. c \notin away /\ away \subseteq Daemons
      BY <1>1, <1>2 DEF Books, Types
    <2> QED
      BY <1>1, <1>2, <1>3, <2>1 DEF Books
  <1> QED
    BY <1>1, <1>2, <1>3, <1>4, <1>5, <1>6, <1>7, <1>8, <1>9 DEF Books

\* A start request launches a daemon: there is none, and there will be one.
LEMMA LaunchStep ==
    ASSUME LauncherInv, NEW h \in UIHandlers, Launch(h)
    PROVE  LauncherInv'
  <1> DEFINE c == Cardinality(Launched) + 1
  <1>1. /\ ui[h].pc = "launch" /\ daemon' = [daemon EXCEPT ![c] = "prompt"]
        /\ ui' = [ui EXCEPT ![h].pc = "poll", ![h].daemon = c]
        /\ Launched # Daemons
        /\ UNCHANGED <<network, file, away, listening, connected, races>>
    BY DEF Launch
  <1>2. c \in Daemons /\ \A p \in Daemons : daemon[p] = "none" <=> p >= c
    BY <1>1, FreshDaemon DEF LauncherInv
  <1>3. /\ ui \in [UIHandlers -> RequestType] /\ Daemons = 1 .. MaxDaemons /\ MaxDaemons \in Nat
        /\ away \subseteq Daemons
    BY LauncherAssumption DEF LauncherInv, Types, RequestType, Daemons
  <1> HIDE DEF c
  <1>4. /\ \A g \in UIHandlers : g # h => ui'[g] = ui[g]
        /\ ui'[h].pc = "poll" /\ ui'[h].daemon = c
        /\ ui' \in [UIHandlers -> RequestType]
    <2> DEFINE r == [ui[h] EXCEPT !.pc = "poll", !.daemon = c]
    <2>1. ui' = [ui EXCEPT ![h] = r]
      BY <1>1, <1>3
    <2>2. r \in RequestType /\ r.pc = "poll" /\ r.daemon = c
      <3>1. ui[h] \in RequestType /\ c \in 0 .. MaxDaemons
        BY <1>2, <1>3
      <3> QED
        BY <3>1 DEF RequestType
    <2> HIDE DEF r
    <2> QED
      BY <1>3, <2>1, <2>2
  <1>5. \A g \in UIHandlers : ui'[g].pc \in {"poll", "sent"} => ui'[g].daemon \in Daemons
    BY <1>2, <1>4 DEF LauncherInv, Types
  <1>6. /\ Types' /\ Books' /\ daemon[c] = "none"
        /\ \A p \in Daemons : daemon'[p] = IF p = c THEN "prompt" ELSE daemon[p]
    <2>1. Types /\ Books
      BY DEF LauncherInv
    <2> QED
      BY <1>1, <1>2, <1>4, <1>5, <2>1, FreshKeepsBooks
  <1>7. SUFFICES ASSUME races = {}, OneLaunch, \A p \in Daemons \ away : Behind(p)
                 PROVE  OneLaunch' /\ \A p \in Daemons \ away : Behind(p)'
    BY <1>1, <1>6 DEF LauncherInv
  <1>8. Active = {} /\ \A g \in UIHandlers : ui[g].pc \in {"launch", "poll"} => g = h
    BY <1>1, <1>7 DEF OneLaunch, Launching
  <1>9. Active' \subseteq {c}
    BY <1>1, <1>6, <1>8 DEF Active
  <1>10. OneLaunch'
    BY <1>4, <1>8, <1>9 DEF OneLaunch, Launching
  <1>11. ASSUME NEW p \in Daemons \ away PROVE Behind(p)'
    <2>1. CASE p = c
      BY <1>4, <1>6, <2>1 DEF Behind
    <2>2. CASE p # c
      BY <1>6, <1>7, <1>8, <2>2 DEF Behind, Active, Starting, Serving
    <2> QED
      BY <2>1, <2>2
  <1> QED
    BY <1>10, <1>11

\* A daemon is started by hand: there is none of its name and none is about to
\* be launched, or it is one the start has raced.
LEMMA ByHandStep ==
    ASSUME LauncherInv, NEW shared \in BOOLEAN, StartByHand(shared)
    PROVE  LauncherInv'
  <1> DEFINE c == Cardinality(Launched) + 1
             taken == \/ \E e \in Daemons \ away : e \in Alive \/ daemon[e] = "prompt"
                      \/ \E h \in UIHandlers : ui[h].pc = "launch"
  <1>1. /\ daemon' = [daemon EXCEPT ![c] = "start"] /\ Launched # Daemons
        /\ away' = IF shared THEN away ELSE away \cup {c}
        /\ UNCHANGED <<network, file, listening, connected, ui>>
    BY DEF StartByHand
  <1>2. races' = {} => races = {} /\ ~ (shared /\ taken)
    BY DEF StartByHand
  <1>3. c \in Daemons /\ \A p \in Daemons : daemon[p] = "none" <=> p >= c
    BY <1>1, FreshDaemon DEF LauncherInv
  <1> HIDE DEF c, taken
  <1>4. /\ Types' /\ Books' /\ daemon[c] = "none" /\ c \notin listening
        /\ \A p \in Daemons : daemon'[p] = IF p = c THEN "start" ELSE daemon[p]
    <2>1. Types /\ Books
      BY DEF LauncherInv
    <2>2. /\ ui' \in [UIHandlers -> RequestType]
          /\ \A g \in UIHandlers : ui'[g].pc \in {"poll", "sent"} => ui'[g].daemon \in Daemons
      BY <1>1, <2>1 DEF Types, RequestType
    <2>3. away' \subseteq away \cup {c} /\ away \subseteq away'
      BY <1>1
    <2> QED
      BY <1>1, <1>3, <2>1, <2>2, <2>3, FreshKeepsBooks
  <1>5. SUFFICES ASSUME races = {}, OneLaunch, \A p \in Daemons \ away : Behind(p),
                        ~ (shared /\ taken)
                 PROVE  OneLaunch' /\ \A p \in Daemons \ away' : Behind(p)'
    BY <1>2, <1>4 DEF LauncherInv
  <1>6. shared => Active = {} /\ \A h \in UIHandlers : ui[h].pc # "launch"
    BY <1>5 DEF taken, Active, Alive
  <1>7. ~ shared => Active' \subseteq Active
    BY <1>1, <1>4 DEF Active
  <1>8. shared => Active' \subseteq {c}
    BY <1>1, <1>4, <1>6 DEF Active
  <1>9. OneLaunch'
    BY <1>1, <1>5, <1>6, <1>7, <1>8 DEF OneLaunch, Launching
  <1>10. ASSUME NEW p \in Daemons \ away' PROVE Behind(p)'
    <2>1. CASE p = c
      BY <1>4, <2>1 DEF Behind
    <2>2. CASE p # c
      <3>1. Behind(p) /\ daemon'[p] = daemon[p]
        BY <1>1, <1>4, <1>5, <1>10, <2>2
      <3>2. listening' \ away' = listening \ away /\ (listening' \subseteq away' <=> listening \subseteq away)
        BY <1>1, <1>4
      <3>3. (Reached(p)' <=> Reached(p)) /\ (Free' <=> Free)
        BY <1>1, <3>2 DEF Reached, Free
      <3> QED
        BY <1>1, <3>1, <3>2, <3>3 DEF Behind
    <2> QED
      BY <2>1, <2>2
  <1> QED
    BY <1>9, <1>10

\* A step of a request, action by action.  A start request ends when its
\* daemon answers, or when there is none.
LEMMA RequestNextStep ==
    ASSUME LauncherInv, NEW h \in UIHandlers,
           \/ \E k \in Kinds : Begin(h, k)
           \/ StartNext(h) \/ Dial(h) \/ Handle(h) \/ Broken(h)
    PROVE  LauncherInv'
  <1>1. /\ ui \in [UIHandlers -> RequestType] /\ ui[h] \in RequestType
        /\ connected \subseteq {p \in Daemons : daemon[p] \in Serving}
        /\ ui[h].pc \in {"poll", "sent"} => ui[h].daemon \in Daemons
    BY DEF LauncherInv, Types, Books, RequestType
  <1>2. Idle \in RequestType /\ Idle.pc = "idle"
    BY IdleType DEF Idle, Kinds
  <1>3. ASSUME ui[h].pc # "poll", SetUI(h, Idle), races' = races,
               connected' \subseteq {p \in Daemons : daemon[p] \in Serving}
        PROVE  LauncherInv'
    BY <1>2, <1>3, RequestStep
  <1>4. ASSUME NEW k \in Kinds, Begin(h, k) PROVE LauncherInv'
    <2> DEFINE r == [Idle EXCEPT !.pc = "dial", !.kind = k]
    <2>1. r \in RequestType /\ r.pc = "dial"
      BY IdleType DEF Idle
    <2>2. SetUI(h, r) /\ ui[h].pc = "idle" /\ UNCHANGED <<connected, races>>
      BY <1>4 DEF Begin
    <2> HIDE DEF r
    <2> QED
      BY <1>1, <2>1, <2>2, RequestStep
  <1>5. CASE LaunchFails(h)
    BY <1>1, <1>3, <1>5 DEF LaunchFails, Respond
  <1>6. CASE Poll(h)
    <2>1. CASE Dialled = 0
      <3> DEFINE r == [ui[h] EXCEPT !.polls = @ + 1]
      <3>1. SetUI(h, r) /\ ui[h].pc = "poll" /\ UNCHANGED <<connected, races>>
        BY <1>6, <2>1 DEF Poll
      <3>2. r \in RequestType /\ r.pc = "poll" /\ r.daemon = ui[h].daemon
        BY <1>1, <1>6, LauncherAssumption DEF Poll, RequestType
      <3> HIDE DEF r
      <3> QED
        BY <1>1, <3>1, <3>2, RequestStep
    <2>2. CASE Dialled # 0
      <3>1. SetUI(h, Idle) /\ ui[h].pc = "poll" /\ UNCHANGED <<connected, races>>
        BY <1>6, <2>2 DEF Poll, Respond
      <3>2. ASSUME OneLaunch PROVE daemon[ui[h].daemon] # "prompt"
        <4>1. Dialled \in Daemons \ away /\ daemon[Dialled] \in Bound
          BY <2>2, DialledListens DEF LauncherInv, Books
        <4>2. Dialled \in Active
          BY <4>1 DEF Active, Bound, Starting, Serving
        <4> QED
          BY <1>1, <3>1, <3>2, <4>1, <4>2 DEF OneLaunch, Active, Bound, LauncherInv, Books
      <3> QED
        BY <1>1, <1>2, <3>1, <3>2, RequestStep
    <2> QED
      BY <2>1, <2>2
  <1>7. CASE PollTimeout(h)
    <2>1. /\ SetUI(h, Idle) /\ ui[h].pc = "poll" /\ UNCHANGED connected
          /\ races' = races \cup (IF ui[h].daemon \in Alive \/ daemon[ui[h].daemon] = "prompt"
                                  THEN {"late"} ELSE {})
      BY <1>7 DEF PollTimeout, Respond
    <2>2. CASE ui[h].daemon \in Alive \/ daemon[ui[h].daemon] = "prompt"
      <3>1. Types' /\ Books'
        BY <1>1, <1>2, <2>1, RequestKeepsBooks DEF LauncherInv
      <3>2. races' # {}
        BY <2>1, <2>2
      <3> QED
        BY <3>1, <3>2 DEF LauncherInv
    <2>3. CASE ~ (ui[h].daemon \in Alive \/ daemon[ui[h].daemon] = "prompt")
      <3>1. races' = races
        BY <2>1, <2>3
      <3>2. daemon[ui[h].daemon] # "prompt"
        BY <2>3
      <3> QED
        BY <1>1, <1>2, <2>1, <3>1, <3>2, RequestStep
    <2> QED
      BY <2>2, <2>3
  <1>8. CASE Dial(h)
    <2>1. CASE Dialled = 0
      BY <1>1, <1>3, <1>8, <2>1 DEF Dial, Respond
    <2>2. CASE Dialled # 0
      <3> DEFINE r == [ui[h] EXCEPT !.pc = "sent", !.daemon = Dialled]
      <3>1. SetUI(h, r) /\ ui[h].pc = "dial" /\ UNCHANGED <<connected, races>>
        BY <1>8, <2>2 DEF Dial
      <3>2. Dialled \in 0 .. MaxDaemons /\ Dialled \in Daemons
        BY <2>2, DialledListens DEF LauncherInv, Books
      <3>3. r \in RequestType /\ r.pc = "sent" /\ r.daemon \in Daemons
        BY <1>1, <3>2 DEF RequestType
      <3> HIDE DEF r
      <3> QED
        BY <1>1, <3>1, <3>3, RequestStep
    <2> QED
      BY <2>1, <2>2
  <1>9. CASE Handle(h)
    <2>1. connected' \subseteq connected \cup {ui[h].daemon}
      BY <1>9 DEF Handle
    <2>2. /\ ui[h].pc = "sent" /\ daemon[ui[h].daemon] \in Serving
          /\ SetUI(h, Idle) /\ races' = races
      BY <1>9 DEF Handle, Respond
    <2>3. connected' \subseteq {p \in Daemons : daemon[p] \in Serving}
      BY <1>1, <2>1, <2>2
    <2> QED
      BY <1>3, <2>2, <2>3
  <1>10. CASE Broken(h)
    BY <1>1, <1>3, <1>10 DEF Broken, Respond
  <1> QED
    BY <1>4, <1>5, <1>6, <1>7, <1>8, <1>9, <1>10, StartCheckStep, LaunchStep DEF StartNext

\* Before anything is launched.
LEMMA LauncherStarts == UIInit => LauncherInv
  <1> SUFFICES ASSUME UIInit PROVE LauncherInv
    OBVIOUS
  <1>1. \A p \in Daemons : daemon[p] = "none"
    BY DEF UIInit
  <1>2. \A h \in UIHandlers : ui[h] = Idle
    BY DEF UIInit
  <1>3. Types
    <2>1. network \in {"unix", "tcp"} /\ daemon \in [Daemons -> Places]
      BY LauncherAssumption DEF UIInit, Places
    <2>2. file \in [owner : 0 .. MaxDaemons, open : BOOLEAN]
      BY LauncherAssumption DEF UIInit, NoFile
    <2>3. Idle \in RequestType /\ Idle.pc = "idle"
      BY IdleType DEF Idle, Kinds
    <2> QED
      BY <1>2, <2>1, <2>2, <2>3 DEF Types, RequestType, UIInit
  <1>4. Books
    <2>1. \A p \in Daemons : p > 0
      BY LauncherAssumption DEF Daemons
    <2>2. 0 \in 0 .. MaxDaemons
      BY LauncherAssumption
    <2>3. \E n \in 0 .. MaxDaemons : \A p \in Daemons : daemon[p] = "none" <=> p > n
      BY <1>1, <2>1, <2>2
    <2> QED
      BY <1>1, <2>3 DEF UIInit, Books, Bound, NoFile
  <1>5. OneLaunch /\ \A p \in Daemons : Behind(p)
    <2>1. Active = {} /\ Launching = {}
      BY <1>1, <1>2 DEF Active, Launching, Idle, Starting, Serving
    <2> QED
      BY <1>1, <1>2, <2>1 DEF OneLaunch, Behind, Idle
  <1> QED
    BY <1>3, <1>4, <1>5 DEF LauncherInv

\* The invariant is inductive.
LEMMA LauncherSteps == LauncherInv /\ [UINext]_uiVars => LauncherInv'
  <1> SUFFICES ASSUME LauncherInv, [UINext]_uiVars PROVE LauncherInv'
    OBVIOUS
  <1>1. CASE UNCHANGED uiVars
    BY <1>1 DEF uiVars, LauncherInv, Types, Books, OneLaunch, Behind, Reached, Free,
                Active, Launching
  <1> QED
    BY <1>1, DaemonNextStep, ByHandStep, RequestNextStep DEF UINext

(***************************************************************************)
(* Unless a start was raced, at most one daemon has the name at which      *)
(* ant-ui looks: for any number of requests in flight, of polls and of     *)
(* daemons started, by ant-ui, by hand, by a service manager, with the     *)
(* shared name and with others, on Unix and on Windows.                    *)
(***************************************************************************)
THEOREM AtMostOneDaemon == UISpec => []OneDaemon
  <1>1. LauncherInv => OneDaemon
    <2> DEFINE here == Alive \ away
    <2> SUFFICES ASSUME LauncherInv, races = {} PROVE Cardinality(here) <= 1
      BY DEF OneDaemon
    <2>1. \A c, p \in here : c = p
      BY DEF LauncherInv, OneLaunch, Active, Alive
    <2> HIDE DEF here
    <2>2. CASE here = {}
      BY <2>2, FS_EmptySet
    <2>3. CASE here # {}
      <3>1. PICK p \in here : here = {p}
        BY <2>1, <2>3
      <3>2. Cardinality({p}) = 1
        BY FS_Singleton, Zenon
      <3> QED
        BY <3>1, <3>2
    <2> QED
      BY <2>2, <2>3
  <1>2. UIInit => LauncherInv
    BY LauncherStarts
  <1>3. LauncherInv /\ [UINext]_uiVars => LauncherInv'
    BY LauncherSteps
  <1> QED
    BY <1>1, <1>2, <1>3, PTL DEF UISpec

(***************************************************************************)
(* Under the same condition a daemon that was started with the shared name *)
(* can bind it, and requests reach the daemon that serves, and so the one  *)
(* that was told to connect.                                               *)
(***************************************************************************)
THEOREM ServingDaemonIsReachable == UISpec => []ServingIsReachable
  <1>1. LauncherInv => ServingIsReachable
    <2> SUFFICES ASSUME LauncherInv, races = {}, NEW p \in Daemons \ away
                 PROVE  /\ daemon[p] # "unbound"
                        /\ daemon[p] \in {"serve", "disconnect"} => Dialled = p
                        /\ p \in connected => Dialled \in {0, p}
      BY DEF ServingIsReachable
    <2>1. Behind(p) /\ OneLaunch /\ Types /\ Books
      BY DEF LauncherInv
    <2>2. daemon[p] \in {"serve", "disconnect"} => Dialled = p
      BY <2>1, DialledListens DEF Behind, Bound
    <2>3. ASSUME p \in connected, Dialled # 0 PROVE Dialled = p
      <3>1. Dialled \in listening \ away
        BY <2>1, <2>3, DialledListens
      <3>2. Dialled \in Active
        BY <2>1, <3>1 DEF Books, Active, Bound, Starting, Serving
      <3>3. p \in Active
        BY <2>1, <2>3 DEF Books, Active, Serving
      <3> QED
        BY <2>1, <3>2, <3>3 DEF OneLaunch
    <2> QED
      BY <2>1, <2>2, <2>3 DEF Behind
  <1>2. UIInit => LauncherInv
    BY LauncherStarts
  <1>3. LauncherInv /\ [UINext]_uiVars => LauncherInv'
    BY LauncherSteps
  <1> QED
    BY <1>1, <1>2, <1>3, PTL DEF UISpec

=============================================================================
