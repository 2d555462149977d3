-------------------------- MODULE MobileBridgeProofs --------------------------
(***************************************************************************)
(* The engines of the mobile bridge, for any number of tunnels started:    *)
(* no callback leaves one half stopped or a transport open, the only       *)
(* engines StopTunnel loses are those whose start ran into a stop, and     *)
(* nothing panics before a running tunnel is stopped.                      *)
(*                                                                         *)
(* The argument turns on globalEngine, which start and stop share without  *)
(* a lock.  A start that is past its check has found no engine, or one     *)
(* that StopTunnel has finished with but for the last assignment; so while *)
(* StopTunnel takes an engine apart the variable does not change under it. *)
(***************************************************************************)
EXTENDS MobileBridge, TLAPS

StartSteps == {"idle", "check", "check running", "dial", "handshake", "activate"}
StopSteps == {"idle", "check", "lock", "close stopCh", "close transport", "wipe",
              "not running", "clear"}
PacketSteps == {"idle", "loop", "check", "check running", "count", "encrypt", "send"}
IngressSteps == {"none", "receive", "decrypt", "done"}

\* The steps of StopTunnel that use the engine it has found.
Stopping == {"lock", "close stopCh", "close transport", "wipe", "not running"}

TypeInv ==
    /\ TypeOK
    /\ start \in StartSteps /\ stop \in StopSteps /\ packet \in PacketSteps
    /\ stats \in {"idle", "read"}
    /\ ingress \in [Engines -> IngressSteps]
    /\ start \in {"check", "check running", "dial"} => made < MaxEngines
    /\ start = "handshake" => made \in Engines /\ made \notin published /\ made \notin closed
    /\ globalEngine # 0 => globalEngine \in published

\* Who may find what in globalEngine.
Global ==
    /\ globalEngine # 0 => globalEngine \in running \/ stop = "clear"
    /\ start \in {"dial", "handshake"} =>
          globalEngine = 0 \/ (stop = "clear" /\ globalEngine \notin running)
    /\ stop \in Stopping => globalEngine # 0

\* An engine is undone part by part, in the order of StopTunnel, and is the
\* global one while it is.
Parts ==
    \A e \in published :
        /\ e \in stopped <=>
              e \notin running
              \/ (e = globalEngine /\ stop \in {"close transport", "wipe", "not running"})
        /\ e \in closed <=>
              e \notin running \/ (e = globalEngine /\ stop \in {"wipe", "not running"})
        /\ e \in wiped <=>
              e \notin running \/ (e = globalEngine /\ stop = "not running")

Owned == \A e \in 1 .. made : e \in closed \/ e \in running \/ (start = "handshake" /\ e = made)

\* An engine that the last assignment of StopTunnel will overwrite is one
\* that was published while StopTunnel was on its way there.
Orphans ==
    /\ OrphanNeedsRace
    /\ stop = "clear" /\ globalEngine \in running => globalEngine \in raced

\* Before the first stop, whoever has found an engine still finds one.
Early ==
    stopped = {} =>
        /\ proc = "up"
        /\ stop # "clear"
        /\ start = "check running" => globalEngine # 0
        /\ packet \in {"check running", "count", "encrypt", "send"} => globalEngine # 0
        /\ stats = "read" => globalEngine # 0

IInv == TypeInv /\ Global /\ Parts /\ Owned /\ Orphans /\ Early

-----------------------------------------------------------------------------
\* The callbacks that only look, and the ingress loops.
Looking ==
    \/ PacketNext \/ GetStats \/ StatsRead \/ NilDereference
    \/ \E e \in Engines : IngressNext(e)

(***************************************************************************)
(* They change their own place, or the process panics.                     *)
(***************************************************************************)
LEMMA LookingSteps ==
    ASSUME Looking
    PROVE  UNCHANGED <<globalEngine, made, published, running, stopped, closed, wiped, active,
                       start, stop, raced>>
  BY DEF Looking, PacketNext, PacketLoop, PacketCheckNil, PacketCheckRunning, PacketCount,
         PacketEncrypt, PacketEncryptPanics, PacketSend, GetStats, StatsRead, NilDereference,
         IngressNext, IngressReceive, IngressError, IngressDecrypt, IngressDrop, IngressPanics,
         SetPacket, SetStats, SetIngress, Panic, engineVars, callbackVars

(***************************************************************************)
(* What is assigned to globalEngine is an engine and not nil.              *)
(***************************************************************************)
LEMMA PublishedIsMade == ASSUME IInv, Publish PROVE made # 0
  BY MaxEnginesAssumption DEF Publish, IInv, TypeInv, Engines

(***************************************************************************)
(* Every step keeps the variables in their types.                          *)
(***************************************************************************)
LEMMA TypeStep == IInv /\ [Next]_vars => TypeInv'
  <1> SUFFICES ASSUME IInv, [Next]_vars PROVE TypeInv'
    OBVIOUS
  <1>0. 0 \in 0 .. MaxEngines
    BY MaxEnginesAssumption
  <1> USE MaxEnginesAssumption DEF IInv, TypeInv, TypeOK, Engines
  <1>1. CASE StartTunnel
    BY <1>1 DEF StartTunnel, SetStart, StartSteps
  <1>2. CASE StartCheckNil
    BY <1>2 DEF StartCheckNil, SetStart, StartSteps
  <1>3. CASE StartCheckRunning
    BY <1>3 DEF StartCheckRunning, SetStart, StartSteps
  <1>4. CASE Dial
    BY <1>4 DEF Dial, SetStart, StartSteps
  <1>5. CASE DialFails
    BY <1>5 DEF DialFails, SetStart, StartSteps
  <1>6. CASE HandshakeFails
    BY <1>6 DEF HandshakeFails, SetStart, StartSteps
  <1>7. CASE Publish
    BY <1>7 DEF Publish, StartSteps, IngressSteps
  <1>8. CASE Activate
    BY <1>8 DEF Activate, StartSteps, PacketSteps, engineVars
  <1>9. CASE StopTunnel
    BY <1>9 DEF StopTunnel, SetStop, StopSteps
  <1>10. CASE StopCheckNil
    BY <1>10 DEF StopCheckNil, SetStop, StopSteps
  <1>11. CASE StopLock
    BY <1>11 DEF StopLock, SetStop, StopSteps
  <1>12. CASE StopCloseStopCh
    BY <1>12 DEF StopCloseStopCh, SetStop, StopSteps
  <1>13. CASE StopCloseTransport
    BY <1>13 DEF StopCloseTransport, SetStop, StopSteps
  <1>14. CASE StopWipe
    BY <1>14 DEF StopWipe, SetStop, StopSteps
  <1>15. CASE StopNotRunning
    BY <1>15 DEF StopNotRunning, SetStop, StopSteps
  <1>16. CASE StopClear
    BY <1>16, <1>0 DEF StopClear, SetStop, StopSteps
  <1>17. CASE Looking
    <2>1. packet' \in PacketSteps /\ stats' \in {"idle", "read"} /\ proc' \in {"up", "panicked"}
      BY <1>17 DEF Looking, PacketNext, PacketLoop, PacketCheckNil, PacketCheckRunning,
             PacketCount, PacketEncrypt, PacketEncryptPanics, PacketSend, GetStats, StatsRead,
             NilDereference, IngressNext, IngressReceive, IngressError, IngressDecrypt,
             IngressDrop, IngressPanics, SetPacket, SetStats, SetIngress, Panic, callbackVars,
             PacketSteps
    <2>2. ingress' \in [Engines -> IngressSteps]
      BY <1>17 DEF Looking, PacketNext, PacketLoop, PacketCheckNil, PacketCheckRunning,
             PacketCount, PacketEncrypt, PacketEncryptPanics, PacketSend, GetStats, StatsRead,
             NilDereference, IngressNext, IngressReceive, IngressError, IngressDecrypt,
             IngressDrop, IngressPanics, SetPacket, SetStats, SetIngress, Panic, IngressSteps
    <2> QED
      BY <1>17, <2>1, <2>2, LookingSteps
  <1>18. CASE UNCHANGED vars
    BY <1>18 DEF vars
  <1> HIDE DEF IInv, TypeInv, TypeOK, Engines
  <1> QED
    BY <1>1, <1>2, <1>3, <1>4, <1>5, <1>6, <1>7, <1>8, <1>9, <1>10, <1>11, <1>12, <1>13, <1>14,
       <1>15, <1>16, <1>17, <1>18 DEF Next, StartNext, StopNext, Looking

(***************************************************************************)
(* globalEngine does not change while StopTunnel takes an engine apart.    *)
(***************************************************************************)
LEMMA GlobalStep == IInv /\ [Next]_vars => Global'
  <1> SUFFICES ASSUME IInv, [Next]_vars PROVE Global'
    OBVIOUS
  <1> USE DEF IInv, Global
  <1>1. CASE StartTunnel
    BY <1>1 DEF StartTunnel, SetStart
  <1>2. CASE StartCheckNil
    BY <1>2 DEF StartCheckNil, SetStart
  <1>3. CASE StartCheckRunning
    BY <1>3 DEF StartCheckRunning, SetStart
  <1>4. CASE Dial
    BY <1>4 DEF Dial, SetStart
  <1>5. CASE DialFails
    BY <1>5 DEF DialFails, SetStart
  <1>6. CASE HandshakeFails
    BY <1>6 DEF HandshakeFails, SetStart
  <1>7. CASE Publish
    BY <1>7, PublishedIsMade DEF Publish
  <1>8. CASE Activate
    BY <1>8 DEF Activate, engineVars
  <1>9. CASE StopTunnel
    BY <1>9 DEF StopTunnel, SetStop, Stopping
  <1>10. CASE StopCheckNil
    BY <1>10 DEF StopCheckNil, SetStop, Stopping
  <1>11. CASE StopLock
    BY <1>11 DEF StopLock, SetStop, Stopping
  <1>12. CASE StopCloseStopCh
    BY <1>12 DEF StopCloseStopCh, SetStop, Stopping
  <1>13. CASE StopCloseTransport
    BY <1>13 DEF StopCloseTransport, SetStop, Stopping
  <1>14. CASE StopWipe
    BY <1>14 DEF StopWipe, SetStop, Stopping
  <1>15. CASE StopNotRunning
    BY <1>15 DEF StopNotRunning, SetStop, Stopping
  <1>16. CASE StopClear
    BY <1>16 DEF StopClear, SetStop, Stopping
  <1>17. CASE Looking
    BY <1>17, LookingSteps
  <1>18. CASE UNCHANGED vars
    BY <1>18 DEF vars
  <1> HIDE DEF IInv, Global
  <1> QED
    BY <1>1, <1>2, <1>3, <1>4, <1>5, <1>6, <1>7, <1>8, <1>9, <1>10, <1>11, <1>12, <1>13, <1>14,
       <1>15, <1>16, <1>17, <1>18 DEF Next, StartNext, StopNext, Looking

(***************************************************************************)
(* An engine loses its parts in the order of StopTunnel.                   *)
(***************************************************************************)
LEMMA PartsStep == IInv /\ [Next]_vars => Parts'
  <1> SUFFICES ASSUME IInv, [Next]_vars PROVE Parts'
    OBVIOUS
  <1> USE DEF IInv, Parts
  <1>1. CASE StartTunnel
    BY <1>1 DEF StartTunnel, SetStart
  <1>2. CASE StartCheckNil
    BY <1>2 DEF StartCheckNil, SetStart
  <1>3. CASE StartCheckRunning
    BY <1>3 DEF StartCheckRunning, SetStart
  <1>4. CASE Dial
    BY <1>4 DEF Dial, SetStart
  <1>5. CASE DialFails
    BY <1>5 DEF DialFails, SetStart
  <1>6. CASE HandshakeFails
    <2>1. made \notin published
      BY <1>6 DEF HandshakeFails, TypeInv
    <2> QED
      BY <1>6, <2>1 DEF HandshakeFails, SetStart
  <1>7. CASE Publish
    <2>1. made \notin published /\ made \notin stopped /\ made \notin closed /\ made \notin wiped
      BY <1>7 DEF Publish, TypeInv, TypeOK
    <2>2. stop \notin {"close transport", "wipe", "not running"}
      BY <1>7 DEF Publish, Global, Stopping
    <2> QED
      BY <1>7, <2>1, <2>2 DEF Publish
  <1>8. CASE Activate
    BY <1>8 DEF Activate, engineVars
  <1>9. CASE StopTunnel
    BY <1>9 DEF StopTunnel, SetStop
  <1>10. CASE StopCheckNil
    BY <1>10 DEF StopCheckNil, SetStop
  <1>11. CASE StopLock
    BY <1>11 DEF StopLock, SetStop
  <1>12. CASE StopCloseStopCh
    BY <1>12 DEF StopCloseStopCh, SetStop
  <1>13. CASE StopCloseTransport
    BY <1>13 DEF StopCloseTransport, SetStop
  <1>14. CASE StopWipe
    BY <1>14 DEF StopWipe, SetStop
  <1>15. CASE StopNotRunning
    BY <1>15 DEF StopNotRunning, SetStop
  <1>16. CASE StopClear
    BY <1>16 DEF StopClear, SetStop
  <1>17. CASE Looking
    BY <1>17, LookingSteps
  <1>18. CASE UNCHANGED vars
    BY <1>18 DEF vars
  <1> HIDE DEF IInv, Parts
  <1> QED
    BY <1>1, <1>2, <1>3, <1>4, <1>5, <1>6, <1>7, <1>8, <1>9, <1>10, <1>11, <1>12, <1>13, <1>14,
       <1>15, <1>16, <1>17, <1>18 DEF Next, StartNext, StopNext, Looking

(***************************************************************************)
(* No transport is opened and forgotten.                                   *)
(***************************************************************************)
LEMMA OwnedStep == IInv /\ [Next]_vars => Owned'
  <1> SUFFICES ASSUME IInv, [Next]_vars PROVE Owned'
    OBVIOUS
  <1> USE DEF IInv, Owned
  <1>1. CASE StartTunnel
    BY <1>1 DEF StartTunnel, SetStart
  <1>2. CASE StartCheckNil
    BY <1>2 DEF StartCheckNil, SetStart
  <1>3. CASE StartCheckRunning
    BY <1>3 DEF StartCheckRunning, SetStart
  <1>4. CASE Dial
    BY <1>4, MaxEnginesAssumption DEF Dial, SetStart, TypeInv, TypeOK
  <1>5. CASE DialFails
    BY <1>5 DEF DialFails, SetStart
  <1>6. CASE HandshakeFails
    BY <1>6 DEF HandshakeFails, SetStart
  <1>7. CASE Publish
    BY <1>7 DEF Publish
  <1>8. CASE Activate
    BY <1>8 DEF Activate, engineVars
  <1>9. CASE StopTunnel
    BY <1>9 DEF StopTunnel, SetStop
  <1>10. CASE StopCheckNil
    BY <1>10 DEF StopCheckNil, SetStop
  <1>11. CASE StopLock
    BY <1>11 DEF StopLock, SetStop
  <1>12. CASE StopCloseStopCh
    BY <1>12 DEF StopCloseStopCh, SetStop
  <1>13. CASE StopCloseTransport
    BY <1>13 DEF StopCloseTransport, SetStop
  <1>14. CASE StopWipe
    BY <1>14 DEF StopWipe, SetStop
  <1>15. CASE StopNotRunning
    <2>1. globalEngine \in closed
      BY <1>15 DEF StopNotRunning, Parts, TypeInv
    <2> QED
      BY <1>15, <2>1 DEF StopNotRunning, SetStop
  <1>16. CASE StopClear
    BY <1>16 DEF StopClear, SetStop
  <1>17. CASE Looking
    BY <1>17, LookingSteps
  <1>18. CASE UNCHANGED vars
    BY <1>18 DEF vars
  <1> HIDE DEF IInv, Owned
  <1> QED
    BY <1>1, <1>2, <1>3, <1>4, <1>5, <1>6, <1>7, <1>8, <1>9, <1>10, <1>11, <1>12, <1>13, <1>14,
       <1>15, <1>16, <1>17, <1>18 DEF Next, StartNext, StopNext, Looking

(***************************************************************************)
(* StopTunnel overwrites no running engine but one that raced it.          *)
(***************************************************************************)
LEMMA OrphansStep == IInv /\ [Next]_vars => Orphans'
  <1> SUFFICES ASSUME IInv, [Next]_vars PROVE Orphans'
    OBVIOUS
  <1> USE DEF IInv, Orphans, OrphanNeedsRace
  <1>1. CASE StartTunnel
    BY <1>1 DEF StartTunnel, SetStart
  <1>2. CASE StartCheckNil
    BY <1>2 DEF StartCheckNil, SetStart
  <1>3. CASE StartCheckRunning
    BY <1>3 DEF StartCheckRunning, SetStart
  <1>4. CASE Dial
    BY <1>4 DEF Dial, SetStart
  <1>5. CASE DialFails
    BY <1>5 DEF DialFails, SetStart
  <1>6. CASE HandshakeFails
    BY <1>6 DEF HandshakeFails, SetStart
  <1>7. CASE Publish
    <2>1. globalEngine \notin running
      BY <1>7 DEF Publish, Global, TypeInv, TypeOK
    <2> QED
      BY <1>7, <2>1 DEF Publish
  <1>8. CASE Activate
    BY <1>8 DEF Activate, engineVars
  <1>9. CASE StopTunnel
    BY <1>9 DEF StopTunnel, SetStop
  <1>10. CASE StopCheckNil
    BY <1>10 DEF StopCheckNil, SetStop
  <1>11. CASE StopLock
    BY <1>11 DEF StopLock, SetStop
  <1>12. CASE StopCloseStopCh
    BY <1>12 DEF StopCloseStopCh, SetStop
  <1>13. CASE StopCloseTransport
    BY <1>13 DEF StopCloseTransport, SetStop
  <1>14. CASE StopWipe
    BY <1>14 DEF StopWipe, SetStop
  <1>15. CASE StopNotRunning
    BY <1>15 DEF StopNotRunning, SetStop
  <1>16. CASE StopClear
    BY <1>16 DEF StopClear, SetStop
  <1>17. CASE Looking
    BY <1>17, LookingSteps
  <1>18. CASE UNCHANGED vars
    BY <1>18 DEF vars
  <1> HIDE DEF IInv, Orphans, OrphanNeedsRace
  <1> QED
    BY <1>1, <1>2, <1>3, <1>4, <1>5, <1>6, <1>7, <1>8, <1>9, <1>10, <1>11, <1>12, <1>13, <1>14,
       <1>15, <1>16, <1>17, <1>18 DEF Next, StartNext, StopNext, Looking

(***************************************************************************)
(* Nothing panics, and nobody loses the engine it has found, before the    *)
(* first stop.                                                             *)
(***************************************************************************)
LEMMA EarlyStep == IInv /\ [Next]_vars => Early'
  <1> SUFFICES ASSUME IInv, [Next]_vars PROVE Early'
    OBVIOUS
  <1> USE DEF IInv, Early
  <1>1. CASE StartTunnel
    BY <1>1 DEF StartTunnel, SetStart
  <1>2. CASE StartCheckNil
    BY <1>2 DEF StartCheckNil, SetStart
  <1>3. CASE StartCheckRunning
    BY <1>3 DEF StartCheckRunning, SetStart
  <1>4. CASE Dial
    BY <1>4 DEF Dial, SetStart
  <1>5. CASE DialFails
    BY <1>5 DEF DialFails, SetStart
  <1>6. CASE HandshakeFails
    BY <1>6 DEF HandshakeFails, SetStart
  <1>7. CASE Publish
    BY <1>7, PublishedIsMade DEF Publish
  <1>8. CASE Activate
    BY <1>8 DEF Activate, engineVars
  <1>9. CASE StopTunnel
    BY <1>9 DEF StopTunnel, SetStop
  <1>10. CASE StopCheckNil
    BY <1>10 DEF StopCheckNil, SetStop
  <1>11. CASE StopLock
    BY <1>11 DEF StopLock, SetStop
  <1>12. CASE StopCloseStopCh
    BY <1>12 DEF StopCloseStopCh
  <1>13. CASE StopCloseTransport
    BY <1>13 DEF StopCloseTransport, SetStop
  <1>14. CASE StopWipe
    BY <1>14 DEF StopWipe, SetStop
  <1>15. CASE StopNotRunning
    <2>1. globalEngine \in stopped
      BY <1>15 DEF StopNotRunning, Parts, TypeInv
    <2> QED
      BY <1>15, <2>1 DEF StopNotRunning
  <1>16. CASE StopClear
    BY <1>16 DEF StopClear
  <1>17. CASE Looking
    <2>1. wiped \subseteq stopped
      BY DEF Parts, TypeInv, TypeOK
    <2> SUFFICES ASSUME stopped = {} PROVE Early'
      BY <1>17, LookingSteps
    <2>2. wiped = {}
      BY <2>1
    <2>3. ~ NilDereference
      BY DEF NilDereference, Global, Stopping
    <2>4. CASE PacketNext
      BY <2>2, <2>4 DEF PacketNext, PacketLoop, PacketCheckNil, PacketCheckRunning, PacketCount,
                   PacketEncrypt, PacketEncryptPanics, PacketSend, SetPacket, engineVars
    <2>5. CASE GetStats \/ StatsRead
      BY <2>5 DEF GetStats, StatsRead, SetStats, engineVars
    <2>6. ASSUME NEW e \in Engines, IngressNext(e) PROVE Early'
      BY <2>2, <2>6 DEF IngressNext, IngressReceive, IngressError, IngressDecrypt, IngressDrop,
                   IngressPanics, SetIngress, engineVars, callbackVars
    <2> QED
      BY <1>17, <2>3, <2>4, <2>5, <2>6 DEF Looking
  <1>18. CASE UNCHANGED vars
    BY <1>18 DEF vars
  <1> HIDE DEF IInv, Early
  <1> QED
    BY <1>1, <1>2, <1>3, <1>4, <1>5, <1>6, <1>7, <1>8, <1>9, <1>10, <1>11, <1>12, <1>13, <1>14,
       <1>15, <1>16, <1>17, <1>18 DEF Next, StartNext, StopNext, Looking

(***************************************************************************)
(* A provider that has started no tunnel satisfies it all.                 *)
(***************************************************************************)
LEMMA InitIInv == Init => IInv
  <1> SUFFICES ASSUME Init PROVE IInv
    OBVIOUS
  <1>1. TypeInv
    <2>1. 0 \in 0 .. MaxEngines
      BY MaxEnginesAssumption
    <2>2. TypeOK
      BY <2>1 DEF Init, TypeOK
    <2> QED
      BY <2>2 DEF Init, TypeInv, StartSteps, StopSteps, PacketSteps, IngressSteps
  <1>2. Global
    BY DEF Init, Global, Stopping
  <1>3. Parts /\ Owned
    BY DEF Init, Parts, Owned
  <1>4. Orphans /\ Early
    BY DEF Init, Orphans, OrphanNeedsRace, Early
  <1> QED
    BY <1>1, <1>2, <1>3, <1>4 DEF IInv

-----------------------------------------------------------------------------
(***************************************************************************)
(* The inductive invariant of the bridge.                                  *)
(***************************************************************************)
THEOREM IInvariant == Spec => []IInv
  <1>1. IInv /\ [Next]_vars => IInv'
    BY TypeStep, GlobalStep, PartsStep, OwnedStep, OrphansStep, EarlyStep DEF IInv
  <1> QED
    BY <1>1, InitIInv, PTL DEF Spec

(***************************************************************************)
(* However the callbacks interleave, every transport opened is closed or   *)
(* belongs to a running engine, and between calls of StopTunnel an engine  *)
(* runs with all its parts or has lost them all.                           *)
(***************************************************************************)
THEOREM WholeEngines == Spec => []EnginesAreWhole
  <1>1. IInv => EnginesAreWhole
    BY DEF IInv, Owned, Parts, EnginesAreWhole
  <1> QED
    BY <1>1, IInvariant, PTL

(***************************************************************************)
(* The only running engines that StopTunnel cannot reach are those whose   *)
(* start overlapped a stop.                                                *)
(***************************************************************************)
THEOREM OrphansRaced == Spec => []OrphanNeedsRace
  <1>1. IInv => OrphanNeedsRace
    BY DEF IInv, Orphans
  <1> QED
    BY <1>1, IInvariant, PTL

(***************************************************************************)
(* No nil pointer and no wiped session is met before a running tunnel is   *)
(* stopped.                                                                *)
(***************************************************************************)
THEOREM PanicsNeedStop == Spec => []PanicNeedsStop
  <1>1. IInv => PanicNeedsStop
    BY DEF IInv, Early, PanicNeedsStop
  <1> QED
    BY <1>1, IInvariant, PTL

(***************************************************************************)
(* From StopTunnel's look at globalEngine to its end, the variable that no *)
(* lock protects keeps naming the engine StopTunnel is taking apart: no    *)
(* StartTunnel publishes another one under it.                             *)
(***************************************************************************)
THEOREM StopKeepsItsEngine == Spec => [][(stop \in Stopping) => globalEngine' = globalEngine]_vars
  <1>1. ASSUME IInv, [Next]_vars, stop \in Stopping PROVE globalEngine' = globalEngine
    <2>1. ~ StopClear
      BY <1>1 DEF StopClear, Stopping
    <2>2. ~ Publish
      BY <1>1 DEF Publish, IInv, Global, Stopping
    <2>3. CASE StartTunnel \/ StartNext
      BY <2>2, <2>3 DEF StartTunnel, StartNext, StartCheckNil, StartCheckRunning, Dial, DialFails,
                        HandshakeFails, Activate, SetStart
    <2>4. CASE StopTunnel \/ StopNext
      BY <2>1, <2>4 DEF StopTunnel, StopNext, StopCheckNil, StopLock, StopCloseStopCh,
                        StopCloseTransport, StopWipe, StopNotRunning
    <2>5. CASE Looking
      BY <2>5, LookingSteps
    <2>6. CASE UNCHANGED vars
      BY <2>6 DEF vars
    <2> QED
      BY <1>1, <2>3, <2>4, <2>5, <2>6 DEF Next, Looking
  <1>2. IInv /\ [Next]_vars => [(stop \in Stopping) => globalEngine' = globalEngine]_vars
    BY <1>1
  <1> QED
    BY <1>2, IInvariant, PTL DEF Spec
=============================================================================
