---------------------------- MODULE SessionProofs ----------------------------
(***************************************************************************)
(* A session keeps the promise of Channel for any number of goroutines on  *)
(* each side, words of any width and any range of counters: nonces are     *)
(* unique and delivery is at most once, also while the session is wiped.   *)
(***************************************************************************)
EXTENDS Session, TLAPS

\* The receiver's window, as ReplayWindow has it.
Window == INSTANCE ReplayWindowProofs
            WITH rw <- replay, accepted <- {pkt.counter : pkt \in claims},
                 last <- [seq |-> 0, ok |-> FALSE]

(***************************************************************************)
(* Session and ReplayWindow have the bitmap's operators from one module,   *)
(* so what is proved of the one's holds of the other's.                    *)
(***************************************************************************)
LEMMA SameOperators ==
    /\ Window!Counters = Counters /\ Window!WindowSize = WindowSize
    /\ Window!Windows = Windows
    /\ \A win, c : Window!IsFresh(win, c) <=> IsFresh(win, c)
    /\ \A win, c : Window!Accept(win, c) = Accept(win, c)
  <1>1. Window!Counters = Counters /\ Window!WindowSize = WindowSize /\ Window!Bits = Bits
    BY DEF Window!Counters, Counters, Window!WindowSize, WindowSize, Window!Bits, Bits
  <1>2. Window!Windows = Windows
    BY <1>1 DEF Window!Windows, Windows, Window!Bitmaps, Bitmaps
  <1>3. \A bm, d : /\ Window!BitIsSet(bm, d) <=> BitIsSet(bm, d)
                   /\ Window!SetBit(bm, d) = SetBit(bm, d)
    BY DEF Window!BitIsSet, BitIsSet, Window!SetBit, SetBit
  <1>4. \A word, n : Window!Shl(word, n) = Shl(word, n) /\ Window!Shr(word, n) = Shr(word, n)
    BY <1>1 DEF Window!Shl, Shl, Window!Shr, Shr
  <1>5. \A bm, d : Window!Slide(bm, d) = Slide(bm, d)
    BY <1>1, <1>4 DEF Window!Slide, Slide, Window!EmptyBitmap, EmptyBitmap
  <1>6. \A win, c : Window!IsFresh(win, c) <=> IsFresh(win, c)
    BY <1>1, <1>3 DEF Window!IsFresh, IsFresh, Window!InWindow, InWindow
  <1>7. \A win, c : Window!Accept(win, c) = Accept(win, c)
    BY <1>3, <1>5 DEF Window!Accept, Accept
  <1> QED
    BY <1>1, <1>2, <1>6, <1>7

(***************************************************************************)
(* The facts a session rests on: CheckAndSet leaves a window, an accepted  *)
(* number is not fresh any more, no later acceptance makes a number fresh  *)
(* again, and a number that stops being fresh is the accepted one or has   *)
(* left the window.                                                        *)
(***************************************************************************)
LEMMA AcceptIsForGood ==
    ASSUME NEW win \in Windows, NEW seq \in Counters, IsFresh(win, seq)
    PROVE  /\ Accept(win, seq) \in Windows
           /\ ~ IsFresh(Accept(win, seq), seq)
           /\ \A s \in Counters : IsFresh(Accept(win, seq), s) => IsFresh(win, s)
           /\ \A s \in Counters :
                 IsFresh(win, s) /\ ~ IsFresh(Accept(win, seq), s) =>
                    s = seq \/ seq - s >= WindowSize
  <1> USE WordBitsAssumption, MaxCounterAssumption
  <1>1. win \in Window!Windows /\ seq \in Window!Counters /\ Window!IsFresh(win, seq)
    BY SameOperators
  <1>2. Window!Accept(win, seq) \in Window!Windows
    BY <1>1, Window!AcceptSetsOneBit
  <1>3. /\ ~ Window!IsFresh(Window!Accept(win, seq), seq)
        /\ \A s \in Window!Counters :
              Window!IsFresh(Window!Accept(win, seq), s) => Window!IsFresh(win, s)
        /\ \A s \in Window!Counters :
              Window!IsFresh(win, s) /\ ~ Window!IsFresh(Window!Accept(win, seq), s) =>
                 s = seq \/ seq - s >= Window!WindowSize
    BY <1>1, Window!AcceptIsForGood
  <1> QED
    BY <1>2, <1>3, SameOperators

(***************************************************************************)
(* An empty bitmap has no bit for any number of the window.                *)
(***************************************************************************)
LEMMA EmptyHasNoBit == \A d \in 0 .. WindowSize - 1 : ~ BitIsSet(EmptyBitmap, d)
  <1> TAKE d \in 0 .. WindowSize - 1
  <1>1. d \div WordBits \in 0 .. 1
    BY WordBitsAssumption DEF WindowSize
  <1> QED
    BY <1>1 DEF BitIsSet, EmptyBitmap

(***************************************************************************)
(* A fresh pair of sessions satisfies the invariant.                       *)
(***************************************************************************)
LEMMA InitIInv == Init => IInv
  <1> SUFFICES ASSUME Init PROVE IInv
    OBVIOUS
  <1>1. TypeOK
    <2>1. 0 \in Counters
      BY MaxCounterAssumption DEF Counters
    <2>2. replay \in Windows
      BY <2>1 DEF Init, EmptyWindow, EmptyBitmap, Windows, Bitmaps
    <2>3. receiver \in [Receivers -> [pc : {"idle", "claimed", "opening"}, pkt : Packets]]
      BY <2>1 DEF Init, IdleReceiver, Packets
    <2>4. sender \in [Senders -> [pc : {"idle", "numbered"}, counter : Counters]]
      BY <2>1 DEF Init, IdleSender
    <2>5. sendCounter \in 0 .. MaxCounter + 1
      BY MaxCounterAssumption DEF Init
    <2>6. sealings \in [Counters -> Nat] /\ deliveries \in [Counters -> Nat]
      BY DEF Init
    <2> QED
      BY <2>2, <2>3, <2>4, <2>5, <2>6 DEF Init, TypeOK
  <1>2. CountersAreOwned /\ NonceUnique /\ AtMostOnce
    BY DEF Init, CountersAreOwned, NonceUnique, AtMostOnce, IdleSender
  <1>3. ClaimsAreExclusive /\ OpensAreExclusive /\ WipeOrder /\ HeldWasSealed
    BY DEF Init, ClaimsAreExclusive, OpensAreExclusive, WipeOrder, HeldWasSealed,
           Holds, Opens, IdleReceiver
  <1> QED
    BY <1>1, <1>2, <1>3 DEF IInv

(***************************************************************************)
(* Every step of either side keeps the variables in their types.           *)
(***************************************************************************)
LEMMA NextTypeOK == TypeOK /\ [Next]_vars => TypeOK'
  <1> SUFFICES ASSUME TypeOK, [Next]_vars PROVE TypeOK'
    OBVIOUS
  <1>0. 0 \in Counters /\ Counters \subseteq Nat
    BY MaxCounterAssumption DEF Counters
  <1>1. ASSUME NEW g \in Senders, TakeCounter(g) PROVE TypeOK'
    <2>1. sendCounter \in Counters /\ sendCounter + 1 \in 0 .. MaxCounter + 1
      BY <1>1, MaxCounterAssumption DEF TakeCounter, TypeOK, Counters
    <2> QED
      BY <1>1, <2>1 DEF TakeCounter, TypeOK, recvVars
  <1>2. ASSUME NEW g \in Senders, Seal(g) PROVE TypeOK'
    <2>1. sealings' \in [Counters -> Nat]
      BY <1>2 DEF Seal, TypeOK
    <2> QED
      BY <1>0, <1>2, <2>1 DEF Seal, TypeOK, recvVars, IdleSender
  <1>3. ASSUME NEW g \in Senders, SealFails(g) PROVE TypeOK'
    BY <1>0, <1>3 DEF SealFails, TypeOK, recvVars, IdleSender
  <1>4. ASSUME NEW g \in Senders, SealPanics(g) PROVE TypeOK'
    BY <1>4 DEF SealPanics, TypeOK, recvVars
  <1>5. CASE WipeSender
    BY <1>5 DEF WipeSender, TypeOK, recvVars
  <1>6. ASSUME NEW g \in Receivers, NEW pkt \in Packets, CheckAndSetTrue(g, pkt)
        PROVE  TypeOK'
    <2>1. replay' \in Windows
      BY <1>6, AcceptIsForGood DEF CheckAndSetTrue, TypeOK, Packets
    <2>2. receiver' \in [Receivers -> [pc : {"idle", "claimed", "opening"}, pkt : Packets]]
      BY <1>6 DEF CheckAndSetTrue, TypeOK
    <2> QED
      BY <1>6, <2>1, <2>2 DEF CheckAndSetTrue, TypeOK, sendVars
  <1>7. ASSUME NEW g \in Receivers, NEW pkt \in Packets, CheckAndSetFalse(g, pkt)
        PROVE  TypeOK'
    BY <1>7 DEF CheckAndSetFalse, TypeOK, vars
  <1>8. ASSUME NEW g \in Receivers, LoadCipher(g) PROVE TypeOK'
    BY <1>8 DEF LoadCipher, TypeOK, sendVars
  <1>9. ASSUME NEW g \in Receivers, LoadCipherPanics(g) PROVE TypeOK'
    BY <1>9 DEF LoadCipherPanics, TypeOK, sendVars
  <1>10. ASSUME NEW g \in Receivers, Open(g) PROVE TypeOK'
    <2>1. deliveries' \in [Counters -> Nat]
      BY <1>10 DEF Open, TypeOK, Packets
    <2>2. receiver' \in [Receivers -> [pc : {"idle", "claimed", "opening"}, pkt : Packets]]
      BY <1>0, <1>10 DEF Open, TypeOK, IdleReceiver, Packets
    <2> QED
      BY <1>10, <2>1, <2>2 DEF Open, TypeOK, sendVars
  <1>11. ASSUME NEW g \in Receivers, OpenFails(g) PROVE TypeOK'
    <2>1. receiver' \in [Receivers -> [pc : {"idle", "claimed", "opening"}, pkt : Packets]]
      BY <1>0, <1>11 DEF OpenFails, TypeOK, IdleReceiver, Packets
    <2> QED
      BY <1>11, <2>1 DEF OpenFails, TypeOK, sendVars
  <1>12. CASE WipeCipher
    BY <1>12 DEF WipeCipher, TypeOK, sendVars
  <1>13. CASE WipeBitmap
    <2>1. replay' \in Windows
      BY <1>13 DEF WipeBitmap, TypeOK, Windows, Bitmaps, EmptyBitmap
    <2> QED
      BY <1>13, <2>1 DEF WipeBitmap, TypeOK, sendVars
  <1>14. CASE UNCHANGED vars
    BY <1>14 DEF vars, TypeOK
  <1> QED
    BY <1>1, <1>2, <1>3, <1>4, <1>5, <1>6, <1>7, <1>8, <1>9, <1>10, <1>11,
       <1>12, <1>13, <1>14 DEF Next, SendNext, RecvNext

(***************************************************************************)
(* The sending side: the atomic increment gives each goroutine a counter   *)
(* of its own, so a sealing is always the first under its counter.         *)
(***************************************************************************)
LEMMA NextSendSide ==
    ASSUME IInv, TypeOK', [Next]_vars
    PROVE  CountersAreOwned' /\ NonceUnique'
  <1>0. Counters \subseteq Nat /\ sendCounter \in Nat
    BY MaxCounterAssumption DEF Counters, IInv, TypeOK
  <1>1. ASSUME NEW g \in Senders, TakeCounter(g)
        PROVE  CountersAreOwned' /\ NonceUnique'
    <2>1. /\ sendCounter \in Counters /\ sealings[sendCounter] = 0
          /\ sendCounter' = sendCounter + 1 /\ sealings' = sealings
      BY <1>0, <1>1, MaxCounterAssumption
      DEF TakeCounter, IInv, CountersAreOwned, Counters
    <2>2. /\ sender'[g] = [pc |-> "numbered", counter |-> sendCounter]
          /\ \A h \in Senders : h # g => sender'[h] = sender[h]
      BY <1>1 DEF TakeCounter, IInv, TypeOK
    <2>3. \A h \in Senders : sender[h].counter \in Nat
      BY <1>0 DEF IInv, TypeOK
    <2>4. \A c \in Counters : c >= sendCounter' => sealings'[c] = 0
      BY <1>0, <2>1 DEF IInv, CountersAreOwned
    <2>5. ASSUME NEW h \in Senders, sender'[h].pc = "numbered"
          PROVE  /\ sender'[h].counter < sendCounter'
                 /\ sealings'[sender'[h].counter] = 0
      <3>1. CASE h = g
        BY <1>0, <2>1, <2>2, <3>1
      <3>2. CASE h # g
        BY <1>0, <2>1, <2>2, <2>3, <2>5, <3>2 DEF IInv, CountersAreOwned
      <3> QED
        BY <3>1, <3>2
    <2>6. \A h \in Senders :
             h # g /\ sender'[h].pc = "numbered" => sender'[h].counter # sendCounter
      BY <1>0, <2>2, <2>3 DEF IInv, CountersAreOwned
    <2>7. \A h, k \in Senders :
             /\ sender'[h].pc = "numbered" /\ sender'[k].pc = "numbered"
             /\ sender'[h].counter = sender'[k].counter
             => h = k
      BY <2>2, <2>6 DEF IInv, CountersAreOwned
    <2> QED
      BY <2>1, <2>4, <2>5, <2>7 DEF CountersAreOwned, NonceUnique, IInv
  <1>2. ASSUME NEW g \in Senders, Seal(g)
        PROVE  CountersAreOwned' /\ NonceUnique'
    <2>1. sealings[sender[g].counter] = 0 /\ sender[g].counter < sendCounter
      BY <1>2 DEF Seal, IInv, CountersAreOwned
    <2>2. sealings' = [sealings EXCEPT ![sender[g].counter] = 1]
      BY <1>2, <2>1 DEF Seal, IInv, TypeOK
    <2> QED
      BY <1>0, <1>2, <2>1, <2>2
      DEF Seal, IInv, TypeOK, CountersAreOwned, NonceUnique, IdleSender
  <1>3. ASSUME NEW g \in Senders, SealFails(g)
        PROVE  CountersAreOwned' /\ NonceUnique'
    BY <1>3 DEF SealFails, IInv, TypeOK, CountersAreOwned, NonceUnique, IdleSender
  <1>4. CASE UNCHANGED <<sendCounter, sender, sealings>>
    BY <1>4 DEF IInv, CountersAreOwned, NonceUnique
  <1>5. ASSUME NEW g \in Senders, SealPanics(g)
        PROVE  UNCHANGED <<sendCounter, sender, sealings>>
    BY <1>5 DEF SealPanics
  <1>6. WipeSender => UNCHANGED <<sendCounter, sender, sealings>>
    BY DEF WipeSender
  <1>7. RecvNext => UNCHANGED <<sendCounter, sender, sealings>>
    BY DEF RecvNext, CheckAndSetTrue, CheckAndSetFalse, LoadCipher,
           LoadCipherPanics, Open, OpenFails, WipeCipher, WipeBitmap, sendVars, vars
  <1> QED
    BY <1>1, <1>2, <1>3, <1>4, <1>5, <1>6, <1>7 DEF Next, SendNext, vars

(***************************************************************************)
(* The receiving side: CheckAndSet gives a counter to one goroutine while  *)
(* the bitmap is whole, and after Wipe no goroutine finds a cipher.        *)
(***************************************************************************)
LEMMA NextRecvSide ==
    ASSUME IInv, TypeOK', [Next]_vars
    PROVE  /\ ClaimsAreExclusive' /\ OpensAreExclusive' /\ WipeOrder'
           /\ HeldWasSealed' /\ AtMostOnce'
  <1> DEFINE Goal == /\ ClaimsAreExclusive' /\ OpensAreExclusive' /\ WipeOrder'
                     /\ HeldWasSealed' /\ AtMostOnce'
  <1>0. Counters \subseteq Nat /\ TypeOK
    BY MaxCounterAssumption DEF Counters, IInv
  <1>1. SendNext => /\ UNCHANGED recvVars
                    /\ \A c \in Counters : sealings[c] > 0 => sealings'[c] > 0
    BY DEF SendNext, TakeCounter, Seal, SealFails, SealPanics, WipeSender, IInv, TypeOK
  <1>2. CASE SendNext \/ UNCHANGED vars
    <2>1. UNCHANGED recvVars /\ \A c \in Counters : sealings[c] > 0 => sealings'[c] > 0
      BY <1>1, <1>2 DEF vars, recvVars
    <2>2. HeldWasSealed'
      BY <2>1 DEF recvVars, IInv, TypeOK, HeldWasSealed, Packets
    <2> QED
      BY <2>1, <2>2 DEF recvVars, IInv, ClaimsAreExclusive, OpensAreExclusive,
                        WipeOrder, AtMostOnce, Holds, Opens
  <1>3. ASSUME NEW g \in Receivers, NEW pkt \in Packets, CheckAndSetTrue(g, pkt)
        PROVE  Goal
    <2> DEFINE c == pkt.counter
    <2>1. /\ c \in Counters /\ IsFresh(replay, c) /\ replay \in Windows
          /\ replay' = Accept(replay, c)
      BY <1>3 DEF CheckAndSetTrue, IInv, TypeOK, Packets
    <2>2. /\ ~ IsFresh(replay', c)
          /\ \A s \in Counters : IsFresh(replay', s) => IsFresh(replay, s)
      BY <2>1, AcceptIsForGood
    <2>3. /\ receiver[g].pc = "idle"
          /\ receiver' = [receiver EXCEPT ![g] = [pc |-> "claimed", pkt |-> pkt]]
          /\ UNCHANGED <<cleared, recvLive, deliveries, sealings>>
          /\ pkt.intact => sealings[c] > 0
      BY <1>3 DEF CheckAndSetTrue, Arrives, sendVars
    <2>4. /\ receiver'[g] = [pc |-> "claimed", pkt |-> pkt]
          /\ \A h \in Receivers : h # g => receiver'[h] = receiver[h]
      BY <2>3 DEF IInv, TypeOK
    <2>5. ClaimsAreExclusive'
      <3> SUFFICES ASSUME ~ cleared
                   PROVE  /\ \A d \in Counters : deliveries[d] > 0 => ~ IsFresh(replay', d)
                          /\ \A h \in Receivers :
                                Holds(h)' => /\ ~ IsFresh(replay', receiver'[h].pkt.counter)
                                             /\ deliveries[receiver'[h].pkt.counter] = 0
                          /\ \A h, k \in Receivers :
                                /\ Holds(h)' /\ Holds(k)'
                                /\ receiver'[h].pkt.counter = receiver'[k].pkt.counter
                                => h = k
        BY <2>3 DEF ClaimsAreExclusive
      <3>1. \A d \in Counters : deliveries[d] > 0 => ~ IsFresh(replay', d)
        BY <2>2 DEF IInv, ClaimsAreExclusive
      <3>2. deliveries[c] = 0
        <4>1. deliveries[c] \in Nat
          BY <1>0, <2>1 DEF TypeOK
        <4>2. ~ (deliveries[c] > 0)
          BY <2>1 DEF IInv, ClaimsAreExclusive
        <4> QED
          BY <4>1, <4>2
      <3>3. \A h \in Receivers : h # g /\ Holds(h)' =>
               /\ receiver[h].pkt.counter \in Counters
               /\ ~ IsFresh(replay, receiver[h].pkt.counter)
               /\ deliveries[receiver[h].pkt.counter] = 0
        BY <1>0, <2>4 DEF IInv, ClaimsAreExclusive, TypeOK, Holds, Packets
      <3>4. \A h \in Receivers : h # g /\ Holds(h)' => receiver'[h].pkt.counter # c
        BY <2>1, <2>4, <3>3
      <3>5. \A h, k \in Receivers :
               /\ h # g /\ k # g /\ Holds(h)' /\ Holds(k)'
               /\ receiver'[h].pkt.counter = receiver'[k].pkt.counter
               => h = k
        BY <2>4 DEF IInv, ClaimsAreExclusive, Holds
      <3>6. ASSUME NEW h \in Receivers, Holds(h)'
            PROVE  /\ ~ IsFresh(replay', receiver'[h].pkt.counter)
                   /\ deliveries[receiver'[h].pkt.counter] = 0
        <4>1. CASE h = g
          BY <4>1, <2>2, <2>4, <3>2
        <4>2. CASE h # g
          BY <4>2, <3>6, <2>2, <2>4, <3>3
        <4> QED
          BY <4>1, <4>2
      <3>7. receiver'[g].pkt.counter = c
        BY <2>4
      <3> QED
        BY <3>1, <3>4, <3>5, <3>6, <3>7
    <2>6. OpensAreExclusive'
      <3>1. ~ Opens(g)'
        BY <2>4 DEF Opens
      <3>2. \A h \in Receivers : Opens(h)' => h # g /\ Opens(h) /\ receiver'[h] = receiver[h]
        BY <2>4, <3>1 DEF Opens
      <3> QED
        BY <2>3, <3>2 DEF IInv, OpensAreExclusive
    <2>7. HeldWasSealed'
      BY <2>3, <2>4 DEF IInv, HeldWasSealed
    <2> QED
      BY <2>3, <2>5, <2>6, <2>7 DEF IInv, WipeOrder, AtMostOnce
  <1>4. ASSUME NEW g \in Receivers, NEW pkt \in Packets, CheckAndSetFalse(g, pkt)
        PROVE  UNCHANGED vars
    BY <1>4 DEF CheckAndSetFalse
  <1>5. ASSUME NEW g \in Receivers, LoadCipher(g) PROVE Goal
    <2>1. /\ ~ cleared /\ receiver[g].pc = "claimed"
          /\ UNCHANGED <<replay, recvLive, cleared, deliveries, sealings>>
      BY <1>5 DEF LoadCipher, IInv, WipeOrder, sendVars
    <2>2. /\ receiver'[g].pc = "opening" /\ receiver'[g].pkt = receiver[g].pkt
          /\ \A h \in Receivers : h # g => receiver'[h] = receiver[h]
      BY <1>5 DEF LoadCipher, IInv, TypeOK
    <2>3. \A h \in Receivers : /\ receiver'[h].pkt = receiver[h].pkt
                               /\ Holds(h)' <=> Holds(h)
                               /\ Opens(h)' => Holds(h)
      BY <2>1, <2>2 DEF Holds, Opens
    <2> QED
      BY <2>1, <2>3 DEF IInv, ClaimsAreExclusive, OpensAreExclusive, WipeOrder,
                        HeldWasSealed, AtMostOnce
  <1>6. ASSUME NEW g \in Receivers, LoadCipherPanics(g) PROVE Goal
    BY <1>6 DEF LoadCipherPanics, sendVars, IInv, ClaimsAreExclusive, OpensAreExclusive,
                WipeOrder, HeldWasSealed, AtMostOnce, Holds, Opens
  <1>7. ASSUME NEW g \in Receivers,
               UNCHANGED <<replay, recvLive, cleared, sealings>>,
               receiver' = [receiver EXCEPT ![g] = IdleReceiver],
               Opens(g),
               deliveries' = [deliveries EXCEPT ![receiver[g].pkt.counter] = @ + 1]
        PROVE  Goal
    <2> DEFINE c == receiver[g].pkt.counter
    <2>1. c \in Counters /\ deliveries[c] = 0
      BY <1>7 DEF IInv, TypeOK, OpensAreExclusive, Packets
    <2>2. \A d \in Counters : deliveries'[d] = deliveries[d] \/ (d = c /\ deliveries'[d] = 1)
      BY <1>7, <2>1 DEF IInv, TypeOK
    <2>3. /\ receiver'[g] = IdleReceiver
          /\ \A h \in Receivers : h # g => receiver'[h] = receiver[h]
      BY <1>7 DEF IInv, TypeOK
    <2>4. \A h \in Receivers : Holds(h)' =>
             h # g /\ Holds(h) /\ receiver'[h] = receiver[h] /\ (Opens(h)' <=> Opens(h))
      BY <2>3 DEF Holds, Opens, IdleReceiver
    <2>5. AtMostOnce'
      BY <1>0, <2>2 DEF IInv, AtMostOnce
    <2>6. HeldWasSealed'
      BY <1>7, <2>3 DEF IInv, HeldWasSealed, IdleReceiver
    <2>7. \A h \in Receivers : Opens(h)' => Holds(h)'
      BY DEF Opens, Holds
    <2>8. \A h \in Receivers : Opens(h)' =>
             receiver[h].pkt.counter # c /\ receiver[h].pkt.counter \in Counters
      BY <1>0, <1>7, <2>4, <2>7 DEF IInv, OpensAreExclusive, TypeOK, Packets
    <2>9. OpensAreExclusive'
      BY <2>2, <2>4, <2>7, <2>8 DEF IInv, OpensAreExclusive
    <2>10. ClaimsAreExclusive'
      <3> SUFFICES ASSUME ~ cleared
                   PROVE  /\ \A d \in Counters : deliveries'[d] > 0 => ~ IsFresh(replay, d)
                          /\ \A h \in Receivers :
                                Holds(h)' => /\ ~ IsFresh(replay, receiver'[h].pkt.counter)
                                             /\ deliveries'[receiver'[h].pkt.counter] = 0
                          /\ \A h, k \in Receivers :
                                /\ Holds(h)' /\ Holds(k)'
                                /\ receiver'[h].pkt.counter = receiver'[k].pkt.counter
                                => h = k
        BY <1>7 DEF ClaimsAreExclusive
      <3>1. Holds(g)
        BY <1>7 DEF Opens, Holds
      <3>2. ~ IsFresh(replay, c)
        BY <3>1 DEF IInv, ClaimsAreExclusive
      <3>3. \A d \in Counters : deliveries'[d] > 0 => ~ IsFresh(replay, d)
        BY <2>2, <3>2 DEF IInv, ClaimsAreExclusive
      <3>4. \A h \in Receivers : Holds(h)' =>
               receiver[h].pkt.counter # c /\ receiver[h].pkt.counter \in Counters
        BY <1>0, <2>4, <3>1 DEF IInv, ClaimsAreExclusive, TypeOK, Packets
      <3> QED
        BY <2>2, <2>4, <3>3, <3>4 DEF IInv, ClaimsAreExclusive
    <2> QED
      BY <1>7, <2>5, <2>6, <2>9, <2>10 DEF IInv, WipeOrder
  <1>8. ASSUME NEW g \in Receivers, Open(g) \/ OpenFails(g) PROVE Goal
    <2>1. CASE Open(g)
      BY <1>7, <2>1 DEF Open, Opens, sendVars
    <2>2. CASE OpenFails(g)
      <3>1. UNCHANGED <<replay, recvLive, cleared, deliveries, sealings>>
        BY <2>2 DEF OpenFails, sendVars
      <3>2. /\ receiver'[g] = IdleReceiver
            /\ \A h \in Receivers : h # g => receiver'[h] = receiver[h]
        BY <2>2 DEF OpenFails, IInv, TypeOK
      <3>3. \A h \in Receivers : Holds(h)' => Holds(h) /\ receiver'[h] = receiver[h]
        BY <3>2 DEF Holds, IdleReceiver
      <3>4. \A h \in Receivers : Opens(h)' => Opens(h) /\ receiver'[h] = receiver[h]
        BY <3>2 DEF Opens, IdleReceiver
      <3>5. HeldWasSealed'
        BY <3>1, <3>2 DEF IInv, HeldWasSealed, IdleReceiver
      <3>6. ClaimsAreExclusive'
        BY <3>1, <3>3 DEF IInv, ClaimsAreExclusive
      <3>7. OpensAreExclusive'
        BY <3>1, <3>4 DEF IInv, OpensAreExclusive
      <3> QED
        BY <3>1, <3>5, <3>6, <3>7 DEF IInv, WipeOrder, AtMostOnce
    <2> QED
      BY <1>8, <2>1, <2>2
  <1>9. CASE WipeCipher
    BY <1>9 DEF WipeCipher, sendVars, IInv, ClaimsAreExclusive, OpensAreExclusive,
                WipeOrder, HeldWasSealed, AtMostOnce, Holds, Opens
  <1>10. CASE WipeBitmap
    BY <1>10 DEF WipeBitmap, sendVars, IInv, ClaimsAreExclusive, OpensAreExclusive,
                 WipeOrder, HeldWasSealed, AtMostOnce, Holds, Opens
  <1> QED
    BY <1>2, <1>3, <1>4, <1>5, <1>6, <1>8, <1>9, <1>10 DEF Next, RecvNext

(***************************************************************************)
(* The invariant holds in every reachable state of a session.              *)
(***************************************************************************)
THEOREM SessionInvariant == Spec => []IInv
  <1>1. IInv /\ [Next]_vars => IInv'
    <2> SUFFICES ASSUME IInv, [Next]_vars PROVE IInv'
      OBVIOUS
    <2>1. TypeOK'
      BY NextTypeOK DEF IInv
    <2>2. CountersAreOwned' /\ NonceUnique'
      BY <2>1, NextSendSide
    <2>3. /\ ClaimsAreExclusive' /\ OpensAreExclusive' /\ WipeOrder'
          /\ HeldWasSealed' /\ AtMostOnce'
      BY <2>1, NextRecvSide
    <2> QED
      BY <2>1, <2>2, <2>3 DEF IInv
  <1> QED
    BY <1>1, InitIInv, PTL DEF Spec

(***************************************************************************)
(* No AEAD nonce is used twice: EncryptPacket's atomic counter suffices    *)
(* for any number of concurrent callers.                                   *)
(***************************************************************************)
THEOREM NoncesAreUnique == Spec => []NonceUnique
  <1>1. IInv => NonceUnique
    BY DEF IInv
  <1> QED
    BY <1>1, SessionInvariant, PTL

(***************************************************************************)
(* DecryptPacket hands out each packet at most once, for any number of     *)
(* concurrent callers and at any moment of a Wipe.                         *)
(***************************************************************************)
THEOREM DeliveredAtMostOnce == Spec => []AtMostOnce
  <1>1. IInv => AtMostOnce
    BY DEF IInv
  <1> QED
    BY <1>1, SessionInvariant, PTL

(***************************************************************************)
(* Refinement: the two halves of a session and any datagram network        *)
(* between them implement Channel.                                         *)
(***************************************************************************)
THEOREM Refinement == Spec => ImplementsChannel
  <1>1. Init => Promise!Init
    BY DEF Init, Promise!Init
  <1>2. IInv /\ [Next]_vars => [Promise!Next]_(Promise!vars)
    <2> SUFFICES ASSUME IInv, [Next]_vars
                 PROVE  Promise!Next \/ UNCHANGED <<sealings, deliveries>>
      BY DEF Promise!vars
    <2>1. ASSUME NEW g \in Senders, Seal(g) PROVE Promise!Next
      <3>1. sender[g].counter \in Counters /\ sealings[sender[g].counter] = 0
        BY <2>1 DEF Seal, IInv, TypeOK, CountersAreOwned
      <3>2. Promise!SealOnce(sender[g].counter)
        BY <2>1, <3>1 DEF Seal, Promise!SealOnce, recvVars, IInv, TypeOK
      <3> QED
        BY <3>1, <3>2 DEF Promise!Next
    <2>2. ASSUME NEW g \in Receivers, Open(g) PROVE Promise!Next
      <3> DEFINE c == receiver[g].pkt.counter
      <3>1. c \in Counters /\ sealings \in [Counters -> Nat]
        BY DEF IInv, TypeOK, Packets
      <3>2. sealings[c] > 0 /\ sealings[c] <= 1
        BY <2>2, <3>1 DEF Open, IInv, HeldWasSealed, NonceUnique
      <3>3. sealings[c] = 1
        BY <3>1, <3>2
      <3>4. deliveries[c] = 0
        BY <2>2 DEF Open, Opens, IInv, OpensAreExclusive
      <3>5. Promise!DeliverOnce(c)
        BY <2>2, <3>1, <3>3, <3>4 DEF Open, Promise!DeliverOnce, sendVars, IInv, TypeOK
      <3> QED
        BY <3>1, <3>5 DEF Promise!Next
    <2>3. ASSUME \/ \E g \in Senders : TakeCounter(g) \/ SealFails(g) \/ SealPanics(g)
                 \/ WipeSender
          PROVE  UNCHANGED <<sealings, deliveries>>
      BY <2>3 DEF TakeCounter, SealFails, SealPanics, WipeSender, recvVars
    <2>4. ASSUME \/ \E g \in Receivers, pkt \in Packets :
                       CheckAndSetTrue(g, pkt) \/ CheckAndSetFalse(g, pkt)
                 \/ \E g \in Receivers :
                       LoadCipher(g) \/ LoadCipherPanics(g) \/ OpenFails(g)
                 \/ WipeCipher \/ WipeBitmap
          PROVE  UNCHANGED <<sealings, deliveries>>
      BY <2>4 DEF CheckAndSetTrue, CheckAndSetFalse, LoadCipher, LoadCipherPanics,
                  OpenFails, WipeCipher, WipeBitmap, sendVars, vars
    <2> QED
      BY <2>1, <2>2, <2>3, <2>4 DEF Next, SendNext, RecvNext, vars
  <1> QED
    BY <1>1, <1>2, SessionInvariant, PTL DEF Spec, ImplementsChannel, Promise!Spec

(***************************************************************************)
(* No packet is refused without a packet that excuses it: the window never *)
(* runs ahead of what it has accepted, and Wipe only makes it forget.      *)
(***************************************************************************)
THEOREM RefusalsAreExplained == Spec => []RefusalExplained
  <1>0. Counters \subseteq Nat
    BY MaxCounterAssumption DEF Counters
  <1>1. Init => RefusalExplained
    <2> SUFFICES ASSUME Init, NEW c \in Counters PROVE IsFresh(replay, c)
      BY DEF RefusalExplained
    <2>1. replay.maxSeq = 0 /\ replay.bitmap = EmptyBitmap
      BY DEF Init, EmptyWindow
    <2>2. 0 \in 0 .. WindowSize - 1
      BY WordBitsAssumption DEF WindowSize
    <2>3. ~ BitIsSet(replay.bitmap, 0)
      BY <2>1, <2>2, EmptyHasNoBit
    <2>4. CASE c = 0
      BY <2>1, <2>2, <2>3, <2>4 DEF IsFresh, InWindow
    <2>5. CASE c # 0
      BY <1>0, <2>1, <2>5 DEF IsFresh
    <2> QED
      BY <2>4, <2>5
  <1>2. ASSUME IInv, RefusalExplained, [Next]_vars PROVE RefusalExplained'
    <2>1. ASSUME NEW g \in Receivers, NEW pkt \in Packets, CheckAndSetTrue(g, pkt)
          PROVE  RefusalExplained'
      <3> SUFFICES ASSUME NEW c \in Counters, ~ IsFresh(replay', c)
                   PROVE  Excused(claims', c)
        BY DEF RefusalExplained
      <3>1. /\ pkt.counter \in Counters /\ IsFresh(replay, pkt.counter)
            /\ replay \in Windows /\ replay' = Accept(replay, pkt.counter)
            /\ claims' = claims \cup {pkt}
        BY <1>2, <2>1 DEF CheckAndSetTrue, IInv, TypeOK, Packets
      <3>2. CASE ~ IsFresh(replay, c)
        BY <1>2, <3>1, <3>2 DEF RefusalExplained, Excused
      <3>3. CASE IsFresh(replay, c)
        <4>1. c = pkt.counter \/ pkt.counter - c >= WindowSize
          BY <3>1, <3>3, AcceptIsForGood
        <4> QED
          BY <3>1, <4>1 DEF Excused
      <3> QED
        BY <3>2, <3>3
    <2>2. CASE WipeBitmap
      <3> SUFFICES ASSUME NEW c \in Counters, ~ IsFresh(replay', c)
                   PROVE  Excused(claims', c)
        BY DEF RefusalExplained
      <3>1. /\ replay'.maxSeq = replay.maxSeq /\ replay'.bitmap = EmptyBitmap
            /\ claims' = claims
        BY <1>2, <2>2 DEF WipeBitmap, IInv, TypeOK, Windows
      <3>2. ~ (c > replay.maxSeq) /\ ~ InWindow(replay, c)
        BY <3>1, EmptyHasNoBit DEF IsFresh, InWindow
      <3>3. ~ IsFresh(replay, c)
        BY <3>2 DEF IsFresh
      <3> QED
        BY <1>2, <3>1, <3>3 DEF RefusalExplained
    <2>3. CASE UNCHANGED <<replay, claims>>
      BY <1>2, <2>3 DEF RefusalExplained, Excused
    <2>4. SendNext \/ UNCHANGED vars => UNCHANGED <<replay, claims>>
      BY DEF SendNext, TakeCounter, Seal, SealFails, SealPanics, WipeSender, recvVars, vars
    <2>5. ASSUME \/ \E g \in Receivers, pkt \in Packets : CheckAndSetFalse(g, pkt)
                 \/ \E g \in Receivers :
                       LoadCipher(g) \/ LoadCipherPanics(g) \/ Open(g) \/ OpenFails(g)
                 \/ WipeCipher
          PROVE  UNCHANGED <<replay, claims>>
      BY <2>5 DEF CheckAndSetFalse, LoadCipher, LoadCipherPanics, Open, OpenFails,
                  WipeCipher, vars
    <2> QED
      BY <1>2, <2>1, <2>2, <2>3, <2>4, <2>5 DEF Next, RecvNext
  <1> QED
    BY <1>1, <1>2, SessionInvariant, PTL DEF Spec
=============================================================================
