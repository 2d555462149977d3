------------------------------- MODULE Session -------------------------------
(***************************************************************************)
(* One direction of a tunnel session: the sending half of one Session      *)
(* object of pkg/protocol/session.go, the receiving half of its peer, and  *)
(* the datagram network between them.                                      *)
(*                                                                         *)
(* Each half is used by several goroutines at once (TUN loop and keepalive *)
(* loop on the sending side; the ingress loops on the receiving side) and  *)
(* may be wiped by another one at any moment.  Only the replay window has  *)
(* a lock; the two cipher pointers have none, so EncryptPacket,            *)
(* DecryptPacket and Wipe are split at every access to shared state.       *)
(*                                                                         *)
(* The network loses, repeats and reorders datagrams: a sealed packet can  *)
(* arrive any number of times, at any time, or never.  It also damages     *)
(* them: a datagram whose header or body was altered on the way arrives    *)
(* with some counter and fails authentication.                             *)
(***************************************************************************)
EXTENDS ReplayBitmap

CONSTANTS Senders,      \* goroutines that call EncryptPacket on one object
          Receivers,    \* goroutines that call DecryptPacket on its peer
          Damage        \* TRUE if the network may damage a datagram

ASSUME DamageAssumption == Damage \in BOOLEAN

VARIABLES
    sendCounter,   \* Session.sendCounter, the next counter
    sendLive,      \* Session.SendCipher is not nil
    sender,        \* where each sending goroutine is in EncryptPacket
    sealings,      \* history: packets sealed per counter; these are on the net
    replay,        \* Session.replay of the receiving object
    recvLive,      \* Session.RecvCipher of the receiving object is not nil
    cleared,       \* its Wipe has reset the bitmap
    receiver,      \* where each receiving goroutine is in DecryptPacket
    claims,        \* history: the packets CheckAndSet has accepted
    deliveries,    \* history: packets returned by DecryptPacket, per counter
    sendUp,        \* the sending process has not panicked
    recvUp         \* the receiving process has not panicked

sendVars == <<sendCounter, sendLive, sender, sealings, sendUp>>
recvVars == <<replay, recvLive, cleared, receiver, claims, deliveries, recvUp>>
vars == <<sendCounter, sendLive, sender, sealings, replay, recvLive, cleared,
          receiver, claims, deliveries, sendUp, recvUp>>

Packets == [counter : Counters, intact : BOOLEAN]

IdleSender == [pc |-> "idle", counter |-> 0]
IdleReceiver == [pc |-> "idle", pkt |-> [counter |-> 0, intact |-> FALSE]]

Init ==
    /\ sendCounter = 0
    /\ sendLive = TRUE
    /\ sender = [g \in Senders |-> IdleSender]
    /\ sealings = [c \in Counters |-> 0]
    /\ replay = EmptyWindow
    /\ recvLive = TRUE
    /\ cleared = FALSE
    /\ receiver = [g \in Receivers |-> IdleReceiver]
    /\ claims = {}
    /\ deliveries = [c \in Counters |-> 0]
    /\ sendUp = TRUE
    /\ recvUp = TRUE

-----------------------------------------------------------------------------
(* EncryptPacket                                                           *)

\* mutant: the counter is read and incremented in two steps
TakeCounterLater(g) ==
    /\ sendUp /\ sender[g].pc = "idle"
    /\ sendCounter <= MaxCounter
    /\ sender' = [sender EXCEPT ![g] = [pc |-> "numbered", counter |-> sendCounter]]
    /\ UNCHANGED <<sendCounter, sendLive, sealings, sendUp, recvVars>>

\* counter := s.sendCounter.Add(1) - 1, one atomic instruction.  MaxCounter
\* stands for the end of the counters, 2^64 - 1 in the code.
TakeCounter(g) ==
    /\ sendUp /\ sender[g].pc = "idle"
    /\ sendCounter <= MaxCounter
    /\ sender' = [sender EXCEPT ![g] = [pc |-> "numbered", counter |-> sendCounter]]
    /\ sendCounter' = sendCounter + 1
    /\ UNCHANGED <<sendLive, sealings, sendUp, recvVars>>

\* EncryptInPlace seals with the counter as nonce and as part of the header;
\* the caller sends the packet.
Seal(g) ==
    /\ sendUp /\ sender[g].pc = "numbered"
    /\ sendLive
    /\ sealings' = [sealings EXCEPT ![sender[g].counter] = @ + 1]
    /\ sender' = [sender EXCEPT ![g] = IdleSender]
    /\ UNCHANGED <<sendCounter, sendLive, sendUp, recvVars>>

\* No room for the tag: the error is returned before the cipher is touched
\* and the counter is lost.
SealFails(g) ==
    /\ sendUp /\ sender[g].pc = "numbered"
    /\ sender' = [sender EXCEPT ![g] = IdleSender]
    /\ UNCHANGED <<sendCounter, sendLive, sealings, sendUp, recvVars>>

\* The object was wiped: the nil cipher is dereferenced.
SealPanics(g) ==
    /\ sendUp /\ sender[g].pc = "numbered"
    /\ ~ sendLive
    /\ sendUp' = FALSE
    /\ UNCHANGED <<sendCounter, sendLive, sender, sealings, recvVars>>

\* Wipe on the sending object, as far as this direction can see it.
WipeSender ==
    /\ sendUp /\ sendLive
    /\ sendLive' = FALSE
    /\ UNCHANGED <<sendCounter, sender, sealings, sendUp, recvVars>>

-----------------------------------------------------------------------------
(* DecryptPacket                                                           *)

\* What Receive may hand to an ingress loop.
Arrives(pkt) == IF pkt.intact THEN sealings[pkt.counter] > 0 ELSE Damage

\* The replay window admits the packet.  It is consulted before the packet
\* is authenticated and takes the counter of any header.
CheckAndSetTrue(g, pkt) ==
    /\ recvUp /\ receiver[g].pc = "idle"
    /\ Arrives(pkt)
    /\ IsFresh(replay, pkt.counter)
    /\ replay' = Accept(replay, pkt.counter)
    /\ claims' = claims \cup {pkt}
    /\ receiver' = [receiver EXCEPT ![g] = [pc |-> "claimed", pkt |-> pkt]]
    /\ UNCHANGED <<recvLive, cleared, deliveries, recvUp, sendVars>>

\* "packet rejected by anti-replay window"
CheckAndSetFalse(g, pkt) ==
    /\ recvUp /\ receiver[g].pc = "idle"
    /\ Arrives(pkt)
    /\ ~ IsFresh(replay, pkt.counter)
    /\ UNCHANGED vars

\* s.RecvCipher is loaded: DecryptInPlace will run on that object whatever
\* Wipe does next.
LoadCipher(g) ==
    /\ recvUp /\ receiver[g].pc = "claimed"
    /\ recvLive
    /\ receiver' = [receiver EXCEPT ![g].pc = "opening"]
    /\ UNCHANGED <<replay, recvLive, cleared, claims, deliveries, recvUp, sendVars>>

\* The nil cipher is dereferenced.
LoadCipherPanics(g) ==
    /\ recvUp /\ receiver[g].pc = "claimed"
    /\ ~ recvLive
    /\ recvUp' = FALSE
    /\ UNCHANGED <<replay, recvLive, cleared, receiver, claims, deliveries, sendVars>>

\* Open succeeds on an intact packet.
Open(g) ==
    /\ recvUp /\ receiver[g].pc = "opening"
    /\ receiver[g].pkt.intact
    /\ deliveries' = [deliveries EXCEPT ![receiver[g].pkt.counter] = @ + 1]
    /\ receiver' = [receiver EXCEPT ![g] = IdleReceiver]
    /\ UNCHANGED <<replay, recvLive, cleared, claims, recvUp, sendVars>>

\* "aead authentication failed", or too short for a tag, which is noticed
\* before the cipher is touched.
OpenFails(g) ==
    /\ recvUp /\ receiver[g].pc \in {"claimed", "opening"}
    /\ ~ receiver[g].pkt.intact
    /\ receiver' = [receiver EXCEPT ![g] = IdleReceiver]
    /\ UNCHANGED <<replay, recvLive, cleared, claims, deliveries, recvUp, sendVars>>

-----------------------------------------------------------------------------
(* Wipe on the receiving object: first the ciphers, then, under the lock   *)
(* of the window, the bitmap.  maxSeq keeps its value.                     *)

\* mutant: the bitmap may be reset while the cipher is still there
WipeBitmapFirst ==
    /\ recvUp /\ ~ cleared
    /\ replay' = [replay EXCEPT !.bitmap = EmptyBitmap]
    /\ cleared' = TRUE
    /\ UNCHANGED <<recvLive, receiver, claims, deliveries, recvUp, sendVars>>

WipeCipher ==
    /\ recvUp /\ recvLive
    /\ recvLive' = FALSE
    /\ UNCHANGED <<replay, cleared, receiver, claims, deliveries, recvUp, sendVars>>

WipeBitmap ==
    /\ recvUp /\ ~ recvLive /\ ~ cleared
    /\ replay' = [replay EXCEPT !.bitmap = EmptyBitmap]
    /\ cleared' = TRUE
    /\ UNCHANGED <<recvLive, receiver, claims, deliveries, recvUp, sendVars>>

-----------------------------------------------------------------------------
SendNext ==
    \/ \E g \in Senders : TakeCounter(g) \/ Seal(g) \/ SealFails(g) \/ SealPanics(g)
    \/ WipeSender

RecvNext ==
    \/ \E g \in Receivers, pkt \in Packets :
          CheckAndSetTrue(g, pkt) \/ CheckAndSetFalse(g, pkt)
    \/ \E g \in Receivers :
          LoadCipher(g) \/ LoadCipherPanics(g) \/ Open(g) \/ OpenFails(g)
    \/ WipeCipher
    \/ WipeBitmap

Next == SendNext \/ RecvNext

Spec == Init /\ [][Next]_vars

-----------------------------------------------------------------------------
TypeOK ==
    /\ sendCounter \in 0 .. MaxCounter + 1
    /\ sendLive \in BOOLEAN
    /\ sender \in [Senders -> [pc : {"idle", "numbered"}, counter : Counters]]
    /\ sealings \in [Counters -> Nat]
    /\ replay \in Windows
    /\ recvLive \in BOOLEAN
    /\ cleared \in BOOLEAN
    /\ receiver \in [Receivers ->
                        [pc : {"idle", "claimed", "opening"}, pkt : Packets]]
    /\ claims \subseteq Packets
    /\ deliveries \in [Counters -> Nat]
    /\ sendUp \in BOOLEAN
    /\ recvUp \in BOOLEAN

\* Goroutines that encrypt on one session at the same time never seal two
\* packets under one counter: ChaCha20-Poly1305 and AES-GCM lose their
\* guarantees when a nonce repeats.
NonceUnique == \A c \in Counters : sealings[c] <= 1

\* A packet reaches the tunnel at most once, however often the network
\* repeats it, however the ingress goroutines interleave, and while Wipe
\* resets the bitmap that remembers it.
AtMostOnce == \A c \in Counters : deliveries[c] <= 1

\* The session implements the channel: every sealing is the first under its
\* counter, every delivery is the first of a sealed packet.
Promise == INSTANCE Channel

ImplementsChannel == Promise!Spec

\* The window turns a counter away only if a packet with that counter, or
\* one at least WindowSize later, is in the set.
Excused(S, c) == \E pkt \in S : pkt.counter = c \/ pkt.counter - c >= WindowSize

\* A packet is refused only for a reason: something was accepted with its
\* counter or with one so much later that it has left the window.  Holds
\* across jumps of the window and across Wipe.
RefusalExplained ==
    \A c \in Counters : ~ IsFresh(replay, c) => Excused(claims, c)

-----------------------------------------------------------------------------
(* The inductive invariant behind the theorems of SessionProofs.           *)

Holds(g) == receiver[g].pc \in {"claimed", "opening"}
Opens(g) == receiver[g].pc = "opening"

\* A counter that was handed out is below sendCounter, belongs to one
\* goroutine, and is unused until that goroutine seals.
CountersAreOwned ==
    /\ \A c \in Counters : c >= sendCounter => sealings[c] = 0
    /\ \A g \in Senders :
          sender[g].pc = "numbered" =>
              /\ sender[g].counter < sendCounter
              /\ sealings[sender[g].counter] = 0
    /\ \A g, h \in Senders :
          /\ sender[g].pc = "numbered" /\ sender[h].pc = "numbered"
          /\ sender[g].counter = sender[h].counter
          => g = h

\* Until the bitmap is reset, a counter that is claimed or was delivered is
\* refused, and it is claimed by one goroutine only.
ClaimsAreExclusive ==
    ~ cleared =>
        /\ \A c \in Counters : deliveries[c] > 0 => ~ IsFresh(replay, c)
        /\ \A g \in Receivers :
              Holds(g) => /\ ~ IsFresh(replay, receiver[g].pkt.counter)
                          /\ deliveries[receiver[g].pkt.counter] = 0
        /\ \A g, h \in Receivers :
              /\ Holds(g) /\ Holds(h)
              /\ receiver[g].pkt.counter = receiver[h].pkt.counter
              => g = h

\* The goroutines that loaded the cipher stay exclusive even after that.
OpensAreExclusive ==
    /\ \A g \in Receivers :
          Opens(g) => deliveries[receiver[g].pkt.counter] = 0
    /\ \A g, h \in Receivers :
          /\ Opens(g) /\ Opens(h)
          /\ receiver[g].pkt.counter = receiver[h].pkt.counter
          => g = h

\* The order of the two halves of Wipe: no bitmap without ciphers.
WipeOrder == cleared => ~ recvLive

\* What a goroutine holds as intact was sealed.
HeldWasSealed ==
    \A g \in Receivers :
        receiver[g].pkt.intact => sealings[receiver[g].pkt.counter] > 0

IInv ==
    /\ TypeOK
    /\ CountersAreOwned /\ NonceUnique
    /\ ClaimsAreExclusive /\ OpensAreExclusive /\ WipeOrder /\ HeldWasSealed
    /\ AtMostOnce

-----------------------------------------------------------------------------
\* The comment of CheckAndSet, "false if replayed or too old", as the
\* tunnel sees it: a genuine packet is refused only if genuine packets
\* excuse it.
GenuineRefusedOnlyIfReplayedOrOld ==
    \A c \in Counters :
        sealings[c] > 0 /\ ~ IsFresh(replay, c) =>
            Excused({pkt \in claims : pkt.intact}, c)
=============================================================================
