-------------------------------- MODULE Noise --------------------------------
(***************************************************************************)
(* The Noise IK handshake of pkg/crypto/noise.go with symbolic             *)
(* cryptography: any number of initiators, one responder, and a network    *)
(* that repeats, reorders, loses, misdelivers and damages messages.        *)
(*                                                                         *)
(* A key pair is an atom.  A Diffie-Hellman secret is the unordered pair   *)
(* of its two keys, so both sides compute the same value.  The chaining    *)
(* key is the sequence of the secrets mixed into it and the hash the       *)
(* sequence of what was hashed: HKDF and SHA-256 are taken to be injective.*)
(* An AEAD box opens under the key and the additional data it was sealed   *)
(* with and under no others.                                               *)
(***************************************************************************)
EXTENDS Integers, Sequences

CONSTANTS
    Attempts,      \* initiator handshakes; each is also its ephemeral key
    StaticOf,      \* the static key of the client that makes an attempt
    ServerKey,     \* the responder's static key
    Replies,       \* responder ephemeral keys, one per accepted initiation
    Indices,       \* session indices that GenerateIndex may return
    Garbled        \* a box damaged on the way

\* Key pairs are made at random: no reply draws the key of an attempt.
ASSUME KeysAssumption == Attempts \cap Replies = {}

VARIABLES
    initiator,     \* one InitiatorHandshake per attempt
    inits,         \* initiations on the network
    resps,         \* responses on the network
    served         \* what ConsumeInitiation returned, per reply key

vars == <<initiator, inits, resps, served>>

-----------------------------------------------------------------------------
(* Symbolic primitives.                                                    *)

DH(a, b) == {a, b}
MixKey(ck, secret) == Append(ck, secret)
MixHash(h, x) == Append(h, x)
Seal(key, ad, body) == [key |-> key, ad |-> ad, body |-> body]
Opens(box, key, ad) == box # Garbled /\ box.key = key /\ box.ad = ad

\* newNoiseState, then the responder's static key, known beforehand
Start == [ck |-> <<>>, hash |-> <<ServerKey>>]

\* The two keys read from HKDF(chainingKey, "AnonymousAnt-Split") in order.
Split(ck) == <<[ck |-> ck, half |-> 1], [ck |-> ck, half |-> 2]>>

-----------------------------------------------------------------------------
(* What each side computes.                                                *)

\* CreateInitiation of attempt a with its local index; returns the message
\* and the noise state it leaves.
Initiation(a, index) ==
    LET h1 == MixHash(Start.hash, a)
        k1 == MixKey(Start.ck, DH(a, ServerKey))               \* es
        static == Seal(k1, h1, StaticOf[a])
        h2 == MixHash(h1, static)
        k2 == MixKey(k1, DH(StaticOf[a], ServerKey))            \* ss
        payload == Seal(k2, h2, index)
    IN  [msg |-> [ephem |-> a, static |-> static, payload |-> payload],
         ck |-> k2, hash |-> MixHash(h2, payload)]

\* The responder's state after the ephemeral and after the static key of an
\* initiation.
AfterEphem(msg) ==
    [ck |-> MixKey(Start.ck, DH(ServerKey, msg.ephem)),
     hash |-> MixHash(Start.hash, msg.ephem)]

AfterStatic(msg) ==
    [ck |-> MixKey(AfterEphem(msg).ck, DH(ServerKey, msg.static.body)),
     hash |-> MixHash(AfterEphem(msg).hash, msg.static)]

\* Both boxes of the initiation open.
InitiationOpens(msg) ==
    /\ Opens(msg.static, AfterEphem(msg).ck, AfterEphem(msg).hash)
    /\ Opens(msg.payload, AfterStatic(msg).ck, AfterStatic(msg).hash)

\* mutant: the responder derives its keys before it mixes ee and se
RespondEarlySplit(msg, e, index) ==
    LET h1 == MixHash(MixHash(AfterStatic(msg).hash, msg.payload), e)
        k2 == MixKey(MixKey(AfterStatic(msg).ck, DH(e, msg.ephem)),
                     DH(e, msg.static.body))
    IN  [msg |-> [ephem |-> e, payload |-> Seal(k2, h1, index)],
         keys |-> [local |-> index, remote |-> msg.payload.body,
                   send |-> Split(AfterStatic(msg).ck)[2],
                   recv |-> Split(AfterStatic(msg).ck)[1],
                   peer |-> msg.static.body]]

\* mutant: the responder's keys are not crossed
RespondUncrossed(msg, e, index) ==
    LET h1 == MixHash(MixHash(AfterStatic(msg).hash, msg.payload), e)
        k2 == MixKey(MixKey(AfterStatic(msg).ck, DH(e, msg.ephem)),
                     DH(e, msg.static.body))
    IN  [msg |-> [ephem |-> e, payload |-> Seal(k2, h1, index)],
         keys |-> [local |-> index, remote |-> msg.payload.body,
                   send |-> Split(k2)[1], recv |-> Split(k2)[2],
                   peer |-> msg.static.body]]

\* The rest of ConsumeInitiation, with the fresh ephemeral e and the index
\* of the new session: the response and the session keys.  The time stamp in
\* the payload is read by nobody.
Respond(msg, e, index) ==
    LET h1 == MixHash(MixHash(AfterStatic(msg).hash, msg.payload), e)
        k1 == MixKey(AfterStatic(msg).ck, DH(e, msg.ephem))      \* ee
        k2 == MixKey(k1, DH(e, msg.static.body))                 \* se
    IN  [msg |-> [ephem |-> e, payload |-> Seal(k2, h1, index)],
         keys |-> [local |-> index, remote |-> msg.payload.body,
                   send |-> Split(k2)[2], recv |-> Split(k2)[1],
                   peer |-> msg.static.body]]

\* The initiator's state after a response, before its payload is opened.
AfterResponse(a, msg) ==
    [ck |-> MixKey(MixKey(initiator[a].ck, DH(a, msg.ephem)),
                   DH(StaticOf[a], msg.ephem)),
     hash |-> MixHash(initiator[a].hash, msg.ephem)]

-----------------------------------------------------------------------------
NoKeys == [local |-> 0, remote |-> 0, send |-> <<>>, recv |-> <<>>, peer |-> Garbled]

Idle == [pc |-> "new", ck |-> <<>>, hash |-> <<>>, index |-> 0, keys |-> NoKeys]

Init ==
    /\ initiator = [a \in Attempts |-> Idle]
    /\ inits = {}
    /\ resps = {}
    /\ served = [e \in Replies |-> NoKeys]

CreateInitiation(a) ==
    /\ initiator[a].pc = "new"
    /\ \E index \in Indices :
          LET out == Initiation(a, index)
          IN  /\ initiator' = [initiator EXCEPT
                    ![a] = [pc |-> "waiting", ck |-> out.ck, hash |-> out.hash,
                            index |-> index, keys |-> NoKeys]]
              /\ inits' = inits \cup {out.msg}
    /\ UNCHANGED <<resps, served>>

\* Datagrams altered on the way: one field of a message in flight.
DamagedInits(msg) ==
    {[msg EXCEPT !.ephem = a] : a \in Attempts \ {msg.ephem}}
        \cup {[msg EXCEPT !.static = Garbled], [msg EXCEPT !.payload = Garbled]}

DamagedResps(msg) ==
    {[msg EXCEPT !.ephem = e] : e \in Replies \ {msg.ephem}}
        \cup {[msg EXCEPT !.payload = Garbled]}

ArrivingInits == inits \cup UNION {DamagedInits(m) : m \in inits}
ArrivingResps == resps \cup UNION {DamagedResps(m) : m \in resps}

\* Both boxes authenticate: the server keeps the keys and answers.  Nothing
\* remembers that the initiation was seen before.
ConsumeInitiation(e, msg) ==
    /\ served[e] = NoKeys
    /\ msg.static # Garbled
    /\ InitiationOpens(msg)
    /\ \E index \in Indices :
          LET out == Respond(msg, e, index)
          IN  /\ served' = [served EXCEPT ![e] = out.keys]
              /\ resps' = resps \cup {out.msg}
    /\ UNCHANGED <<initiator, inits>>

\* The response authenticates: session keys, and the ephemeral is wiped.
ConsumeResponse(a, msg) ==
    /\ initiator[a].pc = "waiting"
    /\ Opens(msg.payload, AfterResponse(a, msg).ck, AfterResponse(a, msg).hash)
    /\ initiator' = [initiator EXCEPT
          ![a].pc = "done",
          ![a].ck = AfterResponse(a, msg).ck,
          ![a].hash = MixHash(AfterResponse(a, msg).hash, msg.payload),
          ![a].keys = [local |-> initiator[a].index, remote |-> msg.payload.body,
                       send |-> Split(AfterResponse(a, msg).ck)[1],
                       recv |-> Split(AfterResponse(a, msg).ck)[2],
                       peer |-> ServerKey]]
    /\ UNCHANGED <<inits, resps, served>>

\* It does not: the caller gives the attempt up.
ConsumeResponseFails(a, msg) ==
    /\ initiator[a].pc = "waiting"
    /\ ~ Opens(msg.payload, AfterResponse(a, msg).ck, AfterResponse(a, msg).hash)
    /\ initiator' = [initiator EXCEPT ![a].pc = "failed"]
    /\ UNCHANGED <<inits, resps, served>>

Next ==
    \/ \E a \in Attempts : CreateInitiation(a)
    \/ \E e \in Replies, msg \in ArrivingInits : ConsumeInitiation(e, msg)
    \/ \E a \in Attempts, msg \in ArrivingResps :
          ConsumeResponse(a, msg) \/ ConsumeResponseFails(a, msg)

Spec == Init /\ [][Next]_vars

-----------------------------------------------------------------------------
Established == {a \in Attempts : initiator[a].pc = "done"}
Sessions == {e \in Replies : served[e] # NoKeys}

TypeOK ==
    /\ \A a \in Attempts :
          /\ initiator[a].pc \in {"new", "waiting", "done", "failed"}
          /\ initiator[a].index \in Indices \cup {0}
          /\ initiator[a].pc = "waiting" => Len(initiator[a].ck) = 2
          /\ initiator[a].pc = "done" => Len(initiator[a].ck) = 4
    /\ \A e \in Sessions : served[e].local \in Indices /\ served[e].remote \in Indices

\* A client that finishes the handshake shares crossed keys and crossed
\* indices with exactly one session of the server, and that session knows
\* the client by its static key: whatever was repeated, misdelivered or
\* damaged, ConsumeResponse never leaves the two sides with different ideas
\* of the tunnel.
EndsAgree ==
    \A a \in Established :
        \E e \in Sessions :
            /\ served[e].recv = initiator[a].keys.send
            /\ served[e].send = initiator[a].keys.recv
            /\ served[e].remote = initiator[a].keys.local
            /\ served[e].local = initiator[a].keys.remote
            /\ served[e].peer = StaticOf[a]
            /\ \A f \in Sessions : served[f].recv = served[e].recv => f = e

\* Counters start at 0 in every session, so a key shared by two sessions, or
\* by the two directions of one, would repeat a nonce.  A repeated
\* initiation makes a second session, with keys of its own.
KeysAreSeparate ==
    LET keys(e) == {served[e].send, served[e].recv}
    IN  \A e \in Sessions :
            /\ served[e].send # served[e].recv
            /\ \A f \in Sessions \ {e} : keys(e) \cap keys(f) = {}
=============================================================================
