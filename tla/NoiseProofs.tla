----------------------------- MODULE NoiseProofs -----------------------------
(***************************************************************************)
(* The handshake for any number of clients, attempts, replies and indices, *)
(* and a network that repeats, loses, misdelivers and damages at will.     *)
(*                                                                         *)
(* The inductive invariant traces every value to the call that made it: an *)
(* initiation to an attempt, the keys of a session and its response to one *)
(* and the same initiation.  What the responder hashed is then read off    *)
(* the box of its response, and the two ends agree because the hash holds  *)
(* everything they said.                                                   *)
(***************************************************************************)
EXTENDS Noise, TLAPS

\* What an initiation leaves in the initiator ...
InitKey(a) == <<DH(a, ServerKey), DH(StaticOf[a], ServerKey)>>
InitHash(m) == <<ServerKey, m.ephem, m.static, m.payload>>

\* ... and the responder's chaining key and hash when it seals its response.
ReplyKey(m, e) ==
    <<DH(ServerKey, m.ephem), DH(ServerKey, m.static.body), DH(e, m.ephem), DH(e, m.static.body)>>
ReplyHash(m, e) == <<ServerKey, m.ephem, m.static, m.payload, e>>

-----------------------------------------------------------------------------
(* The inductive invariant                                                 *)

\* Every initiation on the network was made by an attempt.
InitsAreMade ==
    \A m \in inits : \E a \in Attempts, index \in Indices : m = Initiation(a, index).msg

\* An attempt that waits has the state its initiation left.
Waiting ==
    \A a \in Attempts :
        /\ DOMAIN initiator[a] = {"pc", "ck", "hash", "index", "keys"}
        /\ initiator[a].pc = "waiting" =>
              \E index \in Indices :
                 /\ initiator[a].index = index
                 /\ initiator[a].ck = Initiation(a, index).ck
                 /\ initiator[a].hash = Initiation(a, index).hash

\* The keys of a session were computed from an initiation that opened.
Opened == {m \in ArrivingInits : m.static # Garbled /\ InitiationOpens(m)}
SessionsAreMade ==
    \A e \in Sessions : \E m \in Opened, index \in Indices :
        served[e] = Respond(m, e, index).keys

\* A response was computed together with the keys of its session.
RespsAreMade ==
    \A r \in resps : \E e \in Sessions, m \in Opened, index \in Indices :
        r = Respond(m, e, index).msg /\ served[e] = Respond(m, e, index).keys

\* EndsAgree without the claim that no other session has the keys.
Agree(a, e) ==
    /\ served[e].recv = initiator[a].keys.send
    /\ served[e].send = initiator[a].keys.recv
    /\ served[e].remote = initiator[a].keys.local
    /\ served[e].local = initiator[a].keys.remote
    /\ served[e].peer = StaticOf[a]
Agreed == \A a \in Established : \E e \in Sessions : Agree(a, e)

IInv ==
    /\ DOMAIN initiator = Attempts /\ DOMAIN served = Replies
    /\ InitsAreMade /\ Waiting /\ SessionsAreMade /\ RespsAreMade /\ Agreed

-----------------------------------------------------------------------------
(***************************************************************************)
(* Mixing into a key or a hash adds one component.                         *)
(***************************************************************************)
LEMMA MixIs ==
    /\ \A a : Append(<<>>, a) = <<a>>
    /\ \A a, b : Append(<<a>>, b) = <<a, b>>
    /\ \A a, b, c : Append(<<a, b>>, c) = <<a, b, c>>
    /\ \A a, b, c, d : Append(<<a, b, c>>, d) = <<a, b, c, d>>
    /\ \A a, b, c, d, e : Append(<<a, b, c, d>>, e) = <<a, b, c, d, e>>
  <1>1. \A a : Append(<<>>, a) = <<a>>
    OBVIOUS
  <1>2. ASSUME NEW a, NEW b
        PROVE  Append(<<a>>, b) = <<a, b>>
    <2> DEFINE s == <<a>>
    <2>1. s \in Seq({a}) /\ Len(s) = 1
      OBVIOUS
    <2>2. Append(s, b) = [i \in 1 .. 2 |-> IF i = 2 THEN b ELSE s[i]]
      BY <2>1
    <2>3. <<a, b>> = [i \in 1 .. 2 |-> IF i = 2 THEN b ELSE s[i]]
      OBVIOUS
    <2> QED
      BY <2>2, <2>3
  <1>3. ASSUME NEW a, NEW b, NEW c
        PROVE  Append(<<a, b>>, c) = <<a, b, c>>
    <2> DEFINE s == <<a, b>>
    <2>1. s \in Seq({a, b}) /\ Len(s) = 2
      OBVIOUS
    <2>2. Append(s, c) = [i \in 1 .. 3 |-> IF i = 3 THEN c ELSE s[i]]
      BY <2>1
    <2>3. <<a, b, c>> = [i \in 1 .. 3 |-> IF i = 3 THEN c ELSE s[i]]
      OBVIOUS
    <2> QED
      BY <2>2, <2>3
  <1>4. ASSUME NEW a, NEW b, NEW c, NEW d
        PROVE  Append(<<a, b, c>>, d) = <<a, b, c, d>>
    <2> DEFINE s == <<a, b, c>>
    <2>1. s \in Seq({a, b, c}) /\ Len(s) = 3
      OBVIOUS
    <2>2. Append(s, d) = [i \in 1 .. 4 |-> IF i = 4 THEN d ELSE s[i]]
      BY <2>1
    <2>3. <<a, b, c, d>> = [i \in 1 .. 4 |-> IF i = 4 THEN d ELSE s[i]]
      OBVIOUS
    <2> QED
      BY <2>2, <2>3
  <1>5. ASSUME NEW a, NEW b, NEW c, NEW d, NEW e
        PROVE  Append(<<a, b, c, d>>, e) = <<a, b, c, d, e>>
    <2> DEFINE s == <<a, b, c, d>>
    <2>1. s \in Seq({a, b, c, d}) /\ Len(s) = 4
      OBVIOUS
    <2>2. Append(s, e) = [i \in 1 .. 5 |-> IF i = 5 THEN e ELSE s[i]]
      BY <2>1
    <2>3. <<a, b, c, d, e>> = [i \in 1 .. 5 |-> IF i = 5 THEN e ELSE s[i]]
      OBVIOUS
    <2> QED
      BY <2>2, <2>3
  <1> QED
    BY <1>1, <1>2, <1>3, <1>4, <1>5

(***************************************************************************)
(* CreateInitiation: what it sends and what it leaves behind.              *)
(***************************************************************************)
LEMMA InitiationIs ==
    ASSUME NEW a, NEW index
    PROVE  /\ Initiation(a, index).msg.ephem = a
           /\ DOMAIN Initiation(a, index).msg = {"ephem", "static", "payload"}
           /\ Initiation(a, index).msg.static.body = StaticOf[a]
           /\ Initiation(a, index).msg.payload.body = index
           /\ Initiation(a, index).ck = InitKey(a)
           /\ Initiation(a, index).hash = InitHash(Initiation(a, index).msg)
  <1> DEFINE i == Initiation(a, index)
  <1>1. /\ i.msg.ephem = a /\ DOMAIN i.msg = {"ephem", "static", "payload"}
        /\ i.msg.static.body = StaticOf[a] /\ i.msg.payload.body = index
    BY DEF Initiation, Seal
  <1>2. i.ck = Append(Append(<<>>, DH(a, ServerKey)), DH(StaticOf[a], ServerKey))
    BY DEF Initiation, MixKey, Start
  <1>3. i.hash = Append(Append(Append(<<ServerKey>>, a), i.msg.static), i.msg.payload)
    BY DEF Initiation, MixHash, Start
  <1> HIDE DEF i
  <1>4. i.ck = InitKey(a)
    BY <1>2, MixIs DEF InitKey
  <1>5. i.hash = InitHash(i.msg)
    <2>1. i.hash = Append(Append(<<ServerKey, a>>, i.msg.static), i.msg.payload)
      BY <1>3, MixIs
    <2>2. i.hash = Append(<<ServerKey, a, i.msg.static>>, i.msg.payload)
      BY <2>1, MixIs
    <2>3. i.hash = <<ServerKey, a, i.msg.static, i.msg.payload>>
      BY <2>2, MixIs
    <2> QED
      BY <1>1, <2>3 DEF InitHash
  <1> QED
    BY <1>1, <1>4, <1>5 DEF i

(***************************************************************************)
(* ConsumeInitiation: its response is sealed under everything said so far, *)
(* and the keys of the session come from the same chaining key, crossed.   *)
(***************************************************************************)
LEMMA RespondIs ==
    ASSUME NEW m, NEW e, NEW index
    PROVE  LET r == Respond(m, e, index)
           IN  /\ DOMAIN r.msg = {"ephem", "payload"}
               /\ r.msg.ephem = e
               /\ r.msg.payload.key = ReplyKey(m, e)
               /\ r.msg.payload.ad = ReplyHash(m, e)
               /\ r.msg.payload.body = index
               /\ r.keys.local = index /\ r.keys.remote = m.payload.body
               /\ r.keys.send = Split(ReplyKey(m, e))[2]
               /\ r.keys.recv = Split(ReplyKey(m, e))[1]
               /\ r.keys.peer = m.static.body
               /\ r.keys # NoKeys
  BY SMTT(30) DEF Respond, AfterStatic, AfterEphem, MixKey, MixHash, Start, Seal, ReplyKey, ReplyHash,
         Split, NoKeys

(***************************************************************************)
(* The two keys of a chaining key differ from each other and from those of *)
(* any other.                                                              *)
(***************************************************************************)
LEMMA SplitIs ==
    ASSUME NEW k, NEW l
    PROVE  /\ Split(k)[1] # Split(l)[2]
           /\ Split(k)[1] = Split(l)[1] => k = l
           /\ Split(k)[2] = Split(l)[2] => k = l
  BY DEF Split

(***************************************************************************)
(* Two replies never mix the same chaining key, whatever they answer.      *)
(***************************************************************************)
LEMMA ReplyKeysDiffer ==
    ASSUME NEW e \in Replies, NEW f \in Replies, NEW m, NEW o,
           m.ephem \in Attempts, o.ephem \in Attempts, ReplyKey(m, e) = ReplyKey(o, f)
    PROVE  e = f
  <1>1. DH(e, m.ephem) = DH(f, o.ephem)
    BY DEF ReplyKey
  <1> QED
    BY <1>1, KeysAssumption DEF DH

(***************************************************************************)
(* Damage on the way does not take an initiation's ephemeral key out of    *)
(* the attempts' keys.                                                     *)
(***************************************************************************)
LEMMA ArrivingEphem == ASSUME InitsAreMade, NEW m \in ArrivingInits PROVE m.ephem \in Attempts
  <1>1. \A o \in inits : o.ephem \in Attempts /\ DOMAIN o = {"ephem", "static", "payload"}
    <2> TAKE o \in inits
    <2>1. PICK a \in Attempts, index \in Indices : o = Initiation(a, index).msg
      BY DEF InitsAreMade
    <2> QED
      BY <2>1, InitiationIs
  <1>2. CASE m \in inits
    BY <1>1, <1>2
  <1>3. ASSUME NEW o \in inits, m \in DamagedInits(o) PROVE m.ephem \in Attempts
    BY <1>1, <1>3 DEF DamagedInits
  <1> QED
    BY <1>2, <1>3 DEF ArrivingInits

(***************************************************************************)
(* A response that opens: it answers this attempt's own initiation.        *)
(***************************************************************************)
LEMMA OpenedIsAnswer ==
    ASSUME IInv, NEW a \in Attempts, initiator[a].pc = "waiting", NEW r \in ArrivingResps,
           Opens(r.payload, AfterResponse(a, r).ck, AfterResponse(a, r).hash)
    PROVE  \E e \in Sessions :
              /\ served[e].recv = Split(AfterResponse(a, r).ck)[1]
              /\ served[e].send = Split(AfterResponse(a, r).ck)[2]
              /\ served[e].remote = initiator[a].index
              /\ served[e].local = r.payload.body
              /\ served[e].peer = StaticOf[a]
  <1> DEFINE From(o, e, m, index) ==
                /\ o = Respond(m, e, index).msg /\ served[e] = Respond(m, e, index).keys
  <1>1. PICK own \in Indices : /\ initiator[a].index = own
                               /\ initiator[a].ck = Initiation(a, own).ck
                               /\ initiator[a].hash = Initiation(a, own).hash
    BY DEF IInv, Waiting
  <1> DEFINE i == Initiation(a, own).msg
  <1>2. /\ i.ephem = a /\ i.static.body = StaticOf[a] /\ i.payload.body = own
        /\ initiator[a].ck = InitKey(a) /\ initiator[a].hash = InitHash(i)
    BY <1>1, InitiationIs
  <1> HIDE DEF i
  <1>3. \E o \in resps : r.payload = o.payload
    <2>1. CASE r \in resps
      BY <2>1
    <2>2. ASSUME NEW o \in resps, r \in DamagedResps(o) PROVE r.payload = o.payload
      <3>1. DOMAIN o = {"ephem", "payload"}
        <4>1. PICK e, m, index : o = Respond(m, e, index).msg
          BY DEF IInv, RespsAreMade
        <4> QED
          BY <4>1, RespondIs
      <3>2. r.payload # Garbled
        BY DEF Opens
      <3> QED
        BY <2>2, <3>1, <3>2 DEF DamagedResps
    <2> QED
      BY <2>1, <2>2 DEF ArrivingResps
  <1>4. PICK o \in resps : r.payload = o.payload
    BY <1>3
  <1>5. PICK e \in Sessions, m \in Opened, index \in Indices : From(o, e, m, index)
    BY DEF IInv, RespsAreMade
  <1>6. /\ r.payload.key = ReplyKey(m, e) /\ r.payload.ad = ReplyHash(m, e)
        /\ r.payload.body = index
        /\ served[e].local = index /\ served[e].remote = m.payload.body
        /\ served[e].send = Split(ReplyKey(m, e))[2]
        /\ served[e].recv = Split(ReplyKey(m, e))[1]
        /\ served[e].peer = m.static.body
    BY <1>4, <1>5, RespondIs
  <1>7. /\ AfterResponse(a, r).ck = ReplyKey(m, e)
        /\ AfterResponse(a, r).hash = ReplyHash(m, e)
    BY <1>6 DEF Opens
  <1>8. AfterResponse(a, r).hash = <<ServerKey, a, i.static, i.payload, r.ephem>>
    <2>1. AfterResponse(a, r).hash = Append(<<ServerKey, a, i.static, i.payload>>, r.ephem)
      BY <1>2 DEF AfterResponse, MixHash, InitHash
    <2> QED
      BY <2>1, MixIs
  <1>9. m.static = i.static /\ m.payload = i.payload
    BY <1>7, <1>8 DEF ReplyHash
  <1> QED
    BY <1>1, <1>2, <1>6, <1>7, <1>9

-----------------------------------------------------------------------------
(***************************************************************************)
(* An initiator starts: nobody else is touched.                            *)
(***************************************************************************)
LEMMA CreateStep ==
    ASSUME IInv, NEW a \in Attempts, CreateInitiation(a)
    PROVE  IInv'
  <1>1. PICK index \in Indices :
           /\ initiator' = [initiator EXCEPT
                 ![a] = [pc |-> "waiting", ck |-> Initiation(a, index).ck,
                         hash |-> Initiation(a, index).hash, index |-> index, keys |-> NoKeys]]
           /\ inits' = inits \cup {Initiation(a, index).msg}
    BY DEF CreateInitiation
  <1>2. resps' = resps /\ served' = served /\ inits \subseteq inits'
    BY <1>1 DEF CreateInitiation
  <1>3. Sessions' = Sessions /\ Opened \subseteq Opened'
    BY <1>2 DEF Sessions, Opened, ArrivingInits
  <1>4. InitsAreMade'
    BY <1>1 DEF IInv, InitsAreMade
  <1>5. Waiting'
    BY <1>1 DEF IInv, Waiting
  <1>6. SessionsAreMade'
    BY <1>2, <1>3 DEF IInv, SessionsAreMade
  <1>7. RespsAreMade'
    BY <1>2, <1>3 DEF IInv, RespsAreMade
  <1>8. Agreed'
    <2>1. \A b \in Established' : b \in Established /\ initiator'[b] = initiator[b]
      BY <1>1 DEF Established, IInv
    <2> QED
      BY <1>2, <1>3, <2>1 DEF IInv, Agreed, Agree
  <1> QED
    BY <1>1, <1>2, <1>4, <1>5, <1>6, <1>7, <1>8 DEF IInv

(***************************************************************************)
(* The responder answers: a session more, the others as they were.         *)
(***************************************************************************)
LEMMA ConsumeStep ==
    ASSUME IInv, NEW e \in Replies, NEW m \in ArrivingInits, ConsumeInitiation(e, m)
    PROVE  IInv'
  <1>1. PICK index \in Indices : /\ served' = [served EXCEPT ![e] = Respond(m, e, index).keys]
                                 /\ resps' = resps \cup {Respond(m, e, index).msg}
    BY DEF ConsumeInitiation
  <1>2. initiator' = initiator /\ inits' = inits /\ e \notin Sessions
    BY DEF ConsumeInitiation, Sessions
  <1>3. /\ Sessions' = Sessions \cup {e}
        /\ served'[e] = Respond(m, e, index).keys
        /\ \A f \in Sessions : served'[f] = served[f]
    BY <1>1, <1>2, RespondIs DEF Sessions, IInv
  <1>4. m \in Opened /\ Opened' = Opened /\ Established' = Established
    BY <1>2 DEF Opened, ArrivingInits, Established, ConsumeInitiation
  <1>5. InitsAreMade' /\ Waiting'
    BY <1>2 DEF IInv, InitsAreMade, Waiting
  <1>6. SessionsAreMade'
    BY <1>3, <1>4 DEF IInv, SessionsAreMade
  <1>7. RespsAreMade'
    BY <1>1, <1>3, <1>4 DEF IInv, RespsAreMade
  <1>8. Agreed'
    BY <1>2, <1>3, <1>4 DEF IInv, Agreed, Agree
  <1> QED
    BY <1>1, <1>2, <1>5, <1>6, <1>7, <1>8 DEF IInv

(***************************************************************************)
(* The initiator finishes, with the session that answered it.              *)
(***************************************************************************)
LEMMA FinishStep ==
    ASSUME IInv, NEW a \in Attempts, NEW r \in ArrivingResps, ConsumeResponse(a, r)
    PROVE  IInv'
  <1> DEFINE k == AfterResponse(a, r).ck
  <1>1. /\ initiator[a].pc = "waiting"
        /\ Opens(r.payload, k, AfterResponse(a, r).hash)
    BY DEF ConsumeResponse
  <1>2. PICK e \in Sessions : /\ served[e].recv = Split(k)[1] /\ served[e].send = Split(k)[2]
                              /\ served[e].remote = initiator[a].index
                              /\ served[e].local = r.payload.body /\ served[e].peer = StaticOf[a]
    BY <1>1, OpenedIsAnswer
  <1>3. /\ \A b \in Attempts \ {a} : initiator'[b] = initiator[b]
        /\ initiator'[a].pc = "done" /\ DOMAIN initiator' = Attempts
        /\ DOMAIN initiator'[a] = {"pc", "ck", "hash", "index", "keys"}
        /\ initiator'[a].keys.send = Split(k)[1] /\ initiator'[a].keys.recv = Split(k)[2]
        /\ initiator'[a].keys.local = initiator[a].index
        /\ initiator'[a].keys.remote = r.payload.body
    BY DEF ConsumeResponse, IInv, Waiting
  <1>4. inits' = inits /\ resps' = resps /\ served' = served
    BY DEF ConsumeResponse
  <1> HIDE DEF k
  <1>5. Sessions' = Sessions /\ Opened' = Opened
    BY <1>4 DEF Sessions, Opened, ArrivingInits
  <1>6. Waiting'
    BY <1>3 DEF IInv, Waiting
  <1>7. Agreed'
    <2>1. ASSUME NEW b \in Established' PROVE \E f \in Sessions : Agree(b, f)'
      <3>1. CASE b = a
        BY <1>2, <1>3, <1>4, <3>1 DEF Agree
      <3>2. CASE b # a
        <4>1. b \in Established /\ initiator'[b] = initiator[b]
          BY <1>3, <3>2 DEF Established
        <4> QED
          BY <1>4, <4>1 DEF IInv, Agreed, Agree
      <3> QED
        BY <3>1, <3>2
    <2> QED
      BY <1>5, <2>1 DEF Agreed
  <1>8. InitsAreMade' /\ SessionsAreMade' /\ RespsAreMade'
    BY <1>4, <1>5 DEF IInv, InitsAreMade, SessionsAreMade, RespsAreMade
  <1> QED
    BY <1>3, <1>4, <1>6, <1>7, <1>8 DEF IInv

(***************************************************************************)
(* The initiator gives up.                                                 *)
(***************************************************************************)
LEMMA GiveUpStep ==
    ASSUME IInv, NEW a \in Attempts, NEW r \in ArrivingResps, ConsumeResponseFails(a, r)
    PROVE  IInv'
  <1>1. /\ \A b \in Attempts \ {a} : initiator'[b] = initiator[b]
        /\ initiator'[a].pc = "failed" /\ DOMAIN initiator' = Attempts
        /\ DOMAIN initiator'[a] = {"pc", "ck", "hash", "index", "keys"}
    BY DEF ConsumeResponseFails, IInv, Waiting
  <1>2. inits' = inits /\ resps' = resps /\ served' = served
    BY DEF ConsumeResponseFails
  <1>3. Sessions' = Sessions /\ Opened' = Opened
    BY <1>2 DEF Sessions, Opened, ArrivingInits
  <1>4. Waiting'
    BY <1>1 DEF IInv, Waiting
  <1>5. Agreed'
    <2>1. \A b \in Established' : b \in Established /\ initiator'[b] = initiator[b]
      BY <1>1 DEF Established
    <2> QED
      BY <1>2, <1>3, <2>1 DEF IInv, Agreed, Agree
  <1>6. InitsAreMade' /\ SessionsAreMade' /\ RespsAreMade'
    BY <1>2, <1>3 DEF IInv, InitsAreMade, SessionsAreMade, RespsAreMade
  <1> QED
    BY <1>1, <1>2, <1>4, <1>5, <1>6 DEF IInv

(***************************************************************************)
(* Nobody has said anything yet.                                           *)
(***************************************************************************)
LEMMA InitIInv == Init => IInv
  <1> SUFFICES ASSUME Init PROVE IInv
    OBVIOUS
  <1>1. Sessions = {} /\ Established = {} /\ inits = {} /\ resps = {}
    BY DEF Init, Sessions, Established, Idle
  <1>2. Waiting
    BY DEF Init, Waiting, Idle
  <1> QED
    BY <1>1, <1>2 DEF Init, IInv, InitsAreMade, SessionsAreMade, RespsAreMade, Agreed

(***************************************************************************)
(* The inductive invariant holds of every handshake.                       *)
(***************************************************************************)
THEOREM IInvariant == Spec => []IInv
  <1>1. IInv /\ [Next]_vars => IInv'
    <2> SUFFICES ASSUME IInv, [Next]_vars PROVE IInv'
      OBVIOUS
    <2>1. CASE UNCHANGED vars
      <3>1. inits' = inits /\ resps' = resps /\ served' = served /\ initiator' = initiator
        BY <2>1 DEF vars
      <3>2. Sessions' = Sessions /\ Established' = Established /\ Opened' = Opened
        BY <3>1 DEF Sessions, Established, Opened, ArrivingInits
      <3> QED
        BY <3>1, <3>2 DEF IInv, InitsAreMade, Waiting, SessionsAreMade, RespsAreMade, Agreed, Agree
    <2>2. ASSUME NEW a \in Attempts, CreateInitiation(a) PROVE IInv'
      BY <2>2, CreateStep
    <2>3. ASSUME NEW e \in Replies, NEW m \in ArrivingInits, ConsumeInitiation(e, m) PROVE IInv'
      BY <2>3, ConsumeStep
    <2>4. ASSUME NEW a \in Attempts, NEW r \in ArrivingResps, ConsumeResponse(a, r) PROVE IInv'
      BY <2>4, FinishStep
    <2>5. ASSUME NEW a \in Attempts, NEW r \in ArrivingResps, ConsumeResponseFails(a, r)
          PROVE  IInv'
      BY <2>5, GiveUpStep
    <2> QED
      BY <2>1, <2>2, <2>3, <2>4, <2>5 DEF Next
  <1> QED
    BY <1>1, InitIInv, PTL DEF Spec

(***************************************************************************)
(* Any two sessions have different keys, and so have the two directions of *)
(* one.                                                                    *)
(***************************************************************************)
LEMMA Separate == IInv => KeysAreSeparate
  <1> SUFFICES ASSUME IInv PROVE KeysAreSeparate
    OBVIOUS
  <1> DEFINE Comes(e, m) == /\ served[e].send = Split(ReplyKey(m, e))[2]
                            /\ served[e].recv = Split(ReplyKey(m, e))[1]
                            /\ m.ephem \in Attempts
  <1>1. ASSUME NEW e \in Sessions PROVE \E m : Comes(e, m)
    <2>1. PICK m \in Opened, index \in Indices : served[e] = Respond(m, e, index).keys
      BY DEF IInv, SessionsAreMade
    <2>2. m.ephem \in Attempts
      BY ArrivingEphem DEF IInv, Opened
    <2> QED
      BY <2>1, <2>2, RespondIs
  <1>2. ASSUME NEW e \in Sessions PROVE served[e].send # served[e].recv
    BY <1>1, SplitIs
  <1>3. ASSUME NEW e \in Sessions, NEW f \in Sessions \ {e}
        PROVE  {served[e].send, served[e].recv} \cap {served[f].send, served[f].recv} = {}
    <2>1. PICK m : Comes(e, m)
      BY <1>1
    <2>2. PICK o : Comes(f, o)
      BY <1>1
    <2>3. e \in Replies /\ f \in Replies /\ e # f
      BY DEF Sessions
    <2>4. ReplyKey(m, e) # ReplyKey(o, f)
      BY <2>1, <2>2, <2>3, ReplyKeysDiffer
    <2> QED
      BY <2>1, <2>2, <2>4, SplitIs
  <1> QED
    BY <1>2, <1>3 DEF KeysAreSeparate

(***************************************************************************)
(* No key is shared by two sessions or by the two directions of one, so no *)
(* nonce is used twice although every session counts from 0.               *)
(***************************************************************************)
THEOREM KeysStaySeparate == Spec => []KeysAreSeparate
  BY IInvariant, Separate, PTL

(***************************************************************************)
(* A client that finishes shares its keys and indices with exactly one     *)
(* session of the server, which knows it by its static key.                *)
(***************************************************************************)
THEOREM TheEndsAgree == Spec => []EndsAgree
  <1>1. IInv => EndsAgree
    <2> SUFFICES ASSUME IInv, NEW a \in Established
                 PROVE  \E e \in Sessions :
                           /\ Agree(a, e)
                           /\ \A f \in Sessions : served[f].recv = served[e].recv => f = e
      BY DEF EndsAgree, Agree
    <2>1. PICK e \in Sessions : Agree(a, e)
      BY DEF IInv, Agreed
    <2>2. \A f \in Sessions : served[f].recv = served[e].recv => f = e
      BY Separate DEF KeysAreSeparate
    <2> QED
      BY <2>1, <2>2
  <1> QED
    BY <1>1, IInvariant, PTL
=============================================================================
