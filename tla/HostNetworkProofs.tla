-------------------------- MODULE HostNetworkProofs --------------------------
(***************************************************************************)
(* What the kill switch and the routes promise, for any servers, hosts and *)
(* number of connections, with a crash between any two commands.           *)
(*                                                                         *)
(* Any command may fail.  Each part of the inductive invariant holds as    *)
(* long as none of the commands it rests on has: most are run without      *)
(* regard to their result.                                                 *)
(*                                                                         *)
(* The inductive invariant says of the commands still to run which come    *)
(* before which.  What a command relies on was done, or is yet to be done  *)
(* before it.                                                              *)
(*                                                                         *)
(* The last part is about antclient, which makes these changes and defers  *)
(* the calls that undo them (module Client).                               *)
(***************************************************************************)
EXTENDS HostNetwork, Client, SequenceTheorems, WellFoundedInduction, TLAPS

-----------------------------------------------------------------------------
(* Sequences, of commands and of rules                                     *)

\* An element of X is in sequence t, and at most one place of t has it.
Has(t, X) == \E i \in DOMAIN t : t[i] \in X
Sole(t, X) == \A i, j \in DOMAIN t : t[i] \in X /\ t[j] \in X => i = j

\* Whatever element of Y is in t, one of X comes before it.
Before(t, X, Y) == \A i \in DOMAIN t : t[i] \in Y => \E j \in 1 .. i - 1 : t[j] \in X

(***************************************************************************)
(* What is first in a set of positions.                                    *)
(***************************************************************************)
LEMMA FirstPlace ==
    ASSUME NEW N \in Nat, NEW T, T \subseteq 1 .. N, T # {}
    PROVE  \E i \in T : \A j \in T : i <= j
  <1>1. IsWellFoundedOn(OpToRel(<, Nat), Nat)
    BY NatLessThanWellFounded
  <1>2. T \subseteq Nat
    OBVIOUS
  <1>3. PICK i \in T : \A j \in T : ~ (<<j, i>> \in OpToRel(<, Nat))
    BY <1>1, <1>2, WFMin
  <1>4. \A m, n \in Nat : m < n => <<m, n>> \in OpToRel(<, Nat)
    BY DEF OpToRel
  <1>5. ASSUME NEW j \in T PROVE i <= j
    <2>1. i \in Nat /\ j \in Nat /\ ~ (j < i)
      BY <1>2, <1>3, <1>4
    <2> QED
      BY <2>1
  <1> QED
    BY <1>5

(***************************************************************************)
(* A command is done: the rest is as it was, one place further on.         *)
(***************************************************************************)
LEMMA TailIs ==
    ASSUME NEW S, NEW t \in Seq(S), t # <<>>
    PROVE  /\ Tail(t) \in Seq(S) /\ Len(Tail(t)) = Len(t) - 1 /\ Len(t) \in Nat \ {0}
           /\ Head(t) = t[1] /\ Head(t) \in S
           /\ \A i \in 1 .. Len(t) - 1 : Tail(t)[i] = t[i + 1]
           /\ DOMAIN t = 1 .. Len(t) /\ DOMAIN Tail(t) = 1 .. Len(t) - 1
  OBVIOUS

(***************************************************************************)
(* What the sequence has, the first element is or the rest has.            *)
(***************************************************************************)
LEMMA HasTail ==
    ASSUME NEW S, NEW t \in Seq(S), t # <<>>, NEW X
    PROVE  Has(t, X) <=> Head(t) \in X \/ Has(Tail(t), X)
  <1>1. Has(t, X) => Head(t) \in X \/ Has(Tail(t), X)
    <2> SUFFICES ASSUME NEW i \in 1 .. Len(t), t[i] \in X, i # 1 PROVE Has(Tail(t), X)
      BY TailIs DEF Has
    <2>1. i - 1 \in 1 .. Len(t) - 1 /\ Tail(t)[i - 1] = t[i]
      BY TailIs
    <2> QED
      BY <2>1, TailIs DEF Has
  <1>2. Has(Tail(t), X) => Has(t, X)
    <2> SUFFICES ASSUME NEW i \in 1 .. Len(t) - 1, Tail(t)[i] \in X PROVE Has(t, X)
      BY TailIs DEF Has
    <2>1. i + 1 \in 1 .. Len(t) /\ Tail(t)[i] = t[i + 1]
      BY TailIs
    <2> QED
      BY <2>1, TailIs DEF Has
  <1> QED
    BY <1>1, <1>2, TailIs DEF Has

(***************************************************************************)
(* What comes before what, once the first element is done.                 *)
(***************************************************************************)
LEMMA BeforeTail ==
    ASSUME NEW S, NEW t \in Seq(S), t # <<>>, NEW X, NEW Y, Before(t, X, Y)
    PROVE  Head(t) \notin Y /\ (Head(t) \in X \/ Before(Tail(t), X, Y))
  <1>1. Head(t) \notin Y
    BY TailIs DEF Before
  <1>2. ASSUME Head(t) \notin X, NEW i \in 1 .. Len(t) - 1, Tail(t)[i] \in Y
        PROVE  \E j \in 1 .. i - 1 : Tail(t)[j] \in X
    <2>1. i + 1 \in 1 .. Len(t) /\ t[i + 1] \in Y
      BY <1>2, TailIs
    <2>2. PICK j \in 1 .. i : t[j] \in X
      BY <2>1, TailIs DEF Before
    <2>3. j # 1
      BY <1>2, <2>2, TailIs
    <2>4. j - 1 \in 1 .. Len(t) - 1 /\ j - 1 \in 1 .. i - 1 /\ (j - 1) + 1 = j
      BY <2>3, TailIs
    <2>5. Tail(t)[j - 1] = t[j]
      BY <2>4, TailIs
    <2> QED
      BY <2>2, <2>4, <2>5, Zenon
  <1> QED
    BY <1>1, <1>2, TailIs DEF Before

(***************************************************************************)
(* A sole element is not met again.                                        *)
(***************************************************************************)
LEMMA SoleTail ==
    ASSUME NEW S, NEW t \in Seq(S), t # <<>>, NEW X, Sole(t, X)
    PROVE  Sole(Tail(t), X) /\ (Head(t) \in X => ~ Has(Tail(t), X))
  <1>1. \A i \in 1 .. Len(t) - 1 : Tail(t)[i] = t[i + 1] /\ i + 1 \in DOMAIN t /\ 1 \in DOMAIN t
    BY TailIs
  <1> QED
    BY <1>1, TailIs DEF Sole, Has

(***************************************************************************)
(* A rule is put before the others ...                                     *)
(***************************************************************************)
LEMMA InsertIs ==
    ASSUME NEW S, NEW t \in Seq(S), NEW r \in S, NEW u, u = <<r>> \o t
    PROVE  /\ u \in Seq(S) /\ Len(u) = Len(t) + 1 /\ u[1] = r
           /\ \A i \in 1 .. Len(t) : u[i + 1] = t[i]
  OBVIOUS

(***************************************************************************)
(* What a rule put before the others changes and what it keeps.            *)
(***************************************************************************)
LEMMA InsertKeeps ==
    ASSUME NEW S, NEW t \in Seq(S), NEW r \in S, NEW u, u = <<r>> \o t, NEW X, NEW Y
    PROVE  /\ Has(u, X) <=> r \in X \/ Has(t, X)
           /\ r \notin Y /\ (r \in X \/ Before(t, X, Y)) => Before(u, X, Y)
           /\ r \notin X /\ Sole(t, X) => Sole(u, X)
  <1>1. /\ DOMAIN u = 1 .. Len(t) + 1 /\ u[1] = r /\ DOMAIN t = 1 .. Len(t) /\ Len(t) \in Nat
        /\ \A i \in 1 .. Len(t) : u[i + 1] = t[i]
    BY InsertIs
  <1>2. \A i \in 2 .. Len(t) + 1 : i - 1 \in 1 .. Len(t) /\ u[i] = t[i - 1]
    BY <1>1
  <1>3. Has(u, X) <=> r \in X \/ Has(t, X)
    <2>1. Has(u, X) => r \in X \/ Has(t, X)
      <3> SUFFICES ASSUME NEW i \in 1 .. Len(t) + 1, u[i] \in X, i # 1 PROVE Has(t, X)
        BY <1>1 DEF Has
      <3>1. i - 1 \in 1 .. Len(t) /\ u[i] = t[i - 1]
        BY <1>1, <1>2
      <3> QED
        BY <1>1, <3>1 DEF Has
    <2>2. r \in X => Has(u, X)
      BY <1>1 DEF Has
    <2>3. Has(t, X) => Has(u, X)
      <3> SUFFICES ASSUME NEW i \in 1 .. Len(t), t[i] \in X PROVE Has(u, X)
        BY <1>1 DEF Has
      <3>1. i + 1 \in DOMAIN u /\ u[i + 1] = t[i]
        BY <1>1
      <3> QED
        BY <3>1 DEF Has
    <2> QED
      BY <2>1, <2>2, <2>3
  <1>4. ASSUME r \notin Y, r \in X \/ Before(t, X, Y) PROVE Before(u, X, Y)
    <2> SUFFICES ASSUME NEW i \in DOMAIN u, u[i] \in Y
                 PROVE  \E j \in 1 .. i - 1 : u[j] \in X
      BY Zenon DEF Before
    <2>0. i \in 2 .. Len(t) + 1
      <3>1. i # 1
        BY <1>1, <1>4
      <3> QED
        BY <1>1, <3>1
    <2>1. CASE r \in X
      BY <1>1, <2>0, <2>1
    <2>2. CASE Before(t, X, Y)
      <3>1. PICK j \in 1 .. (i - 1) - 1 : t[j] \in X
        BY <1>1, <1>2, <2>0, <2>2 DEF Before
      <3>2. j + 1 \in 1 .. i - 1 /\ u[j + 1] = t[j]
        BY <1>1, <2>0
      <3> QED
        BY <3>1, <3>2
    <2> QED
      BY <1>4, <2>1, <2>2
  <1>5. r \notin X /\ Sole(t, X) => Sole(u, X)
    BY <1>1, <1>2 DEF Sole
  <1> QED
    BY <1>3, <1>4, <1>5

(***************************************************************************)
(* ... or after them ...                                                   *)
(***************************************************************************)
LEMMA AppendKeeps ==
    ASSUME NEW S, NEW t \in Seq(S), NEW r \in S, NEW u, u = Append(t, r), NEW X, NEW Y
    PROVE  /\ u \in Seq(S)
           /\ Has(u, X) <=> r \in X \/ Has(t, X)
           /\ Before(t, X, Y) /\ (r \in Y => Has(t, X)) => Before(u, X, Y)
           /\ Sole(t, X) /\ (r \in X => ~ Has(t, X)) => Sole(u, X)
  <1>1. /\ u \in Seq(S) /\ Len(u) = Len(t) + 1 /\ DOMAIN u = 1 .. Len(t) + 1
        /\ DOMAIN t = 1 .. Len(t) /\ Len(t) \in Nat
        /\ u[Len(t) + 1] = r /\ \A i \in 1 .. Len(t) : u[i] = t[i]
    OBVIOUS
  <1>2. Has(u, X) <=> r \in X \/ Has(t, X)
    BY <1>1 DEF Has
  <1>3. ASSUME Before(t, X, Y), r \in Y => Has(t, X) PROVE Before(u, X, Y)
    <2> SUFFICES ASSUME NEW i \in 1 .. Len(t) + 1, u[i] \in Y
                 PROVE  \E j \in 1 .. i - 1 : u[j] \in X
      BY <1>1 DEF Before
    <2>1. CASE i \in 1 .. Len(t)
      BY <1>1, <1>3, <2>1 DEF Before
    <2>2. CASE i = Len(t) + 1
      BY <1>1, <1>3, <2>2 DEF Has
    <2> QED
      BY <1>1, <2>1, <2>2
  <1>4. Sole(t, X) /\ (r \in X => ~ Has(t, X)) => Sole(u, X)
    BY <1>1 DEF Sole, Has
  <1> QED
    BY <1>1, <1>2, <1>3, <1>4

(***************************************************************************)
(* ... or taken from them.                                                 *)
(***************************************************************************)
LEMMA WithoutIs ==
    ASSUME NEW S, NEW t \in Seq(S), NEW d, Has(t, {d}), NEW u, u = Without(t, d)
    PROVE  \E k \in 1 .. Len(t) :
              /\ t[k] = d
              /\ u \in Seq(S) /\ Len(u) = Len(t) - 1
              /\ \A i \in 1 .. Len(t) - 1 : u[i] = IF i < k THEN t[i] ELSE t[i + 1]
  <1> DEFINE T == {i \in DOMAIN t : t[i] = d}
  <1>1. \E first \in T : \A j \in T : first <= j
    <2>1. T # {} /\ T \subseteq 1 .. Len(t) /\ Len(t) \in Nat
      BY DEF Has
    <2> HIDE DEF T
    <2> QED
      BY <2>1, FirstPlace
  <1>2. \E i \in DOMAIN t : t[i] = d /\ \A j \in 1 .. i - 1 : t[j] # d
    BY <1>1
  <1> DEFINE k == CHOOSE i \in DOMAIN t : t[i] = d /\ \A j \in 1 .. i - 1 : t[j] # d
  <1>3. k \in 1 .. Len(t) /\ t[k] = d
    BY <1>2
  <1>4. u = SubSeq(t, 1, k - 1) \o SubSeq(t, k + 1, Len(t))
    <2>1. d \in Range(t)
      BY DEF Has, Range
    <2> QED
      BY <2>1 DEF Without, RemoveAt
  <1> HIDE DEF k
  <1> DEFINE p == SubSeq(t, 1, k - 1)
             q == SubSeq(t, k + 1, Len(t))
  <1>5. p \in Seq(S) /\ Len(p) = k - 1 /\ \A i \in 1 .. k - 1 : p[i] = t[i]
    BY <1>3
  <1>6. q \in Seq(S) /\ Len(q) = Len(t) - k /\ \A i \in 1 .. Len(t) - k : q[i] = t[k + i]
    BY <1>3
  <1>7. u = p \o q
    BY <1>4
  <1> HIDE DEF p, q
  <1>8. /\ u \in Seq(S) /\ Len(u) = Len(t) - 1
        /\ \A i \in 1 .. Len(t) - 1 : u[i] = IF i < k THEN p[i] ELSE q[i - (k - 1)]
    <2>1. Len(p) + Len(q) = Len(t) - 1 /\ Len(p) = k - 1 /\ k \in Int
      BY <1>3, <1>5, <1>6
    <2>2. p \in Seq(S) /\ q \in Seq(S)
      BY <1>5, <1>6
    <2>3. /\ p \o q \in Seq(S) /\ Len(p \o q) = Len(p) + Len(q)
          /\ \A i \in 1 .. Len(p) + Len(q) :
                (p \o q)[i] = IF i <= Len(p) THEN p[i] ELSE q[i - Len(p)]
      BY <2>2
    <2> QED
      BY <1>7, <2>1, <2>3
  <1>9. \A i \in 1 .. Len(t) - 1 : u[i] = IF i < k THEN t[i] ELSE t[i + 1]
    <2> TAKE i \in 1 .. Len(t) - 1
    <2>1. CASE i < k
      <3>1. i \in 1 .. k - 1
        BY <1>3, <2>1
      <3> QED
        BY <1>5, <1>8, <2>1, <3>1
    <2>2. CASE ~ (i < k)
      <3>1. i - (k - 1) \in 1 .. Len(t) - k /\ k + (i - (k - 1)) = i + 1
        BY <1>3, <2>2
      <3> QED
        BY <1>6, <1>8, <2>2, <3>1
    <2> QED
      BY <2>1, <2>2
  <1> QED
    BY <1>3, <1>8, <1>9

(***************************************************************************)
(* What the removal of a rule changes and what it keeps.                   *)
(***************************************************************************)
LEMMA WithoutKeeps ==
    ASSUME NEW S, NEW t \in Seq(S), NEW d, NEW u, u = Without(t, d), NEW X, d \notin X
    PROVE  /\ u \in Seq(S)
           /\ Has(u, X) <=> Has(t, X)
           /\ Before(t, X, {d}) => Before(u, X, {d})
           /\ Sole(t, {d}) => ~ Has(u, {d})
  <1>1. CASE ~ Has(t, {d})
    <2>1. u = t
      BY <1>1 DEF Without, Range, Has
    <2> QED
      BY <1>1, <2>1
  <1>2. CASE Has(t, {d})
    <2>1. PICK k \in 1 .. Len(t) :
             /\ t[k] = d /\ u \in Seq(S) /\ Len(u) = Len(t) - 1
             /\ \A i \in 1 .. Len(t) - 1 : u[i] = IF i < k THEN t[i] ELSE t[i + 1]
      BY <1>2, WithoutIs
    <2>2. DOMAIN t = 1 .. Len(t) /\ DOMAIN u = 1 .. Len(t) - 1 /\ Len(t) \in Nat
      BY <2>1
    <2>3. \A i \in 1 .. Len(t) : /\ i < k => i \in 1 .. Len(t) - 1 /\ u[i] = t[i]
                                 /\ i > k => i - 1 \in 1 .. Len(t) - 1 /\ u[i - 1] = t[i]
      <3> TAKE i \in 1 .. Len(t)
      <3>1. CASE i < k
        BY <2>1, <2>2, <3>1
      <3>2. CASE i > k
        <4>1. i - 1 \in 1 .. Len(t) - 1 /\ ~ (i - 1 < k) /\ (i - 1) + 1 = i
          BY <2>2, <3>2
        <4> QED
          BY <2>1, <3>2, <4>1
      <3> QED
        BY <3>1, <3>2
    <2>4. Has(u, X) => Has(t, X)
      BY <2>1, <2>2, SMTT(30) DEF Has
    <2>5. Has(t, X) => Has(u, X)
      <3> SUFFICES ASSUME NEW i \in 1 .. Len(t), t[i] \in X PROVE Has(u, X)
        BY <2>2 DEF Has
      <3>1. i # k
        BY <2>1
      <3>2. CASE i < k
        BY <2>2, <2>3, <3>2 DEF Has
      <3>3. CASE i > k
        BY <2>2, <2>3, <3>3 DEF Has
      <3> QED
        BY <2>2, <3>1, <3>2, <3>3
    <2>6. ASSUME Before(t, X, {d}) PROVE Before(u, X, {d})
      <3> SUFFICES ASSUME NEW i \in 1 .. Len(t) - 1, u[i] = d
                   PROVE  \E j \in 1 .. i - 1 : u[j] \in X
        BY <2>2 DEF Before
      <3>1. CASE i < k
        <4>0. i \in DOMAIN t /\ t[i] \in {d}
          BY <2>1, <2>2, <3>1
        <4>1. PICK j \in 1 .. i - 1 : t[j] \in X
          BY <2>6, <4>0, Zenon DEF Before
        <4> QED
          BY <2>1, <2>2, <3>1, <4>1, SMTT(30)
      <3>2. CASE ~ (i < k)
        <4>1. t[k] = d /\ k \in DOMAIN t
          BY <2>1, <2>2
        <4>2. PICK j \in 1 .. k - 1 : t[j] \in X
          BY <2>6, <4>1 DEF Before
        <4> QED
          BY <2>1, <2>2, <3>2, <4>2
      <3> QED
        BY <3>1, <3>2
    <2>7. ASSUME Sole(t, {d}) PROVE ~ Has(u, {d})
      <3> SUFFICES ASSUME NEW i \in 1 .. Len(t) - 1, u[i] = d PROVE FALSE
        BY <2>2 DEF Has
      <3>1. CASE i < k
        BY <2>1, <2>2, <2>7, <3>1 DEF Sole
      <3>2. CASE ~ (i < k)
        <4>1. t[i + 1] = d /\ i + 1 \in DOMAIN t /\ k \in DOMAIN t /\ i + 1 # k /\ t[k] = d
          BY <2>1, <2>2, <3>2
        <4> QED
          BY <2>7, <4>1 DEF Sole
      <3> QED
        BY <3>1, <3>2
    <2> QED
      BY <2>1, <2>4, <2>5, <2>6, <2>7
  <1> QED
    BY <1>1, <1>2

-----------------------------------------------------------------------------
(* Commands                                                                *)

Tun(name) == Named("tun", NoServer, name)
Rules == {Rule(kind, NoServer) : kind \in {"lo", "drop"}} \cup {Tun(name) : name \in TunNames}
             \cup {Named("server", s, name) : s \in Servers, name \in TunNames \cup {NoTun}}

Enabler == Command("enabled", NoServer, 0)
Disabler == Command("disabled", NoServer, 0)
Leave == {Command("disconnected", how, 0) : how \in {"exits", "stays"}}
DropAdders == {AppendDrop} \cup {Command("load", s, 2) : s \in Servers}
Removers == {Command("delete", Drop, 0), Command("flush", NoServer, 0)}
Diverters == {AddRoute("low", NoServer, 1), AddRoute("high", NoServer, 0)}

\* The commands of a connection to s over a device, and those of its end.
LinuxConnect(s, name) ==
    {AddRoute("low", NoServer, 0), AddRoute("high", NoServer, 0), AddRoute("subnet", NoServer, 0),
     AcceptServer(s, name), Command("append", Rule("lo", NoServer), 0), AcceptTun(name),
     AppendDrop, Enabler}
DarwinConnect(s) ==
    {Command("gateway", NoServer, 1), Command("gateway", NoServer, 3), AddRoute("host", s, 0),
     AddRoute("subnet", NoServer, 0), Command("setDNS", "tunnel", 0), Command("load", s, 2),
     StartFilter, Enabler} \cup Diverters
ConnectCommands(s, name) == IF os = "linux" THEN LinuxConnect(s, name) ELSE DarwinConnect(s)

Restoring(s) ==
    {Disabler, DelRoute("low", NoServer), DelRoute("high", NoServer), DelRoute("subnet", NoServer),
     DelRoute("host", s)} \cup Leave
DisconnectCommands(s) ==
    Restoring(s) \cup IF os = "linux" THEN {Command("delete", Drop, 0)}
                      ELSE {Command("flush", NoServer, 0), Command("setDNS", "empty", 0)}

-----------------------------------------------------------------------------
(* The inductive invariant                                                 *)

Types ==
    /\ os \in Systems /\ os \in {"linux", "darwin"}
    /\ server \in Servers \cup {NoServer}
    /\ tunName \in TunNames \cup {NoTun} /\ (server # NoServer => tunName \in TunNames)
    /\ {enabled, switch, filterOn} \subseteq BOOLEAN
    /\ asked \in {"nothing", "enable", "disable"}
    /\ chain \in Seq(Rules)
    /\ os = "linux" => filterOn

\* A call is under way that connects or one that disconnects; the latter
\* ends with the connection.
Arriving == todo \in Seq(ConnectCommands(server, tunName))
Leaving ==
    /\ todo \in Seq(DisconnectCommands(server)) /\ todo # <<>>
    /\ \A i \in DOMAIN todo : todo[i] \in Leave <=> i = Len(todo)

\* What a failed command skips: after the lookup of the gateway the routes,
\* after the first route into the tunnel the second one, after the loading
\* of the anchor everything.
Skips ==
    \A i \in DOMAIN todo :
        /\ todo[i].op = "load" => Len(todo) = i + 2
        /\ todo[i].op = "gateway" =>
              /\ i = 1 /\ 1 + todo[1].skip <= Len(todo)
              /\ \A j \in DOMAIN todo : todo[j].op = "addRoute" <=> j \in 2 .. 1 + todo[1].skip
        /\ todo[i] = AddRoute("low", NoServer, 1) =>
              /\ i + 1 <= Len(todo)
              /\ \A j \in DOMAIN todo : j > i => (todo[j].op = "addRoute" <=> j = i + 1)

Calls ==
    /\ Arriving \/ Leaving
    /\ server = NoServer => todo = <<>>
    /\ Skips

\* The host is shut before the kill switch counts as enabled, and stays so
\* until it is to be opened.
Shut ==
    /\ asked = "enable" => filterOn /\ Has(chain, {Drop}) /\ ~ Has(todo, Removers)
    /\ AppendDrop \notin missed => Has(chain, {Drop}) \/ Before(todo, DropAdders, {Enabler})
    /\ StartFilter \notin missed => filterOn \/ Before(todo, {StartFilter}, {Enabler})
    /\ enabled /\ StartFilter \notin missed => filterOn

\* The chain lets the tunnel's own packets pass.
Admits ==
    IF os = "linux" THEN /\ Has(chain, {Named("server", server, tunName)})
                         /\ Before(chain, {Named("server", server, tunName)}, {Drop})
                    ELSE chain = Anchor(server)
Admitting == {AcceptServer(server, tunName), Command("load", server, 2)}

\* Every DROP comes after the rule for the device: of this connection, or of
\* the one that left its DROP behind.
Lets(name) == Has(chain, {Tun(name)}) /\ Before(chain, {Tun(name)}, {Drop})
Letting ==
    /\ Before(chain, {Tun(tunName)}, {Drop})
    /\ Has(chain, {Tun(tunName)}) \/ Before(todo, {AcceptTun(tunName)}, {AppendDrop})

Passing ==
    /\ os = "linux" => /\ \A name \in TunNames : left = {name} => Lets(name)
                       /\ left = {} /\ AcceptTun(tunName) \notin missed => Letting
    /\ (os = "linux" => AcceptServer(server, tunName) \notin missed) =>
          /\ enabled => Admits \/ Leaving
          /\ Admits \/ Before(todo, Admitting, {Enabler})

\* The kill switch is off when a connection has ended.
Off ==
    /\ enabled => switch /\ server # NoServer /\ Before(todo, {Disabler}, Leave)
    /\ Has(todo, DropAdders \cup {Enabler}) => switch /\ asked # "disable"

\* Unless one was left behind there is at most one rule that drops, and none
\* that the process does not know of.
Counted ==
    /\ Sole(chain, {Drop}) /\ Sole(todo, {AppendDrop})
    /\ Has(todo, {AppendDrop}) => ~ Has(chain, {Drop})
    /\ Has(chain, {Drop}) => switch /\ server # NoServer
    /\ Leaving => ~ Has(chain, {Drop}) \/ Has(todo, Removers)

Open ==
    /\ os = "linux" /\ left = {} => Counted
    /\ asked = "disable" /\ (os = "linux" => left = {}) =>
          ~ Has(chain, {Drop}) \/ Has(todo, Removers)

\* On macOS the route to the server is there as long as others lead into
\* the tunnel.
Low == Rule("low", NoServer)
High == Rule("high", NoServer)
Diverted == Low \in routes \/ High \in routes
Host == Rule("host", server)

Outside ==
    /\ server = NoServer => ~ Diverted
    /\ os = "darwin" /\ missed \cap RoutesOut = {} =>
          /\ Diverted => Host \in routes
          /\ Host \in routes \/ Before(todo, {AddRoute("host", server, 0)}, Diverters)
          /\ Low \in routes => Before(todo, {DelRoute("low", NoServer)}, {DelRoute("host", server)})
          /\ High \in routes =>
                Before(todo, {DelRoute("high", NoServer)}, {DelRoute("host", server)})

IInv == Types /\ Calls /\ Shut /\ Passing /\ Off /\ Open /\ Outside

-----------------------------------------------------------------------------
(* Every kind of command                                                   *)

(***************************************************************************)
(* Commands by their fields.                                               *)
(***************************************************************************)
LEMMA CommandIs ==
    \A op, arg, skip : /\ Command(op, arg, skip).op = op /\ Command(op, arg, skip).arg = arg
                       /\ Command(op, arg, skip).skip = skip
  BY DEF Command

(***************************************************************************)
(* The sets of commands are told apart by what the commands do.            *)
(***************************************************************************)
LEMMA OpsAre ==
    /\ Enabler.op = "enabled"
    /\ Disabler.op = "disabled"
    /\ AppendDrop.op = "append" /\ AppendDrop.arg = Drop
    /\ \A c \in Leave : c.op = "disconnected"
    /\ \A c \in DropAdders : c.op \in {"append", "load"}
    /\ \A c \in Removers : c.op \in {"delete", "flush"}
    /\ \A c \in Diverters : c.op = "addRoute"
    /\ \A c \in Admitting : c.op \in {"insert", "load"}
    /\ StartFilter.op = "startFilter"
    /\ \A name : AcceptTun(name).op = "append" /\ AcceptTun(name).arg = Tun(name)
    /\ \A s, name : /\ AcceptServer(s, name).op = "insert"
                    /\ AcceptServer(s, name).arg = Named("server", s, name)
    /\ \A kind, s, k : /\ AddRoute(kind, s, k).op = "addRoute"
                       /\ AddRoute(kind, s, k).arg = Rule(kind, s)
    /\ \A kind, s : /\ DelRoute(kind, s).op = "delRoute"
                    /\ DelRoute(kind, s).arg = Rule(kind, s)
  BY DEF Enabler, Disabler, AppendDrop, Leave, DropAdders, Removers, Diverters, Admitting, Command,
         AddRoute, DelRoute, StartFilter, AcceptTun, AcceptServer, Tun

(***************************************************************************)
(* Rules and routes by their fields.                                       *)
(***************************************************************************)
LEMMA RuleIs ==
    \A kind, s, other, r :
        /\ Rule(kind, s).kind = kind /\ Rule(kind, s).server = s
        /\ Rule(kind, s) = Rule(other, r) <=> kind = other /\ s = r
  BY DEF Rule, Named

(***************************************************************************)
(* Rules that name a device.                                               *)
(***************************************************************************)
LEMMA NamedIs ==
    \A kind, s, name :
        /\ Named(kind, s, name).kind = kind /\ Named(kind, s, name).server = s
        /\ Named(kind, s, name).tun = name /\ Tun(name).kind = "tun" /\ Tun(name).tun = name
        /\ Drop.kind = "drop" /\ Tun(name) # Drop /\ Named("server", s, name) # Drop
        /\ \A other : /\ Tun(name) # Named("server", s, other) /\ Tun(name) # Rule("lo", s)
                      /\ Tun(name) = Tun(other) <=> name = other
  BY DEF Drop, Rule, Named, Tun

(***************************************************************************)
(* A command of a connection adds, one of its end takes away.              *)
(***************************************************************************)
LEMMA ConnectIs ==
    ASSUME NEW c \in ConnectCommands(server, tunName), os \in {"linux", "darwin"}
    PROVE  /\ c \notin Leave /\ c \notin Removers /\ c # Disabler
           /\ c.op \in {"gateway", "addRoute", "setDNS", "insert", "append", "load",
                        "startFilter", "enabled"}
           /\ c.op = "enabled" => c = Enabler
           /\ c.op = "append" => os = "linux" /\ c.skip = 0
                /\ c.arg \in {Rule("lo", NoServer), Tun(tunName), Drop}
                /\ c = Command("append", c.arg, 0)
           /\ c.op = "insert" => os = "linux" /\ c.arg = Named("server", server, tunName)
                /\ c.skip = 0 /\ c \in Admitting /\ c = AcceptServer(server, tunName)
           /\ c.op = "load" =>
                os = "darwin" /\ c.arg = server /\ c.skip = 2 /\ c \in Admitting
           /\ c.op = "startFilter" => os = "darwin" /\ c = StartFilter
           /\ c.op = "gateway" => os = "darwin" /\ c.skip \in {1, 3}
           /\ os = "darwin" /\ c.op = "addRoute" =>
                \/ c \in Diverters
                \/ c \in {AddRoute("host", server, 0), AddRoute("subnet", NoServer, 0)}
           /\ c.op \in {"setDNS", "startFilter", "enabled"} => c.skip = 0
           /\ c.op = "addRoute" /\ c.skip # 0 => c = AddRoute("low", NoServer, 1) /\ c.skip = 1
                                                /\ os = "darwin"
  <1>1. CASE os = "linux"
    <2>1. c \in LinuxConnect(server, tunName)
      BY <1>1 DEF ConnectCommands
    <2>2. /\ c.op \in {"addRoute", "insert", "append", "enabled"} /\ c.skip = 0
          /\ c.op = "enabled" => c = Enabler
          /\ c.op = "append" => c.arg \in {Rule("lo", NoServer), Tun(tunName), Drop}
          /\ c.op = "append" => c = Command("append", c.arg, 0)
          /\ c.op = "insert" => c = AcceptServer(server, tunName)
      BY <2>1, CommandIs
      DEF LinuxConnect, AddRoute, Enabler, AppendDrop, AcceptServer, AcceptTun, Tun
    <2>3. c \notin Leave /\ c \notin Removers /\ c # Disabler
      BY <2>2, OpsAre
    <2>4. c.op = "insert" => c.arg = Named("server", server, tunName) /\ c \in Admitting
      BY <2>2, OpsAre DEF Admitting
    <2> QED
      BY <1>1, <2>2, <2>3, <2>4
  <1>2. CASE os = "darwin"
    <2>1. c \in DarwinConnect(server)
      BY <1>2 DEF ConnectCommands
    <2>2. /\ c.op \in {"gateway", "addRoute", "setDNS", "load", "startFilter", "enabled"}
          /\ c.op = "enabled" => c = Enabler
          /\ c.op = "load" => c = Command("load", server, 2)
          /\ c.op = "startFilter" => c = StartFilter
          /\ c.op = "gateway" => c.skip \in {1, 3}
          /\ c.op \in {"setDNS", "startFilter", "enabled"} => c.skip = 0
      BY <2>1, CommandIs DEF DarwinConnect, Diverters, AddRoute, Enabler, StartFilter
    <2>3. c.op = "addRoute" => c \in Diverters \/ c \in {AddRoute("host", server, 0),
                                                        AddRoute("subnet", NoServer, 0)}
      BY <2>1, CommandIs DEF DarwinConnect, AddRoute, Enabler, StartFilter
    <2>4. c \notin Leave /\ c \notin Removers /\ c # Disabler
      BY <2>2, OpsAre
    <2>5. c.op = "load" => c.arg = server /\ c.skip = 2 /\ c \in Admitting
      BY <2>2 DEF Admitting, Command
    <2>6. c.op = "addRoute" /\ c.skip # 0 => c = AddRoute("low", NoServer, 1) /\ c.skip = 1
      BY <2>3, CommandIs DEF Diverters, AddRoute
    <2> QED
      BY <1>2, <2>2, <2>3, <2>4, <2>5, <2>6
  <1> QED
    BY <1>1, <1>2

(***************************************************************************)
(* The commands that end a connection.                                     *)
(***************************************************************************)
LEMMA DisconnectIs ==
    ASSUME NEW c \in DisconnectCommands(server), os \in {"linux", "darwin"}
    PROVE  /\ c # Enabler /\ c \notin DropAdders /\ c \notin Diverters
           /\ c.op \in {"delete", "flush", "disabled", "delRoute", "setDNS", "disconnected"}
           /\ c.op = "disabled" => c = Disabler
           /\ c.op = "disconnected" => c \in Leave
           /\ c.skip = 0
           /\ c.op = "delete" => os = "linux" /\ c.arg = Drop /\ c \in Removers
           /\ c.op = "flush" => os = "darwin" /\ c \in Removers
           /\ c.op = "delRoute" =>
                 c \in {DelRoute("low", NoServer), DelRoute("high", NoServer),
                        DelRoute("subnet", NoServer), DelRoute("host", server)}
  <1>1. /\ c.op \in {"delete", "flush", "disabled", "delRoute", "setDNS", "disconnected"}
        /\ c.op = "disabled" => c = Disabler
        /\ c.op = "disconnected" => c \in Leave
        /\ c.skip = 0
    BY CommandIs DEF DisconnectCommands, Restoring, Disabler, Leave, DelRoute
  <1>2. /\ c.op = "delete" => os = "linux" /\ c = Command("delete", Drop, 0)
        /\ c.op = "flush" => os = "darwin" /\ c = Command("flush", NoServer, 0)
    BY CommandIs DEF DisconnectCommands, Restoring, Disabler, Leave, DelRoute
  <1>3. c.op = "delRoute" =>
           c \in {DelRoute("low", NoServer), DelRoute("high", NoServer),
                  DelRoute("subnet", NoServer), DelRoute("host", server)}
    BY CommandIs DEF DisconnectCommands, Restoring, Disabler, Leave, DelRoute
  <1>4. /\ c.op = "delete" => c.arg = Drop /\ c \in Removers
        /\ c.op = "flush" => c \in Removers
    BY <1>2 DEF Removers, Command
  <1>5. c # Enabler /\ c \notin DropAdders /\ c \notin Diverters
    BY <1>1, OpsAre
  <1> QED
    BY <1>1, <1>2, <1>3, <1>4, <1>5

(***************************************************************************)
(* A call that connects has none of the commands that end one, and the     *)
(* other way round.                                                        *)
(***************************************************************************)
LEMMA NoneOf ==
    ASSUME os \in {"linux", "darwin"}, NEW t
    PROVE  /\ t \in Seq(ConnectCommands(server, tunName)) =>
                 ~ Has(t, Removers) /\ ~ Has(t, Leave) /\ ~ Has(t, {DelRoute("host", server)})
           /\ t \in Seq(DisconnectCommands(server)) =>
                 /\ ~ Has(t, DropAdders) /\ ~ Has(t, {Enabler}) /\ ~ Has(t, Diverters)
                 /\ ~ Has(t, {AppendDrop}) /\ ~ Has(t, DropAdders \cup {Enabler})
  <1>1. ASSUME t \in Seq(ConnectCommands(server, tunName))
        PROVE  ~ Has(t, Removers) /\ ~ Has(t, Leave) /\ ~ Has(t, {DelRoute("host", server)})
    <2>1. \A i \in DOMAIN t : t[i] \in ConnectCommands(server, tunName)
      BY <1>1
    <2>2. ~ Has(t, Removers) /\ ~ Has(t, Leave)
      BY <2>1, ConnectIs DEF Has
    <2>3. DelRoute("host", server).op = "delRoute"
      BY OpsAre
    <2>4. \A c \in ConnectCommands(server, tunName) : c.op # "delRoute"
      BY ConnectIs
    <2>5. ~ Has(t, {DelRoute("host", server)})
      BY <2>1, <2>3, <2>4 DEF Has
    <2> QED
      BY <2>2, <2>5
  <1>2. ASSUME t \in Seq(DisconnectCommands(server))
        PROVE  ~ Has(t, DropAdders) /\ ~ Has(t, {Enabler}) /\ ~ Has(t, Diverters)
    <2>1. \A i \in DOMAIN t : t[i] \in DisconnectCommands(server)
      BY <1>2
    <2> QED
      BY <2>1, DisconnectIs DEF Has
  <1>3. AppendDrop \in DropAdders
    BY DEF DropAdders
  <1> QED
    BY <1>1, <1>2, <1>3 DEF Has

(***************************************************************************)
(* Before and Has, where there is nothing to come.                         *)
(***************************************************************************)
LEMMA Vacuous == \A t, X, Y : ~ Has(t, Y) => Before(t, X, Y)
  BY DEF Has, Before

(***************************************************************************)
(* There is nothing in the empty sequence.                                 *)
(***************************************************************************)
LEMMA EmptyIs == \A X, Y : ~ Has(<<>>, X) /\ Before(<<>>, X, Y) /\ Sole(<<>>, X)
  BY DEF Has, Before, Sole

(***************************************************************************)
(* A command is done or given up, and the rest is as it was.               *)
(***************************************************************************)
LEMMA GoesOn ==
    ASSUME Calls, todo # <<>>, todo' = Tail(todo)
    PROVE  /\ server # NoServer
           /\ \A X : Has(todo, X) <=> Head(todo) \in X \/ Has(todo', X)
           /\ \A X, Y : Before(todo, X, Y) =>
                 Head(todo) \notin Y /\ (Head(todo) \in X \/ Before(todo', X, Y))
           /\ \A X : Sole(todo, X) => Sole(todo', X) /\ (Head(todo) \in X => ~ Has(todo', X))
  <1>2. PICK S : todo \in Seq(S)
    BY DEF Calls, Arriving, Leaving
  <1>3. \A X : Has(todo, X) <=> Head(todo) \in X \/ Has(Tail(todo), X)
    BY <1>2, HasTail
  <1>4. \A X, Y : Before(todo, X, Y) =>
           Head(todo) \notin Y /\ (Head(todo) \in X \/ Before(Tail(todo), X, Y))
    BY <1>2, BeforeTail
  <1>5. \A X : Sole(todo, X) => Sole(Tail(todo), X) /\ (Head(todo) \in X => ~ Has(Tail(todo), X))
    BY <1>2, SoleTail
  <1> QED
    BY <1>3, <1>4, <1>5 DEF Calls

(***************************************************************************)
(* A command is executed, and what relied on it need not wait any more.    *)
(***************************************************************************)
LEMMA Progress ==
    ASSUME Calls, Execute
    PROVE  /\ todo' = Tail(todo) /\ todo # <<>> /\ server # NoServer
           /\ \A X : Has(todo, X) <=> Head(todo) \in X \/ Has(todo', X)
           /\ \A X, Y : Before(todo, X, Y) =>
                 Head(todo) \notin Y /\ (Head(todo) \in X \/ Before(todo', X, Y))
           /\ \A X : Sole(todo, X) => Sole(todo', X) /\ (Head(todo) \in X => ~ Has(todo', X))
  <1>1. todo' = Tail(todo) /\ todo # <<>>
    BY DEF Execute
  <1> QED
    BY <1>1, GoesOn

\* What a step of a call is: it adds something for the connection, takes
\* something away, or ends it.
Adds ==
    /\ Head(todo) \in ConnectCommands(server, tunName) /\ server' = server /\ tunName' = tunName
    /\ ~ Leaving /\ ~ Leaving' /\ ~ Has(todo, Removers) /\ ~ Has(todo, Leave)
    /\ ~ Has(todo, {DelRoute("host", server)})
Takes ==
    /\ Head(todo) \in DisconnectCommands(server) /\ Head(todo) \notin Leave
    /\ server' = server /\ tunName' = tunName
    /\ Leaving /\ Leaving'
    /\ ~ Has(todo, DropAdders) /\ ~ Has(todo, {Enabler}) /\ ~ Has(todo, Diverters)
    /\ ~ Has(todo, {AppendDrop}) /\ ~ Has(todo, DropAdders \cup {Enabler})
Ends == Head(todo) \in Leave /\ Leaving /\ todo' = <<>> /\ server' = NoServer

(***************************************************************************)
(* The call goes on, until the last command of its end.                    *)
(***************************************************************************)
LEMMA CallsGoOn ==
    ASSUME Types, Calls, todo # <<>>, todo' = Tail(todo), os' = os,
           Head(todo).op = "disconnected" => server' = NoServer,
           Head(todo).op # "disconnected" => server' = server /\ tunName' = tunName
    PROVE  Calls' /\ (Adds \/ Takes \/ Ends)
  <1> DEFINE c == Head(todo)
  <1>1. /\ todo # <<>> /\ todo' = Tail(todo) /\ os' = os
        /\ c.op = "disconnected" => server' = NoServer
        /\ c.op # "disconnected" => server' = server /\ tunName' = tunName
    OBVIOUS
  <1>2. os \in {"linux", "darwin"}
    BY DEF Types
  <1>3. ASSUME NEW S, todo \in Seq(S)
        PROVE  /\ Tail(todo) \in Seq(S) /\ Len(Tail(todo)) = Len(todo) - 1
               /\ Len(todo) \in Nat \ {0}
               /\ c = todo[1] /\ c \in S
               /\ \A i \in 1 .. Len(todo) - 1 : Tail(todo)[i] = todo[i + 1]
               /\ DOMAIN todo = 1 .. Len(todo) /\ DOMAIN Tail(todo) = 1 .. Len(todo) - 1
    BY <1>1, <1>3, TailIs
  <1>4. Skips'
    <2>1. PICK S : todo \in Seq(S)
      BY DEF Calls, Arriving, Leaving
    <2> SUFFICES ASSUME NEW i \in 1 .. Len(todo) - 1
                 PROVE  /\ Tail(todo)[i].op = "load" => Len(todo) - 1 = i + 2
                        /\ Tail(todo)[i].op # "gateway"
                        /\ Tail(todo)[i] = AddRoute("low", NoServer, 1) =>
                              /\ i + 1 <= Len(todo) - 1
                              /\ \A j \in 1 .. Len(todo) - 1 :
                                    j > i => (Tail(todo)[j].op = "addRoute" <=> j = i + 1)
      BY <1>1, <1>3, <2>1 DEF Skips
    <2>2. /\ i + 1 \in DOMAIN todo /\ Tail(todo)[i] = todo[i + 1] /\ Len(todo) \in Nat
          /\ i + 1 # 1
      BY <1>3, <2>1
    <2>3. todo[i + 1].op = "load" => Len(todo) = (i + 1) + 2
      BY <2>2 DEF Calls, Skips
    <2>4. todo[i + 1].op = "gateway" => i + 1 = 1
      BY <2>2 DEF Calls, Skips
    <2>5. ASSUME todo[i + 1] = AddRoute("low", NoServer, 1)
          PROVE  /\ i + 1 <= Len(todo) - 1
                 /\ \A j \in 1 .. Len(todo) - 1 :
                       j > i => (Tail(todo)[j].op = "addRoute" <=> j = i + 1)
      <3>1. /\ (i + 1) + 1 <= Len(todo)
            /\ \A j \in DOMAIN todo :
                  j > i + 1 => (todo[j].op = "addRoute" <=> j = (i + 1) + 1)
        BY <2>2, <2>5 DEF Calls, Skips
      <3> SUFFICES ASSUME NEW j \in 1 .. Len(todo) - 1, j > i
                   PROVE  Tail(todo)[j].op = "addRoute" <=> j = i + 1
        BY <2>2, <3>1
      <3>2. j + 1 \in 1 .. Len(todo) /\ j + 1 > i + 1 /\ (j = i + 1 <=> j + 1 = (i + 1) + 1)
        BY <2>2
      <3>3. j + 1 \in DOMAIN todo /\ Tail(todo)[j] = todo[j + 1]
        BY <1>3, <2>1, <3>2
      <3> QED
        BY <3>1, <3>2, <3>3
    <2> QED
      BY <2>2, <2>3, <2>4, <2>5
  <1>5. CASE Arriving
    <2>1. c \in ConnectCommands(server, tunName) /\ Tail(todo) \in Seq(ConnectCommands(server, tunName))
      BY <1>3, <1>5 DEF Arriving
    <2>2. c.op # "disconnected"
      BY <1>2, <2>1, ConnectIs
    <2>3. Arriving' /\ server' = server /\ tunName' = tunName
      BY <1>1, <2>1, <2>2 DEF Arriving, ConnectCommands
    <2>4. Calls'
      BY <1>1, <1>4, <2>3 DEF Calls
    <2>5. /\ ~ Has(todo, Removers) /\ ~ Has(todo, Leave) /\ ~ Has(todo', Leave)
          /\ ~ Has(todo, {DelRoute("host", server)})
      BY <1>1, <1>2, <1>5, <2>1, NoneOf DEF Arriving
    <2>6. ~ Leaving /\ ~ Leaving'
      <3>1. Leaving => Has(todo, Leave)
        BY DEF Leaving, Has
      <3>2. Leaving' => Has(todo', Leave)
        BY DEF Leaving, Has
      <3> QED
        BY <2>5, <3>1, <3>2
    <2>7. Adds
      BY <2>1, <2>3, <2>5, <2>6 DEF Adds
    <2> QED
      BY <1>1, <2>4, <2>7
  <1>6. CASE Leaving
    <2> DEFINE S == DisconnectCommands(server)
    <2>1. /\ c \in S /\ Tail(todo) \in Seq(S) /\ c = todo[1]
          /\ Len(Tail(todo)) = Len(todo) - 1 /\ Len(todo) \in Nat \ {0}
          /\ \A i \in 1 .. Len(todo) - 1 : Tail(todo)[i] = todo[i + 1]
          /\ DOMAIN todo = 1 .. Len(todo) /\ DOMAIN Tail(todo) = 1 .. Len(todo) - 1
      BY <1>3, <1>6 DEF Leaving
    <2>2. c.op = "disconnected" <=> c \in Leave
      BY <1>2, <2>1, DisconnectIs, OpsAre
    <2>3. \A i \in 1 .. Len(todo) : todo[i] \in Leave <=> i = Len(todo)
      BY <1>6, <2>1 DEF Leaving
    <2>4. CASE c \in Leave
      <3>1. Len(todo) = 1
        <4>1. 1 \in 1 .. Len(todo) /\ todo[1] \in Leave
          BY <2>1, <2>4
        <4> QED
          BY <2>3, <4>1
      <3>2. Tail(todo) = <<>>
        BY <2>1, <3>1
      <3>3. todo' = <<>> /\ server' = NoServer
        BY <1>1, <2>2, <2>4, <3>2
      <3>4. Calls'
        <4>1. \A X : <<>> \in Seq(X)
          OBVIOUS
        <4> QED
          BY <1>4, <3>3, <4>1 DEF Calls, Arriving
      <3>5. Ends
        BY <1>6, <2>4, <3>3 DEF Ends
      <3> QED
        BY <1>1, <3>4, <3>5
    <2>5. CASE c \notin Leave
      <3>1. Len(todo) # 1
        <4>1. 1 \in 1 .. Len(todo) /\ todo[1] \notin Leave
          BY <2>1, <2>5
        <4> QED
          BY <2>3, <4>1
      <3>2. Tail(todo) # <<>>
        <4>1. Len(Tail(todo)) # 0
          BY <2>1, <3>1
        <4>2. Len(<<>>) = 0
          OBVIOUS
        <4> QED
          BY <4>1, <4>2
      <3>3. \A i \in 1 .. Len(todo) - 1 : Tail(todo)[i] \in Leave <=> i = Len(todo) - 1
        <4> TAKE i \in 1 .. Len(todo) - 1
        <4>1. i + 1 \in 1 .. Len(todo) /\ (i + 1 = Len(todo) <=> i = Len(todo) - 1)
          BY <2>1
        <4> QED
          BY <2>1, <2>3, <4>1
      <3>4. server' = server /\ tunName' = tunName
        BY <1>1, <2>2, <2>5
      <3>5. DisconnectCommands(server)' = S
        BY <1>1, <3>4 DEF DisconnectCommands
      <3>6. Leaving'
        BY <1>1, <2>1, <3>2, <3>3, <3>5 DEF Leaving
      <3>7. Calls'
        BY <1>4, <1>6, <3>4, <3>6 DEF Calls, Leaving
      <3>8. /\ ~ Has(todo, DropAdders) /\ ~ Has(todo, {Enabler}) /\ ~ Has(todo, Diverters)
            /\ ~ Has(todo, {AppendDrop}) /\ ~ Has(todo, DropAdders \cup {Enabler})
        BY <1>2, <1>6, NoneOf DEF Leaving
      <3>9. Takes
        BY <1>6, <2>1, <2>5, <3>4, <3>6, <3>8 DEF Takes
      <3> QED
        BY <1>1, <3>7, <3>9
    <2> QED
      BY <2>4, <2>5
  <1> QED
    BY <1>5, <1>6 DEF Calls

-----------------------------------------------------------------------------
(* The host executes a command                                             *)

(***************************************************************************)
(* A command that is none of the kill switch's leaves it as it was.        *)
(***************************************************************************)
LEMMA Quiet ==
    ASSUME IInv, Execute,
           UNCHANGED <<chain, enabled, asked, switch, server, tunName, os, left, missed>>,
           Adds \/ Takes,
           Head(todo).op \in {"gateway", "addRoute", "delRoute", "setDNS", "startFilter"}
    PROVE  Types' /\ Shut' /\ Passing' /\ Off' /\ Open'
  <1> DEFINE c == Head(todo)
  <1>1. /\ c \notin DropAdders /\ c # Enabler /\ c # Disabler /\ c # AppendDrop /\ c \notin Removers
        /\ c # AcceptTun(tunName) /\ c \notin Admitting /\ c \notin Leave
    BY OpsAre
  <1>2. /\ \A X : Has(todo, X) <=> c \in X \/ Has(todo', X)
        /\ \A X, Y : Before(todo, X, Y) => c \notin Y /\ (c \in X \/ Before(todo', X, Y))
        /\ \A X : Sole(todo, X) => Sole(todo', X)
    BY Progress DEF IInv
  <1>3. /\ filterOn' \in BOOLEAN /\ (filterOn => filterOn')
        /\ c = StartFilter => filterOn'
    BY OpsAre DEF Execute, IInv, Types
  <1>4. Types' /\ Shut'
    <2>1. Types'
      BY <1>3 DEF IInv, Types
    <2>2. Shut'
      BY <1>1, <1>2, <1>3 DEF IInv, Shut
    <2> QED
      BY <2>1, <2>2
  <1>5. Passing'
    <2>1. Admits' <=> Admits
      BY DEF Admits, Anchor
    <2>2. Admitting' = Admitting
      BY DEF Admitting
    <2>3. Leaving => Leaving'
      BY DEF Adds, Takes
    <2>4. \A name : Lets(name)' <=> Lets(name)
      BY DEF Lets
    <2>5. Letting => Letting'
      BY <1>1, <1>2 DEF Letting
    <2>6. (enabled => Admits \/ Leaving) => (enabled => Admits \/ Leaving)'
      BY <2>1, <2>3
    <2>7. Admits \/ Before(todo, Admitting, {Enabler}) =>
             (Admits \/ Before(todo, Admitting, {Enabler}))'
      BY <1>1, <1>2, <2>1, <2>2
    <2> QED
      BY <2>4, <2>5, <2>6, <2>7 DEF IInv, Passing
  <1>6. Off'
    BY <1>1, <1>2 DEF IInv, Off
  <1>7. Open'
    <2>1. Leaving' => Leaving
      BY DEF Adds, Takes
    <2>2. Counted => Counted'
      BY <1>1, <1>2, <2>1 DEF Counted
    <2> QED
      BY <1>1, <1>2, <2>2 DEF IInv, Open
  <1> QED
    BY <1>4, <1>5, <1>6, <1>7

(***************************************************************************)
(* A command that is no route's leaves the routes as they were.            *)
(***************************************************************************)
LEMMA RoutesQuiet ==
    ASSUME IInv, Execute, UNCHANGED <<routes, server, os, missed>>,
           Head(todo).op \notin {"addRoute", "delRoute"}
    PROVE  Outside'
  <1> DEFINE c == Head(todo)
  <1>1. /\ c # AddRoute("host", server, 0)
        /\ c # DelRoute("low", NoServer) /\ c # DelRoute("high", NoServer)
    BY OpsAre
  <1>2. \A X, Y : Before(todo, X, Y) => c \notin Y /\ (c \in X \/ Before(todo', X, Y))
    BY Progress DEF IInv
  <1>3. Diverted' = Diverted /\ Host' = Host /\ RoutesOut' = RoutesOut
    BY DEF Diverted, Host, RoutesOut
  <1> QED
    BY <1>1, <1>2, <1>3 DEF IInv, Outside

(***************************************************************************)
(* A route is added: those into the tunnel after the one to the server.    *)
(***************************************************************************)
LEMMA AddsRoute ==
    ASSUME IInv, Execute, Adds, UNCHANGED <<os, missed>>, Head(todo).op = "addRoute"
    PROVE  Outside'
  <1> DEFINE c == Head(todo)
  <1>1. routes' = routes \cup {c.arg} /\ server' = server
    BY DEF Execute, Adds
  <1>2. /\ server # NoServer
        /\ \A X, Y : Before(todo, X, Y) => c \notin Y /\ (c \in X \/ Before(todo', X, Y))
        /\ \A X : Has(todo', X) => Has(todo, X)
    BY Progress DEF IInv
  <1>3. ~ Has(todo', {DelRoute("host", server)})
    BY <1>2 DEF Adds
  <1>4. ASSUME os = "darwin", missed \cap RoutesOut = {}
        PROVE  /\ (Diverted => Host \in routes)'
               /\ (Host \in routes \/ Before(todo, {AddRoute("host", server, 0)}, Diverters))'
    <2>1. c \in Diverters \/ c \in {AddRoute("host", server, 0), AddRoute("subnet", NoServer, 0)}
      BY <1>4, ConnectIs DEF Adds
    <2>2. c \notin Diverters => c.arg # Low /\ c.arg # High
      BY <2>1, OpsAre, RuleIs DEF Low, High
    <2>3. Host' = Host /\ (c = AddRoute("host", server, 0) => Host \in routes')
      BY <1>1, OpsAre DEF Host
    <2>4. /\ Diverted => Host \in routes
          /\ Host \in routes \/ Before(todo, {AddRoute("host", server, 0)}, Diverters)
      BY <1>4 DEF IInv, Outside
    <2>5. c \in Diverters => Host \in routes
      BY <1>2, <2>4
    <2>6. Diverted' => Host \in routes'
      BY <1>1, <2>2, <2>4, <2>5 DEF Diverted
    <2>7. Host \in routes' \/ Before(todo', {AddRoute("host", server, 0)}, Diverters)
      BY <1>1, <1>2, <2>3, <2>4
    <2> QED
      BY <1>1, <2>3, <2>6, <2>7
  <1>5. \A X : Before(todo', X, {DelRoute("host", server)})
    BY <1>3, Vacuous
  <1>6. RoutesOut' = RoutesOut
    BY <1>1 DEF RoutesOut
  <1> QED
    BY <1>1, <1>2, <1>4, <1>5, <1>6 DEF Outside

(***************************************************************************)
(* A route is deleted: the one to the server after those into the tunnel.  *)
(***************************************************************************)
LEMMA TakesRoute ==
    ASSUME IInv, Execute, Takes, UNCHANGED <<os, missed>>, Head(todo).op = "delRoute"
    PROVE  Outside'
  <1> DEFINE c == Head(todo)
  <1>1. routes' = routes \ {c.arg} /\ server' = server
    BY DEF Execute, Takes
  <1>2. /\ server # NoServer
        /\ \A X, Y : Before(todo, X, Y) => c \notin Y /\ (c \in X \/ Before(todo', X, Y))
        /\ \A X : Has(todo', X) => Has(todo, X)
    BY Progress DEF IInv
  <1>3. ~ Has(todo', Diverters)
    BY <1>2 DEF Takes
  <1>4. \A X : Before(todo', X, Diverters)
    BY <1>3, Vacuous
  <1>5. c \in {DelRoute("low", NoServer), DelRoute("high", NoServer),
               DelRoute("subnet", NoServer), DelRoute("host", server)}
    BY DisconnectIs DEF Takes, IInv, Types
  <1>6. ASSUME os = "darwin", missed \cap RoutesOut = {}
        PROVE  /\ (Diverted => Host \in routes)'
               /\ (Low \in routes =>
                     Before(todo, {DelRoute("low", NoServer)}, {DelRoute("host", server)}))'
               /\ (High \in routes =>
                     Before(todo, {DelRoute("high", NoServer)}, {DelRoute("host", server)}))'
    <2>1. /\ Diverted => Host \in routes
          /\ Low \in routes => Before(todo, {DelRoute("low", NoServer)}, {DelRoute("host", server)})
          /\ High \in routes =>
                Before(todo, {DelRoute("high", NoServer)}, {DelRoute("host", server)})
      BY <1>6 DEF IInv, Outside
    <2>2. c = DelRoute("host", server) => ~ Diverted
      BY <1>2, <2>1, OpsAre, RuleIs DEF Diverted
    <2>3. c # DelRoute("host", server) => c.arg # Host
      BY <1>5, OpsAre, RuleIs DEF Host
    <2>4. /\ c = DelRoute("low", NoServer) => Low \notin routes'
          /\ c = DelRoute("high", NoServer) => High \notin routes'
      BY <1>1, OpsAre DEF Low, High
    <2>5. Host' = Host
      BY <1>1 DEF Host
    <2>6. Diverted' => Diverted
      BY <1>1 DEF Diverted
    <2>7. (Diverted => Host \in routes)'
      BY <1>1, <2>1, <2>2, <2>3, <2>5, <2>6
    <2>8. Low \in routes' =>
             Before(todo', {DelRoute("low", NoServer)}, {DelRoute("host", server)})
      BY <1>1, <1>2, <2>1, <2>4
    <2>9. High \in routes' =>
             Before(todo', {DelRoute("high", NoServer)}, {DelRoute("host", server)})
      BY <1>1, <1>2, <2>1, <2>4
    <2> QED
      BY <1>1, <2>7, <2>8, <2>9
  <1>7. (Host \in routes \/ Before(todo, {AddRoute("host", server, 0)}, Diverters))'
    BY <1>4
  <1>8. RoutesOut' = RoutesOut
    BY <1>1 DEF RoutesOut
  <1> QED
    BY <1>1, <1>2, <1>6, <1>7, <1>8 DEF Outside

(***************************************************************************)
(* The gateway is looked up, a route added or deleted, resolvers set.      *)
(***************************************************************************)
LEMMA RouteCommand ==
    ASSUME IInv, Execute, Adds \/ Takes, UNCHANGED <<os, left, missed>>,
           Head(todo).op \in {"gateway", "addRoute", "delRoute", "setDNS"}
    PROVE  Types' /\ Shut' /\ Passing' /\ Off' /\ Open' /\ Outside'
  <1> DEFINE c == Head(todo)
  <1>1. UNCHANGED <<chain, enabled, asked, switch>> /\ server' = server /\ tunName' = tunName
    BY DEF Execute, IInv, Types, Adds, Takes
  <1>2. Types' /\ Shut' /\ Passing' /\ Off' /\ Open'
    BY <1>1, Quiet
  <1>3. CASE c.op \in {"gateway", "setDNS"}
    <2>1. routes' = routes
      BY <1>3 DEF Execute
    <2>2. Outside'
      BY <1>1, <1>3, <2>1, RoutesQuiet
    <2> QED
      BY <1>2, <2>2
  <1>4. CASE c.op = "addRoute"
    <2>1. Adds
      BY <1>4, DisconnectIs DEF Takes, IInv, Types
    <2> QED
      BY <1>2, <1>4, <2>1, AddsRoute
  <1>5. CASE c.op = "delRoute"
    <2>1. Takes
      BY <1>5, ConnectIs DEF Adds, IInv, Types
    <2> QED
      BY <1>2, <1>5, <2>1, TakesRoute
  <1> QED
    BY <1>3, <1>4, <1>5

(***************************************************************************)
(* A rule that lets the packets of the tunnel pass comes first.            *)
(***************************************************************************)
LEMMA InsertCommand ==
    ASSUME IInv, Execute, Adds, UNCHANGED <<os, left, missed>>, Head(todo).op = "insert"
    PROVE  Types' /\ Shut' /\ Passing' /\ Off' /\ Open' /\ Outside'
  <1> DEFINE c == Head(todo)
             r == Named("server", server, tunName)
  <1>1. /\ UNCHANGED <<routes, filterOn, enabled, asked, switch>>
        /\ server' = server /\ tunName' = tunName /\ chain' = <<c.arg>> \o chain
    BY DEF Execute, IInv, Types, Adds
  <1>2. /\ os = "linux" /\ c.arg = r
    BY ConnectIs DEF Adds, IInv, Types
  <1>3. /\ c \notin DropAdders /\ c # Enabler /\ c # Disabler /\ c # AppendDrop /\ c \notin Removers
        /\ c # AcceptTun(tunName) /\ c \notin Leave
    BY OpsAre
  <1>4. /\ server # NoServer
        /\ \A X : Has(todo, X) <=> c \in X \/ Has(todo', X)
        /\ \A X, Y : Before(todo, X, Y) => c \notin Y /\ (c \in X \/ Before(todo', X, Y))
        /\ \A X : Sole(todo, X) => Sole(todo', X)
    BY Progress DEF IInv
  <1>5. r \in Rules /\ r # Drop /\ \A name : r # Tun(name)
    BY <1>4, NamedIs DEF IInv, Types, Rules
  <1>6. chain \in Seq(Rules) /\ chain' = <<r>> \o chain
    BY <1>1, <1>2 DEF IInv, Types
  <1> HIDE DEF r
  <1>7. chain' \in Seq(Rules)
    BY <1>5, <1>6, InsertIs
  <1>8. /\ \A X : Has(chain', X) <=> r \in X \/ Has(chain, X)
        /\ \A X, Y : r \notin Y /\ (r \in X \/ Before(chain, X, Y)) => Before(chain', X, Y)
        /\ \A X : r \notin X /\ Sole(chain, X) => Sole(chain', X)
    BY <1>5, <1>6, InsertKeeps
  <1>9. Types'
    BY <1>1, <1>7 DEF IInv, Types
  <1>10. Shut'
    BY <1>1, <1>3, <1>4, <1>5, <1>8, <1>2, <1>9 DEF IInv, Shut, Types
  <1>11. Passing'
    <2>1. Admits'
      BY <1>1, <1>2, <1>5, <1>8 DEF Admits, r
    <2>2. \A name : Lets(name) => Lets(name)'
      BY <1>5, <1>8 DEF Lets
    <2>3. Letting => Letting'
      BY <1>1, <1>3, <1>4, <1>5, <1>8 DEF Letting
    <2> QED
      BY <1>1, <2>1, <2>2, <2>3 DEF IInv, Passing
  <1>12. Off'
    BY <1>1, <1>3, <1>4 DEF IInv, Off
  <1>13. Open'
    <2>1. Counted => Counted'
      BY <1>1, <1>3, <1>4, <1>5, <1>8 DEF Counted, Adds
    <2> QED
      BY <1>1, <1>3, <1>4, <1>5, <1>8, <2>1 DEF IInv, Open
  <1>14. Outside'
    BY <1>1, RoutesQuiet
  <1> QED
    BY <1>9, <1>10, <1>11, <1>12, <1>13, <1>14

(***************************************************************************)
(* A rule comes last: the one that drops after the one for the tunnel, and *)
(* only if there is none that drops.                                       *)
(***************************************************************************)
LEMMA AppendCommand ==
    ASSUME IInv, Execute, Adds, UNCHANGED <<os, left, missed>>, Head(todo).op = "append"
    PROVE  Types' /\ Shut' /\ Passing' /\ Off' /\ Open' /\ Outside'
  <1> DEFINE c == Head(todo)
             r == c.arg
  <1>1. /\ UNCHANGED <<routes, filterOn, enabled, asked, switch>>
        /\ server' = server /\ tunName' = tunName /\ chain' = Append(chain, r)
    BY DEF Execute, IInv, Types, Adds
  <1>2. /\ os = "linux" /\ r \in {Rule("lo", NoServer), Tun(tunName), Drop}
        /\ c = Command("append", r, 0)
    BY ConnectIs DEF Adds, IInv, Types
  <1>3. /\ c # Enabler /\ c # Disabler /\ c \notin Removers /\ c \notin Leave /\ c \notin Admitting
    BY OpsAre
  <1>4. /\ server # NoServer
        /\ \A X : Has(todo, X) <=> c \in X \/ Has(todo', X)
        /\ \A X, Y : Before(todo, X, Y) => c \notin Y /\ (c \in X \/ Before(todo', X, Y))
        /\ \A X : Sole(todo, X) => Sole(todo', X) /\ (c \in X => ~ Has(todo', X))
    BY Progress DEF IInv
  <1>5. r \in Rules /\ Tun(tunName) # Drop
    <2>1. tunName \in TunNames
      BY <1>4 DEF IInv, Types
    <2> QED
      BY <1>2, <2>1, NamedIs DEF Rules, Drop
  <1>6. /\ r = Drop => c = AppendDrop
        /\ r # Drop => c # AppendDrop /\ c \notin DropAdders
        /\ r = Tun(tunName) => c = AcceptTun(tunName)
        /\ r # Tun(tunName) => c # AcceptTun(tunName)
    <2>1. c \in DropAdders => c = AppendDrop
      BY <1>2, CommandIs DEF DropAdders
    <2> QED
      BY <1>2, <2>1, OpsAre DEF AppendDrop, AcceptTun, Tun
  <1>7. chain \in Seq(Rules)
    BY DEF IInv, Types
  <1>8. AppendDrop \in DropAdders
    BY DEF DropAdders
  <1> HIDE DEF r
  <1>9. chain' \in Seq(Rules)
    BY <1>1, <1>5, <1>7, AppendKeeps
  <1>10. /\ \A X : Has(chain', X) <=> r \in X \/ Has(chain, X)
         /\ \A X, Y : Before(chain, X, Y) /\ (r \in Y => Has(chain, X)) => Before(chain', X, Y)
         /\ \A X : Sole(chain, X) /\ (r \in X => ~ Has(chain, X)) => Sole(chain', X)
    BY <1>1, <1>5, <1>7, AppendKeeps
  <1>11. Types'
    BY <1>1, <1>9 DEF IInv, Types
  <1>12. Shut'
    <2>1. filterOn'
      BY <1>1, <1>2 DEF IInv, Types
    <2> QED
      BY <1>1, <1>3, <1>4, <1>6, <1>10, <2>1 DEF IInv, Shut
  <1>13. Passing'
    <2>1. \A name : Lets(name) => Lets(name)'
      BY <1>10 DEF Lets
    <2>2. Letting => Letting'
      <3> SUFFICES ASSUME Letting PROVE Letting'
        OBVIOUS
      <3>1. r = Drop => Has(chain, {Tun(tunName)})
        BY <1>4, <1>6 DEF Letting
      <3> QED
        BY <1>1, <1>4, <1>6, <1>10, <3>1 DEF Letting
    <2>3. Admits => Admits'
      <3>1. r # Drop \/ Has(chain, {Named("server", server, tunName)}) =>
               (Before(chain, {Named("server", server, tunName)}, {Drop}) =>
                   Before(chain', {Named("server", server, tunName)}, {Drop}))
        BY <1>10
      <3> QED
        BY <1>1, <1>2, <1>10, <3>1 DEF Admits
    <2>4. Admitting' = Admitting
      BY <1>1 DEF Admitting
    <2>5. (enabled => Admits \/ Leaving) => (enabled => Admits \/ Leaving)'
      BY <1>1, <2>3 DEF Adds
    <2>6. Admits \/ Before(todo, Admitting, {Enabler}) =>
             (Admits \/ Before(todo, Admitting, {Enabler}))'
      BY <1>3, <1>4, <2>3, <2>4
    <2> QED
      BY <1>1, <2>1, <2>2, <2>5, <2>6 DEF IInv, Passing
  <1>14. Off'
    BY <1>1, <1>3, <1>4 DEF IInv, Off
  <1>15. Open'
    <2>1. r = Drop => switch /\ asked # "disable"
      BY <1>4, <1>6, <1>8 DEF IInv, Off
    <2>2. ASSUME Counted PROVE Counted'
      <3>1. r = Drop => ~ Has(chain, {Drop}) /\ ~ Has(todo', {AppendDrop})
        BY <1>4, <1>6, <2>2 DEF Counted
      <3> QED
        BY <1>1, <1>4, <1>6, <1>10, <2>1, <2>2, <3>1 DEF Counted, Adds
    <2>3. (asked = "disable" /\ (os = "linux" => left = {}) =>
             ~ Has(chain, {Drop}) \/ Has(todo, Removers))'
      BY <1>1, <1>3, <1>4, <1>10, <2>1 DEF IInv, Open
    <2> QED
      BY <2>2, <2>3 DEF IInv, Open
  <1>16. Outside'
    BY <1>1, RoutesQuiet
  <1> QED
    BY <1>11, <1>12, <1>13, <1>14, <1>15, <1>16

(***************************************************************************)
(* The anchor lets the tunnel pass and nothing else.                       *)
(***************************************************************************)
LEMMA AnchorIs ==
    ASSUME NEW s \in Servers, tunName \in TunNames
    PROVE  /\ Anchor(s) \in Seq(Rules) /\ Len(Anchor(s)) = 4
           /\ Anchor(s)[1] = Rule("lo", NoServer) /\ Anchor(s)[2] = Tun(tunName)
           /\ Anchor(s)[3] = Rule("server", s) /\ Anchor(s)[4] = Drop
           /\ Has(Anchor(s), {Drop})
  <1>1. /\ Rule("lo", NoServer) \in Rules /\ Tun(tunName) \in Rules /\ Rule("server", s) \in Rules
        /\ Drop \in Rules
    BY DEF Rules, Tun, Drop, Rule
  <1>2. /\ Anchor(s) \in Seq(Rules) /\ Len(Anchor(s)) = 4
        /\ Anchor(s)[1] = Rule("lo", NoServer) /\ Anchor(s)[2] = Tun(tunName)
        /\ Anchor(s)[3] = Rule("server", s) /\ Anchor(s)[4] = Drop
    BY <1>1 DEF Anchor, Tun
  <1>3. DOMAIN Anchor(s) = 1 .. 4
    BY <1>2
  <1>4. Has(Anchor(s), {Drop})
    BY <1>2, <1>3 DEF Has
  <1> QED
    BY <1>2, <1>4

(***************************************************************************)
(* The anchor is loaded, in place of whatever was there.                   *)
(***************************************************************************)
LEMMA LoadCommand ==
    ASSUME IInv, Execute, Adds, UNCHANGED <<os, left, missed>>, Head(todo).op = "load"
    PROVE  Types' /\ Shut' /\ Passing' /\ Off' /\ Open' /\ Outside'
  <1> DEFINE c == Head(todo)
  <1>1. /\ UNCHANGED <<routes, filterOn, enabled, asked, switch>>
        /\ server' = server /\ tunName' = tunName /\ chain' = Anchor(c.arg)
    BY DEF Execute, IInv, Types, Adds
  <1>2. os = "darwin" /\ c.arg = server /\ c \in Admitting
    BY ConnectIs DEF Adds, IInv, Types
  <1>3. /\ c # Enabler /\ c # Disabler /\ c \notin Removers /\ c \notin Leave
        /\ c # StartFilter
    BY OpsAre
  <1>4. /\ server # NoServer
        /\ \A X : Has(todo, X) <=> c \in X \/ Has(todo', X)
        /\ \A X, Y : Before(todo, X, Y) => c \notin Y /\ (c \in X \/ Before(todo', X, Y))
    BY Progress DEF IInv
  <1>5. server \in Servers /\ tunName \in TunNames
    BY <1>4 DEF IInv, Types
  <1>6. c \in DropAdders
    BY <1>2, <1>3, <1>5, OpsAre, CommandIs DEF Admitting, DropAdders
  <1>7. chain' \in Seq(Rules) /\ Has(chain', {Drop}) /\ chain' = Anchor(server)
    BY <1>1, <1>2, <1>5, AnchorIs
  <1>8. Types'
    BY <1>1, <1>7 DEF IInv, Types
  <1>9. Shut'
    BY <1>1, <1>3, <1>4, <1>7 DEF IInv, Shut
  <1>10. Passing'
    <2>1. Admits'
      <3>1. Anchor(server)' = Anchor(server)
        BY <1>1 DEF Anchor
      <3> QED
        BY <1>2, <1>7, <3>1 DEF Admits
    <2> QED
      BY <1>2, <2>1 DEF Passing
  <1>11. Off'
    BY <1>1, <1>3, <1>4 DEF IInv, Off
  <1>12. Open'
    <2>1. asked # "disable"
      BY <1>4, <1>6 DEF IInv, Off
    <2> QED
      BY <1>1, <1>2, <2>1 DEF Open
  <1>13. Outside'
    BY <1>1, RoutesQuiet
  <1> QED
    BY <1>8, <1>9, <1>10, <1>11, <1>12, <1>13

(***************************************************************************)
(* The kill switch counts as enabled: what it needs is there.              *)
(***************************************************************************)
LEMMA EnabledCommand ==
    ASSUME IInv, Execute, Adds, UNCHANGED <<os, left, missed>>, Head(todo).op = "enabled"
    PROVE  Types' /\ Shut' /\ Passing' /\ Off' /\ Open' /\ Outside'
  <1> DEFINE c == Head(todo)
             shut == AppendDrop \notin missed /\ StartFilter \notin missed
  <1>1. /\ UNCHANGED <<chain, routes, filterOn, switch>> /\ server' = server /\ tunName' = tunName
        /\ enabled' = TRUE /\ asked' = IF shut THEN "enable" ELSE asked
    <2>1. missed \cap {AppendDrop, StartFilter} = {} <=> shut
      OBVIOUS
    <2> HIDE DEF shut
    <2> QED
      BY <2>1 DEF Execute, IInv, Types, Adds
  <1>2. c = Enabler
    BY ConnectIs DEF Adds, IInv, Types
  <1>3. /\ c \notin DropAdders /\ c # AppendDrop /\ c \notin Removers /\ c # Disabler
        /\ c # AcceptTun(tunName)
    BY OpsAre
  <1>4. /\ server # NoServer
        /\ \A X : Has(todo, X) <=> c \in X \/ Has(todo', X)
        /\ \A X, Y : Before(todo, X, Y) => c \notin Y /\ (c \in X \/ Before(todo', X, Y))
        /\ \A X : Sole(todo, X) => Sole(todo', X)
    BY Progress DEF IInv
  <1>5. /\ AppendDrop \notin missed => Has(chain, {Drop})
        /\ StartFilter \notin missed => filterOn
    BY <1>2, <1>4 DEF IInv, Shut
  <1>6. Types'
    BY <1>1 DEF IInv, Types
  <1>7. ~ Has(todo', Removers)
    BY <1>4 DEF Adds
  <1>8. Shut'
    <2>1. asked' = "enable" => filterOn' /\ Has(chain', {Drop})
      BY <1>1, <1>5 DEF IInv, Shut
    <2> QED
      BY <1>1, <1>5, <1>7, <2>1 DEF Shut
  <1>9. Passing'
    <2>1. (os = "linux" => AcceptServer(server, tunName) \notin missed) => Admits'
      <3>1. (os = "linux" => AcceptServer(server, tunName) \notin missed) => Admits
        BY <1>2, <1>4 DEF IInv, Passing
      <3>2. Admits' <=> Admits
        BY <1>1 DEF Admits, Anchor
      <3> QED
        BY <3>1, <3>2
    <2>2. \A name : Lets(name)' <=> Lets(name)
      BY <1>1 DEF Lets
    <2>3. Letting => Letting'
      BY <1>1, <1>3, <1>4 DEF Letting
    <2> QED
      BY <1>1, <2>1, <2>2, <2>3 DEF IInv, Passing
  <1>10. Off'
    <2>1. switch /\ asked # "disable"
      BY <1>2, <1>4 DEF IInv, Off
    <2>2. Before(todo', {Disabler}, Leave)
      BY <1>4, Vacuous DEF Adds
    <2> QED
      BY <1>1, <1>4, <2>1, <2>2 DEF Off
  <1>11. Open'
    <2>1. Counted => Counted'
      BY <1>1, <1>3, <1>4 DEF Counted, Adds
    <2>2. asked # "disable"
      BY <1>2, <1>4 DEF IInv, Off
    <2> QED
      BY <1>1, <2>1, <2>2 DEF IInv, Open
  <1>12. Outside'
    BY <1>1, RoutesQuiet
  <1> QED
    BY <1>6, <1>8, <1>9, <1>10, <1>11, <1>12

(***************************************************************************)
(* The kill switch no longer counts as enabled.                            *)
(***************************************************************************)
LEMMA DisabledCommand ==
    ASSUME IInv, Execute, Takes, UNCHANGED <<os, left, missed>>, Head(todo).op = "disabled"
    PROVE  Types' /\ Shut' /\ Passing' /\ Off' /\ Open' /\ Outside'
  <1> DEFINE c == Head(todo)
  <1>1. /\ UNCHANGED <<chain, routes, filterOn, switch, asked>> /\ enabled' = FALSE
        /\ server' = server /\ tunName' = tunName
    BY DEF Execute, IInv, Types, Takes
  <1>2. c \notin Removers
    BY OpsAre
  <1>3. \A X : Has(todo, X) <=> c \in X \/ Has(todo', X)
    BY Progress DEF IInv
  <1>4. \A X : /\ Before(todo', X, {Enabler}) /\ Before(todo', X, {AppendDrop})
    BY <1>3, Vacuous DEF Takes
  <1>5. Types'
    BY <1>1 DEF IInv, Types
  <1>6. Shut'
    BY <1>1, <1>3, <1>4 DEF IInv, Shut
  <1>7. Passing'
    <2>1. \A name : Lets(name)' <=> Lets(name)
      BY <1>1 DEF Lets
    <2>2. Letting => Letting'
      BY <1>1, <1>4 DEF Letting
    <2> QED
      BY <1>1, <1>4, <2>1, <2>2 DEF IInv, Passing
  <1>8. Off'
    BY <1>1, <1>3 DEF Off, Takes
  <1>9. Open'
    <2>1. Sole(todo, {AppendDrop}) => Sole(todo', {AppendDrop})
      BY Progress DEF IInv
    <2>2. Counted => Counted'
      BY <1>1, <1>2, <1>3, <2>1 DEF Counted, Takes
    <2> QED
      BY <1>1, <1>2, <1>3, <2>2 DEF IInv, Open
  <1>10. Outside'
    BY <1>1, RoutesQuiet
  <1> QED
    BY <1>5, <1>6, <1>7, <1>8, <1>9, <1>10

(***************************************************************************)
(* A chain without a rule that drops is what a disconnect leaves behind.   *)
(***************************************************************************)
LEMMA Opens ==
    ASSUME IInv, Execute, Takes,
           UNCHANGED <<routes, filterOn, enabled, switch, asked, os, left, missed>>,
           Head(todo).op \in {"delete", "flush"}, Head(todo) \in Removers,
           chain' \in Seq(Rules), os = "linux" => \A name : Lets(name) => Lets(name)',
           (os = "linux" => left = {} /\ Sole(chain, {Drop})) => ~ Has(chain', {Drop})
    PROVE  Types' /\ Shut' /\ Passing' /\ Off' /\ Open' /\ Outside'
  <1> DEFINE c == Head(todo)
  <1>1. server' = server /\ tunName' = tunName
    BY DEF Takes
  <1>2. c # Disabler
    BY OpsAre
  <1>3. /\ \A X : Has(todo, X) <=> c \in X \/ Has(todo', X)
        /\ \A X, Y : Before(todo, X, Y) => c \notin Y /\ (c \in X \/ Before(todo', X, Y))
    BY Progress DEF IInv
  <1>4. \A X : /\ Before(todo', X, {Enabler}) /\ Before(todo', X, {AppendDrop})
    BY <1>3, Vacuous DEF Takes
  <1>5. asked # "enable"
    BY <1>3 DEF IInv, Shut
  <1>6. Types'
    BY <1>1 DEF IInv, Types
  <1>7. Shut'
    BY <1>4, <1>5 DEF IInv, Shut
  <1>8. (os = "linux" => left = {}) => ~ Has(chain', {Drop})
    <2>1. os = "linux" /\ left = {} => Sole(chain, {Drop})
      BY DEF IInv, Open, Counted
    <2> QED
      BY <2>1
  <1>9. Passing'
    <2>1. Leaving'
      BY DEF Takes
    <2>2. os = "linux" /\ left = {} => Letting'
      BY <1>4, <1>8, Vacuous DEF Letting
    <2> QED
      BY <1>4, <2>1, <2>2 DEF IInv, Passing
  <1>10. Off'
    BY <1>1, <1>2, <1>3 DEF IInv, Off, Takes
  <1>11. Open'
    <2>1. ~ Has(todo', {AppendDrop})
      BY <1>3 DEF Takes
    <2>2. ~ Has(chain', {Drop}) => Counted'
      BY <2>1 DEF Counted, Sole, Has
    <2> QED
      BY <1>8, <2>2 DEF Open
  <1>12. Outside'
    BY <1>1, RoutesQuiet
  <1> QED
    BY <1>6, <1>7, <1>9, <1>10, <1>11, <1>12

(***************************************************************************)
(* The rule that drops is deleted.                                         *)
(***************************************************************************)
LEMMA DeleteCommand ==
    ASSUME IInv, Execute, Takes, UNCHANGED <<os, left, missed>>, Head(todo).op = "delete"
    PROVE  Types' /\ Shut' /\ Passing' /\ Off' /\ Open' /\ Outside'
  <1> DEFINE c == Head(todo)
  <1>1. os = "linux" /\ c.arg = Drop /\ c \in Removers
    BY DisconnectIs DEF Takes, IInv, Types
  <1>2. UNCHANGED <<routes, filterOn, enabled, switch, asked>> /\ chain' = Without(chain, c.arg)
    BY DEF Execute, IInv, Types
  <1>3. chain \in Seq(Rules) /\ chain' = Without(chain, Drop) /\ \A name : Drop \notin {Tun(name)}
    BY <1>1, <1>2, NamedIs DEF IInv, Types
  <1>4. chain' \in Seq(Rules) /\ (Sole(chain, {Drop}) => ~ Has(chain', {Drop}))
    <2>1. Drop \notin {Tun(tunName)}
      BY <1>3
    <2> QED
      BY <1>3, <2>1, WithoutKeeps
  <1>5. ASSUME NEW name, Lets(name) PROVE Lets(name)'
    <2>1. /\ Has(chain', {Tun(name)}) <=> Has(chain, {Tun(name)})
          /\ Before(chain, {Tun(name)}, {Drop}) => Before(chain', {Tun(name)}, {Drop})
      BY <1>3, WithoutKeeps
    <2> QED
      BY <1>5, <2>1 DEF Lets
  <1> QED
    BY <1>1, <1>2, <1>4, <1>5, Opens

(***************************************************************************)
(* The anchor is flushed.                                                  *)
(***************************************************************************)
LEMMA FlushCommand ==
    ASSUME IInv, Execute, Takes, UNCHANGED <<os, left, missed>>, Head(todo).op = "flush"
    PROVE  Types' /\ Shut' /\ Passing' /\ Off' /\ Open' /\ Outside'
  <1> DEFINE c == Head(todo)
  <1>1. os = "darwin" /\ c \in Removers
    BY DisconnectIs DEF Takes, IInv, Types
  <1>2. UNCHANGED <<routes, filterOn, enabled, switch, asked>> /\ chain' = <<>>
    BY DEF Execute, IInv, Types
  <1>3. chain' \in Seq(Rules) /\ ~ Has(chain', {Drop})
    BY <1>2, EmptyIs
  <1> QED
    BY <1>1, <1>2, <1>3, Opens

(***************************************************************************)
(* The connection ends.                                                    *)
(***************************************************************************)
LEMMA LeaveCommand ==
    ASSUME IInv, Execute, Ends, UNCHANGED <<os, left, missed>>
    PROVE  Types' /\ Shut' /\ Passing' /\ Off' /\ Open' /\ Outside'
  <1> DEFINE c == Head(todo)
  <1>1. c \in Leave /\ c.op = "disconnected" /\ todo' = <<>> /\ server' = NoServer /\ Leaving
    BY OpsAre DEF Ends
  <1>2. /\ UNCHANGED <<chain, filterOn, enabled, asked>> /\ routes' = HostRoutes
        /\ switch' \in BOOLEAN /\ tunName' \in {tunName, NoTun}
    BY <1>1 DEF Execute, IInv, Types
  <1>3. \A X, Y : Before(todo, X, Y) => c \notin Y
    BY Progress DEF IInv
  <1>4. ~ enabled
    BY <1>1, <1>3 DEF IInv, Off
  <1>5. ~ Has(todo, Removers)
    <2>1. \A X : Has(todo, X) <=> c \in X \/ Has(todo', X)
      BY Progress DEF IInv
    <2>2. c \notin Removers
      BY <1>1, OpsAre
    <2> QED
      BY <1>1, <2>1, <2>2, EmptyIs
  <1>6. \A X, Y : ~ Has(todo', X) /\ Before(todo', X, Y) /\ Sole(todo', X)
    BY <1>1, EmptyIs
  <1>7. Types'
    BY <1>1, <1>2 DEF IInv, Types
  <1>8. Shut'
    BY <1>2, <1>4, <1>6 DEF IInv, Shut
  <1>9. Counted => ~ Has(chain, {Drop}) /\ Sole(chain, {Drop})
    BY <1>1, <1>5 DEF Counted
  <1>10. Passing'
    <2>1. \A name : Lets(name)' <=> Lets(name)
      BY <1>2 DEF Lets
    <2>2. os = "linux" /\ left = {} => Letting'
      <3>1. os = "linux" /\ left = {} => ~ Has(chain', {Drop})
        BY <1>2, <1>9 DEF IInv, Open
      <3> QED
        BY <1>6, <3>1, Vacuous DEF Letting
    <2> QED
      BY <1>2, <1>4, <1>6, <2>1, <2>2 DEF IInv, Passing
  <1>11. Off'
    BY <1>2, <1>4, <1>6 DEF Off
  <1>12. Open'
    <2>1. Counted => Counted'
      BY <1>2, <1>6, <1>9 DEF Counted
    <2> QED
      BY <1>2, <1>5, <2>1 DEF IInv, Open
  <1>13. Outside'
    <2>1. ~ Diverted'
      BY <1>2, RuleIs DEF Diverted, Low, High, HostRoutes
    <2> QED
      BY <1>6, <2>1 DEF Outside, Diverted
  <1> QED
    BY <1>7, <1>8, <1>10, <1>11, <1>12, <1>13

(***************************************************************************)
(* Whatever the command is.                                                *)
(***************************************************************************)
LEMMA ExecuteStep ==
    ASSUME IInv, Execute
    PROVE  IInv'
  <1>0. /\ todo # <<>> /\ todo' = Tail(todo) /\ UNCHANGED <<os, left, missed>>
        /\ Head(todo).op = "disconnected" => server' = NoServer
        /\ Head(todo).op # "disconnected" => server' = server /\ tunName' = tunName
    BY DEF Execute
  <1>1. Calls' /\ UNCHANGED <<os, left, missed>> /\ (Adds \/ Takes \/ Ends)
    BY <1>0, CallsGoOn DEF IInv
  <1>2. CASE Adds
    <2>1. Head(todo).op \in {"gateway", "addRoute", "setDNS", "insert", "append", "load",
                             "startFilter", "enabled"}
      BY <1>2, ConnectIs DEF Adds, IInv, Types
    <2>2. CASE Head(todo).op = "startFilter"
      <3>1. /\ UNCHANGED <<chain, routes, enabled, asked, switch>>
            /\ server' = server /\ tunName' = tunName
        BY <1>2, <2>2 DEF Execute, IInv, Types, Adds
      <3>2. Types' /\ Shut' /\ Passing' /\ Off' /\ Open'
        BY <1>1, <1>2, <2>2, <3>1, Quiet
      <3>3. Outside'
        BY <1>1, <2>2, <3>1, RoutesQuiet
      <3> QED
        BY <1>1, <3>2, <3>3 DEF IInv
    <2>3. CASE Head(todo).op # "startFilter"
      BY <1>1, <1>2, <2>1, <2>3, RouteCommand, InsertCommand, AppendCommand, LoadCommand,
         EnabledCommand DEF IInv
    <2> QED
      BY <2>2, <2>3
  <1>3. CASE Takes
    <2>1. Head(todo).op \in {"delete", "flush", "disabled", "delRoute", "setDNS"}
      BY <1>3, DisconnectIs DEF Takes, IInv, Types
    <2>2. Types' /\ Shut' /\ Passing' /\ Off' /\ Open' /\ Outside'
      BY <1>1, <1>3, <2>1, RouteCommand, DeleteCommand, FlushCommand, DisabledCommand
    <2> QED
      BY <1>1, <2>2 DEF IInv
  <1>4. CASE Ends
    <2>1. Types' /\ Shut' /\ Passing' /\ Off' /\ Open' /\ Outside'
      BY <1>1, <1>4, LeaveCommand
    <2> QED
      BY <1>1, <2>1 DEF IInv
  <1> QED
    BY <1>1, <1>2, <1>3, <1>4

-----------------------------------------------------------------------------
(* The programs of a connect and a disconnect                              *)

\* What is known of t when it is p and then q.
Joined(t, p, q) ==
    /\ Len(t) = Len(p) + Len(q)
    /\ \A i \in 1 .. Len(p) : t[i] = p[i]
    /\ \A i \in 1 .. Len(q) : t[Len(p) + i] = q[i]
    /\ \A i \in DOMAIN t : i \in DOMAIN p \/ (i - Len(p) \in DOMAIN q /\ t[i] = q[i - Len(p)])
    /\ \A X : Has(t, X) <=> Has(p, X) \/ Has(q, X)
    /\ \A X, Y : ~ Has(p, Y) /\ Before(q, X, Y) => Before(t, X, Y)
    /\ \A X, Y : ~ Has(q, Y) /\ Before(p, X, Y) => Before(t, X, Y)
    /\ \A X, Y : ~ Has(p, Y) /\ Has(p, X) => Before(t, X, Y)
    /\ \A X : ~ Has(p, X) /\ Sole(q, X) => Sole(t, X)
    /\ \A X : ~ Has(q, X) /\ Sole(p, X) => Sole(t, X)

(***************************************************************************)
(* Commands of one kind after those of another.                            *)
(***************************************************************************)
LEMMA ConcatKeeps ==
    ASSUME NEW S, NEW p \in Seq(S), NEW q \in Seq(S)
    PROVE  p \o q \in Seq(S) /\ Joined(p \o q, p, q)
  <1> DEFINE t == p \o q
  <1>1. /\ t \in Seq(S) /\ Len(t) = Len(p) + Len(q) /\ Len(p) \in Nat /\ Len(q) \in Nat
        /\ DOMAIN t = 1 .. Len(p) + Len(q) /\ DOMAIN p = 1 .. Len(p) /\ DOMAIN q = 1 .. Len(q)
        /\ \A i \in 1 .. Len(p) + Len(q) : t[i] = IF i <= Len(p) THEN p[i] ELSE q[i - Len(p)]
    OBVIOUS
  <1> HIDE DEF t
  <1>2. /\ \A i \in 1 .. Len(p) : i \in DOMAIN t /\ t[i] = p[i]
        /\ \A i \in 1 .. Len(q) : Len(p) + i \in DOMAIN t /\ t[Len(p) + i] = q[i]
    <2>1. \A i \in 1 .. Len(q) : Len(p) + i \in 1 .. Len(p) + Len(q) /\ ~ (Len(p) + i <= Len(p))
                                 /\ (Len(p) + i) - Len(p) = i
      BY <1>1
    <2> QED
      BY <1>1, <2>1
  <1>3. \A i \in DOMAIN t : i \in DOMAIN p \/ (i - Len(p) \in DOMAIN q /\ t[i] = q[i - Len(p)])
    BY <1>1
  <1>4. ASSUME NEW X PROVE Has(t, X) <=> Has(p, X) \/ Has(q, X)
    <2>1. Has(t, X) => Has(p, X) \/ Has(q, X)
      BY <1>1, <1>2, <1>3 DEF Has
    <2>2. Has(p, X) => Has(t, X)
      BY <1>1, <1>2 DEF Has
    <2>3. Has(q, X) => Has(t, X)
      BY <1>1, <1>2 DEF Has
    <2> QED
      BY <2>1, <2>2, <2>3
  <1>5. ASSUME NEW X, NEW Y, ~ Has(p, Y), Before(q, X, Y) PROVE Before(t, X, Y)
    <2> SUFFICES ASSUME NEW i \in DOMAIN t, t[i] \in Y PROVE \E j \in 1 .. i - 1 : t[j] \in X
      BY DEF Before
    <2>1. i - Len(p) \in DOMAIN q /\ q[i - Len(p)] \in Y
      BY <1>1, <1>2, <1>3, <1>5 DEF Has
    <2>2. PICK j \in 1 .. (i - Len(p)) - 1 : q[j] \in X
      BY <1>5, <2>1 DEF Before
    <2>3. j \in 1 .. Len(q) /\ Len(p) + j \in 1 .. i - 1
      BY <1>1, <2>1
    <2> QED
      BY <1>2, <2>2, <2>3
  <1>6. ASSUME NEW X, NEW Y, ~ Has(q, Y), Before(p, X, Y) PROVE Before(t, X, Y)
    <2> SUFFICES ASSUME NEW i \in DOMAIN t, t[i] \in Y PROVE \E j \in 1 .. i - 1 : t[j] \in X
      BY DEF Before
    <2>1. i \in DOMAIN p /\ p[i] \in Y
      BY <1>1, <1>2, <1>3, <1>6 DEF Has
    <2>2. PICK j \in 1 .. i - 1 : p[j] \in X
      BY <1>6, <2>1 DEF Before
    <2>3. j \in 1 .. Len(p)
      BY <1>1, <2>1
    <2> QED
      BY <1>2, <2>2, <2>3
  <1>7. ASSUME NEW X, ~ Has(p, X), Sole(q, X) PROVE Sole(t, X)
    <2> SUFFICES ASSUME NEW i \in DOMAIN t, NEW j \in DOMAIN t, t[i] \in X, t[j] \in X PROVE i = j
      BY DEF Sole
    <2>1. /\ i - Len(p) \in DOMAIN q /\ q[i - Len(p)] \in X
          /\ j - Len(p) \in DOMAIN q /\ q[j - Len(p)] \in X
      BY <1>1, <1>2, <1>3, <1>7 DEF Has
    <2>2. i - Len(p) = j - Len(p)
      BY <1>7, <2>1 DEF Sole
    <2> QED
      BY <1>1, <2>2
  <1>8. ASSUME NEW X, ~ Has(q, X), Sole(p, X) PROVE Sole(t, X)
    <2> SUFFICES ASSUME NEW i \in DOMAIN t, NEW j \in DOMAIN t, t[i] \in X, t[j] \in X PROVE i = j
      BY DEF Sole
    <2>1. i \in DOMAIN p /\ p[i] \in X /\ j \in DOMAIN p /\ p[j] \in X
      BY <1>1, <1>2, <1>3, <1>8 DEF Has
    <2> QED
      BY <1>8, <2>1 DEF Sole
  <1>9. ASSUME NEW X, NEW Y, ~ Has(p, Y), Has(p, X) PROVE Before(t, X, Y)
    <2> SUFFICES ASSUME NEW i \in DOMAIN t, t[i] \in Y PROVE \E j \in 1 .. i - 1 : t[j] \in X
      BY DEF Before
    <2>1. i - Len(p) \in DOMAIN q
      BY <1>1, <1>2, <1>3, <1>9 DEF Has
    <2>2. PICK j \in 1 .. Len(p) : p[j] \in X
      BY <1>1, <1>9 DEF Has
    <2>3. j \in 1 .. i - 1
      BY <1>1, <2>1
    <2> QED
      BY <1>2, <2>2, <2>3
  <1> QED
    BY <1>1, <1>2, <1>3, <1>4, <1>5, <1>6, <1>7, <1>8, <1>9 DEF t, Joined

(***************************************************************************)
(* Three commands one after the other.                                     *)
(***************************************************************************)
LEMMA ThreeAre ==
    ASSUME NEW S, NEW x \in Seq(S), NEW y \in Seq(S), NEW z \in Seq(S)
    PROVE  Len(x) = 1 /\ Len(y) = 1 /\ Len(z) = 1 =>
              LET t == (x \o y) \o z
              IN  t \in Seq(S) /\ Len(t) = 3 /\ t[1] = x[1] /\ t[2] = y[1] /\ t[3] = z[1]
  <1> DEFINE u == x \o y
             t == u \o z
  <1>1. /\ Len(u) = Len(x) + Len(y)
        /\ \A i \in 1 .. Len(x) + Len(y) : u[i] = IF i <= Len(x) THEN x[i] ELSE y[i - Len(x)]
    OBVIOUS
  <1>2. u \in Seq(S)
    OBVIOUS
  <1> HIDE DEF u
  <1>3. /\ t \in Seq(S) /\ Len(t) = Len(u) + Len(z)
        /\ \A i \in 1 .. Len(u) + Len(z) : t[i] = IF i <= Len(u) THEN u[i] ELSE z[i - Len(u)]
    BY <1>2
  <1> HIDE DEF t
  <1>4. ASSUME Len(x) = 1, Len(y) = 1, Len(z) = 1
        PROVE  t \in Seq(S) /\ Len(t) = 3 /\ t[1] = x[1] /\ t[2] = y[1] /\ t[3] = z[1]
    <2>1. Len(u) = 2 /\ u[1] = x[1] /\ u[2] = y[1]
      BY <1>1, <1>4
    <2> QED
      BY <1>3, <1>4, <2>1
  <1> QED
    BY <1>4 DEF t, u

Preparation(s) == SetupRoutes(s) \o SetupDNS

\* p adds the route to s before those into the tunnel, and what is skipped
\* when there is no gateway are the routes.
Prepares(p, s, name) ==
    /\ p \in Seq(ConnectCommands(s, name))
    /\ \A i \in DOMAIN p : p[i].op \in {"gateway", "addRoute", "setDNS"}
    /\ \A i \in DOMAIN p : p[i].op = "gateway" =>
          /\ i = 1 /\ p[1].skip \in Nat /\ 1 + p[1].skip <= Len(p)
          /\ \A j \in DOMAIN p : p[j].op = "addRoute" <=> j \in 2 .. 1 + p[1].skip
    /\ \A i \in DOMAIN p : p[i] = AddRoute("low", NoServer, 1) =>
          /\ i + 1 <= Len(p)
          /\ \A j \in DOMAIN p : j > i => (p[j].op = "addRoute" <=> j = i + 1)
    /\ os = "darwin" => Before(p, {AddRoute("host", s, 0)}, Diverters)

(***************************************************************************)
(* SetupRoutes and SetupDNS: the route to the server first, and without a  *)
(* gateway none.                                                           *)
(***************************************************************************)
LEMMA SetupIs ==
    ASSUME NEW s, NEW name, os \in {"linux", "darwin"}
    PROVE  Prepares(Preparation(s), s, name)
  <1>0. PICK p : p = Preparation(s)
    OBVIOUS
  <1> DEFINE Low0 == AddRoute("low", NoServer, 0)
             Low1 == AddRoute("low", NoServer, 1)
             High0 == AddRoute("high", NoServer, 0)
             Host0 == AddRoute("host", s, 0)
             Subnet0 == AddRoute("subnet", NoServer, 0)
             Dns == Command("setDNS", "tunnel", 0)
             Gateway1 == Command("gateway", NoServer, 1)
             Gateway3 == Command("gateway", NoServer, 3)
  <1>1. /\ Low0.op = "addRoute" /\ Low1.op = "addRoute" /\ High0.op = "addRoute"
        /\ Host0.op = "addRoute" /\ Subnet0.op = "addRoute" /\ Dns.op = "setDNS"
        /\ Gateway1.op = "gateway" /\ Gateway1.skip = 1
        /\ Gateway3.op = "gateway" /\ Gateway3.skip = 3
    BY CommandIs DEF AddRoute
  <1>2. Host0 \notin Diverters /\ Subnet0 \notin Diverters
    BY OpsAre, RuleIs DEF Diverters
  <1>3. Gateway1 \notin Diverters /\ Gateway3 \notin Diverters /\ Dns \notin Diverters
    BY <1>1, OpsAre
  <1>6. /\ Low0 # Low1 /\ High0 # Low1 /\ Host0 # Low1 /\ Subnet0 # Low1 /\ Dns # Low1
        /\ Gateway1 # Low1 /\ Gateway3 # Low1
    <2>1. Low0.skip = 0 /\ Low1.skip = 1 /\ High0.skip = 0 /\ Host0.skip = 0 /\ Subnet0.skip = 0
      BY CommandIs DEF AddRoute
    <2> QED
      BY <1>1, <2>1
  <1>4. ASSUME os = "linux" PROVE Prepares(p, s, name)
    <2>1. {Low0, High0, Subnet0} \subseteq ConnectCommands(s, name)
      BY <1>4 DEF ConnectCommands, LinuxConnect
    <2>2. CASE s \in TestServers
      <3>1. p = <<Subnet0>>
        BY <1>0, <1>4, <2>2 DEF Preparation, SetupRoutes, SetupDNS
      <3> HIDE DEF Subnet0, Low1
      <3>2. p \in Seq(ConnectCommands(s, name)) /\ DOMAIN p = {1} /\ p[1] = Subnet0
        BY <2>1, <3>1
      <3> QED
        BY <1>1, <1>4, <1>6, <3>2 DEF Prepares, Low1
    <2>3. CASE s \notin TestServers
      <3>1. p = <<Low0, High0>>
        BY <1>0, <1>4, <2>3 DEF Preparation, SetupRoutes, SetupDNS, DivertAll
      <3> HIDE DEF Low0, Low1, High0
      <3>2. /\ p \in Seq(ConnectCommands(s, name)) /\ DOMAIN p = {1, 2}
            /\ p[1] = Low0 /\ p[2] = High0
        BY <2>1, <3>1
      <3> QED
        BY <1>1, <1>4, <1>6, <3>2 DEF Prepares, Low1
    <2> QED
      BY <2>2, <2>3
  <1>5. ASSUME os = "darwin" PROVE Prepares(p, s, name)
    <2>1. {Low1, High0, Host0, Subnet0, Dns, Gateway1, Gateway3} \subseteq ConnectCommands(s, name)
      BY <1>5 DEF ConnectCommands, DarwinConnect, Diverters
    <2>2. CASE s \in TestServers
      <3>1. p = (<<Gateway1>> \o <<Subnet0>>) \o <<Dns>>
        BY <1>0, <1>5, <2>2 DEF Preparation, SetupRoutes, SetupDNS
      <3> HIDE DEF Low0, Low1, High0, Host0, Subnet0, Dns, Gateway1, Gateway3
      <3>2. /\ p \in Seq(ConnectCommands(s, name)) /\ Len(p) = 3
            /\ p[1] = Gateway1 /\ p[2] = Subnet0 /\ p[3] = Dns
        <4> DEFINE x == <<Gateway1>>
                   y == <<Subnet0>>
                   z == <<Dns>>
        <4>1. /\ x \in Seq(ConnectCommands(s, name)) /\ Len(x) = 1 /\ x[1] = Gateway1
              /\ y \in Seq(ConnectCommands(s, name)) /\ Len(y) = 1 /\ y[1] = Subnet0
              /\ z \in Seq(ConnectCommands(s, name)) /\ Len(z) = 1 /\ z[1] = Dns
          BY <2>1
        <4>2. p = (x \o y) \o z
          BY <3>1
        <4> HIDE DEF x, y, z
        <4>3. /\ (x \o y) \o z \in Seq(ConnectCommands(s, name)) /\ Len((x \o y) \o z) = 3
              /\ ((x \o y) \o z)[1] = x[1] /\ ((x \o y) \o z)[2] = y[1]
              /\ ((x \o y) \o z)[3] = z[1]
          BY <4>1, ThreeAre, SMTT(30)
        <4> QED
          BY <4>1, <4>2, <4>3
      <3>3. DOMAIN p = 1 .. 3
        BY <3>2
      <3>4. Before(p, {AddRoute("host", s, 0)}, Diverters)
        BY <1>2, <1>3, <3>2, <3>3 DEF Before
      <3>5. \A i \in DOMAIN p : p[i].op \in {"gateway", "addRoute", "setDNS"}
        BY <1>1, <3>2, <3>3
      <3>6. /\ p[1].skip = 1 /\ \A i \in DOMAIN p : p[i].op = "gateway" => i = 1
            /\ \A j \in DOMAIN p : p[j].op = "addRoute" <=> j = 2
        BY <1>1, <3>2, <3>3
      <3>7. \A j \in DOMAIN p : j \in 2 .. 1 + p[1].skip <=> j = 2
        BY <3>3, <3>6
      <3>8. \A i \in DOMAIN p : p[i] # Low1
        BY <1>6, <3>2, <3>3
      <3> QED
        BY <3>2, <3>4, <3>5, <3>6, <3>7, <3>8 DEF Prepares, Low1
    <2>3. CASE s \notin TestServers
      <3>1. p = (<<Gateway3>> \o (<<Host0>> \o <<Low1, High0>>)) \o <<Dns>>
        BY <1>0, <1>5, <2>3 DEF Preparation, SetupRoutes, SetupDNS, DivertAll
      <3> HIDE DEF Low0, Low1, High0, Host0, Subnet0, Dns, Gateway1, Gateway3
      <3>2. /\ p \in Seq(ConnectCommands(s, name)) /\ Len(p) = 5
            /\ p[1] = Gateway3 /\ p[2] = Host0 /\ p[3] = Low1 /\ p[4] = High0 /\ p[5] = Dns
        BY <2>1, <3>1
      <3>3. DOMAIN p = 1 .. 5
        BY <3>2
      <3>4. Before(p, {AddRoute("host", s, 0)}, Diverters)
        <4>1. p[1] \notin Diverters /\ p[2] \notin Diverters /\ p[2] = AddRoute("host", s, 0)
          BY <1>2, <1>3, <3>2 DEF Host0
        <4> QED
          BY <3>3, <4>1 DEF Before
      <3>5. \A i \in DOMAIN p : p[i].op \in {"gateway", "addRoute", "setDNS"}
        BY <1>1, <3>2, <3>3
      <3>6. /\ p[1].skip = 3 /\ \A i \in DOMAIN p : p[i].op = "gateway" => i = 1
            /\ \A j \in DOMAIN p : p[j].op = "addRoute" <=> j \in {2, 3, 4}
        <4>1. /\ p[1].op = "gateway" /\ p[1].skip = 3 /\ p[2].op = "addRoute"
              /\ p[3].op = "addRoute" /\ p[4].op = "addRoute" /\ p[5].op = "setDNS"
          BY <1>1, <3>2
        <4> QED
          BY <3>3, <4>1
      <3>7. \A j \in DOMAIN p : j \in 2 .. 1 + p[1].skip <=> j \in {2, 3, 4}
        BY <3>3, <3>6
      <3>8. /\ \A i \in DOMAIN p : p[i] = Low1 => i = 3
            /\ \A j \in DOMAIN p : j > 3 => (p[j].op = "addRoute" <=> j = 3 + 1)
        BY <1>6, <3>2, <3>3, <3>6
      <3>9. \A i \in DOMAIN p : p[i] = Low1 =>
               /\ i + 1 <= Len(p)
          /\ \A j \in DOMAIN p : j > i => (p[j].op = "addRoute" <=> j = i + 1)
        BY <3>2, <3>8
      <3> QED
        BY <3>2, <3>4, <3>5, <3>6, <3>7, <3>9 DEF Prepares, Low1
    <2> QED
      BY <2>2, <2>3
  <1> QED
    BY <1>0, <1>4, <1>5

\* q adds the rules before the kill switch counts as enabled, and the rest
\* is skipped when the anchor cannot be loaded.
Enables(q, s, name) ==
    /\ q \in Seq(ConnectCommands(s, name))
    /\ \A i \in DOMAIN q : q[i].op \in {"insert", "append", "load", "startFilter", "enabled"}
    /\ \A i \in DOMAIN q : q[i].op = "load" => Len(q) = i + 2
    /\ Before(q, DropAdders, {Enabler}) /\ Sole(q, {AppendDrop})
    /\ Before(q, {AcceptTun(name)}, {AppendDrop})
    /\ Before(q, {AcceptServer(s, name), Command("load", s, 2)}, {Enabler})
    /\ os = "darwin" => Before(q, {StartFilter}, {Enabler})

(***************************************************************************)
(* Enable: the rules first, and without the anchor nothing.                *)
(***************************************************************************)
LEMMA EnableIs ==
    ASSUME NEW s \in Servers, NEW name, os \in {"linux", "darwin"}
    PROVE  Enables(Enable(s, name), s, name)
  <1>0. PICK q : q = Enable(s, name)
    OBVIOUS
  <1> DEFINE Insert == AcceptServer(s, name)
             Lo == Command("append", Rule("lo", NoServer), 0)
             AppendTun == AcceptTun(name)
             Load == Command("load", s, 2)
             Start == StartFilter
  <1>1. /\ Insert.op = "insert" /\ Lo.op = "append" /\ AppendTun.op = "append" /\ Load.op = "load"
        /\ AppendDrop.op = "append" /\ Start.op = "startFilter" /\ Enabler.op = "enabled"
    BY CommandIs, OpsAre
  <1>2. Lo # AppendDrop /\ AppendTun # AppendDrop
    <2>1. Lo.arg # Drop /\ AppendTun.arg # Drop /\ AppendDrop.arg = Drop
      BY CommandIs, RuleIs, NamedIs, OpsAre DEF Drop
    <2> QED
      BY <2>1
  <1>3. AppendDrop \in DropAdders /\ Load \in DropAdders
    BY DEF DropAdders
  <1>4. ASSUME os = "linux" PROVE Enables(q, s, name)
    <2>1. {Insert, Lo, AppendTun, AppendDrop, Enabler} \subseteq ConnectCommands(s, name)
      BY <1>4 DEF ConnectCommands, LinuxConnect
    <2>2. q = <<Insert, Lo, AppendTun, AppendDrop, Enabler>>
      BY <1>0, <1>4 DEF Enable, AcceptAndDrop, Enabler
    <2> HIDE DEF Insert, Lo, AppendTun
    <2>3. /\ q \in Seq(ConnectCommands(s, name)) /\ Len(q) = 5
          /\ q[1] = Insert /\ q[2] = Lo /\ q[3] = AppendTun /\ q[4] = AppendDrop /\ q[5] = Enabler
      BY <2>1, <2>2
    <2>4. DOMAIN q = 1 .. 5
      BY <2>3
    <2>5. \A i \in DOMAIN q : (q[i] = Enabler <=> i = 5) /\ (q[i] = AppendDrop <=> i = 4)
      BY <1>1, <1>2, <2>3, <2>4
    <2>6. Before(q, DropAdders, {Enabler}) /\ Sole(q, {AppendDrop})
      BY <1>3, <2>3, <2>4, <2>5 DEF Before, Sole
    <2>7. Before(q, {AppendTun}, {AppendDrop})
      BY <2>3, <2>4, <2>5 DEF Before
    <2>8. Before(q, {Insert, Load}, {Enabler})
      BY <2>3, <2>4, <2>5 DEF Before
    <2>9. \A i \in DOMAIN q : q[i].op \in {"insert", "append", "enabled"}
      BY <1>1, <2>3, <2>4
    <2> QED
      BY <1>4, <2>3, <2>6, <2>7, <2>8, <2>9 DEF Enables, AppendTun, Insert
  <1>5. ASSUME os = "darwin" PROVE Enables(q, s, name)
    <2>1. {Load, Start, Enabler} \subseteq ConnectCommands(s, name)
      BY <1>5 DEF ConnectCommands, DarwinConnect
    <2>2. q = <<Load, Start, Enabler>>
      BY <1>0, <1>5 DEF Enable, LoadAnchor, Enabler
    <2> HIDE DEF Load, Start
    <2>3. /\ q \in Seq(ConnectCommands(s, name)) /\ Len(q) = 3
          /\ q[1] = Load /\ q[2] = Start /\ q[3] = Enabler
      BY <2>1, <2>2
    <2>4. DOMAIN q = 1 .. 3
      BY <2>3
    <2>5. \A i \in DOMAIN q : (q[i] = Enabler <=> i = 3) /\ q[i] # AppendDrop
      BY <1>1, <2>3, <2>4
    <2>6. Before(q, DropAdders, {Enabler}) /\ Sole(q, {AppendDrop})
      BY <1>3, <2>3, <2>4, <2>5 DEF Before, Sole
    <2>7. Before(q, {AppendTun}, {AppendDrop})
      BY <2>5 DEF Before
    <2>8. Before(q, {Insert, Load}, {Enabler}) /\ Before(q, {Start}, {Enabler})
      BY <2>3, <2>4, <2>5 DEF Before
    <2>9. \A i \in DOMAIN q : /\ q[i].op \in {"load", "startFilter", "enabled"}
                              /\ q[i].op = "load" => Len(q) = i + 2
      BY <1>1, <2>3, <2>4
    <2> QED
      BY <1>5, <2>3, <2>6, <2>7, <2>8, <2>9 DEF Enables, Load, Start
  <1> QED
    BY <1>0, <1>4, <1>5

\* The order of the commands of a connection to s over a device.
InOrder(t, s, name, killSwitch) ==
    /\ t \in Seq(ConnectCommands(s, name))
    /\ \A i \in DOMAIN t :
          /\ t[i].op = "load" => Len(t) = i + 2
          /\ t[i].op = "gateway" =>
                /\ i = 1 /\ 1 + t[1].skip <= Len(t)
                /\ \A j \in DOMAIN t : t[j].op = "addRoute" <=> j \in 2 .. 1 + t[1].skip
          /\ t[i] = AddRoute("low", NoServer, 1) =>
                /\ i + 1 <= Len(t)
                /\ \A j \in DOMAIN t : j > i => (t[j].op = "addRoute" <=> j = i + 1)
    /\ ~ Has(t, Removers) /\ ~ Has(t, Leave) /\ ~ Has(t, {DelRoute("host", s)})
    /\ Has(t, DropAdders \cup {Enabler}) => killSwitch
    /\ Before(t, DropAdders, {Enabler}) /\ Sole(t, {AppendDrop})
    /\ Before(t, {AcceptTun(name)}, {AppendDrop})
    /\ Before(t, {AcceptServer(s, name), Command("load", s, 2)}, {Enabler})
    /\ os = "darwin" => /\ Before(t, {StartFilter}, {Enabler})
                        /\ Before(t, {AddRoute("host", s, 0)}, Diverters)

(***************************************************************************)
(* The commands of a connection are in order.                              *)
(***************************************************************************)
LEMMA ConnectProgram ==
    ASSUME NEW s \in Servers, NEW name, NEW killSwitch \in BOOLEAN, os \in {"linux", "darwin"}
    PROVE  \A t :
              t = SetupRoutes(s) \o SetupDNS \o (IF killSwitch THEN Enable(s, name) ELSE <<>>) =>
                 InOrder(t, s, name, killSwitch)
  <1>1. ASSUME NEW t,
               t = SetupRoutes(s) \o SetupDNS \o (IF killSwitch THEN Enable(s, name) ELSE <<>>)
        PROVE  InOrder(t, s, name, killSwitch)
    <2> DEFINE S == ConnectCommands(s, name)
               q == IF killSwitch THEN Enable(s, name) ELSE <<>>
               Start == {StartFilter}
               Inserting == {AcceptServer(s, name), Command("load", s, 2)}
    <2>0. PICK p : p = Preparation(s)
      OBVIOUS
    <2>1. /\ p \in Seq(S)
          /\ \A i \in DOMAIN p : p[i].op \in {"gateway", "addRoute", "setDNS"}
          /\ \A i \in DOMAIN p : p[i].op = "gateway" =>
                /\ i = 1 /\ p[1].skip \in Nat /\ 1 + p[1].skip <= Len(p)
                /\ \A j \in DOMAIN p : p[j].op = "addRoute" <=> j \in 2 .. 1 + p[1].skip
          /\ \A i \in DOMAIN p : p[i] = AddRoute("low", NoServer, 1) =>
                /\ i + 1 <= Len(p)
                /\ \A j \in DOMAIN p : j > i => (p[j].op = "addRoute" <=> j = i + 1)
          /\ os = "darwin" => Before(p, {AddRoute("host", s, 0)}, Diverters)
      <3>1. Prepares(p, s, name)
        BY <2>0, SetupIs
      <3> QED
        BY <3>1 DEF Prepares
    <2>2. /\ q \in Seq(S)
          /\ \A i \in DOMAIN q : q[i].op \in {"insert", "append", "load", "startFilter", "enabled"}
          /\ \A i \in DOMAIN q : q[i].op = "load" => Len(q) = i + 2
          /\ Before(q, DropAdders, {Enabler}) /\ Sole(q, {AppendDrop})
          /\ Before(q, {AcceptTun(name)}, {AppendDrop})
          /\ Before(q, Inserting, {Enabler})
          /\ os = "darwin" => Before(q, Start, {Enabler})
      <3>1. CASE killSwitch
        <4>1. q = Enable(s, name)
          BY <3>1
        <4>2. Enables(q, s, name)
          BY <4>1, EnableIs
        <4> HIDE DEF q
        <4> QED
          BY <4>2 DEF Enables
      <3>2. CASE ~ killSwitch
        <4>1. q = <<>>
          BY <3>2
        <4>2. <<>> \in Seq(S) /\ DOMAIN <<>> = {}
          OBVIOUS
        <4> HIDE DEF q, S, Start, Inserting
        <4> QED
          BY <4>1, <4>2, EmptyIs
      <3> QED
        BY <3>1, <3>2
    <2>3. t = p \o q /\ (~ killSwitch => q = <<>>)
      BY <1>1, <2>0 DEF Preparation
    <2> HIDE DEF S, q, Start, Inserting
    <2>4. p \in Seq(S) /\ q \in Seq(S)
      BY <2>1, <2>2
    <2>5. t \in Seq(S) /\ Joined(t, p, q)
      BY <2>3, <2>4, ConcatKeeps, Zenon
    <2>6. \A i \in 1 .. Len(p) : t[i] = p[i]
      BY <2>5 DEF Joined
    <2>7. /\ Len(t) = Len(p) + Len(q)
          /\ \A i \in DOMAIN t :
                i \in DOMAIN p \/ (i - Len(p) \in DOMAIN q /\ t[i] = q[i - Len(p)])
      BY <2>5 DEF Joined
    <2>8. /\ \A X : Has(t, X) <=> Has(p, X) \/ Has(q, X)
          /\ \A X, Y : ~ Has(p, Y) /\ Before(q, X, Y) => Before(t, X, Y)
          /\ \A X, Y : ~ Has(q, Y) /\ Before(p, X, Y) => Before(t, X, Y)
          /\ \A X : ~ Has(p, X) /\ Sole(q, X) => Sole(t, X)
      BY <2>5 DEF Joined
    <2>9. /\ ~ Has(p, DropAdders) /\ ~ Has(p, {Enabler}) /\ ~ Has(p, {AppendDrop})
          /\ ~ Has(p, Removers) /\ ~ Has(p, Leave) /\ ~ Has(p, {DelRoute("host", s)})
          /\ ~ Has(p, DropAdders \cup {Enabler})
      BY <2>1, OpsAre DEF Has
    <2>10. /\ ~ Has(q, Removers) /\ ~ Has(q, Leave) /\ ~ Has(q, {DelRoute("host", s)})
           /\ ~ Has(q, Diverters)
      BY <2>2, OpsAre, SMTT(30) DEF Has
    <2>11. /\ DOMAIN t = 1 .. Len(t) /\ DOMAIN p = 1 .. Len(p) /\ DOMAIN q = 1 .. Len(q)
           /\ Len(p) \in Nat /\ Len(q) \in Nat
      BY <2>1, <2>2, <2>5
    <2>12. ASSUME NEW i \in DOMAIN t, t[i].op = "load" PROVE Len(t) = i + 2
      <3>1. i \notin DOMAIN p
        BY <2>1, <2>6, <2>11, <2>12
      <3>2. i - Len(p) \in DOMAIN q /\ Len(q) = (i - Len(p)) + 2
        BY <2>2, <2>7, <2>12, <3>1
      <3> QED
        BY <2>7, <2>11, <3>2
    <2>13. ASSUME NEW i \in DOMAIN t, t[i].op = "gateway"
           PROVE  /\ i = 1 /\ 1 + t[1].skip <= Len(t)
                  /\ \A j \in DOMAIN t : t[j].op = "addRoute" <=> j \in 2 .. 1 + t[1].skip
      <3>1. i \in DOMAIN p /\ p[i].op = "gateway"
        BY <2>2, <2>6, <2>7, <2>11, <2>13
      <3>2. /\ i = 1 /\ p[1].skip \in Nat /\ 1 + p[1].skip <= Len(p)
            /\ \A j \in DOMAIN p : p[j].op = "addRoute" <=> j \in 2 .. 1 + p[1].skip
        BY <2>1, <3>1
      <3>3. t[1] = p[1]
        BY <2>6, <2>11, <3>1, <3>2
      <3>4. ASSUME NEW j \in DOMAIN t PROVE t[j].op = "addRoute" <=> j \in 2 .. 1 + t[1].skip
        <4>1. CASE j \in DOMAIN p
          BY <2>6, <2>11, <3>2, <3>3, <4>1
        <4>2. CASE j \notin DOMAIN p
          <5>1. t[j].op # "addRoute"
            BY <2>2, <2>7, <4>2
          <5>2. j \notin 2 .. 1 + t[1].skip
            BY <2>11, <3>2, <3>3, <4>2
          <5> QED
            BY <5>1, <5>2
        <4> QED
          BY <4>1, <4>2
      <3> QED
        BY <2>7, <2>11, <3>2, <3>3, <3>4
    <2>17. ASSUME NEW i \in DOMAIN t, t[i] = AddRoute("low", NoServer, 1)
           PROVE  /\ i + 1 <= Len(t)
                  /\ \A j \in DOMAIN t : j > i => (t[j].op = "addRoute" <=> j = i + 1)
      <3>1. i \in DOMAIN p /\ p[i] = AddRoute("low", NoServer, 1)
        <4>1. t[i].op = "addRoute"
          BY <2>17, OpsAre
        <4>2. i \in DOMAIN p
          BY <2>2, <2>7, <4>1
        <4> QED
          BY <2>6, <2>11, <2>17, <4>2
      <3>2. /\ i + 1 <= Len(p)
            /\ \A j \in DOMAIN p : j > i => (p[j].op = "addRoute" <=> j = i + 1)
        BY <2>1, <3>1
      <3>3. ASSUME NEW j \in DOMAIN t, j > i PROVE t[j].op = "addRoute" <=> j = i + 1
        <4>1. CASE j \in DOMAIN p
          BY <2>6, <2>11, <3>2, <3>3, <4>1
        <4>2. CASE j \notin DOMAIN p
          <5>1. t[j].op # "addRoute"
            BY <2>2, <2>7, <4>2
          <5>2. j # i + 1
            BY <2>11, <3>1, <3>2, <4>2
          <5> QED
            BY <5>1, <5>2
        <4> QED
          BY <4>1, <4>2
      <3> QED
        BY <2>7, <2>11, <3>1, <3>2, <3>3
    <2>14. Has(t, DropAdders \cup {Enabler}) => killSwitch
      BY <2>3, <2>8, <2>9, EmptyIs
    <2>15. /\ Before(t, DropAdders, {Enabler}) /\ Sole(t, {AppendDrop})
           /\ Before(t, {AcceptTun(name)}, {AppendDrop})
           /\ Before(t, Inserting, {Enabler})
           /\ os = "darwin" => /\ Before(t, Start, {Enabler})
                               /\ Before(t, {AddRoute("host", s, 0)}, Diverters)
      BY <2>1, <2>2, <2>8, <2>9, <2>10
    <2>16. ~ Has(t, Removers) /\ ~ Has(t, Leave) /\ ~ Has(t, {DelRoute("host", s)})
      BY <2>8, <2>9, <2>10
    <2> QED
      BY <2>5, <2>12, <2>13, <2>14, <2>15, <2>16, <2>17 DEF InOrder, S, Start, Inserting
  <1> QED
    BY <1>1

(***************************************************************************)
(* A connection begins.                                                    *)
(***************************************************************************)
LEMMA ConnectStep ==
    ASSUME IInv, NEW s \in Servers, NEW killSwitch \in BOOLEAN, NEW name \in TunNames,
           Connect(s, killSwitch, name)
    PROVE  IInv'
  <1>1. /\ todo = <<>> /\ server = NoServer /\ server' = s /\ tunName' = name /\ missed' = {}
        /\ UNCHANGED <<chain, filterOn, routes, enabled, left, os>>
        /\ switch' = (switch \/ killSwitch)
        /\ asked' = IF killSwitch /\ asked = "disable" THEN "nothing" ELSE asked
    BY DEF Connect, Idle
  <1>2. todo' = SetupRoutes(s) \o SetupDNS \o (IF killSwitch THEN Enable(s, name) ELSE <<>>)
    BY DEF Connect
  <1>3. os \in {"linux", "darwin"} /\ s # NoServer
    BY AddressesAssumption DEF IInv, Types
  <1>4. InOrder(todo', s, name, killSwitch)
    BY <1>2, <1>3, ConnectProgram
  <1>5. /\ ~ Has(todo', Removers) /\ ~ Has(todo', Leave) /\ ~ Has(todo', {DelRoute("host", s)})
        /\ Has(todo', DropAdders \cup {Enabler}) => killSwitch
        /\ Before(todo', DropAdders, {Enabler}) /\ Sole(todo', {AppendDrop})
        /\ Before(todo', {AcceptTun(name)}, {AppendDrop})
        /\ Before(todo', {AcceptServer(s, name), Command("load", s, 2)}, {Enabler})
        /\ os = "darwin" => /\ Before(todo', {StartFilter}, {Enabler})
                            /\ Before(todo', {AddRoute("host", s, 0)}, Diverters)
    BY <1>4 DEF InOrder
  <1>6. ~ enabled /\ (os = "linux" => filterOn)
    BY <1>1 DEF IInv, Off, Types
  <1>7. ~ Leaving'
    BY <1>5 DEF Leaving, Has
  <1>8. Types'
    BY <1>1 DEF IInv, Types
  <1>9. Calls'
    <2>1. todo' \in Seq(ConnectCommands(s, name))
      BY <1>4 DEF InOrder
    <2>2. Arriving'
      BY <1>1, <2>1 DEF Arriving, ConnectCommands
    <2>3. Skips'
      BY <1>4 DEF Skips, InOrder
    <2> QED
      BY <1>1, <1>3, <2>2, <2>3 DEF Calls
  <1>10. Shut'
    BY <1>1, <1>3, <1>5, <1>6 DEF IInv, Shut
  <1>11. Counted => ~ Has(chain, {Drop}) /\ Sole(chain, {Drop})
    BY <1>1 DEF Counted
  <1>12. Passing'
    <2>1. Admitting' = {AcceptServer(s, name), Command("load", s, 2)}
      BY <1>1 DEF Admitting
    <2>2. Before(todo', Admitting', {Enabler})
      BY <1>5, <2>1
    <2>3. \A other : Lets(other)' <=> Lets(other)
      BY <1>1 DEF Lets
    <2>4. os = "linux" /\ left = {} => Letting'
      <3>1. os = "linux" /\ left = {} => ~ Has(chain', {Drop})
        BY <1>1, <1>11 DEF IInv, Open
      <3> QED
        BY <1>1, <1>5, <3>1, Vacuous DEF Letting
    <2> QED
      BY <1>1, <1>6, <2>2, <2>3, <2>4 DEF IInv, Passing
  <1>13. Off'
    BY <1>1, <1>5, <1>6 DEF Off
  <1>14. ~ Has(todo, Removers)
    BY <1>1, EmptyIs
  <1>15. Open'
    <2>1. Counted => Counted'
      BY <1>1, <1>5, <1>7, <1>11 DEF Counted
    <2> QED
      BY <1>1, <1>14, <2>1 DEF IInv, Open
  <1>16. Outside'
    <2>1. ~ Diverted /\ ~ Diverted'
      BY <1>1 DEF IInv, Outside, Diverted
    <2> QED
      BY <1>1, <1>3, <1>5, <2>1 DEF Outside, Diverted
  <1> QED
    BY <1>8, <1>9, <1>10, <1>12, <1>13, <1>15, <1>16 DEF IInv

(***************************************************************************)
(* RestoreRoutes: the route to the server last.                            *)
(***************************************************************************)
LEMMA RestoreIs ==
    ASSUME os \in {"linux", "darwin"}
    PROVE  \A b : b = RestoreRoutes(server) =>
              /\ b \in Seq(DisconnectCommands(server))
              /\ \A i \in DOMAIN b : b[i].op = "delRoute"
              /\ Before(b, {DelRoute("low", NoServer)}, {DelRoute("host", server)})
              /\ Before(b, {DelRoute("high", NoServer)}, {DelRoute("host", server)})
  <1> DEFINE S == DisconnectCommands(server)
             Low0 == DelRoute("low", NoServer)
             High0 == DelRoute("high", NoServer)
             Subnet0 == DelRoute("subnet", NoServer)
             Host0 == DelRoute("host", server)
  <1>1. Low0 \in S /\ High0 \in S /\ Subnet0 \in S /\ Host0 \in S
    BY DEF DisconnectCommands, Restoring
  <1>2. /\ Low0.op = "delRoute" /\ High0.op = "delRoute" /\ Subnet0.op = "delRoute"
        /\ Host0.op = "delRoute"
    BY OpsAre
  <1>3. Low0 # Host0 /\ High0 # Host0 /\ Subnet0 # Host0
    BY OpsAre, RuleIs
  <1>4. ASSUME NEW b, b = RestoreRoutes(server)
        PROVE  /\ b \in Seq(S)
               /\ \A i \in DOMAIN b : b[i].op = "delRoute"
               /\ Before(b, {Low0}, {Host0}) /\ Before(b, {High0}, {Host0})
    <2>1. b = <<Low0, High0, Subnet0>> \o (IF gateway THEN <<Host0>> ELSE <<>>)
      BY <1>4 DEF RestoreRoutes
    <2> HIDE DEF S, Low0, High0, Subnet0, Host0
    <2>2. CASE gateway
      <3>1. b = <<Low0, High0, Subnet0>> \o <<Host0>>
        BY <2>1, <2>2
      <3>2. b \in Seq(S) /\ Len(b) = 4
        BY <1>1, <3>1
      <3>3. b[1] = Low0 /\ b[2] = High0 /\ b[3] = Subnet0 /\ b[4] = Host0
        BY <3>1
      <3>4. DOMAIN b = 1 .. 4
        BY <3>2
      <3>5. \A i \in 1 .. 4 : b[i].op = "delRoute" /\ (b[i] = Host0 => i = 4)
        BY <1>2, <1>3, <3>3
      <3> QED
        BY <3>2, <3>3, <3>4, <3>5 DEF Before
    <2>3. CASE ~ gateway
      <3>1. b = <<Low0, High0, Subnet0>> \o <<>>
        BY <2>1, <2>3
      <3>2. b \in Seq(S) /\ Len(b) = 3
        BY <1>1, <3>1
      <3>3. b[1] = Low0 /\ b[2] = High0 /\ b[3] = Subnet0
        BY <3>1
      <3>4. DOMAIN b = 1 .. 3
        BY <3>2
      <3>5. \A i \in 1 .. 3 : b[i].op = "delRoute" /\ b[i] # Host0
        BY <1>2, <1>3, <3>3
      <3> QED
        BY <3>2, <3>4, <3>5 DEF Before
    <2> QED
      BY <2>2, <2>3
  <1> QED
    BY <1>4

\* The commands of a disconnect.
Ending(exits) ==
    (IF switch THEN Disable ELSE <<>>) \o RestoreRoutes(server)
        \o RestoreDNS \o <<Command("disconnected", IF exits THEN "exits" ELSE "stays", 0)>>

\* Their order.
EndsInOrder(t) ==
    /\ t \in Seq(DisconnectCommands(server)) /\ t # <<>>
    /\ \A i \in DOMAIN t : t[i] \in Leave <=> i = Len(t)
    /\ switch => Has(t, Removers) /\ Before(t, {Disabler}, Leave)
    /\ ~ switch => ~ Has(t, Removers)
    /\ Before(t, {DelRoute("low", NoServer)}, {DelRoute("host", server)})
    /\ Before(t, {DelRoute("high", NoServer)}, {DelRoute("host", server)})

(***************************************************************************)
(* The commands of a disconnect are in order.                              *)
(***************************************************************************)
LEMMA DisconnectProgram ==
    ASSUME NEW exits \in BOOLEAN, os \in {"linux", "darwin"}
    PROVE  EndsInOrder(Ending(exits))
  <1> DEFINE S == DisconnectCommands(server)
             Low0 == {DelRoute("low", NoServer)}
             High0 == {DelRoute("high", NoServer)}
             Host0 == {DelRoute("host", server)}
             last == Command("disconnected", IF exits THEN "exits" ELSE "stays", 0)
  <1>1. PICK a, b, d, e :
           /\ a = (IF switch THEN Disable ELSE <<>>) /\ b = RestoreRoutes(server)
           /\ d = RestoreDNS /\ e = <<last>>
    OBVIOUS
  <1>2. Ending(exits) = ((a \o b) \o d) \o e
    BY <1>1 DEF Ending
  <1>3. last \in Leave /\ last \in S /\ last.op = "disconnected"
    <2>1. last \in Leave
      BY DEF Leave
    <2> HIDE DEF last
    <2> QED
      BY <2>1, OpsAre DEF DisconnectCommands, Restoring
  <1> HIDE DEF last
  <1>4. /\ a \in Seq(S)
        /\ \A i \in DOMAIN a : a[i].op \in {"delete", "flush", "disabled"}
        /\ switch => Has(a, Removers) /\ Has(a, {Disabler})
        /\ ~ switch => ~ Has(a, Removers)
    <2>1. CASE ~ switch
      <3>1. a = <<>> /\ <<>> \in Seq(S) /\ DOMAIN <<>> = {}
        BY <1>1, <2>1
      <3> QED
        BY <2>1, <3>1 DEF Has
    <2>2. CASE switch
      <3>1. PICK c : /\ c \in Removers /\ c \in S /\ c.op \in {"delete", "flush"}
                     /\ Disable = <<c, Disabler>>
        <4>1. CASE os = "linux"
          BY <4>1, CommandIs DEF Disable, Removers, DisconnectCommands, Drop, Disabler
        <4>2. CASE os = "darwin"
          BY <4>2, CommandIs DEF Disable, Removers, DisconnectCommands, Drop, Disabler
        <4> QED
          BY <4>1, <4>2
      <3>2. Disabler \in S /\ Disabler.op = "disabled"
        BY OpsAre DEF DisconnectCommands, Restoring
      <3>3. a = <<c, Disabler>>
        BY <1>1, <2>2, <3>1
      <3> HIDE DEF S
      <3>4. a \in Seq(S) /\ DOMAIN a = 1 .. 2 /\ a[1] = c /\ a[2] = Disabler
        BY <3>1, <3>2, <3>3
      <3> QED
        BY <2>2, <3>1, <3>2, <3>4 DEF Has
    <2> QED
      BY <2>1, <2>2
  <1>5. /\ b \in Seq(S) /\ \A i \in DOMAIN b : b[i].op = "delRoute"
        /\ Before(b, Low0, Host0) /\ Before(b, High0, Host0)
    BY <1>1, RestoreIs
  <1>6. d \in Seq(S) /\ \A i \in DOMAIN d : d[i].op = "setDNS"
    <2>1. CASE os = "linux"
      BY <1>1, <2>1 DEF RestoreDNS
    <2>2. CASE os = "darwin"
      <3>1. PICK c : c = Command("setDNS", "empty", 0)
        OBVIOUS
      <3>2. c \in S /\ c.op = "setDNS" /\ d = <<c>>
        BY <1>1, <2>2, <3>1, CommandIs DEF RestoreDNS, DisconnectCommands
      <3> QED
        BY <3>2
    <2> QED
      BY <2>1, <2>2
  <1> HIDE DEF S
  <1>7. e \in Seq(S) /\ Len(e) = 1 /\ e[1] = last /\ DOMAIN e = {1}
    BY <1>1, <1>3
  <1>8. /\ ~ Has(a, Leave) /\ ~ Has(b, Leave) /\ ~ Has(d, Leave)
        /\ ~ Has(b, Removers) /\ ~ Has(d, Removers) /\ ~ Has(e, Removers)
        /\ ~ Has(a, Host0) /\ ~ Has(d, Host0) /\ ~ Has(e, Host0)
    <2>1. ~ Has(a, Leave) /\ ~ Has(a, Host0)
      BY <1>4, OpsAre DEF Has
    <2>2. ~ Has(b, Leave) /\ ~ Has(b, Removers)
      BY <1>5, OpsAre DEF Has
    <2>3. ~ Has(d, Leave) /\ ~ Has(d, Removers) /\ ~ Has(d, Host0)
      BY <1>6, OpsAre DEF Has
    <2>4. ~ Has(e, Removers) /\ ~ Has(e, Host0)
      BY <1>3, <1>7, OpsAre DEF Has
    <2> QED
      BY <2>1, <2>2, <2>3, <2>4
  <1> HIDE DEF Low0, High0, Host0
  <1>9. a \in Seq(S) /\ b \in Seq(S) /\ d \in Seq(S) /\ e \in Seq(S)
    BY <1>4, <1>5, <1>6, <1>7
  <1>10. PICK u : u = a \o b /\ u \in Seq(S) /\ Joined(u, a, b)
    BY <1>9, ConcatKeeps, Zenon
  <1>11. PICK v : v = u \o d /\ v \in Seq(S) /\ Joined(v, u, d)
    BY <1>9, <1>10, ConcatKeeps, Zenon
  <1>12. PICK t : t = v \o e /\ t \in Seq(S) /\ Joined(t, v, e)
    BY <1>9, <1>11, ConcatKeeps, Zenon
  <1>13. /\ \A X : Has(u, X) <=> Has(a, X) \/ Has(b, X)
         /\ \A X, Y : ~ Has(a, Y) /\ Before(b, X, Y) => Before(u, X, Y)
         /\ \A X : Has(v, X) <=> Has(u, X) \/ Has(d, X)
         /\ \A X, Y : ~ Has(d, Y) /\ Before(u, X, Y) => Before(v, X, Y)
         /\ \A X : Has(t, X) <=> Has(v, X) \/ Has(e, X)
         /\ \A X, Y : ~ Has(e, Y) /\ Before(v, X, Y) => Before(t, X, Y)
         /\ \A X, Y : ~ Has(v, Y) /\ Has(v, X) => Before(t, X, Y)
    BY <1>10, <1>11, <1>12 DEF Joined
  <1>14. /\ Len(t) = Len(v) + Len(e)
         /\ \A i \in 1 .. Len(v) : t[i] = v[i]
         /\ \A i \in DOMAIN t :
               i \in DOMAIN v \/ (i - Len(v) \in DOMAIN e /\ t[i] = e[i - Len(v)])
    BY <1>12 DEF Joined
  <1>15. ~ Has(v, Leave) /\ (switch => Has(v, {Disabler}))
    BY <1>4, <1>8, <1>13
  <1>16. /\ switch => Has(t, Removers) /\ Before(t, {Disabler}, Leave)
         /\ ~ switch => ~ Has(t, Removers)
    BY <1>4, <1>8, <1>15, <1>13
  <1>17. Before(t, Low0, Host0) /\ Before(t, High0, Host0)
    BY <1>5, <1>8, <1>13
  <1>18. ASSUME NEW i \in DOMAIN t PROVE t[i] \in Leave <=> i = Len(t)
    <2>1. Len(v) \in Nat /\ DOMAIN v = 1 .. Len(v) /\ Len(t) = Len(v) + 1
      BY <1>7, <1>11, <1>14
    <2>2. CASE i \in DOMAIN v
      <3>1. t[i] \notin Leave
        BY <1>15, <1>14, <2>1, <2>2 DEF Has
      <3> QED
        BY <2>1, <2>2, <3>1
    <2>3. CASE i \notin DOMAIN v
      <3>1. i - Len(v) = 1 /\ t[i] = e[1]
        BY <1>7, <1>14, <2>3
      <3>2. i = Len(t)
        BY <1>14, <2>1, <3>1
      <3> QED
        BY <1>3, <1>7, <3>1, <3>2
    <2> QED
      BY <2>2, <2>3
  <1>19. t # <<>>
    BY <1>7, <1>11, <1>12, <1>14
  <1>20. t = Ending(exits)
    BY <1>2, <1>10, <1>11, <1>12
  <1>21. EndsInOrder(t)
    BY <1>12, <1>16, <1>17, <1>18, <1>19 DEF EndsInOrder, S, Low0, High0, Host0
  <1> QED
    BY <1>20, <1>21

(***************************************************************************)
(* A connection is to end.                                                 *)
(***************************************************************************)
LEMMA DisconnectStep ==
    ASSUME IInv, NEW exits \in BOOLEAN, Disconnect(exits)
    PROVE  IInv'
  <1>1. /\ todo = <<>> /\ server # NoServer
        /\ UNCHANGED <<chain, filterOn, routes, server, tunName, enabled, switch, missed, left, os>>
        /\ asked' = IF switch THEN "disable" ELSE asked
    BY DEF Disconnect, Idle
  <1>2. todo' = Ending(exits)
    BY DEF Disconnect, Ending
  <1>3. os \in {"linux", "darwin"} /\ switch \in BOOLEAN
    BY DEF IInv, Types
  <1>4. EndsInOrder(todo')
    BY <1>2, <1>3, DisconnectProgram
  <1>5. Leaving'
    BY <1>1, <1>4 DEF Leaving, EndsInOrder, DisconnectCommands
  <1>6. /\ ~ Has(todo', DropAdders) /\ ~ Has(todo', {Enabler}) /\ ~ Has(todo', Diverters)
        /\ ~ Has(todo', {AppendDrop}) /\ ~ Has(todo', DropAdders \cup {Enabler})
    BY <1>3, <1>4, NoneOf DEF EndsInOrder
  <1>7. \A X : /\ Before(todo', X, {Enabler}) /\ Before(todo', X, {AppendDrop})
               /\ Before(todo', X, Diverters)
    BY <1>6, Vacuous
  <1>8. ~ Has(todo, Removers)
    BY <1>1, EmptyIs
  <1>9. Types'
    BY <1>1 DEF IInv, Types
  <1>10. Calls'
    <2>1. \A i \in DOMAIN todo' : todo'[i].op \notin {"load", "gateway", "addRoute"}
      <3>1. \A i \in DOMAIN todo' : todo'[i] \in DisconnectCommands(server)
        BY <1>4 DEF EndsInOrder
      <3> QED
        BY <1>3, <3>1, DisconnectIs
    <2>2. Skips'
      BY <2>1, OpsAre DEF Skips
    <2> QED
      BY <1>1, <1>5, <2>2 DEF Calls
  <1>11. Shut'
    BY <1>1, <1>3, <1>4, <1>7 DEF IInv, Shut, EndsInOrder
  <1>12. Passing'
    <2>1. \A name : Lets(name)' <=> Lets(name)
      BY <1>1 DEF Lets
    <2>2. Letting => Letting'
      BY <1>1, <1>7 DEF Letting
    <2> QED
      BY <1>1, <1>5, <1>7, <2>1, <2>2 DEF IInv, Passing
  <1>13. Off'
    BY <1>1, <1>4, <1>6 DEF IInv, Off, EndsInOrder
  <1>14. Open'
    <2>1. Sole(todo', {AppendDrop})
      BY <1>6 DEF Sole, Has
    <2>2. Counted => Counted'
      BY <1>1, <1>4, <1>6, <2>1 DEF Counted, EndsInOrder
    <2> QED
      BY <1>1, <1>4, <1>8, <2>2 DEF IInv, Open, EndsInOrder
  <1>15. Outside'
    <2>1. Diverted' = Diverted /\ Host' = Host /\ RoutesOut' = RoutesOut
      BY <1>1 DEF Diverted, Host, RoutesOut
    <2> QED
      BY <1>1, <1>4, <1>7, <2>1 DEF IInv, Outside, EndsInOrder
  <1> QED
    BY <1>9, <1>10, <1>11, <1>12, <1>13, <1>14, <1>15 DEF IInv

-----------------------------------------------------------------------------
(* A command fails, or the process dies                                    *)

\* What is known of u when it is t without its first n commands.
Skipped(u, t, n) ==
    /\ Len(u) = Len(t) - n /\ \A i \in 1 .. Len(t) - n : u[i] = t[n + i]
    /\ \A X : Has(u, X) => Has(t, X)
    /\ \A X, Y : (\A i \in 1 .. n : t[i] \notin X) /\ Before(t, X, Y) => Before(u, X, Y)

(***************************************************************************)
(* The first n commands are skipped.                                       *)
(***************************************************************************)
LEMMA SkipKeeps ==
    ASSUME NEW S, NEW t \in Seq(S), NEW n \in 1 .. Len(t)
    PROVE  SubSeq(t, n + 1, Len(t)) \in Seq(S) /\ Skipped(SubSeq(t, n + 1, Len(t)), t, n)
  <1> DEFINE u == SubSeq(t, n + 1, Len(t))
  <1>1. u \in Seq(S) /\ Len(u) = Len(t) - n /\ \A i \in 1 .. Len(t) - n : u[i] = t[n + i]
    OBVIOUS
  <1> HIDE DEF u
  <1>2. DOMAIN u = 1 .. Len(t) - n /\ DOMAIN t = 1 .. Len(t) /\ Len(t) \in Nat
    BY <1>1
  <1>3. \A i \in 1 .. Len(t) - n : n + i \in DOMAIN t
    BY <1>2
  <1>4. ASSUME NEW X, NEW Y, \A i \in 1 .. n : t[i] \notin X, Before(t, X, Y)
        PROVE  Before(u, X, Y)
    <2> SUFFICES ASSUME NEW i \in 1 .. Len(t) - n, u[i] \in Y
                 PROVE  \E j \in 1 .. i - 1 : u[j] \in X
      BY <1>2 DEF Before
    <2>1. PICK j \in 1 .. (n + i) - 1 : t[j] \in X
      BY <1>1, <1>3, <1>4 DEF Before
    <2>2. j \notin 1 .. n
      BY <1>4, <2>1
    <2>3. j - n \in 1 .. i - 1 /\ j - n \in 1 .. Len(t) - n /\ n + (j - n) = j
      BY <1>2, <2>2
    <2> QED
      BY <1>1, <2>1, <2>3
  <1>5. \A X : Has(u, X) => Has(t, X)
    BY <1>1, <1>2, <1>3 DEF Has
  <1> QED
    BY <1>1, <1>4, <1>5 DEF u, Skipped

\* What is left to do after a command whose failure skips others.
Waiting ==
    {DropAdders, {StartFilter}, {AcceptTun(tunName)}, Admitting}
Remaining(t) ==
    /\ t \in Seq(ConnectCommands(server, tunName))
    /\ \A i \in DOMAIN t : t[i].op = "load" => Len(t) = i + 2
    /\ \A i \in DOMAIN t : t[i].op # "gateway" /\ t[i].op # "addRoute"
    /\ \A X : Has(t, X) => Has(todo, X)
    /\ \A X \in Waiting : \A Y : Before(todo, X, Y) => Before(t, X, Y)

(***************************************************************************)
(* The commands whose failure skips others are those of a connection on    *)
(* macOS: after the lookup of the gateway and after the first route into   *)
(* the tunnel routes are skipped, after the loading of the anchor what is  *)
(* left of the kill switch.                                                *)
(***************************************************************************)
LEMMA FailsSkips ==
    ASSUME IInv, Fails, Head(todo).skip # 0
    PROVE  os = "darwin" /\ Arriving /\ ~ Leaving /\ Remaining(todo')
  <1> DEFINE c == Head(todo)
  <1>1. todo # <<>> /\ todo' = SubSeq(todo, 2 + c.skip, Len(todo)) /\ c.skip # 0
    BY DEF Fails
  <1>2. os \in {"linux", "darwin"}
    BY DEF IInv, Types
  <1>3. \A S : todo \in Seq(S) => c \in S /\ c = todo[1] /\ 1 \in DOMAIN todo
    BY <1>1, TailIs
  <1>4. ~ Leaving
    BY <1>1, <1>2, <1>3, DisconnectIs DEF Leaving
  <1>5. Arriving
    BY <1>4 DEF IInv, Calls
  <1>6. c \in ConnectCommands(server, tunName) /\ todo \in Seq(ConnectCommands(server, tunName))
    BY <1>3, <1>5 DEF Arriving
  <1>7. /\ os = "darwin" /\ c.op \in {"gateway", "load", "addRoute"}
        /\ c.op = "load" => c.skip = 2
        /\ c.op = "gateway" => c.skip \in {1, 3}
        /\ c.op = "addRoute" => c.skip = 1 /\ c = AddRoute("low", NoServer, 1)
    BY <1>1, <1>2, <1>6, ConnectIs
  <1>8. c = todo[1] /\ 1 \in DOMAIN todo /\ DOMAIN todo = 1 .. Len(todo) /\ Len(todo) \in Nat
    BY <1>3, <1>6
  <1> DEFINE n == 1 + c.skip
  <1>9. n \in 1 .. Len(todo)
    <2>1. CASE c.op = "load"
      <3>1. Len(todo) = 1 + 2
        BY <1>8, <2>1 DEF IInv, Calls, Skips
      <3> QED
        BY <1>7, <2>1, <3>1
    <2>2. CASE c.op = "gateway"
      <3>1. 1 + c.skip <= Len(todo)
        BY <1>8, <2>2 DEF IInv, Calls, Skips
      <3> QED
        BY <1>7, <1>8, <2>2, <3>1
    <2>3. CASE c.op = "addRoute"
      <3>1. 1 + 1 <= Len(todo)
        BY <1>7, <1>8, <2>3 DEF IInv, Calls, Skips
      <3> QED
        BY <1>7, <1>8, <2>3, <3>1
    <2> QED
      BY <1>7, <2>1, <2>2, <2>3
  <1>10. todo' = SubSeq(todo, n + 1, Len(todo))
    <2>1. 2 + c.skip = n + 1
      BY <1>7
    <2> QED
      BY <1>1, <2>1
  <1> HIDE DEF n
  <1>11. /\ todo' \in Seq(ConnectCommands(server, tunName)) /\ Len(todo') = Len(todo) - n
         /\ \A i \in 1 .. Len(todo) - n : todo'[i] = todo[n + i]
         /\ \A X : Has(todo', X) => Has(todo, X)
         /\ \A X, Y : (\A i \in 1 .. n : todo[i] \notin X) /\ Before(todo, X, Y) =>
               Before(todo', X, Y)
    <2>1. todo' \in Seq(ConnectCommands(server, tunName)) /\ Skipped(todo', todo, n)
      BY <1>6, <1>9, <1>10, SkipKeeps, Zenon
    <2> QED
      BY <2>1 DEF Skipped
  <1>12. CASE c.op = "load"
    <2>1. Len(todo') = 0
      <3>1. Len(todo) = 1 + 2
        BY <1>8, <1>12 DEF IInv, Calls, Skips
      <3>2. n = 3
        BY <1>7, <1>12 DEF n
      <3> QED
        BY <1>11, <3>1, <3>2
    <2>2. todo' = <<>>
      BY <1>11, <2>1
    <2>3. DOMAIN todo' = {}
      BY <2>2
    <2> QED
      BY <1>4, <1>5, <1>7, <1>11, <2>2, <2>3, EmptyIs DEF Remaining
  <1>13. CASE c.op # "load"
    <2>1. \A j \in DOMAIN todo : j # 1 => (todo[j].op = "addRoute" <=> j \in 2 .. n)
      <3>1. CASE c.op = "gateway"
        BY <1>8, <3>1 DEF IInv, Calls, Skips, n
      <3>2. CASE c.op = "addRoute"
        <4>1. \A j \in DOMAIN todo : j > 1 => (todo[j].op = "addRoute" <=> j = 1 + 1)
          BY <1>7, <1>8, <3>2 DEF IInv, Calls, Skips
        <4>2. n = 2
          BY <1>7, <3>2 DEF n
        <4> QED
          BY <1>8, <4>1, <4>2
      <3> QED
        BY <1>7, <1>13, <3>1, <3>2
    <2>2. \A i \in 1 .. n : todo[i].op \in {"gateway", "addRoute"}
      BY <1>7, <1>8, <1>9, <1>13, <2>1
    <2>3. \A i \in 1 .. Len(todo) - n : n + i \in DOMAIN todo /\ n + i \notin 2 .. n /\ n + i # 1
      BY <1>8, <1>9
    <2>4. DOMAIN todo' = 1 .. Len(todo) - n
      BY <1>11
    <2>5. \A i \in DOMAIN todo' : todo'[i].op # "addRoute" /\ todo'[i].op # "gateway"
      <3>1. \A j \in DOMAIN todo : todo[j].op = "gateway" => j = 1
        BY DEF IInv, Calls, Skips
      <3> QED
        BY <1>11, <2>1, <2>3, <2>4, <3>1
    <2>6. ASSUME NEW i \in DOMAIN todo', todo'[i].op = "load" PROVE Len(todo') = i + 2
      <3>1. n + i \in DOMAIN todo /\ todo[n + i].op = "load"
        BY <1>11, <2>3, <2>4, <2>6
      <3>2. Len(todo) = (n + i) + 2
        BY <3>1 DEF IInv, Calls, Skips
      <3> QED
        BY <1>8, <1>9, <1>11, <2>4, <3>2
    <2>7. \A X \in Waiting : \A i \in 1 .. n : todo[i] \notin X
      BY <2>2, OpsAre DEF Waiting
    <2> QED
      BY <1>4, <1>5, <1>7, <1>11, <2>5, <2>6, <2>7 DEF Remaining
  <1> QED
    BY <1>12, <1>13

(***************************************************************************)
(* What was promised holds without the commands that are skipped.          *)
(***************************************************************************)
LEMMA SkippingStep ==
    ASSUME IInv, Fails, Head(todo).skip # 0
    PROVE  IInv'
  <1>1. /\ UNCHANGED <<chain, filterOn, routes, server, tunName, enabled, switch, os>>
        /\ missed \subseteq missed' /\ asked' \in {asked, "nothing"}
    BY DEF Fails
  <1>2. os = "darwin" /\ Arriving /\ ~ Leaving /\ Remaining(todo')
    BY FailsSkips
  <1>3. /\ todo' \in Seq(ConnectCommands(server, tunName))
        /\ \A X : Has(todo', X) => Has(todo, X)
        /\ \A i \in DOMAIN todo' : todo'[i].op # "addRoute"
    BY <1>2 DEF Remaining
  <1>4. \A Y : /\ Before(todo, DropAdders, Y) => Before(todo', DropAdders, Y)
               /\ Before(todo, {StartFilter}, Y) => Before(todo', {StartFilter}, Y)
               /\ Before(todo, Admitting, Y) => Before(todo', Admitting, Y)
    BY <1>2 DEF Remaining, Waiting
  <1>5. ~ Has(todo, Removers) /\ ~ Has(todo, Leave) /\ ~ Has(todo, {DelRoute("host", server)})
    BY <1>2, NoneOf DEF Arriving
  <1>6. ~ Has(todo', Diverters)
    BY <1>3, OpsAre DEF Has
  <1>7. \A X : /\ Before(todo', X, Leave) /\ Before(todo', X, {DelRoute("host", server)})
               /\ Before(todo', X, Diverters)
    BY <1>3, <1>5, <1>6, Vacuous
  <1>8. Types'
    BY <1>1 DEF IInv, Types
  <1>9. Calls'
    <2>1. Arriving'
      BY <1>1, <1>3 DEF Arriving, ConnectCommands
    <2>2. Skips'
      BY <1>2, OpsAre DEF Skips, Remaining
    <2>3. server' # NoServer
      BY <1>1 DEF IInv, Calls, Fails
    <2> QED
      BY <2>1, <2>2, <2>3 DEF Calls
  <1>10. Shut'
    BY <1>1, <1>3, <1>4, <1>5 DEF IInv, Shut
  <1>11. Passing'
    <2>1. Admits' <=> Admits
      BY <1>1 DEF Admits, Anchor
    <2>2. Admitting' = Admitting
      BY <1>1 DEF Admitting
    <2> QED
      BY <1>1, <1>2, <1>4, <2>1, <2>2 DEF IInv, Passing
  <1>12. Off'
    BY <1>1, <1>3, <1>7 DEF IInv, Off
  <1>13. Open'
    BY <1>1, <1>2, <1>5 DEF IInv, Open
  <1>14. Outside'
    <2>1. Diverted' = Diverted /\ Host' = Host /\ RoutesOut' = RoutesOut
      BY <1>1 DEF Diverted, Host, RoutesOut
    <2>2. missed' \cap RoutesOut = {} => missed \cap RoutesOut = {}
      BY <1>1
    <2> QED
      BY <1>1, <1>7, <2>1, <2>2 DEF IInv, Outside
  <1> QED
    BY <1>8, <1>9, <1>10, <1>11, <1>12, <1>13, <1>14 DEF IInv

(***************************************************************************)
(* A rule that drops is in the chain or it is not.                         *)
(***************************************************************************)
LEMMA DropsAre == Drop \in Range(chain) <=> Has(chain, {Drop})
  BY DEF Has, Range

(***************************************************************************)
(* A DROP rule that is left behind comes after the rule for the device it  *)
(* is known by.                                                            *)
(***************************************************************************)
LEMMA LeftBehind ==
    ASSUME Types, Passing, os = "linux", NEW name \in TunNames, left \cup Leftover = {name}
    PROVE  Lets(name)
  <1>1. CASE left = {}
    <2>1. /\ switch /\ Drop \in Range(chain)
          /\ name = IF AcceptTun(tunName) \in missed THEN NoTun ELSE tunName
      BY <1>1 DEF Leftover
    <2>2. AcceptTun(tunName) \notin missed /\ name = tunName
      BY <2>1, TunNamesAssumption
    <2>3. Letting
      BY <1>1, <2>2 DEF Passing
    <2>4. Has(chain, {Drop})
      BY <2>1, DropsAre
    <2>5. Has(chain, {Tun(tunName)})
      <3>1. PICK i \in DOMAIN chain : chain[i] \in {Drop}
        BY <2>4 DEF Has
      <3>2. PICK j \in 1 .. i - 1 : chain[j] \in {Tun(tunName)}
        BY <2>3, <3>1 DEF Letting, Before
      <3>3. j \in DOMAIN chain
        BY <3>1, <3>2 DEF Types
      <3> QED
        BY <3>2, <3>3 DEF Has
    <2> QED
      BY <2>2, <2>3, <2>5 DEF Lets, Letting
  <1>2. CASE left # {}
    <2>1. left = {name}
      BY <1>2
    <2> QED
      BY <2>1 DEF Passing
  <1> QED
    BY <1>1, <1>2

(***************************************************************************)
(* A command fails and the call goes on: what relied on it is not promised *)
(* any more.                                                               *)
(***************************************************************************)
LEMMA IgnoredStep ==
    ASSUME IInv, Fails, Head(todo).skip = 0
    PROVE  IInv'
  <1> DEFINE c == Head(todo)
  <1>1. /\ UNCHANGED <<chain, filterOn, routes, server, tunName, enabled, switch, os>>
        /\ missed' = missed \cup ({c} \cap Needed) /\ todo # <<>>
        /\ asked' = IF c.op \in {"delete", "flush"} THEN "nothing" ELSE asked
        /\ left' = IF c.op = "delete" THEN left \cup Leftover ELSE left
    BY DEF Fails
  <1>2. c.op \notin {"enabled", "disabled", "disconnected"}
    BY FailingAssumption DEF Fails, IInv, Types
  <1>3. todo' = Tail(todo)
    <2>1. PICK S : todo \in Seq(S)
      BY DEF IInv, Calls, Arriving, Leaving
    <2>2. todo' = SubSeq(todo, 2, Len(todo))
      BY DEF Fails
    <2> QED
      BY <1>1, <2>1, <2>2
  <1>4. Calls' /\ (Adds \/ Takes)
    <2>1. Calls' /\ (Adds \/ Takes \/ Ends)
      BY <1>1, <1>2, <1>3, CallsGoOn DEF IInv
    <2>2. ~ Ends
      BY <1>2, OpsAre DEF Ends
    <2> QED
      BY <2>1, <2>2
  <1>5. /\ server # NoServer
        /\ \A X : Has(todo, X) <=> c \in X \/ Has(todo', X)
        /\ \A X, Y : Before(todo, X, Y) => c \notin Y /\ (c \in X \/ Before(todo', X, Y))
        /\ \A X : Sole(todo, X) => Sole(todo', X)
    BY <1>1, <1>3, GoesOn DEF IInv
  <1>6. c # Enabler /\ c # Disabler /\ c \notin Leave
    BY <1>2, OpsAre
  <1>7. \A x : x \in Needed /\ x \notin missed' => c # x /\ x \notin missed
    BY <1>1
  <1>8. Types'
    BY <1>1 DEF IInv, Types
  <1>9. Shut'
    <2>1. AppendDrop \in Needed /\ (~ filterOn => StartFilter \in Needed)
      BY DEF Needed
    <2>2. c \in DropAdders => c = AppendDrop
      BY CommandIs DEF DropAdders
    <2>3. asked' = "enable" => asked = "enable"
      BY <1>1
    <2> QED
      BY <1>1, <1>5, <1>7, <2>1, <2>2, <2>3 DEF IInv, Shut
  <1>10. Passing'
    <2>1. Admits' <=> Admits
      BY <1>1 DEF Admits, Anchor
    <2>2. Admitting' = Admitting
      BY <1>1 DEF Admitting
    <2>3. Leaving => Leaving'
      BY <1>4 DEF Adds, Takes
    <2>4. \A name : Lets(name)' <=> Lets(name)
      BY <1>1 DEF Lets
    <2>5. ASSUME os = "linux", NEW name \in TunNames, left' = {name} PROVE Lets(name)
      BY <1>1, <2>5, LeftBehind DEF IInv, Passing
    <2>6. AcceptTun(tunName) \in Needed /\ AcceptServer(server, tunName) \in Needed
      BY DEF Needed
    <2>7. ASSUME os = "linux", left' = {}, AcceptTun(tunName) \notin missed' PROVE Letting'
      <3>1. left = {} /\ AcceptTun(tunName) \notin missed /\ c # AcceptTun(tunName)
        BY <1>1, <1>7, <2>6, <2>7
      <3>2. Letting
        BY <2>7, <3>1 DEF IInv, Passing
      <3> QED
        BY <1>1, <1>5, <3>1, <3>2 DEF Letting
    <2>8. c \in Admitting => os = "linux" /\ c = AcceptServer(server, tunName)
      <3>1. c # Command("load", server, 2)
        BY CommandIs
      <3>2. c \in Admitting => c = AcceptServer(server, tunName) /\ c.op = "insert"
        BY <3>1, OpsAre DEF Admitting
      <3>3. c.op = "insert" => os = "linux"
        BY <1>4, ConnectIs, DisconnectIs DEF Adds, Takes, IInv, Types
      <3> QED
        BY <3>2, <3>3
    <2>9. ASSUME os = "linux" => AcceptServer(server, tunName) \notin missed'
          PROVE  /\ (enabled => Admits \/ Leaving)'
                 /\ (Admits \/ Before(todo, Admitting, {Enabler}))'
      <3>1. (os = "linux" => AcceptServer(server, tunName) \notin missed) /\ c \notin Admitting
        BY <1>7, <2>6, <2>8, <2>9
      <3>2. /\ enabled => Admits \/ Leaving
            /\ Admits \/ Before(todo, Admitting, {Enabler})
        BY <3>1 DEF IInv, Passing
      <3> QED
        BY <1>1, <1>5, <2>1, <2>2, <2>3, <3>1, <3>2
    <2> QED
      BY <1>1, <2>4, <2>5, <2>7, <2>9 DEF Passing
  <1>11. Off'
    <2>1. asked' = "disable" => asked = "disable"
      BY <1>1
    <2> QED
      BY <1>1, <1>5, <1>6, <2>1 DEF IInv, Off
  <1>12. Open'
    <2>1. c \in Removers => c.op \in {"delete", "flush"}
      BY OpsAre
    <2>2. Leaving' => Leaving
      BY <1>4 DEF Adds, Takes
    <2>3. ASSUME os = "linux", left' = {} PROVE Counted'
      <3>1. left = {}
        BY <1>1, <2>3
      <3>2. Counted
        BY <2>3, <3>1 DEF IInv, Open
      <3>3. Leaving' => ~ Has(chain, {Drop}) \/ Has(todo', Removers)
        <4>1. CASE c \in Removers
          <5>1. c.op = "delete"
            BY <1>4, <2>1, <2>3, <4>1, ConnectIs, DisconnectIs DEF Adds, Takes, IInv, Types
          <5>2. Leftover = {}
            BY <1>1, <2>3, <5>1
          <5> QED
            BY <3>2, <5>2, DropsAre DEF Leftover, Counted
        <4>2. CASE c \notin Removers
          BY <1>5, <2>2, <3>2, <4>2 DEF Counted
        <4> QED
          BY <4>1, <4>2
      <3> QED
        BY <1>1, <1>5, <3>2, <3>3 DEF Counted
    <2>4. ASSUME asked' = "disable", os = "linux" => left' = {}
          PROVE  ~ Has(chain, {Drop}) \/ Has(todo', Removers)
      <3>1. c \notin Removers /\ asked = "disable" /\ (os = "linux" => left = {})
        BY <1>1, <2>1, <2>4
      <3> QED
        BY <1>5, <3>1 DEF IInv, Open
    <2> QED
      BY <1>1, <2>3, <2>4 DEF Open
  <1>13. Outside'
    <2>1. Diverted' = Diverted /\ Host' = Host /\ RoutesOut' = RoutesOut
      BY <1>1 DEF Diverted, Host, RoutesOut
    <2>2. ASSUME missed' \cap RoutesOut = {} PROVE c \notin RoutesOut /\ missed \cap RoutesOut = {}
      <3>1. RoutesOut \subseteq Needed
        BY DEF RoutesOut, Needed
      <3> QED
        BY <1>1, <2>2, <3>1
    <2>3. ASSUME os = "darwin", missed' \cap RoutesOut = {}
          PROVE  /\ Diverted => Host \in routes
                 /\ Host \in routes \/ Before(todo', {AddRoute("host", server, 0)}, Diverters)
                 /\ Low \in routes =>
                       Before(todo', {DelRoute("low", NoServer)}, {DelRoute("host", server)})
                 /\ High \in routes =>
                       Before(todo', {DelRoute("high", NoServer)}, {DelRoute("host", server)})
      <3>1. /\ c # AddRoute("host", server, 0)
            /\ c # DelRoute("low", NoServer) /\ c # DelRoute("high", NoServer)
        BY <2>2, <2>3 DEF RoutesOut
      <3> QED
        BY <1>5, <2>2, <2>3, <3>1 DEF IInv, Outside
    <2> QED
      BY <1>1, <1>5, <2>1, <2>3 DEF Outside
  <1> QED
    BY <1>4, <1>8, <1>9, <1>10, <1>11, <1>12, <1>13 DEF IInv

(***************************************************************************)
(* What the process leaves behind when it dies.                            *)
(***************************************************************************)
LEMMA CrashStep ==
    ASSUME IInv, Crash
    PROVE  IInv'
  <1>1. /\ UNCHANGED <<chain, filterOn, missed, os>> /\ routes' = HostRoutes /\ server' = NoServer
        /\ tunName' = NoTun /\ enabled' = FALSE /\ todo' = <<>> /\ switch' = FALSE
        /\ left' = left \cup Leftover
        /\ asked' = IF asked = "disable" /\ todo # <<>> THEN "nothing" ELSE asked
    BY DEF Crash, Idle
  <1>2. \A X, Y : ~ Has(todo', X) /\ Before(todo', X, Y) /\ Sole(todo', X)
    BY <1>1, EmptyIs
  <1>3. Types'
    BY <1>1 DEF IInv, Types
  <1>4. Calls'
    <2>1. \A X : <<>> \in Seq(X)
      OBVIOUS
    <2> QED
      BY <1>1, <2>1 DEF Calls, Arriving, Skips
  <1>5. Shut'
    BY <1>1, <1>2 DEF IInv, Shut
  <1>6. os = "linux" /\ left' = {} => ~ Has(chain, {Drop})
    BY <1>1, DropsAre DEF IInv, Open, Counted, Leftover
  <1>7. Passing'
    <2>1. ASSUME os = "linux", NEW name \in TunNames, left' = {name} PROVE Lets(name)'
      <3>1. Lets(name)
        BY <1>1, <2>1, LeftBehind DEF IInv
      <3> QED
        BY <1>1, <3>1 DEF Lets
    <2>2. os = "linux" /\ left' = {} => Letting'
      BY <1>1, <1>2, <1>6, Vacuous DEF Letting
    <2> QED
      BY <1>1, <1>2, <2>1, <2>2 DEF Passing
  <1>8. Off'
    BY <1>1, <1>2 DEF Off
  <1>9. Open'
    <2>1. todo = <<>> => ~ Has(todo, Removers)
      BY EmptyIs
    <2>2. os = "linux" /\ left' = {} => Counted'
      BY <1>1, <1>2, <1>6 DEF Counted, Sole, Has
    <2>3. left' = {} => left = {}
      BY <1>1
    <2> QED
      BY <1>1, <2>1, <2>2, <2>3 DEF IInv, Open
  <1>10. Outside'
    <2>1. ~ Diverted'
      BY <1>1, RuleIs DEF Diverted, Low, High, HostRoutes
    <2> QED
      BY <1>2, <2>1 DEF Outside, Diverted
  <1> QED
    BY <1>3, <1>4, <1>5, <1>7, <1>8, <1>9, <1>10 DEF IInv

-----------------------------------------------------------------------------
(* The promises                                                            *)

(***************************************************************************)
(* No connection, no rule and no route at first.                           *)
(***************************************************************************)
LEMMA InitIInv == Init => IInv
  <1> SUFFICES ASSUME Init PROVE IInv
    OBVIOUS
  <1>1. chain = <<>> /\ todo = <<>> /\ routes = {} /\ server = NoServer /\ asked = "nothing"
        /\ enabled = FALSE /\ switch = FALSE /\ left = {} /\ missed = {} /\ tunName = NoTun
    BY DEF Init
  <1>2. \A X, Y : /\ ~ Has(todo, X) /\ Before(todo, X, Y) /\ Sole(todo, X)
                  /\ ~ Has(chain, X) /\ Before(chain, X, Y) /\ Sole(chain, X)
    BY <1>1, EmptyIs
  <1>3. Types
    <2>1. os \in Systems /\ filterOn = (os = "linux")
      BY DEF Init
    <2>2. <<>> \in Seq(Rules)
      OBVIOUS
    <2> QED
      BY <1>1, <2>1, <2>2, SystemsAssumption DEF Types
  <1>4. Calls
    <2>1. \A X : <<>> \in Seq(X)
      OBVIOUS
    <2> QED
      BY <1>1, <2>1 DEF Calls, Arriving, Skips
  <1>5. Shut /\ Off
    BY <1>1, <1>2 DEF Shut, Off
  <1>6. Passing
    BY <1>1, <1>2 DEF Passing, Letting
  <1>7. Open
    BY <1>1, <1>2 DEF Open, Counted
  <1>8. Outside
    BY <1>1, <1>2 DEF Outside, Diverted
  <1> QED
    BY <1>3, <1>4, <1>5, <1>6, <1>7, <1>8 DEF IInv

(***************************************************************************)
(* The order of the commands is kept, and what was done or is yet to be    *)
(* done stays so, whichever commands fail and wherever the process dies.   *)
(***************************************************************************)
THEOREM IInvariant == Spec => []IInv
  <1>1. IInv /\ [Next]_vars => IInv'
    <2> SUFFICES ASSUME IInv, [Next]_vars PROVE IInv'
      OBVIOUS
    <2>1. ASSUME NEW s \in Servers, NEW killSwitch \in BOOLEAN, NEW name \in TunNames,
                 Connect(s, killSwitch, name)
          PROVE  IInv'
      BY <2>1, ConnectStep
    <2>2. ASSUME Execute PROVE IInv'
      BY <2>2, ExecuteStep
    <2>3. ASSUME Fails PROVE IInv'
      BY <2>3, SkippingStep, IgnoredStep
    <2>4. ASSUME NEW exits \in BOOLEAN, Disconnect(exits) PROVE IInv'
      BY <2>4, DisconnectStep
    <2>5. ASSUME Crash PROVE IInv'
      BY <2>5, CrashStep
    <2>6. CASE UNCHANGED vars
      <3>1. Calls' /\ (Leaving' <=> Leaving)
        BY <2>6 DEF vars, IInv, Calls, Arriving, Leaving, Skips, ConnectCommands,
           DisconnectCommands
      <3>2. Types' /\ Shut' /\ Off'
        BY <2>6 DEF vars, IInv, Types, Shut, Off
      <3>3. Passing'
        BY <2>6, <3>1 DEF vars, IInv, Passing, Lets, Letting, Admits, Admitting, Anchor
      <3>4. Open'
        BY <2>6, <3>1 DEF vars, IInv, Open, Counted
      <3>5. Outside'
        BY <2>6 DEF vars, IInv, Outside, Diverted, Host, RoutesOut
      <3> QED
        BY <3>1, <3>2, <3>3, <3>4, <3>5 DEF IInv
    <2> QED
      BY <2>1, <2>2, <2>3, <2>4, <2>5, <2>6 DEF Next
  <1> QED
    BY <1>1, InitIInv, PTL DEF Spec

(***************************************************************************)
(* The rules of the chain by their kind.                                   *)
(***************************************************************************)
LEMMA RulesAre ==
    ASSUME NEW r \in Rules
    PROVE  /\ r.kind \in {"server", "lo", "tun", "drop"}
           /\ r.kind = "drop" <=> r = Drop
           /\ r.kind = "server" => r.server \in Servers
           /\ r.tun \in TunNames \cup {NoTun} /\ (r.kind = "tun" => r.tun \in TunNames)
  <1>1. CASE r \in {Rule("lo", NoServer), Drop}
    BY <1>1 DEF Drop, Rule, Named
  <1>2. CASE \E name \in TunNames : r = Tun(name)
    BY <1>2, NamedIs DEF Tun
  <1>3. CASE \E s \in Servers, name \in TunNames \cup {NoTun} : r = Named("server", s, name)
    BY <1>3, NamedIs
  <1> QED
    BY <1>1, <1>2, <1>3 DEF Rules, Drop

(***************************************************************************)
(* Which packets the rules match.                                          *)
(***************************************************************************)
LEMMA MatchesIs ==
    ASSUME NEW r \in Rules, NEW dst
    PROVE  /\ r.kind = "server" => Matches(r, "physical", dst) = (dst = r.server)
           /\ r.kind \in {"lo", "tun"} => ~ Matches(r, "physical", dst)
           /\ r.kind = "tun" => Matches(r, r.tun, dst)
  <1>1. /\ r.tun # "physical"
    BY RulesAre, TunNamesAssumption
  <1> QED
    BY <1>1 DEF Matches

(***************************************************************************)
(* A packet for a host that no rule is about meets the rule that drops.    *)
(***************************************************************************)
LEMMA DropIsMet ==
    ASSUME Types, filterOn, Has(chain, {Drop}), NEW h, Filtered(h),
           \A i \in DOMAIN chain : chain[i].kind = "server" => chain[i].server # h
    PROVE  Dropped("physical", h)
  <1> DEFINE T == {i \in DOMAIN chain : chain[i] = Drop}
  <1>1. /\ chain \in Seq(Rules) /\ Len(chain) \in Nat /\ DOMAIN chain = 1 .. Len(chain)
        /\ \A i \in DOMAIN chain : chain[i] \in Rules
    BY DEF Types
  <1>2. \E i \in T : \A j \in T : i <= j
    <2>1. T # {} /\ T \subseteq 1 .. Len(chain)
      BY <1>1 DEF Has
    <2> HIDE DEF T
    <2> QED
      BY <1>1, <2>1, FirstPlace
  <1>3. PICK i \in DOMAIN chain :
           chain[i] = Drop /\ \A j \in DOMAIN chain : chain[j] = Drop => i <= j
    BY <1>2
  <1>4. ASSUME NEW j \in 1 .. i - 1 PROVE ~ Matches(chain[j], "physical", h)
    <2>1. j \in DOMAIN chain /\ chain[j] # Drop
      BY <1>1, <1>3
    <2>2. /\ chain[j] \in Rules /\ chain[j].kind \in {"server", "lo", "tun"}
          /\ chain[j].kind = "server" => chain[j].server # h
      BY <1>1, <2>1, RulesAre
    <2> QED
      BY <2>2, MatchesIs
  <1>5. chain[i].kind = "drop"
    BY <1>1, <1>3, RulesAre
  <1> QED
    BY <1>3, <1>4, <1>5 DEF Dropped

(***************************************************************************)
(* "to block all non-tunnel outbound traffic when the VPN drops": from the *)
(* moment Enable returns until Disable is called nothing but the tunnel    *)
(* reaches a host that is not a server and that the filter sees, while a   *)
(* later connection adds its rules and after the process has died too,     *)
(* whatever commands fail but the DROP rule and the start of the filter.   *)
(***************************************************************************)
THEOREM KillSwitchBlocks == Spec => []EnabledBlocks
  <1>1. IInv => EnabledBlocks
    <2> SUFFICES ASSUME IInv, asked = "enable", NEW h \in Hosts, Filtered(h)
                 PROVE  Dropped("physical", h)
      BY DEF EnabledBlocks
    <2>1. Types /\ filterOn /\ Has(chain, {Drop})
      BY DEF IInv, Shut
    <2>2. \A i \in DOMAIN chain : chain[i].kind = "server" => chain[i].server # h
      <3>1. \A i \in DOMAIN chain : chain[i] \in Rules
        BY DEF IInv, Types
      <3> QED
        BY <3>1, RulesAre, AddressesAssumption
    <2> QED
      BY <2>1, <2>2, DropIsMet
  <1> QED
    BY <1>1, IInvariant, PTL

(***************************************************************************)
(* A packet that a rule before every DROP lets pass is not dropped.        *)
(***************************************************************************)
LEMMA PassesFirst ==
    ASSUME Types, NEW r, Before(chain, {r}, {Drop}), NEW iface, NEW dst, Matches(r, iface, dst)
    PROVE  ~ Dropped(iface, dst)
  <1>1. \A i \in DOMAIN chain : chain[i] \in Rules
    BY DEF Types
  <1>2. \A i \in DOMAIN chain : chain[i].kind = "drop" => \E j \in 1 .. i - 1 : chain[j] = r
    BY <1>1, RulesAre DEF Before
  <1> QED
    BY <1>2 DEF Dropped

(***************************************************************************)
(* The rules of the anchor that let pass come before the one that drops.   *)
(***************************************************************************)
LEMMA AnchorPasses ==
    ASSUME NEW s \in Servers, tunName \in TunNames, chain = Anchor(s)
    PROVE  Before(chain, {Rule("server", s)}, {Drop}) /\ Before(chain, {Tun(tunName)}, {Drop})
  <1>1. /\ Len(chain) = 4 /\ chain \in Seq(Rules)
        /\ chain[1] = Rule("lo", NoServer) /\ chain[2] = Tun(tunName)
        /\ chain[3] = Rule("server", s)
    BY AnchorIs
  <1>2. Rule("lo", NoServer) # Drop /\ Tun(tunName) # Drop /\ Rule("server", s) # Drop
    BY RuleIs, NamedIs DEF Drop
  <1>3. DOMAIN chain = 1 .. 4
    BY <1>1
  <1>4. \A i \in 1 .. 4 : chain[i] = Drop => i = 4
    BY <1>1, <1>2
  <1> QED
    BY <1>1, <1>3, <1>4 DEF Before

(***************************************************************************)
(* The tunnel itself passes the kill switch, its outer packets to the      *)
(* server and its inner ones, unless the rule for them was not added or,   *)
(* on Linux, a DROP rule was left behind by a process with another device. *)
(***************************************************************************)
THEOREM TunnelIsNotBlocked == Spec => []TunnelPasses
  <1>1. IInv => TunnelPasses
    <2> SUFFICES ASSUME IInv, todo = <<>>, enabled
                 PROVE  /\ AcceptServer(server, tunName) \notin missed =>
                              ~ Dropped("physical", server)
                        /\ AcceptTun(tunName) \notin missed
                              /\ (os = "linux" => left \subseteq {tunName}) =>
                                 \A h \in Hosts : ~ Dropped(tunName, h)
      BY DEF TunnelPasses, Idle
    <2>1. Types /\ ~ Leaving /\ server # NoServer
      BY DEF IInv, Leaving, Off
    <2>2. server \in Servers /\ tunName \in TunNames
      BY <2>1 DEF Types
    <2>3. os # "linux" => chain = Anchor(server)
      BY <2>1 DEF IInv, Passing, Admits
    <2>4. ASSUME AcceptServer(server, tunName) \notin missed PROVE ~ Dropped("physical", server)
      <3>1. \A name \in TunNames \cup {NoTun} :
               Matches(Named("server", server, name), "physical", server)
        <4> TAKE name \in TunNames \cup {NoTun}
        <4>1. /\ Named("server", server, name) \in Rules
              /\ Named("server", server, name).kind = "server"
              /\ Named("server", server, name).server = server
          BY <2>2, NamedIs DEF Rules
        <4> QED
          BY <4>1, MatchesIs
      <3>2. CASE os = "linux"
        <4>1. Before(chain, {Named("server", server, tunName)}, {Drop})
          BY <2>1, <2>4, <3>2 DEF IInv, Passing, Admits
        <4> QED
          BY <2>1, <2>2, <3>1, <4>1, PassesFirst
      <3>3. CASE os # "linux"
        <4>1. Before(chain, {Rule("server", server)}, {Drop})
          BY <2>2, <2>3, <3>3, AnchorPasses
        <4>2. Matches(Rule("server", server), "physical", server)
          BY <3>1 DEF Rule
        <4> QED
          BY <2>1, <4>1, <4>2, PassesFirst
      <3> QED
        BY <3>2, <3>3
    <2>5. ASSUME AcceptTun(tunName) \notin missed, os = "linux" => left \subseteq {tunName},
                 NEW h \in Hosts
          PROVE  ~ Dropped(tunName, h)
      <3>1. Matches(Tun(tunName), tunName, h)
        <4>1. Tun(tunName) \in Rules /\ Tun(tunName).kind = "tun" /\ Tun(tunName).tun = tunName
          BY <2>2, NamedIs DEF Rules
        <4> QED
          BY <4>1, MatchesIs
      <3>2. Before(chain, {Tun(tunName)}, {Drop})
        <4>1. CASE os # "linux"
          BY <2>2, <2>3, <4>1, AnchorPasses
        <4>2. CASE os = "linux" /\ left = {}
          BY <2>5, <4>2 DEF IInv, Passing, Letting
        <4>3. CASE os = "linux" /\ left = {tunName}
          BY <2>2, <4>3 DEF IInv, Passing, Lets
        <4> QED
          BY <2>5, <4>1, <4>2, <4>3
      <3> QED
        BY <2>1, <3>1, <3>2, PassesFirst
    <2> QED
      BY <2>4, <2>5
  <1> QED
    BY <1>1, IInvariant, PTL

(***************************************************************************)
(* "Disable deactivates the firewall kill switch": after a disconnect that *)
(* called it everything is reached again, whatever connections there were  *)
(* before; on Linux, unless one of them left its DROP rule behind.         *)
(***************************************************************************)
THEOREM DisableOpens == Spec => []DisabledIsOpen
  <1>1. IInv => DisabledIsOpen
    <2> SUFFICES ASSUME IInv, todo = <<>>, asked = "disable", os = "linux" => left = {}, NEW h
                 PROVE  ~ Dropped("physical", h)
      BY DEF DisabledIsOpen, Idle
    <2>1. ~ Has(todo, Removers)
      BY EmptyIs
    <2>2. ~ Has(chain, {Drop})
      BY <2>1 DEF IInv, Open
    <2>3. \A i \in DOMAIN chain : chain[i] \in Rules
      BY DEF IInv, Types
    <2>4. \A i \in DOMAIN chain : chain[i].kind # "drop"
      BY <2>2, <2>3, RulesAre DEF Has
    <2> QED
      BY <2>4 DEF Dropped
  <1> QED
    BY <1>1, IInvariant, PTL

(***************************************************************************)
(* On macOS "preserving the host gateway route to the VPN server to        *)
(* prevent routing loops" holds between any two commands unless those for  *)
(* the routes fail, and with an attached anchor and a running filter no    *)
(* other server is reached outside the tunnel.                             *)
(***************************************************************************)
THEOREM ServerStaysOutside == Spec => []DarwinServerOutside
  <1>1. IInv => DarwinServerOutside
    <2> SUFFICES ASSUME IInv, os = "darwin"
                 PROVE  /\ missed \cap RoutesOut = {} => NoRoutingLoop
                        /\ StartFilter \notin missed => OnlyServerPasses
      BY DEF DarwinServerOutside
    <2>1. ASSUME missed \cap RoutesOut = {} PROVE NoRoutingLoop
      <3> SUFFICES ASSUME server # NoServer, Rule(Half[server], NoServer) \in routes
                   PROVE  Rule("host", server) \in routes
        BY DEF NoRoutingLoop, RouteOf
      <3>1. Half[server] \in {"low", "high"}
        BY AddressesAssumption DEF IInv, Types
      <3>2. Diverted
        BY <3>1 DEF Diverted, Low, High
      <3> QED
        BY <2>1, <3>2 DEF IInv, Outside, Host
    <2>2. ASSUME StartFilter \notin missed PROVE OnlyServerPasses
      <3> SUFFICES ASSUME todo = <<>>, enabled, NEW s \in Servers, s # server, Filtered(s)
                   PROVE  Dropped("physical", s)
        BY DEF OnlyServerPasses, Idle
      <3>1. Admits /\ filterOn /\ server # NoServer /\ Types
        BY <2>2 DEF IInv, Passing, Leaving, Shut, Off
      <3>2. chain = Anchor(server) /\ server \in Servers /\ tunName \in TunNames
        BY <3>1 DEF Admits, Types
      <3>3. /\ Len(chain) = 4 /\ chain \in Seq(Rules) /\ Has(chain, {Drop})
            /\ chain[1] = Rule("lo", NoServer) /\ chain[2] = Tun(tunName)
            /\ chain[3] = Rule("server", server) /\ chain[4] = Drop
        BY <3>2, AnchorIs
      <3>4. DOMAIN chain = 1 .. 4
        BY <3>3
      <3>5. \A i \in 1 .. 4 : chain[i].kind = "server" => chain[i].server # s
        BY <3>3, RuleIs, NamedIs
      <3> QED
        BY <3>1, <3>3, <3>4, <3>5, DropIsMet
    <2> QED
      BY <2>1, <2>2
  <1> QED
    BY <1>1, IInvariant, PTL

-----------------------------------------------------------------------------
(* The process that makes and undoes these changes on the command line     *)

\* The deferred calls in the order they are due, when k of them are.
Deferred == {"closeTransport", "wipe", "closeTUN", "restoreRoutes", "restoreDNS", "disable"}
Stack1 == <<"closeTransport">>
Stack2 == <<"wipe">> \o Stack1
Stack3 == <<"closeTUN">> \o Stack2
Stack4 == <<"restoreRoutes">> \o Stack3
Stack5 == <<"restoreDNS">> \o Stack4
Stack6 == <<"disable">> \o Stack5
Stack(k) ==
    CASE k = 0 -> <<>> [] k = 1 -> Stack1 [] k = 2 -> Stack2 [] k = 3 -> Stack3
      [] k = 4 -> Stack4 [] k = 5 -> Stack5 [] k = 6 -> Stack6

\* What may be on the host while k calls are due.
Held(k) ==
    (IF k >= 4 THEN {"routes", "bypass"} ELSE {})
      \cup (IF k >= 5 THEN {"dns"} ELSE {}) \cup (IF k >= 6 THEN {"drop"} ELSE {})

\* How many calls may be due where main is.
DueAt(pc) ==
    CASE pc = "dial" -> {0} [] pc \in {"send", "await"} -> {1} [] pc = "tun" -> {2}
      [] pc \in {"routes", "dns"} -> {3} [] pc = "filter" -> {5} [] pc = "return" -> 0 .. 6
      [] OTHER -> {IF device # "open" THEN 2 ELSE IF ~ flags.routes THEN 3
                   ELSE IF flags.killSwitch THEN 6 ELSE 5}

\* What the steps of main rely on.
TypeInv ==
    /\ flags \in [linux : BOOLEAN, stream : BOOLEAN, routes : BOOLEAN, killSwitch : BOOLEAN]
    /\ main \in {"dial", "send", "await", "tun", "routes", "dns", "filter", "loops", "notify",
                 "wait", "return"}
    /\ {stop, wiped, closed} \subseteq BOOLEAN
    /\ proc \in {"up", "exited", "killed", "panicked"}

\* The k calls that are due say what there is to undo.
Due(k) ==
    /\ k \in DueAt(main)
    /\ host \ (stuck \cup Remains) \subseteq IF main = "dns" THEN {"routes", "bypass"} ELSE Held(k)
    /\ "routes" \in host => k >= 3
    /\ main \in {"routes", "dns", "filter"} => flags.routes
    /\ main = "filter" => flags.killSwitch
    /\ device = "open" <=> k >= 3
    /\ wiped <=> main = "return" /\ k < 2
    /\ closed <=> main = "return" /\ k < 1

\* As long as the process runs, its deferred calls are the first so many of the
\* six, and they say what there is to undo.
ClientInv ==
    /\ TypeInv
    /\ proc = "up" => \E k \in 0 .. 6 : defers = Stack(k) /\ Due(k)
    /\ EndReleasesHost

\* The call deferred last is the first to run.
LEMMA PushPop ==
    ASSUME NEW S, NEW s \in Seq(S), NEW x \in S
    PROVE  /\ <<x>> \o s \in Seq(S) /\ <<x>> \o s # <<>>
           /\ Head(<<x>> \o s) = x /\ Tail(<<x>> \o s) = s
  <1> DEFINE u == <<x>> \o s
  <1>1. /\ u \in Seq(S) /\ Len(u) = Len(s) + 1 /\ u[1] = x
        /\ \A i \in 1 .. Len(s) : u[i + 1] = s[i]
    OBVIOUS
  <1> HIDE DEF u
  <1>2. u # <<>>
    BY <1>1
  <1>3. /\ Head(u) = u[1] /\ Tail(u) \in Seq(S) /\ Len(Tail(u)) = Len(s)
        /\ \A i \in 1 .. Len(s) : Tail(u)[i] = u[i + 1]
    BY <1>1, <1>2
  <1>4. Tail(u) = s
    BY <1>1, <1>3, SeqEqual
  <1> QED
    BY <1>1, <1>2, <1>3, <1>4 DEF u

\* SetupDNS defers two calls at once.
LEMMA PushTwo ==
    ASSUME NEW S, NEW s \in Seq(S), NEW x \in S, NEW y \in S
    PROVE  <<x, y>> \o s = <<x>> \o (<<y>> \o s)
  <1> DEFINE a == <<x>>
             b == <<y>>
             c == <<x, y>>
  <1>1. a \in Seq(S) /\ Len(a) = 1 /\ a[1] = x /\ b \in Seq(S) /\ Len(b) = 1 /\ b[1] = y
    OBVIOUS
  <1>2. c \in Seq(S) /\ Len(c) = 2 /\ c[1] = x /\ c[2] = y
    OBVIOUS
  <1> HIDE DEF a, b, c
  <1>3. /\ a \o b \in Seq(S) /\ Len(a \o b) = 2
        /\ \A i \in 1 .. 2 : (a \o b)[i] = IF i <= 1 THEN a[i] ELSE b[i - 1]
    BY <1>1, ConcatProperties
  <1>4. a \o b = c
    <2>1. \A i \in 1 .. 2 : i = 1 \/ (i = 2 /\ ~ (i <= 1) /\ i - 1 = 1)
      OBVIOUS
    <2>2. \A i \in 1 .. 2 : (a \o b)[i] = c[i]
      BY <1>1, <1>2, <1>3, <2>1
    <2> QED
      BY <1>2, <1>3, <2>2, SeqEqual
  <1>5. (a \o b) \o s = a \o (b \o s)
    BY <1>1, ConcatAssociative, SMTT(40)
  <1> QED
    BY <1>4, <1>5 DEF a, b, c

\* The stacks one by one.
LEMMA StackIs ==
    /\ Stack(0) = <<>> /\ Stack(1) = Stack1 /\ Stack(2) = Stack2 /\ Stack(3) = Stack3
    /\ Stack(4) = Stack4 /\ Stack(5) = Stack5 /\ Stack(6) = Stack6
  BY DEF Stack

\* A stack with a call on it is not empty.
LEMMA StackTypes ==
    \A s \in {Stack1, Stack2, Stack3, Stack4, Stack5, Stack6} : s \in Seq(Deferred) /\ s # <<>>
  <1>1. Stack1 \in Seq(Deferred) /\ Stack1 # <<>>
    BY DEF Stack1, Deferred
  <1>2. Stack2 \in Seq(Deferred) /\ Stack2 # <<>>
    BY <1>1, PushPop DEF Stack2, Deferred
  <1>3. Stack3 \in Seq(Deferred) /\ Stack3 # <<>>
    BY <1>2, PushPop DEF Stack3, Deferred
  <1>4. Stack4 \in Seq(Deferred) /\ Stack4 # <<>>
    BY <1>3, PushPop DEF Stack4, Deferred
  <1>5. Stack5 \in Seq(Deferred) /\ Stack5 # <<>>
    BY <1>4, PushPop DEF Stack5, Deferred
  <1>6. Stack6 \in Seq(Deferred) /\ Stack6 # <<>>
    BY <1>5, PushPop DEF Stack6, Deferred
  <1> QED
    BY <1>1, <1>2, <1>3, <1>4, <1>5, <1>6
-----------------------------------------------------------------------------
\* Nothing is done and nothing is due.
LEMMA ClientStarts == ClientInit => ClientInv
  <1> SUFFICES ASSUME ClientInit PROVE ClientInv
    OBVIOUS
  <1>1. TypeInv /\ EndReleasesHost
    BY DEF ClientInit, TypeInv, EndReleasesHost
  <1>2. defers = Stack(0) /\ Due(0)
    BY StackIs DEF ClientInit, Due, DueAt, Held
  <1> QED
    BY <1>1, <1>2 DEF ClientInv

\* The process ends, of itself or by a panic, where nothing is to be undone.
LEMMA EndStep ==
    ASSUME ClientInv, NEW how \in {"exited", "killed", "panicked"}, End(how),
           how # "killed" => host \subseteq stuck \cup Remains
    PROVE  ClientInv'
  BY DEF ClientInv, TypeInv, End, EndReleasesHost, undoVars

\* A step that leaves alone what main has done.
LEMMA Beside ==
    ASSUME ClientInv, UNCHANGED <<setupVars, stop, wiped, closed, proc>>
    PROVE  ClientInv'
  BY DEF ClientInv, TypeInv, Due, DueAt, setupVars, undoVars, EndReleasesHost

\* A step of main to a state where k calls are due.
LEMMA Advance ==
    ASSUME TypeInv', proc' = "up", NEW k \in 0 .. 6, defers' = Stack(k), Due(k)'
    PROVE  ClientInv'
  BY DEF ClientInv, EndReleasesHost

\* What main does to the host is deferred to be undone, or the process ends
\* before it has done anything.
LEMMA SetupStep == ASSUME ClientInv, Setup PROVE ClientInv'
  <1> USE DEF At, undoVars
  <1>1. CASE DialFails \/ SendFails \/ HandshakeFails
    <2>1. proc = "up" /\ main \in {"dial", "send", "await"} /\ End("exited")
      BY <1>1 DEF DialFails, SendFails, HandshakeFails
    <2>2. host \subseteq stuck \cup Remains
      BY <2>1 DEF ClientInv, Due, DueAt, Held
    <2> QED
      BY <2>1, <2>2, EndStep
  <1>2. SUFFICES ASSUME ~ (DialFails \/ SendFails \/ HandshakeFails) PROVE ClientInv'
    BY <1>1
  <1>3. proc = "up"
    BY <1>2 DEF Setup, Dial, SendInitiation, Handshake, CreateTUN, RouterSetupRoutes,
                RouterSetupDNS, KillSwitchEnable, StartLoops, Notify
  <1>4. PICK k \in 0 .. 6 : defers = Stack(k) /\ Due(k)
    BY <1>3 DEF ClientInv
  <1>5. TypeInv
    BY DEF ClientInv
  <1>6. CASE Dial
    <2>1. k = 0 /\ TypeInv' /\ proc' = "up" /\ defers' = Stack(1)
      BY <1>4, <1>5, <1>6, StackIs DEF Dial, Due, DueAt, TypeInv, Stack1
    <2>2. Due(1)'
      BY <1>4, <1>6, <2>1 DEF Dial, Due, DueAt, Held
    <2> QED
      BY <2>1, <2>2, Advance
  <1>7. CASE SendInitiation
    <2>1. k = 1 /\ TypeInv' /\ proc' = "up" /\ defers' = Stack(k)
      BY <1>4, <1>5, <1>7 DEF SendInitiation, Due, DueAt, TypeInv
    <2>2. Due(k)'
      BY <1>4, <1>7, <2>1 DEF SendInitiation, Due, DueAt, Held
    <2> QED
      BY <2>1, <2>2, Advance
  <1>8. CASE Handshake
    <2>1. k = 1 /\ TypeInv' /\ proc' = "up" /\ defers' = <<"wipe">> \o defers
      BY <1>4, <1>5, <1>8 DEF Handshake, Due, DueAt, TypeInv
    <2>2. defers' = Stack(2)
      BY <1>4, <2>1, StackIs DEF Stack2
    <2>3. Due(2)'
      BY <1>4, <1>8, <2>1 DEF Handshake, Due, DueAt, Held
    <2> QED
      BY <2>1, <2>2, <2>3, Advance
  <1>9. ASSUME NEW ok \in BOOLEAN, CreateTUN(ok) PROVE ClientInv'
    <2>1. k = 2 /\ TypeInv' /\ proc' = "up"
      BY <1>4, <1>5, <1>9 DEF CreateTUN, Due, DueAt, TypeInv
    <2>2. CASE ok
      <3>1. defers' = Stack(3)
        BY <1>4, <1>9, <2>1, <2>2, StackIs DEF CreateTUN, Stack3
      <3>2. Due(3)'
        BY <1>4, <1>9, <2>1, <2>2 DEF CreateTUN, Due, DueAt, Held
      <3> QED
        BY <2>1, <3>1, <3>2, Advance
    <2>3. CASE ~ ok
      <3>1. defers' = Stack(2)
        BY <1>4, <1>9, <2>1, <2>3 DEF CreateTUN
      <3>2. Due(2)'
        BY <1>4, <1>9, <2>1, <2>3 DEF CreateTUN, Due, DueAt, Held
      <3> QED
        BY <2>1, <3>1, <3>2, Advance
    <2> QED
      BY <2>2, <2>3
  <1>10. ASSUME NEW put, RouterSetupRoutes(put) PROVE ClientInv'
    <2>1. k = 3 /\ TypeInv' /\ proc' = "up" /\ defers' = Stack(k)
      BY <1>4, <1>5, <1>10 DEF RouterSetupRoutes, Due, DueAt, TypeInv
    <2>2. Due(k)'
      BY <1>4, <1>10, <2>1 DEF RouterSetupRoutes, Due, DueAt, Held
    <2> QED
      BY <2>1, <2>2, Advance
  <1>11. ASSUME NEW found \in BOOLEAN, NEW put, RouterSetupDNS(found, put) PROVE ClientInv'
    <2>1. /\ k = 3 /\ TypeInv' /\ proc' = "up"
          /\ defers' = <<"restoreDNS", "restoreRoutes">> \o defers
      BY <1>4, <1>5, <1>11 DEF RouterSetupDNS, Due, DueAt, TypeInv
    <2>2. defers' = <<"restoreDNS">> \o (<<"restoreRoutes">> \o defers)
      <3>1. /\ defers \in Seq(Deferred)
            /\ "restoreDNS" \in Deferred /\ "restoreRoutes" \in Deferred
        BY <1>4, <2>1, StackIs, StackTypes DEF Deferred
      <3> QED
        BY <2>1, <3>1, PushTwo, Zenon
    <2>3. defers' = Stack(5)
      BY <1>4, <2>1, <2>2, StackIs DEF Stack5, Stack4
    <2>4. Due(5)'
      BY <1>4, <1>11, <2>1 DEF RouterSetupDNS, Due, DueAt, Held
    <2> QED
      BY <2>1, <2>3, <2>4, Advance
  <1>12. ASSUME NEW put, KillSwitchEnable(put) PROVE ClientInv'
    <2>1. k = 5 /\ TypeInv' /\ proc' = "up" /\ defers' = <<"disable">> \o defers
      BY <1>4, <1>5, <1>12 DEF KillSwitchEnable, Due, DueAt, TypeInv
    <2>2. defers' = Stack(6)
      BY <1>4, <2>1, StackIs DEF Stack6
    <2>3. Due(6)'
      BY <1>4, <1>12, <2>1 DEF KillSwitchEnable, Due, DueAt, Held, Remains
    <2> QED
      BY <2>1, <2>2, <2>3, Advance
  <1>13. CASE StartLoops \/ Notify
    <2>1. TypeInv' /\ proc' = "up" /\ defers' = Stack(k)
      BY <1>4, <1>5, <1>13 DEF StartLoops, Notify, TypeInv
    <2>2. Due(k)'
      BY <1>4, <1>13 DEF StartLoops, Notify, Due, DueAt, Held
    <2> QED
      BY <2>1, <2>2, Advance
  <1> QED
    BY <1>2, <1>6, <1>7, <1>8, <1>9, <1>10, <1>11, <1>12, <1>13 DEF Setup

\* The call that runs next, and the ones that are due after it.
LEMMA Pops ==
    /\ Head(Stack1) = "closeTransport" /\ Tail(Stack1) = Stack(0)
    /\ Head(Stack2) = "wipe" /\ Tail(Stack2) = Stack1
    /\ Head(Stack3) = "closeTUN" /\ Tail(Stack3) = Stack2
    /\ Head(Stack4) = "restoreRoutes" /\ Tail(Stack4) = Stack3
    /\ Head(Stack5) = "restoreDNS" /\ Tail(Stack5) = Stack4
    /\ Head(Stack6) = "disable" /\ Tail(Stack6) = Stack5
  <1>1. Head(Stack1) = "closeTransport" /\ Tail(Stack1) = Stack(0)
    BY StackIs DEF Stack1
  <1>2. /\ Stack1 \in Seq(Deferred) /\ Stack2 \in Seq(Deferred) /\ Stack3 \in Seq(Deferred)
        /\ Stack4 \in Seq(Deferred) /\ Stack5 \in Seq(Deferred)
    BY StackTypes
  <1>3. /\ "wipe" \in Deferred /\ "closeTUN" \in Deferred /\ "restoreRoutes" \in Deferred
        /\ "restoreDNS" \in Deferred /\ "disable" \in Deferred
    BY DEF Deferred
  <1>4. Head(Stack2) = "wipe" /\ Tail(Stack2) = Stack1
    BY <1>2, <1>3, PushPop, Zenon DEF Stack2
  <1>5. Head(Stack3) = "closeTUN" /\ Tail(Stack3) = Stack2
    BY <1>2, <1>3, PushPop, Zenon DEF Stack3
  <1>6. Head(Stack4) = "restoreRoutes" /\ Tail(Stack4) = Stack3
    BY <1>2, <1>3, PushPop, Zenon DEF Stack4
  <1>7. Head(Stack5) = "restoreDNS" /\ Tail(Stack5) = Stack4
    BY <1>2, <1>3, PushPop, Zenon DEF Stack5
  <1>8. Head(Stack6) = "disable" /\ Tail(Stack6) = Stack5
    BY <1>2, <1>3, PushPop, Zenon DEF Stack6
  <1> QED
    BY <1>1, <1>4, <1>5, <1>6, <1>7, <1>8

\* The call that is the k-th to be due undoes what the k-th step did, or its
\* failure is recorded.
LEMMA Undo ==
    ASSUME main = "return", NEW k \in 1 .. 6, Due(k), NEW name, NEW failed, Call(name, failed),
           Held(k) \ Undoes(name) \subseteq Held(k - 1), k = 3 => "routes" \in Undoes(name),
           name = "closeTUN" <=> k = 3, name = "wipe" <=> k = 2, name = "closeTransport" <=> k = 1
    PROVE  Due(k - 1)'
  <1>1. device' = "open" <=> k - 1 >= 3
    BY DEF Call, Due
  <1>2. (wiped' <=> k - 1 < 2) /\ (closed' <=> k - 1 < 1)
    <2>1. (wiped' <=> wiped \/ name = "wipe") /\ (closed' <=> closed \/ name = "closeTransport")
      BY Zenon DEF Call
    <2>2. (wiped <=> k < 2) /\ (closed <=> k < 1)
      BY DEF Due
    <2> QED
      BY <2>1, <2>2
  <1>3. main' = "return"
    BY DEF Call
  <1> DEFINE rest == Undoes(name) \ failed
  <1>4. host' \subseteq (host \ rest) \cup {"empty"} /\ stuck' = stuck \cup (host \cap failed)
    BY DEF Call
  <1>5. host \ (stuck \cup Remains) \subseteq Held(k)
    BY DEF Due
  <1>6. host' \ (stuck' \cup Remains) \subseteq Held(k - 1)
    BY <1>4, <1>5 DEF Remains
  <1>7. "routes" \in host' => k - 1 >= 3
    <2>1. "routes" \in host' => "routes" \in host /\ k >= 3
      BY <1>4 DEF Due
    <2>2. k = 3 => "routes" \notin host'
      BY <1>4 DEF Call
    <2> QED
      BY <2>1, <2>2
  <1> QED
    BY <1>1, <1>2, <1>3, <1>6, <1>7 DEF Due, DueAt

\* A deferred call undoes what was done before it was deferred.
LEMMA RunStep == ASSUME ClientInv, RunDefer PROVE ClientInv'
  <1>1. proc = "up" /\ main = "return" /\ defers # <<>>
    BY DEF RunDefer, At
  <1>2. PICK k \in 0 .. 6 : defers = Stack(k) /\ Due(k)
    BY <1>1 DEF ClientInv
  <1>3. k \in {1, 2, 3, 4, 5, 6}
    BY <1>1, <1>2, StackIs
  <1>4. PICK failed \in SUBSET Undoes(Head(defers)) : Call(Head(defers), failed)
    BY DEF RunDefer
  <1>5. TypeInv' /\ proc' = "up" /\ defers' = Tail(defers)
    BY <1>1, <1>4 DEF RunDefer, Call, ClientInv, TypeInv
  <1>6. CASE k = 1
    <2>1. Head(defers) = "closeTransport" /\ Tail(defers) = Stack(0)
      BY <1>2, <1>6, StackIs, Pops, Zenon
    <2>2. Call("closeTransport", failed) /\ Due(1)
      BY <1>2, <1>4, <1>6, <2>1
    <2>3. Held(1) \ Undoes("closeTransport") \subseteq Held(0) /\ "routes" \in Undoes("closeTUN")
      BY DEF Held, Undoes
    <2> QED
      BY <1>1, <1>5, <2>1, <2>2, <2>3, Undo, Advance
  <1>7. CASE k = 2
    <2>1. Head(defers) = "wipe" /\ Tail(defers) = Stack(1)
      BY <1>2, <1>7, StackIs, Pops, Zenon
    <2>2. Call("wipe", failed) /\ Due(2)
      BY <1>2, <1>4, <1>7, <2>1
    <2>3. Held(2) \ Undoes("wipe") \subseteq Held(1) /\ "routes" \in Undoes("closeTUN")
      BY DEF Held, Undoes
    <2> QED
      BY <1>1, <1>5, <2>1, <2>2, <2>3, Undo, Advance
  <1>8. CASE k = 3
    <2>1. Head(defers) = "closeTUN" /\ Tail(defers) = Stack(2)
      BY <1>2, <1>8, StackIs, Pops, Zenon
    <2>2. Call("closeTUN", failed) /\ Due(3)
      BY <1>2, <1>4, <1>8, <2>1
    <2>3. Held(3) \ Undoes("closeTUN") \subseteq Held(2) /\ "routes" \in Undoes("closeTUN")
      BY DEF Held, Undoes
    <2> QED
      BY <1>1, <1>5, <2>1, <2>2, <2>3, Undo, Advance
  <1>9. CASE k = 4
    <2>1. Head(defers) = "restoreRoutes" /\ Tail(defers) = Stack(3)
      BY <1>2, <1>9, StackIs, Pops, Zenon
    <2>2. Call("restoreRoutes", failed) /\ Due(4)
      BY <1>2, <1>4, <1>9, <2>1
    <2>3. Held(4) \ Undoes("restoreRoutes") \subseteq Held(3) /\ "routes" \in Undoes("closeTUN")
      BY DEF Held, Undoes
    <2> QED
      BY <1>1, <1>5, <2>1, <2>2, <2>3, Undo, Advance
  <1>10. CASE k = 5
    <2>1. Head(defers) = "restoreDNS" /\ Tail(defers) = Stack(4)
      BY <1>2, <1>10, StackIs, Pops, Zenon
    <2>2. Call("restoreDNS", failed) /\ Due(5)
      BY <1>2, <1>4, <1>10, <2>1
    <2>3. Held(5) \ Undoes("restoreDNS") \subseteq Held(4) /\ "routes" \in Undoes("closeTUN")
      BY DEF Held, Undoes
    <2> QED
      BY <1>1, <1>5, <2>1, <2>2, <2>3, Undo, Advance
  <1>11. CASE k = 6
    <2>1. Head(defers) = "disable" /\ Tail(defers) = Stack(5)
      BY <1>2, <1>11, StackIs, Pops, Zenon
    <2>2. Call("disable", failed) /\ Due(6)
      BY <1>2, <1>4, <1>11, <2>1
    <2>3. Held(6) \ Undoes("disable") \subseteq Held(5) /\ "routes" \in Undoes("closeTUN")
      BY DEF Held, Undoes
    <2> QED
      BY <1>1, <1>5, <2>1, <2>2, <2>3, Undo, Advance
  <1> QED
    BY <1>3, <1>6, <1>7, <1>8, <1>9, <1>10, <1>11

\* The transport and the loops touch nothing that main has done, and a loop
\* panics only when the host is restored.
LEMMA ClientSteps == ClientInv /\ [ClientNext]_clientVars => ClientInv'
  <1> SUFFICES ASSUME ClientInv, [ClientNext]_clientVars PROVE ClientInv'
    OBVIOUS
  <1>1. CASE Setup
    BY <1>1, SetupStep
  <1>2. CASE Kill
    BY <1>2, EndStep DEF Kill
  <1>3. CASE Signal
    <2>1. PICK k \in 0 .. 6 : defers = Stack(k) /\ Due(k)
      BY <1>3 DEF ClientInv, Signal, At
    <2>2. TypeInv' /\ proc' = "up" /\ defers' = Stack(k)
      BY <1>3, <2>1 DEF ClientInv, Signal, At, TypeInv
    <2>3. Due(k)'
      BY <1>3, <2>1 DEF ClientInv, TypeInv, Signal, At, Due, DueAt, undoVars
    <2> QED
      BY <2>2, <2>3, Advance
  <1>4. CASE RunDefer
    BY <1>4, RunStep
  <1>5. CASE Return
    <2>1. proc = "up" /\ main = "return" /\ defers = <<>> /\ End("exited")
      BY <1>5 DEF Return, At
    <2>2. PICK k \in 0 .. 6 : defers = Stack(k) /\ Due(k)
      BY <2>1 DEF ClientInv
    <2>3. k = 0
      BY <2>1, <2>2, StackIs, StackTypes
    <2>4. host \subseteq stuck \cup Remains
      BY <2>1, <2>2, <2>3 DEF Due, Held
    <2> QED
      BY <2>1, <2>4, EndStep
  <1>6. CASE Transport
    BY <1>6, Beside DEF Transport, DatagramArrives, FrameArrives, Push, PushEnds, Break,
                        ReadFails, SetTransport
  <1>7. CASE EgressPanics \/ IngressPanics \/ KeepalivePanics
    <2>1. proc = "up" /\ wiped /\ End("panicked")
      BY <1>7 DEF EgressPanics, IngressPanics, KeepalivePanics
    <2>2. host \subseteq stuck \cup Remains
      BY <2>1 DEF ClientInv, Due, Held
    <2> QED
      BY <2>1, <2>2, EndStep
  <1>8. CASE /\ Egress \/ Ingress \/ Keepalive
             /\ ~ (EgressPanics \/ IngressPanics \/ KeepalivePanics)
    BY <1>8, Beside DEF Egress, EgressRead, EgressEnds, EgressEncrypt, SetEgress, Ingress,
                        IngressReceive, IngressError, IngressDrop, IngressDecrypt, IngressWrite,
                        SetIngress, Keepalive, Tick, KeepaliveEncrypt, KeepaliveEnds,
                        SetKeepalive
  <1>9. CASE UNCHANGED clientVars
    BY <1>9, Beside DEF clientVars, setupVars, undoVars
  <1> QED
    BY <1>1, <1>2, <1>3, <1>4, <1>5, <1>6, <1>7, <1>8, <1>9 DEF ClientNext

(***************************************************************************)
(* The deferred calls and the host agree.                                  *)
(***************************************************************************)
THEOREM ClientInvariant == ClientSpec => []ClientInv
  BY ClientStarts, ClientSteps, PTL DEF ClientSpec

(***************************************************************************)
(* A client that ends by itself, or by a panic of one of its loops in the  *)
(* middle of the deferred calls, leaves on the host only what an undo      *)
(* command failed to remove and what no call removes: whatever flags it    *)
(* has, whichever commands of its set-up failed, and whatever the          *)
(* transport does.                                                         *)
(***************************************************************************)
THEOREM EndsClean == ClientSpec => []EndReleasesHost
  <1>1. ClientInv => EndReleasesHost
    BY DEF ClientInv
  <1> QED
    BY <1>1, ClientInvariant, PTL

(***************************************************************************)
(* Traffic is diverted or dropped only while there is a device that is     *)
(* open, with a session and a transport, or because an undo command        *)
(* failed; and no route leads into a closed device.                        *)
(***************************************************************************)
THEOREM DivertedIntoTunnel == ClientSpec => []HostMatchesTunnel
  <1>1. ClientInv => HostMatchesTunnel
    <2> SUFFICES ASSUME ClientInv, proc = "up" PROVE HostMatchesTunnel
      BY DEF HostMatchesTunnel
    <2>1. PICK k \in 0 .. 6 : Due(k)
      BY DEF ClientInv
    <2>2. host \ (stuck \cup Remains) # {} => k >= 3
      BY <2>1 DEF Due, DueAt, Held
    <2>3. host \ (stuck \cup Remains) # {} => device = "open" /\ ~ wiped /\ ~ closed
      BY <2>1, <2>2 DEF Due
    <2>4. "routes" \in host => device = "open"
      BY <2>1 DEF Due
    <2> QED
      BY <2>3, <2>4 DEF HostMatchesTunnel
  <1> QED
    BY <1>1, ClientInvariant, PTL

=============================================================================
