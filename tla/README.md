# A TLA+ model of AnonymousAnt

AnonymousAnt is a VPN written in Go: a Noise IK handshake, a tunnel of
AEAD-sealed packets over UDP or over TLS that looks like a web server, an exit
server, a command-line client, a privileged daemon with an IPC socket, and the
host set-up (routes, DNS, kill switch) that sends a computer's traffic through
the tunnel. This directory holds TLA+ modules of its core, the TLC
configurations that check them, and TLAPS proofs of most of what they check, for
every value of the constants. `PROJECT.json` maps every definition to the lines it models.

Run a configuration with `tlc -workers 2 -config MCSession.cfg MCSession` or,
where there is no module of the configuration's name, with the component itself
(`tlc -workers 2 -config MCClient.cfg Client`); a proof with
`tlapm SessionProofs.tla`.

## 1. Inventory

| Part | Code | State | Operations | What makes it hard | What makes it correct |
|---|---|---|---|---|---|
| Anti-replay window | `pkg/protocol/session.go` 27-69 | `maxSeq`, two 64-bit words, a mutex | `CheckAndSet` | shifts and carries at jumps of 63, 64, 65, 127, 128 | answers as a set of played numbers would |
| Session | `pkg/protocol/session.go` 72-163, `pkg/crypto/cipher.go` | send counter, two ciphers, window | `EncryptPacket`, `DecryptPacket`, `Wipe` | several goroutines per side; ciphers have no lock; packets repeat, overtake and get damaged | one nonce, one packet; one packet, one delivery |
| Session manager | `pkg/protocol/session.go` 165-212 | sessions by index | `Register`, `Get`, `Remove`, `Clear` | a session is used after it was looked up and removed | a session in use stays |
| Noise handshake | `pkg/crypto/noise.go` | chaining key, hash, ephemeral keys, index | `CreateInitiation`, `ConsumeInitiation`, `ConsumeResponse` | repeated, crossed and damaged messages | both ends agree; keys are never shared |
| Exit server | `cmd/antserver/main.go` | peer table, session manager | `handleIncomingPacket`, egress loop, shutdown | goroutine per transport plus egress; peers are read without the lock | return traffic goes to its client |
| Daemon | `cmd/ant-daemon/main.go`, `pkg/ipc/server.go` | `DaemonState` | connect, disconnect, status, two packet loops | loops read the state without the mutex; a loop may survive its connection | connected wholly or not at all; nothing left on the host |
| TLS transport | `pkg/transport/tls.go` | connection map, queue, closed channel | `Send`, `Receive`, read loops, sniffing, `Close` | two writes per packet; full queue; reset and reuse of an address | frames arrive whole; loops end; the map is current |
| Kill switch | `pkg/security/killswitch.go` | `enabled`, firewall rules | `Enable`, `Disable` | rules outlive the process, errors are ignored | blocks what the filter sees when on, open when off, does not block the tunnel |
| Router | `pkg/router` | routes, DNS | `SetupRoutes`, `RestoreRoutes`, `SetupDNS`, `RestoreDNS` | order of commands; crash in between | no routing loop |
| Client | `cmd/antclient/main.go` | session, transport, device, stop channel | set-up, deferred calls, TUN, ingress and keepalive loops | early signal, `os.Exit`, loops nobody waits for, a stream that breaks silently, two senders on one connection, set-up errors that are ignored | what is in force on the host has a tunnel behind it, and every way out undoes it |
| WebSocket, UDP | `pkg/transport` | map and queue; a socket | `Send`, `Receive`, `Close` | as TLS | as TLS |
| Header, buffers, padding | `pkg/protocol/packet.go`, `pkg/buffer`, `pkg/obfuscation`, `pkg/tun` | offset and length in a pooled array | `PrependHeader`, in-place AEAD, utun prefix, `PadPacket` | lengths and offsets, what an earlier packet left, an 8-bit pad length | what arrives is what was read; only ciphertext is sent |
| Mobile bridge | `pkg/mobile/bridge.go` | global engine | start, stop, packet callbacks, statistics | callbacks on threads of their own, a global that nothing protects | an engine is whole or gone |
| IPC and web UI | `cmd/ant-ui/main.go`, `pkg/ipc` | socket file or port, daemon processes | start, status, connect, disconnect | a name shared by path, a prompt answered late, daemons killed, stopping, or started by hand or by a service manager | one daemon has the shared name, and requests reach it |

How the parts meet: a client makes a transport, runs the handshake over it,
turns the keys into a `Session` and copies packets between the TUN device and
the transport through it. The server does the same for many clients with one
session manager and one peer table, from one ingress goroutine per transport
and one egress goroutine. The daemon wraps the client side behind IPC and calls
the router and the kill switch. The hazards in `PROJECT.json` are the places
where these meetings can go wrong.

## 2. Modules

| Module | Models | Note |
|---|---|---|
| `ReplayBitmap` | the struct and the word arithmetic of `CheckAndSet` | a word is the set of its one bits; `WordBits` is 64 in the code |
| `AntiReplay` | abstract: what the window promises | a set of played numbers |
| `ReplayWindow` | a sequence of calls of `CheckAndSet` | refines `AntiReplay` |
| `Channel` | abstract: what a session promises | seal once, deliver at most once |
| `Session` | `EncryptPacket`, `DecryptPacket`, `Wipe` of both ends and the network | uses `ReplayBitmap`, refines `Channel` |
| `Noise` | the handshake with symbolic cryptography | |
| `Server` | sessions, peers, ingress goroutines, egress loop, shutdown | builds on what `Noise` and `Session` show |
| `Daemon` | `DaemonState`, the requests, the two loops of every connection | |
| `TLSFraming` | one direction of one TLS connection | |
| `TLSServer` | accept loop, handlers, connection map, queue, `Close` | frames as in `TLSFraming` |
| `HostNetwork` | kill switch and router as sequences of commands, the kernel that runs them | Linux and macOS in one module |
| `Client` | the process of `antclient`: main, its deferred calls, loops, transport | Linux and macOS; frames are `TLSFraming`'s, what rules and routes do is `HostNetwork`'s |
| `MobileBridge` | the global engine and the callbacks that meet in it | |
| `Packet` | one packet through buffers, header, AEAD, devices, padding | keys, counters and loss are `Session`'s |
| `Launcher` | HTTP handlers, socket file or port, life of the daemon | what a request does inside is `Daemon`'s |
| `ReplayWindowProofs`, `SessionProofs`, `NoiseProofs`, `ServerProofs`, `DaemonProofs`, `MobileBridgeProofs`, `PacketProofs`, `HostNetworkProofs` | the theorems of each; `ServerProofs` also those of `TLSServer`, `DaemonProofs` those of `Launcher`, `PacketProofs` those of `TLSFraming`, `HostNetworkProofs` those of `Client` | section 5 |

`MC*.tla` give the constants that a `.cfg` cannot write down; components
without such constants are run directly.

How actions and code correspond:

- **Session.** `TakeCounter` is the atomic add, `Seal` the AEAD call that
  follows; a goroutine can be delayed between them. On the other side
  `CheckAndSet` runs under the window's lock, then the cipher pointer is
  loaded, then the packet is opened: three steps. `Wipe` sets the ciphers to
  nil and resets the window in a second step. A goroutine that meets a nil
  cipher panics (`sendUp`, `recvUp`).
- **Noise.** A chaining key is the sequence of secrets mixed into it, a hash
  the sequence of what was hashed, a box opens under its own key and data. The
  network keeps every message, delivers any of them to anybody and may damage
  one. Session indices may coincide.
- **Server.** A handler is split where another goroutine can come in: table
  look-up, decryption, route registration, removal. The egress loop looks a
  peer up under the lock and reads its session, its transport and its address
  afterwards without it, in three steps. GenerateIndex is taken not to return an index in
  use.
- **Daemon.** `d.mu` is a variable with its holder. `handleConnect` publishes
  its fields one by one, because the loops of an earlier connection look at
  them; `handleDisconnect` undoes them one by one. `ReadPacket` on a TUN device
  that is closed meanwhile may still return one packet. After the signal main
  runs `handleDisconnect`, releases `d.mu` and only then closes the server and
  exits (`Exit`), so a connect that waits may still get in between.
- **TLS.** A length and a body are two writes; a write is atomic. Any number of
  goroutines send; `mixed` records that one began between the two writes of
  another, which nothing prevents. The handler of a connection goes through
  sniffing, registration, first packet, loop, deferred deletion from the map and
  close. `Send` of the server looks a connection up (`SendLookup`) and writes to
  what it found after the lock is released (`SendWrite`). `Close` closes the
  channel, walks the map, closes the listener.
- **HostNetwork.** The system is chosen in `Init`. `Connect` and `Disconnect`
  leave a list of commands that are executed one at a time; any command may
  fail (`Failing`) and skip what the code skips, and the process may die before
  any. The first matching rule decides; the longest prefix wins. Rules name the
  TUN device they were made for: `ant0` for the daemon, `ant1` or `-tun` for a
  client. iptables sees IPv4 only. Nothing in the program attaches the pf anchor
  to the main ruleset, so whether the host does is open (`attached`). A TUN
  device that is closed takes its routes along. A server on a loopback address,
  or whose name has no IPv4 address, gets the router's test mode. Three
  histories let the properties say what they rest on: `missed` are the needed
  commands of this connection that failed, `asked` is what was last asked of
  the kill switch and done, `left` has, for each DROP rule that a crash or a
  failed deletion left behind, the device it lets pass.
- **Client.** `main` walks through the statements of `main()`; each error path
  with `os.Exit` is an action of its own and runs no deferred call. Set-up
  calls put on the host whatever their commands could and main goes on. An undo
  call removes what it can; what it fails to remove is `stuck`. `Remains` is
  what no call removes: the ACCEPT rules of iptables, and resolvers that
  `RestoreDNS` empties instead of restoring them. On Linux `SetupDNS` does
  nothing. `Kill` is a signal before `signal.Notify`, `Signal` one after it.
  `RunDefer` is one deferred call, last registered first, while the three loops
  go on. The read loop of a stream (`FrameArrives`, `Push`, `ReadFails`) feeds
  the queue; `Break` is a connection that dies without anyone being told.
- **MobileBridge.** Every statement reads `globalEngine` afresh, so each call is
  split between its check and its uses. `start`, `stop` and the callbacks are
  one thread each; an ingress loop keeps its own pointer. `raced` marks engines
  made by a start that overlapped a stop.
- **Packet.** A byte is a cell that says where it comes from, an array a
  function, a slice its offset and length. Buffers are reused dirty, and what
  `ReadPacket` of the app does not set it takes from `Reset`. Packets come from
  and go to a TUN, a utun or the mobile app. The sizes are parameters in the
  order of the code's.
- **Launcher.** `file` is who made the socket file and whether it was made
  accessible; every call that names it reaches whichever file is there. A
  handler checks, launches, polls and gives up in separate steps; a daemon
  removes, listens, opens the file, serves, disconnects, closes, removes.
  Daemons are launched by ant-ui, or by hand or a service manager without a look
  (`StartByHand`), with the name that ant-ui uses or with another, as the
  LaunchDaemon of `build/macos` has it (`away`). `races` records the start
  requests that overlapped another one, gave up early or fell into the start or
  the shutdown of a daemon, and the starts by hand beside another daemon.

## 3. Runs

Bounds are the smallest under which the cases a property is about happen.

| Run | Bounds | Shows |
|---|---|---|
| `replay_window` | words of 3 bits, 14 counters: jumps below, at and above one and two words, and a window that slides over twice its length | the bitmap holds exactly the accepted numbers of the window (`BitmapIsHistory`); every answer is that of `AntiReplay` |
| `session` | two goroutines per side, window of 2, 4 counters, damage and wipe | no nonce twice (`NonceUnique`), no packet twice (`AtMostOnce`) also while `Wipe` resets the window, no refusal without a reason (`RefusalExplained`), `Channel` is implemented |
| `noise` | three attempts of two clients, three answers, two indices | `EndsAgree`, `KeysAreSeparate` |
| `server` | two clients on two transports, the first at the default address, two sessions (one each, or an initiation and its copy), goodbyes, a stop | `HeldSessionsLive`, `LearnedRoutesAreTheirs`, `PanicNeedsWipe`, `RouteHeals` |
| `daemon` | one IPC client and the signal, which exclude each other by `d.mu`; two connections, with and without kill switch | `AllOrNothing`, `HostRestored`, `PanicNeedsDisconnect` (of each connection's own loops and its own disconnect), `IngressEnds` |
| `tls_framing` | two writers, as antclient has them, three packets of one or two cells, queue of one, a cut anywhere | `PacketsArriveWhole`, `LoopsEnd` |
| `tls_server` | two connections from one address, queue of one, a `Send` and a `Close` at any moment | `EntriesAreServed` for the map and for what `Send` took from it; `NoHandlerHangs`, after `Close` too, with its one exception `StuckAtFirst` |
| `host` | Linux and macOS; three connections to three servers (one in test mode) by processes with two device names, hosts in both halves of IPv4 and one with IPv6, anchor attached or not, with and without kill switch; every command a property rests on may fail, a crash anywhere | `EnabledBlocks`, `TunnelPasses`, `DisabledIsOpen`, although the Linux rules of every connection pile up; on macOS `DarwinServerOutside`; each names the failures it excepts |
| `client` | Linux and macOS, every set of flags, every set of failing set-up and undo commands, UDP and stream, a queue of two: full, and full again while a packet waits | `EndReleasesHost`, `HostMatchesTunnel`, `SignalEnds`, `QueueIsServed` |
| `mobile` | two starts, any number of stops: a stop can meet the engine of a later start | `EnginesAreWhole`, `OrphanNeedsRace`, `PanicNeedsStop`, `StoppedEnginesEnd` |
| `packet` | two packets of every length from nothing to more than a buffer, every pair of devices, blocks below, at and above what a byte counts | `SlicesInArray`, `WireIsSealed`, `ArrivesIntact`, `DropHasReason`, `PaddingKeepsPacket` |
| `launcher` | two requests at a time, two daemons, launched, by hand or by a service manager, with the shared name or another, two polls, Unix socket and TCP port | `OneDaemon`, `ServingIsReachable` |

Every module states a `TypeOK`. The one of the bitmap, on which a proof rests,
is checked in `replay_window`; the others hold on the instances of their runs,
and those of `Daemon`, `MobileBridge`, `Server` and `Packet` are conjuncts of the
inductive invariants of section 5.

Symmetry is used where goroutines of one side (`session`) or the names of TUN
devices (`host`) are interchangeable. Deadlock is not checked where the system may really stop: counters
are used up, the process exits or panics, the connections are made.

## 4. Fairness

Where liveness is claimed, `FairSpec` (`ClientFairSpec`, `ListenerFairSpec`,
`FramingFairSpec`) names what it rests on. `Noise`, `HostNetwork`, `Packet` and
`Launcher` claim safety only and assume none.

- `Server`: a goroutine in the middle of a handler goes on (weak fairness: the
  Go scheduler); a client that keeps sending IPv4 packets gets one through
  again and again (strong fairness of `GetSession`: a lossy, not a severed,
  network).
- `Daemon`: a goroutine that can run runs; `Receive` on a closed transport does
  not return packets for ever (strong fairness of its error). Nothing is
  assumed of the server's answer to a handshake. `LockFairSpec` adds that a
  request which waits for `d.mu` gets it (`sync.Mutex` has a starvation mode);
  only the counterexample of `MCDaemonStatus` needs it.
- `Client`: goroutines that can run are scheduled. Nothing is assumed of the
  network, of the server or of the user.
- `MobileBridge`: a call of `StopTunnel` and the ingress loops are scheduled;
  `Receive` on a closed transport as above.
- `TLSFraming`, `TLSServer`: goroutines are scheduled, the 5-second deadline of
  the sniffing read expires, a broken connection fails the read once what had
  arrived is read (strong fairness, as frames may come in between), a handler
  that waits for room in the queue is served (strong fairness: Go channels are
  first come, first served). Nothing is assumed of writers or of the network.

## 5. Proofs

Every theorem holds for all values of the constants that the named `ASSUME`s
allow: any number of goroutines, clients, connections, engines, sessions,
attempts and servers, any word width, any buffer sizes. Every inductive
invariant was first checked by TLC on the instance of the component's run.

Four proof modules extend a second component, next to the one it works for.
Its specification has the name of the component in front for that reason:
`ClientSpec`, `ListenerSpec` (`TLSServer`), `UISpec` (`Launcher`), `FramingSpec`.

| Assumption | Says | In the code |
|---|---|---|
| `WordBitsAssumption`, `MaxCounterAssumption`, the other `Max` bounds, `DamageAssumption`, `KillSwitchAssumption` | bounds are numbers, a word has a bit, switches are Boolean | `uint64`, `bool` |
| `KeysAssumption` (`Noise`) | the ephemeral keys of the two sides differ | both are random |
| `NoneAssumption`, `ViaAssumption` (`Server`) | the value for "nothing" is no client or address; a client uses one transport | `nil`; a client dials one server address |
| `SizesAssumption`, `InputsAssumption` (`Packet`) | header, tag, prefix and block sizes are positive, the prefix is shorter than the header, a packet of the MTU fits a buffer with prefix or header and tag | 14, 16, 4; 1420 of 2048 |
| `LauncherAssumption` (`Launcher`) | the bounds on daemons and polls are numbers, the network is one of the two | six seconds of polls, `unix` or `tcp` |
| `MaxLengthAssumption` (`TLSFraming`) | a longest packet exists | two bytes hold the length |
| `SystemsAssumption`, `TestServersAssumption`, `AddressesAssumption`, `TunNamesAssumption`, `FailingAssumption` (`HostNetwork`) | hosts and servers are different addresses, each in one half of the address space; a TUN device has not the name of another interface; assignments do not fail, any command may | the two `/1` routes halve it; `ant0`, `lo` |

- **`ReplayWindowProofs`**: `BitmapCorrect`, `TypeCorrect` and `Refinement`
  (`Spec => ImplementsAntiReplay`). The inductive invariant is `TypeOK`,
  `TopIsLargest` and `BitmapIsHistory`: the bitmap alone does not say that
  nothing above `maxSeq` was accepted, which the case of a jump needs. The
  lemmas on word arithmetic come first. `SlideShifts`: after a slide by `diff`
  the bit at distance `e` is set exactly if `e >= diff` and the bit at
  `e - diff` was, whether `diff` is below a word, between one and two, or
  beyond the window. `AcceptSetsOneBit`, `AcceptIsForGood`.
- **`SessionProofs`**: `NoncesAreUnique`, `DeliveredAtMostOnce`,
  `RefusalsAreExplained` and `Refinement` (`Spec => ImplementsChannel`).
  `AtMostOnce` is not inductive. A goroutine between the window and the cipher
  *holds* a counter; while the window is whole, whoever holds a counter is
  alone with it (`ClaimsAreExclusive`). `Wipe` may reset the window while
  counters are held, and a copy can then be claimed again; but the cipher is
  nil by then (`WipeOrder`), so only goroutines that loaded it before can
  deliver, and those stay alone (`OpensAreExclusive`). On the sending side
  `CountersAreOwned` says that a counter handed out is below `sendCounter`,
  held by one goroutine and unused.
- **`NoiseProofs`**: `TheEndsAgree`, `KeysStaySeparate`. `EndsAgree` speaks of
  finished handshakes only; the invariant traces every value back to the call
  that made it (`InitsAreMade`, `Waiting`, `SessionsAreMade`, `RespsAreMade`). A
  response that opens under the initiator's hash names, through that hash, the
  initiation the responder saw, so the two ends computed on the same values
  (`Agreed`). That no two sessions share a key follows from the reply key in
  every one.
- **`ServerProofs`**: `SessionsStayLive`, `PanicsNeedWipe`,
  `ReturnsReachTheirClient`. `Owned`: what an ingress goroutine carries between
  its steps belongs to the client whose packet it read, so a goodbye wipes no
  other client's session (`Live`). `Routes` and `Returns`: an address only one
  client sends from (`OwnAddress`) leads to that client once it leads anywhere,
  entries are rewritten and never removed, so all three unlocked reads of the TUN
  goroutine see values of the same client.
- **`DaemonProofs`**: `WholeOrNotAtAll`, `HostIsRestored`,
  `PanicsNeedDisconnect`, and `TypeCorrect`. The properties speak of the time
  between requests. The invariant says, for every statement of
  `handleConnect` and `handleDisconnect`, which fields are set (`Fields`),
  which transports, devices and sessions are still open (`Resources`), what is
  on the host (`HostInv`) and that a connection which was not disconnected and
  whose loops run is the current and complete one (`Live`). Loops of earlier
  connections may be anywhere.
- **`MobileBridgeProofs`**: `WholeEngines`, `OrphansRaced`, `PanicsNeedStop`, and
  the action property `StopKeepsItsEngine`: while `StopTunnel` takes an engine
  apart nobody changes `globalEngine`. The reason (`Global`) is that a start past
  its checks found no engine, or one with which `StopTunnel` has finished but
  for its last assignment; `Parts` then gives the order in which an engine
  loses its parts.
- **`PacketProofs`**: `SlicesStayInArray`, `OnlySealedIsSent`,
  `PacketsArriveIntact`, `DropsHaveReasons`, `PaddingIsHarmless`. The run has one
  small buffer; the theorems hold for the code's sizes. Lemmas turn `copy`,
  concatenation and slices into statements about single cells; the invariant
  describes, for each stage, the buffer in use cell by cell (`AtSender`,
  `AtReceiver`, `Padded`) and says nothing of the cells around it, so what an
  earlier packet left there cannot matter.
- **`HostNetworkProofs`**: `KillSwitchBlocks`, `TunnelIsNotBlocked`,
  `DisableOpens`, `ServerStaysOutside`, with any command failing, a crash between
  any two and any number of connections on top of what earlier ones left. No
  hypothesis says that commands succeed: each property names, through `missed`,
  `asked` and `left`, the failures it excepts, and holds for all others. The
  invariant is about the commands still to run and which comes before which:
  unless its command failed, DROP is in force or will be appended before
  `enabled` is set (`Shut`); the rules for the server and the device stand, or
  will be added, before it (`Passing`); a disable comes before the end of a
  connection (`Off`); unless one was left behind there is one DROP rule at most
  and a process that knows of it (`Open`); on macOS the route to the server is
  added before and deleted after the routes into the tunnel (`Outside`). A
  failed command skips whole groups (`Calls`), so that these orders survive it.
- **`Client`** (in `HostNetworkProofs`): `EndsClean` and `DivertedIntoTunnel`.
  `EndReleasesHost` speaks of a client that has ended, and says nothing of
  the way there. The invariant is that a running client's deferred calls are
  the first so many to be deferred of a fixed list of six (`Stack(k)`), and that
  their number bounds what there is to undo: what is on the host, but for
  `stuck` and `Remains`, is among what these calls remove (`Held(k)`), and the
  number says whether the device is open and whether keys and transport are
  still there (`Due(k)`). `DueAt` gives the number from the statement main is at
  and from the flags. A step of main adds calls as it changes the host, a
  deferred call takes itself away and its change or, when it fails, marks that
  `stuck`; the three loops touch neither. Between `SetupRoutes` and `SetupDNS`
  the host has routes and no call is due for them; `Due` says so, and `os.Exit`
  is not reached from there.
- **`TLSServer`** (in `ServerProofs`): `ServedEntries`. Only `Register` writes an
  entry, `CleanUp` empties it before its handler closes and ends, and the late
  clean-up that deletes the entry of another connection removes too much and
  never too little. What `Send` has found was registered under its address once
  (`Found`), and a handler past that point closes its connection before it
  ends, so it cannot become a probe's or another client's.
- **`Launcher`** (in `DaemonProofs`): `AtMostOneDaemon` and
  `ServingDaemonIsReachable`, about the daemons of the shared name, whoever
  starts daemons and under whatever other names. Both hold while nothing was
  raced (`races = {}`); after a start by hand beside another daemon, or a
  request that was overtaken, neither does. The invariant: at most one request
  is between its check and the end of its polling, there is at most one daemon,
  and none when a request is about to launch one (`OneLaunch`); a daemon whose
  prompt is open is awaited by its request, one that comes up finds its address
  free when it binds it, and is the one that the address leads to from then
  until it closes its listener (`Behind`). So the check of a start request that
  finds nothing is right about all but what `Unseen` records. `Books` says that
  daemons get their numbers in order and that those of another name do not touch
  the file; that the next number is free is a fact about cardinality
  (`FreshDaemon`).
- **`TLSFraming`** (in `PacketProofs`): `WholePackets`. The property compares
  frames with packets; the invariant describes the bytes in between, for any
  number of them. Every cell of the stream belongs to a packet that was sent or
  is being sent (`CellsAre`); the cell `m` places after another is the one `m`
  further in the same packet, or, where that ends, the length of the next
  (`InOrder`); the stream ends where the writer is (`EndIs`) and starts where
  the read loop is (`StartIs`). A cut removes an end of the stream, and the
  parts that speak of the end hold only while the connection is up. From this,
  `need` cells read after a length are the packet of that length
  (`ReadBodyStep`). There may be any number of writers; as long as no `Send` began
  between the writes of another (`~ mixed`), at most one of them is between its
  two writes (`Alone`). Without that, `MCTLSFramingTwoWriters` is the
  counterexample.

With these every invariant and every refinement that a run checks is also
proved. Only model-checked is all liveness (`RouteHeals`, `IngressEnds`,
`LoopsEnd`, `NoHandlerHangs`, `SignalEnds`, `QueueIsServed`,
`StoppedEnginesEnd`), which is out of the prover's reach: it needs `ENABLED` and
fairness.

## 6. Where code and words differ

The runs of section 3 all hold. The configurations below state what a comment,
a log line or a reader would expect and the code does not do; TLC prints the
shortest counterexample. They are kept for whoever changes that code. For most,
a property of a run says how far the code does keep the promise
(`PanicNeedsDisconnect`, `DropHasReason`, `OneDaemon`, ...); such a property
excepts the case below and does not catch it, and the hazards in `PROJECT.json`
say so.

| Configuration (module) | Property | Counterexample |
|---|---|---|
| `MCSessionRefusal` (`MCSession`) | `GenuineRefusedOnlyIfReplayedOrOld` | a damaged datagram claims a counter before it fails to authenticate |
| `MCServerRoutes` (`MCServer`), without the second | `RoutesByVirtualIP` | another client's keepalive takes the default address |
| `MCServerRoutes` | `SentToItsSession` | session of one client, address of another, between two reads of a peer |
| `MCServerGoodbye` (`MCServer`) | `GoodbyeIsClean` | the peer table leads to a wiped session |
| `MCDaemonStatus` (`Daemon`) | `StatusIsAnswered` | a silent server keeps the mutex held |
| `MCDaemonPanic` (`Daemon`) | `DisconnectIsClean` | a disconnect wipes the session while a packet is on its way through a loop; the loop calls the nil cipher and the daemon panics |
| `MCDaemonExit` (`Daemon`) | `ExitRestoresHost` | a connect gets `d.mu` between main's disconnect and its exit |
| `MCTLSFramingTwoWriters` (`TLSFraming`) | `SendsAreFramed` | the TUN loop and the keepalive loop of the client interleave the two writes of `Send`, and the reader loses the frames |
| `MCTLSServerReuse` (`MCTLSServer`) | `ActiveAreRegistered` | a late clean-up deletes the entry of a newer connection |
| `MCTLSServerClose` (`MCTLSServer`) | `CloseTerminates` | a connection registers after `Close` has walked the map |
| `MCHostLinuxCrash` (`MCHostNetwork`) | `DisabledIsAlwaysOpen` | a DROP rule of a process that died stays |
| `MCHostLinuxFails` (`MCHostNetwork`) | `IsEnabledBlocks` | `enabled` is set although the DROP rule failed, although iptables does not see IPv6, or although pf does not evaluate the anchor |
| `MCHostLinuxLoop` (`MCHostNetwork`) | `NoRoutingLoop` | with the empty gateway that both programs pass, the Linux router adds the `/1` routes and no route to the server |
| `MCHostLinuxResidue` (`MCHostNetwork`) | `OnlyServerPasses` | the ACCEPT rule of an earlier server stays |
| `MCHostDarwinDNS` (`MCHostNetwork`) | `DNSRestored` | the resolvers of the host are not remembered |
| `MCPacketPadding` (`Packet`) | `UnpadRestores` | with a block of more than 256 bytes the pad length does not fit its byte and too little is removed |
| `MCClientEarlySignal` (`Client`) | `HostAlwaysRestored` | a signal before `signal.Notify` ends the client with its rules and its route to the server in place |
| `MCMobileClean` (`MobileBridge`) | `StopIsClean` | a callback passes its check of `globalEngine`, which is nil when it is used |
| `MCLauncherTwo` (`Launcher`) | `NeverTwoDaemons` | a start request finds no daemon while another one, launched or started by hand, is still coming up |

## 7. Not modelled

- Flags, `ant://` URLs, key files, certificates, logging, memory zeroing, the
  bodies and pages of the UI, where its executable is found, NAT set-up,
  interface ioctls and packaging: input and output with no state a property
  could speak of. `ApplyJitter` only sleeps.
- Windows: the router adds and deletes its two routes and ignores every error,
  it has no route to the server and no DNS, and the kill switch only returns an
  error. (The TCP port of its IPC is in `Launcher`.)
- The server side of the WebSocket transport, which no program starts, and the
  relay mode of the server.
- An ant-ui that was given a `-sock` of its own: the name it looks at is the
  shared one of `Launcher`.
- Two things the models cannot show and a reader should know: no program calls
  the padding of `pkg/obfuscation`, although `README.md:19` says that packets
  are padded; and `router_linux.go` imports packages it does not use, which the
  Go compiler refuses. `HostNetwork` models what its functions say.
- Collisions of `GenerateIndex`: in `Server` an index is taken not to be in use
  (32 random bits); in `Noise` indices may coincide.
- 64-bit counters do not wrap in any run of the program and are bounded by
  `MaxCounter`.

## 8. Plan

Done: the core (window, session, handshake), the server, the daemon, TLS, the
host, the client, the mobile bridge, packets and buffers, the launcher; a proof
of every safety property of the runs.

What could follow, in this order:

1. `Daemon` composed with `HostNetwork`, so that the commands of a disconnect
   meet the loops;
2. indices that repeat, in `Server`.
