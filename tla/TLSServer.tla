------------------------------ MODULE TLSServer ------------------------------
(***************************************************************************)
(* The server side of pkg/transport/tls.go: the accept loop, one           *)
(* handleServerConn per connection with its sniffing, its decoy answer and *)
(* its deferred clean-up, the map of connections by remote address that    *)
(* Send consults, the shared queue, and Close.                             *)
(*                                                                         *)
(* How a frame travels is in TLSFraming; here a frame is one arrival and   *)
(* the queue a number.                                                     *)
(***************************************************************************)
EXTENDS Integers

CONSTANTS
    Conns,         \* TCP connections clients make in the course of a run
    Addr,          \* the remote address of each
    QueueSize,     \* capacity of t.incoming
    NoConn

ASSUME QueueSizeAssumption == QueueSize \in Nat \ {0}

VARIABLES
    handler,       \* where handleServerConn of each connection is
    open,          \* connections this end has accepted and not closed
    gone,          \* connections the client has reset
    connections,   \* t.connections
    queued,        \* packets in t.incoming
    sending,       \* the address Send was called with, and what it found
    caller,        \* the server's ingress loop: in Receive, or ended
    closing        \* how far Close is

listenerVars == <<handler, open, gone, connections, queued, sending, caller, closing>>

Addrs == {Addr[c] : c \in Conns}
Registered == {"first", "push first", "loop", "push", "cleanup"}
NotSending == [addr |-> NoConn, conn |-> NoConn]

ListenerInit ==
    /\ handler = [c \in Conns |-> "none"]
    /\ open = {}
    /\ gone = {}
    /\ connections = [a \in Addrs |-> NoConn]
    /\ queued = 0
    /\ sending = NotSending
    /\ caller = "receiving"
    /\ closing = "no"

\* A read on the connection can return data, or an error.
Readable(c) == c \in open
Broken(c) == c \notin open \/ c \in gone

Goto(c, pc) == handler' = [handler EXCEPT ![c] = pc]

-----------------------------------------------------------------------------
(* The accept loop and the client                                          *)

\* A client may use its address again once it has reset the connection it
\* had: the kernel has forgotten that one, its handler may not have.
Accept(c) ==
    /\ closing # "yes"
    /\ handler[c] = "none"
    /\ \A k \in Conns : Addr[k] = Addr[c] /\ k \in open => k \in gone
    /\ open' = open \cup {c}
    /\ Goto(c, "sniff")
    /\ UNCHANGED <<sending, gone, connections, queued, caller, closing>>

Reset(c) ==
    /\ c \in open \ gone
    /\ gone' = gone \cup {c}
    /\ UNCHANGED <<sending, handler, open, connections, queued, caller, closing>>

-----------------------------------------------------------------------------
(* handleServerConn                                                        *)

\* Two bytes do not come within 5 seconds, or the connection breaks.
SniffFails(c) ==
    /\ handler[c] = "sniff"
    /\ open' = open \ {c}
    /\ Goto(c, "ended")
    /\ UNCHANGED <<sending, gone, connections, queued, caller, closing>>

\* "GE", "PO" or "HE": the decoy page and an end.
Decoy(c) ==
    /\ handler[c] = "sniff" /\ Readable(c)
    /\ open' = open \ {c}
    /\ Goto(c, "ended")
    /\ UNCHANGED <<sending, gone, connections, queued, caller, closing>>

\* Anything else is the length of a first packet: a tunnel connection.
Register(c) ==
    /\ handler[c] = "sniff" /\ Readable(c)
    /\ connections' = [connections EXCEPT ![Addr[c]] = c]
    /\ Goto(c, "first")
    /\ UNCHANGED <<sending, open, gone, queued, caller, closing>>

\* The first packet is read.
FirstPacket(c) ==
    /\ handler[c] = "first" /\ Readable(c)
    /\ Goto(c, "push first")
    /\ UNCHANGED <<sending, open, gone, connections, queued, caller, closing>>

\* Its length is 0 or too large, or reading it fails: on to the loop.
SkipFirst(c) ==
    /\ handler[c] = "first"
    /\ Goto(c, "loop")
    /\ UNCHANGED <<sending, open, gone, connections, queued, caller, closing>>

\* The first packet waits for room in the queue and for nothing else.
PushFirst(c) ==
    /\ handler[c] = "push first" /\ queued < QueueSize
    /\ queued' = queued + 1
    /\ Goto(c, "loop")
    /\ UNCHANGED <<sending, open, gone, connections, caller, closing>>

ReadFrame(c) ==
    /\ handler[c] = "loop" /\ Readable(c)
    /\ Goto(c, "push")
    /\ UNCHANGED <<sending, open, gone, connections, queued, caller, closing>>

\* mutant: a read error is tried again
ReadEndsUnlessBroken(c) ==
    /\ handler[c] = "loop" /\ ~ Broken(c)
    /\ Goto(c, "cleanup")
    /\ UNCHANGED <<sending, open, gone, connections, queued, caller, closing>>

\* A bad length, which a client may send at any time, or a read error.
ReadEnds(c) ==
    /\ handler[c] = "loop"
    /\ Goto(c, "cleanup")
    /\ UNCHANGED <<sending, open, gone, connections, queued, caller, closing>>

Push(c) ==
    /\ handler[c] = "push" /\ queued < QueueSize
    /\ queued' = queued + 1
    /\ Goto(c, "loop")
    /\ UNCHANGED <<sending, open, gone, connections, caller, closing>>

PushStops(c) ==
    /\ handler[c] = "push" /\ closing # "no"
    /\ Goto(c, "cleanup")
    /\ UNCHANGED <<sending, open, gone, connections, queued, caller, closing>>

\* mutant: the deferred function closes and forgets to delete
CleanUpKeepsEntry(c) ==
    /\ handler[c] = "cleanup"
    /\ Goto(c, "close")
    /\ UNCHANGED <<sending, open, gone, connections, queued, caller, closing>>

\* The deferred function: whatever the map has under the address is
\* deleted ...
CleanUp(c) ==
    /\ handler[c] = "cleanup"
    /\ connections' = [connections EXCEPT ![Addr[c]] = NoConn]
    /\ Goto(c, "close")
    /\ UNCHANGED <<sending, open, gone, queued, caller, closing>>

\* ... and, with t.mu released, the connection closed.
CloseConn(c) ==
    /\ handler[c] = "close"
    /\ open' = open \ {c}
    /\ Goto(c, "ended")
    /\ UNCHANGED <<sending, gone, connections, queued, caller, closing>>

-----------------------------------------------------------------------------
(* Send of the server                                                      *)

\* The look-up, under t.mu.RLock; without an entry Send is over.
SendLookup(a) ==
    /\ sending = NotSending /\ connections[a] # NoConn
    /\ sending' = [addr |-> a, conn |-> connections[a]]
    /\ UNCHANGED <<handler, open, gone, connections, queued, caller, closing>>

\* The two writes, after RUnlock, to what was found; the callers ignore
\* their errors.
SendWrite ==
    /\ sending # NotSending
    /\ sending' = NotSending
    /\ UNCHANGED <<handler, open, gone, connections, queued, caller, closing>>

-----------------------------------------------------------------------------
(* Receive and Close                                                       *)

Receive ==
    /\ caller = "receiving" /\ queued > 0
    /\ queued' = queued - 1
    /\ UNCHANGED <<sending, handler, open, gone, connections, caller, closing>>

\* The server's ingress loop returns on the error.
ReceiveFails ==
    /\ caller = "receiving" /\ closing # "no"
    /\ caller' = "ended"
    /\ UNCHANGED <<sending, handler, open, gone, connections, queued, closing>>

CloseChannel ==
    /\ closing = "no"
    /\ closing' = "channel"
    /\ UNCHANGED <<sending, handler, open, gone, connections, queued, caller>>

\* Under t.mu: the connections that are in the map now.
CloseConnections ==
    /\ closing = "channel"
    /\ open' = open \ {connections[a] : a \in Addrs}
    /\ closing' = "connections"
    /\ UNCHANGED <<sending, handler, gone, connections, queued, caller>>

CloseListener ==
    /\ closing = "connections"
    /\ closing' = "yes"
    /\ UNCHANGED <<sending, handler, open, gone, connections, queued, caller>>

-----------------------------------------------------------------------------
HandlerNext(c) ==
    \/ SniffFails(c) \/ Decoy(c) \/ Register(c)
    \/ FirstPacket(c) \/ SkipFirst(c) \/ PushFirst(c)
    \/ ReadFrame(c) \/ ReadEnds(c) \/ Push(c) \/ PushStops(c)
    \/ CleanUp(c) \/ CloseConn(c)

ListenerNext ==
    \/ \E c \in Conns : Accept(c) \/ Reset(c) \/ HandlerNext(c)
    \/ \E a \in Addrs : SendLookup(a)
    \/ SendWrite
    \/ Receive \/ ReceiveFails
    \/ CloseChannel \/ CloseConnections \/ CloseListener

ListenerSpec == ListenerInit /\ [][ListenerNext]_listenerVars

\* The runtime schedules a handler that can go on without its client: the
\* sniffing deadline expires, a read on a broken connection fails once the
\* frames that had arrived are used up, the queue has room, the transport is
\* closed.  A Close that was begun goes on, and the ingress loop keeps
\* receiving until it sees the error.
ListenerFairness ==
    /\ \A c \in Conns :
          /\ WF_listenerVars(SniffFails(c))
          /\ SF_listenerVars(Broken(c) /\ (SkipFirst(c) \/ ReadEnds(c)))
          /\ SF_listenerVars(PushFirst(c))
          /\ SF_listenerVars(Push(c) \/ PushStops(c))
          /\ WF_listenerVars(CleanUp(c))
          /\ WF_listenerVars(CloseConn(c))
    /\ WF_listenerVars(Receive)
    /\ WF_listenerVars(ReceiveFails)
    /\ WF_listenerVars(CloseConnections)
    /\ WF_listenerVars(CloseListener)

ListenerFairSpec == ListenerSpec /\ ListenerFairness

-----------------------------------------------------------------------------
ListenerTypeOK ==
    /\ handler \in [Conns -> {"none", "sniff", "close", "ended"} \cup Registered]
    /\ open \subseteq Conns /\ gone \subseteq Conns
    /\ connections \in [Addrs -> Conns \cup {NoConn}]
    /\ queued \in 0 .. QueueSize
    /\ sending \in [addr : Addrs, conn : Conns] \cup {NotSending}
    /\ caller \in {"receiving", "ended"}
    /\ closing \in {"no", "channel", "connections", "yes"}

\* A packet goes to the connection it is meant for or to none.  What the
\* map has under an address is a connection from there whose handler is
\* alive and past sniffing; and what Send writes to, when the look-up is over
\* and clean-ups, resets and new connections may have come between, is
\* still a tunnel connection from that address or closed: never a probe
\* that is shown the decoy, and never a connection somebody else made.
EntriesAreServed ==
    /\ \A a \in Addrs :
          connections[a] # NoConn =>
              Addr[connections[a]] = a /\ handler[connections[a]] \in Registered
    /\ sending # NotSending =>
          /\ Addr[sending.conn] = sending.addr
          /\ sending.conn \in open => handler[sending.conn] \in Registered \cup {"close"}

\* The push of the first packet has no case for t.closed (tls.go:219): with
\* the queue full and the ingress loop gone it waits for ever.
StuckAtFirst(c) == handler[c] = "push first" /\ queued = QueueSize /\ caller = "ended"

\* A connection does not stay in the sniffing stage, whatever its client does
\* or does not send.  One that its client has reset is cleaned up and its
\* handler gone in the end, with a full queue, and during and after a Close,
\* unless it is stuck with its first packet in a queue that nobody empties
\* any more: the one place where a handler hangs.
NoHandlerHangs ==
    \A c \in Conns :
        /\ handler[c] = "sniff" ~> handler[c] # "sniff"
        /\ c \in gone ~> (handler[c] = "ended" \/ StuckAtFirst(c))

-----------------------------------------------------------------------------
(* What the comments say.                                                  *)

\* "Server-side active client connections": the map has every connection
\* that serves a client, so that Send can reach it.
ActiveAreRegistered ==
    \A c \in Conns :
        handler[c] \in Registered \ {"cleanup"} /\ c \in open \ gone =>
            connections[Addr[c]] = c

\* "Close terminates the TLS transport."
CloseTerminates ==
    closing = "yes" ~> \A c \in Conns : handler[c] \in {"none", "ended"}
=============================================================================
