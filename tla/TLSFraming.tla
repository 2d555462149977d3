------------------------------ MODULE TLSFraming ------------------------------
(***************************************************************************)
(* One direction of one TLS connection of pkg/transport/tls.go: the        *)
(* goroutines that call Send on it, the byte stream, the read loop at the  *)
(* other end (clientReadLoop, or the loop of handleServerConn, which is    *)
(* the same code), its queue, and the goroutine that calls Receive.        *)
(*                                                                         *)
(* Send makes two calls of conn.Write, one for the length and one for the  *)
(* packet, and holds no lock over both; a call is atomic (tls.Conn locks   *)
(* its outgoing half).  The stream is a sequence of cells: the two bytes   *)
(* of a length are one cell, a packet of length n is n cells.              *)
(***************************************************************************)
EXTENDS Integers, Sequences, SequencesExt

CONSTANTS
    Writers,       \* goroutines that call Send on the connection
    MaxLength,     \* buffer.DefaultBufferSize, in cells
    QueueSize,     \* capacity of t.incoming, 1024 in the code
    MaxSends       \* bound on the packets sent

ASSUME MaxLengthAssumption == MaxLength \in Nat \ {0}
ASSUME QueueSizeAssumption == QueueSize \in Nat \ {0}
ASSUME MaxSendsAssumption == MaxSends \in Nat

VARIABLES
    writer,        \* where each writer is in Send, and its packet
    sent,          \* history: the packets in the order their bodies were written
    started,       \* number of calls of Send so far; names the packets
    stream,        \* cells written and not read yet
    up,            \* the connection
    reader,        \* the read loop
    incoming,      \* t.incoming
    received,      \* history: the frames Receive has returned
    caller,        \* the goroutine that loops over Receive
    closed,        \* how far Close is at the reading end
    mixed          \* history: a Send began between the two writes of another

framingVars == <<writer, sent, started, stream, up, reader, incoming, received, caller, closed,
                 mixed>>

-----------------------------------------------------------------------------
Packets == [id : 1 .. MaxSends, length : 1 .. MaxLength]
NoPacket == [id |-> 0, length |-> 0]

LengthCell(p) == [id |-> p.id, at |-> 0, length |-> p.length]

\* The cells of a packet, and of the frame a reader should make of it.
Body(p) == [i \in 1 .. p.length |-> [id |-> p.id, at |-> i, length |-> p.length]]

\* What the two bytes at the head of the stream say when they are taken for
\* a length: the length, if they are one, else anything.
ReadAsLength(cell) == IF cell.at = 0 THEN {cell.length} ELSE 0 .. MaxLength + 1

IdleWriter == [pc |-> "idle", packet |-> NoPacket]
ReaderAt(pc, need, frame) == [pc |-> pc, need |-> need, frame |-> frame]

FramingInit ==
    /\ writer = [w \in Writers |-> IdleWriter]
    /\ sent = <<>>
    /\ started = 0
    /\ stream = <<>>
    /\ up = TRUE
    /\ reader = ReaderAt("length", 0, <<>>)
    /\ incoming = <<>>
    /\ received = <<>>
    /\ caller = "receiving"
    /\ closed = "no"
    /\ mixed = FALSE

-----------------------------------------------------------------------------
(* Send                                                                    *)

WriteLength(w, length) ==
    /\ writer[w].pc = "idle" /\ up
    /\ started < MaxSends
    /\ started' = started + 1
    /\ LET p == [id |-> started + 1, length |-> length]
       IN  /\ writer' = [writer EXCEPT ![w] = [pc |-> "body", packet |-> p]]
           /\ stream' = Append(stream, LengthCell(p))
    /\ mixed' = (mixed \/ \E v \in Writers : writer[v].pc = "body")
    /\ UNCHANGED <<sent, up, reader, incoming, received, caller, closed>>

WriteBody(w) ==
    /\ writer[w].pc = "body" /\ up
    /\ stream' = stream \o Body(writer[w].packet)
    /\ sent' = Append(sent, Body(writer[w].packet))
    /\ writer' = [writer EXCEPT ![w] = IdleWriter]
    /\ UNCHANGED <<mixed, started, up, reader, incoming, received, caller, closed>>

\* The connection broke after the length: an error, which callers ignore.
WriteFails(w) ==
    /\ writer[w].pc = "body" /\ ~ up
    /\ writer' = [writer EXCEPT ![w] = IdleWriter]
    /\ UNCHANGED <<mixed, sent, started, stream, up, reader, incoming, received, caller, closed>>

\* The network or the writing end breaks the connection; what is under way
\* may be cut anywhere.
Break ==
    /\ up
    /\ up' = FALSE
    /\ \E n \in 0 .. Len(stream) : stream' = SubSeq(stream, 1, n)
    /\ UNCHANGED <<mixed, writer, sent, started, reader, incoming, received, caller, closed>>

-----------------------------------------------------------------------------
(* The read loop                                                           *)

\* A length of 0 or more than DefaultBufferSize ends the loop.
ReadLength ==
    /\ reader.pc = "length" /\ stream # <<>>
    /\ \E n \in ReadAsLength(Head(stream)) :
          reader' = IF n \in 1 .. MaxLength THEN ReaderAt("body", n, <<>>)
                                            ELSE ReaderAt("done", 0, <<>>)
    /\ stream' = Tail(stream)
    /\ UNCHANGED <<mixed, writer, sent, started, up, incoming, received, caller, closed>>

\* mutant: conn.Read in place of io.ReadFull returns what there is
ReadBodyOnce ==
    /\ reader.pc = "body" /\ stream # <<>>
    /\ LET n == IF reader.need < Len(stream) THEN reader.need ELSE Len(stream)
       IN  /\ reader' = ReaderAt("push", 0, SubSeq(stream, 1, n))
           /\ stream' = SubSeq(stream, n + 1, Len(stream))
    /\ UNCHANGED <<mixed, writer, sent, started, up, incoming, received, caller, closed>>

\* io.ReadFull returns when the whole body is there.
ReadBody ==
    /\ reader.pc = "body" /\ reader.need <= Len(stream)
    /\ reader' = ReaderAt("push", 0, SubSeq(stream, 1, reader.need))
    /\ stream' = SubSeq(stream, reader.need + 1, Len(stream))
    /\ UNCHANGED <<mixed, writer, sent, started, up, incoming, received, caller, closed>>

\* The connection ended, or was closed here, before io.ReadFull had enough.
ReadFails ==
    /\ \/ reader.pc = "length" /\ stream = <<>>
       \/ reader.pc = "body" /\ reader.need > Len(stream)
    /\ ~ up
    /\ reader' = ReaderAt("done", 0, <<>>)
    /\ UNCHANGED <<mixed, writer, sent, started, stream, up, incoming, received, caller, closed>>

Push ==
    /\ reader.pc = "push" /\ Len(incoming) < QueueSize
    /\ incoming' = Append(incoming, reader.frame)
    /\ reader' = ReaderAt("length", 0, <<>>)
    /\ UNCHANGED <<mixed, writer, sent, started, stream, up, received, caller, closed>>

\* mutant: the queue alone is waited for
PushWaits == FALSE /\ UNCHANGED framingVars

\* case <-t.closed
PushStops ==
    /\ reader.pc = "push" /\ closed # "no"
    /\ reader' = ReaderAt("done", 0, <<>>)
    /\ UNCHANGED <<mixed, writer, sent, started, stream, up, incoming, received, caller, closed>>

-----------------------------------------------------------------------------
(* Receive and Close                                                       *)

Receive ==
    /\ caller = "receiving" /\ incoming # <<>>
    /\ received' = Append(received, Head(incoming))
    /\ incoming' = Tail(incoming)
    /\ UNCHANGED <<mixed, writer, sent, started, stream, up, reader, caller, closed>>

\* "tls transport closed"; select picks at random when a packet is queued
\* too.  The ingress loops end on this error, the programs having closed
\* their stop channel first.
ReceiveFails ==
    /\ caller = "receiving" /\ closed # "no"
    /\ caller' = "done"
    /\ UNCHANGED <<mixed, writer, sent, started, stream, up, reader, incoming, received, closed>>

\* close(t.closed) ...
CloseChannel ==
    /\ closed = "no"
    /\ closed' = "channel"
    /\ UNCHANGED <<mixed, writer, sent, started, stream, up, reader, incoming, received, caller>>

\* ... and then the connection: the unread stream is lost.
CloseConn ==
    /\ closed = "channel"
    /\ closed' = "yes"
    /\ up' = FALSE
    /\ stream' = <<>>
    /\ UNCHANGED <<mixed, writer, sent, started, reader, incoming, received, caller>>

-----------------------------------------------------------------------------
FramingNext ==
    \/ \E w \in Writers, length \in 1 .. MaxLength : WriteLength(w, length)
    \/ \E w \in Writers : WriteBody(w) \/ WriteFails(w)
    \/ Break
    \/ ReadLength \/ ReadBody \/ ReadFails \/ Push \/ PushStops
    \/ Receive \/ ReceiveFails
    \/ CloseChannel \/ CloseConn

FramingSpec == FramingInit /\ [][FramingNext]_framingVars

\* The runtime schedules the read loop, the caller of Receive and the rest
\* of a Close that was begun.  Nothing is assumed of writers or the network.
FramingFairness ==
    /\ WF_framingVars(ReadLength \/ ReadBody \/ ReadFails \/ Push \/ PushStops)
    /\ WF_framingVars(ReceiveFails)
    /\ WF_framingVars(CloseConn)

FramingFairSpec == FramingSpec /\ FramingFairness

-----------------------------------------------------------------------------
StreamCells == [id : 1 .. MaxSends, at : 0 .. MaxLength, length : 1 .. MaxLength]

FramingTypeOK ==
    /\ writer \in [Writers -> [pc : {"idle", "body"}, packet : Packets \cup {NoPacket}]]
    /\ started \in 0 .. MaxSends
    /\ Range(stream) \subseteq StreamCells
    /\ reader.pc \in {"length", "body", "push", "done"}
    /\ reader.need \in 0 .. MaxLength
    /\ Len(incoming) <= QueueSize
    /\ caller \in {"receiving", "done"}
    /\ closed \in {"no", "channel", "yes"}
    /\ mixed \in BOOLEAN

Pushing == IF reader.pc = "push" THEN <<reader.frame>> ELSE <<>>

\* What the read loop has made of the stream, and not dropped.
Frames == received \o incoming \o Pushing

\* Wherever the connection is cut, and however many goroutines send, the
\* frames the other end makes of the stream are the packets that were sent,
\* whole and in the order of their writes, as long as no Send began between
\* the two writes of another (tls.go:278-281): the length that was written
\* last is always the one of the body that follows.
PacketsArriveWhole == ~ mixed => IsPrefix(Frames, sent)

\* After Close both goroutines of the transport end, also when the queue is
\* full and nobody empties it any more.
LoopsEnd == closed # "no" ~> (reader.pc = "done" /\ caller = "done")

-----------------------------------------------------------------------------
(* What the comments say.                                                  *)

\* Send "transmits the packet buffer over TLS with a 2-byte frame length
\* prefix", whoever else sends.
SendsAreFramed == IsPrefix(Frames, sent)
=============================================================================
