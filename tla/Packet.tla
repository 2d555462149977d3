-------------------------------- MODULE Packet --------------------------------
(***************************************************************************)
(* One packet on its way through the pooled buffers of pkg/buffer: read    *)
(* from a device, sealed, given a header, sent, received into another      *)
(* buffer, told from a handshake, opened and written to a device.  All is  *)
(* done in place with an offset and a length, over whatever an earlier     *)
(* packet left in the array.                                               *)
(*                                                                         *)
(* A byte is a cell <<kind, i>>: the i-th byte of the IP packet, of its    *)
(* ciphertext, of the tag, of the header, of the utun family prefix, or a  *)
(* number that padding wrote.  Keys, counters and loss are Session's.      *)
(***************************************************************************)
EXTENDS Integers, Sequences

CONSTANTS
    BufferSize,     \* buffer.DefaultBufferSize, 2048 in the code
    HeaderSize,     \* 14
    TagSize,        \* 16
    FamilySize,     \* 4, the prefix of a packet on a utun device
    InitSize,       \* NoiseHandshakeInitSize, 108
    MTU,            \* tun.DefaultMTU, 1420
    ByteRange,      \* 256
    DefaultBlockSize, MaxBlockSize,   \* 128 and 512
    Blocks,         \* block sizes that are asked for
    Lengths,        \* lengths of the packets an app hands over
    MaxPackets      \* bound on the packets

ASSUME SizesAssumption ==
    /\ {HeaderSize, TagSize, FamilySize, ByteRange, DefaultBlockSize, MaxBlockSize}
            \subseteq Nat \ {0}
    /\ {BufferSize, InitSize, MTU} \subseteq Nat
    /\ FamilySize < HeaderSize
    /\ FamilySize + MTU + TagSize <= BufferSize
    /\ HeaderSize + MTU + TagSize <= BufferSize
ASSUME InputsAssumption == Lengths \subseteq Nat /\ Blocks \subseteq Int
ASSUME MaxPacketsAssumption == MaxPackets \in Nat

VARIABLES
    stage,          \* how far the packet is
    n,              \* its length
    source,         \* the device it comes from
    sbuf, rbuf,     \* the buffers at the two ends
    wire,           \* the bytes sent
    role,           \* who receives it: "server", "client" or "none" yet
    out,            \* the bytes written to the device
    block,          \* the block size of PadPacket
    count           \* packets so far

vars == <<stage, n, source, sbuf, rbuf, wire, role, out, block, count>>

-----------------------------------------------------------------------------
(* PacketBuffer                                                            *)

Cells(kind, length) == [i \in 1 .. length |-> <<kind, i>>]

\* copy(data[at:], s); what does not fit is cut off.
Write(data, at, s) ==
    [k \in DOMAIN data |-> IF k - at + 1 \in DOMAIN s THEN s[k - at + 1] ELSE data[k]]

Bytes(b) == [i \in 1 .. b.length |-> b.data[b.offset + i - 1]]

\* What Bytes slices lies in the array; otherwise the program panics.
InArray(b) == b.offset >= 0 /\ b.length >= 0 /\ b.offset + b.length <= BufferSize

\* Reset, by Get, Put and every Receive.
Reset(b) == [b EXCEPT !.offset = 0, !.length = 0]

-----------------------------------------------------------------------------
(* Devices                                                                 *)

\* ReadPacket of tun_linux, ReadPacket of tun_darwin, OnPacketFromDevice;
\* the last leaves the offset as it finds it.
ReadPacket(b, device, p) ==
    CASE device = "tun"  -> [data |-> Write(b.data, 0, p), offset |-> 0, length |-> Len(p)]
      [] device = "utun" -> [data |-> Write(b.data, 0, Cells("family", FamilySize) \o p),
                             offset |-> FamilySize, length |-> Len(p)]
      [] device = "app"  -> [b EXCEPT !.data = Write(b.data, 0, p), !.length = Len(p)]

\* mutant: the slice starts at the prefix and has the packet's length
WrittenShort(b, device) ==
    IF device = "utun"
    THEN Bytes([b EXCEPT !.data = Write(@, b.offset - FamilySize, Cells("family", FamilySize)),
                         !.offset = @ - FamilySize])
    ELSE Bytes(b)

\* The bytes WritePacket hands to the kernel.  An empty packet is not
\* written.  On utun the prefix goes before the packet, over the header
\* that was there.
Written(b, device) ==
    IF b.length = 0 THEN <<>>
    ELSE IF device = "utun"
    THEN IF b.offset >= FamilySize
         THEN Bytes([data   |-> Write(b.data, b.offset - FamilySize, Cells("family", FamilySize)),
                     offset |-> b.offset - FamilySize, length |-> b.length + FamilySize])
         ELSE Cells("family", FamilySize) \o Bytes(b)
    ELSE Bytes(b)

-----------------------------------------------------------------------------
(* AEAD in place                                                           *)

Seal(p) == [i \in DOMAIN p |-> <<"sealed", p[i]>>] \o Cells("tag", TagSize)

\* The tag is genuine if what precedes it is what was sealed.
Opens(c) ==
    /\ SubSeq(c, Len(c) - TagSize + 1, Len(c)) = Cells("tag", TagSize)
    /\ \A i \in 1 .. Len(c) - TagSize : c[i] = <<"sealed", <<"ip", i>>>>

CanEncrypt(b) == b.offset + b.length + TagSize <= BufferSize

EncryptInPlace(b) ==
    [b EXCEPT !.data = Write(b.data, b.offset, Seal(Bytes(b))), !.length = @ + TagSize]

CanDecrypt(b) == b.length >= TagSize /\ Opens(Bytes(b))

DecryptInPlace(b) ==
    [b EXCEPT !.data = Write(b.data, b.offset, [i \in 1 .. b.length - TagSize |-> <<"ip", i>>]),
              !.length = @ - TagSize]

-----------------------------------------------------------------------------
(* Header                                                                  *)

HeaderCells == Cells("header", HeaderSize)

\* mutant: any headroom will do
CanPrependAnywhere(b) == TRUE

CanPrepend(b) == b.offset >= HeaderSize \/ BufferSize >= b.length + HeaderSize

\* mutant: the packet stays where it is
PrependUnshifted(b) ==
    [data |-> Write(b.data, 0, HeaderCells), offset |-> 0, length |-> b.length + HeaderSize]

\* In the headroom, or after moving the packet (copy allows overlap).
PrependHeader(b) ==
    IF b.offset >= HeaderSize
    THEN [data   |-> Write(b.data, b.offset - HeaderSize, HeaderCells),
          offset |-> b.offset - HeaderSize, length |-> b.length + HeaderSize]
    ELSE [data   |-> Write(Write(b.data, HeaderSize, Bytes(b)), 0, HeaderCells),
          offset |-> 0, length |-> b.length + HeaderSize]

StripHeader(b) == [b EXCEPT !.offset = @ + HeaderSize, !.length = @ - HeaderSize]

-----------------------------------------------------------------------------
(* Padding, which no program calls yet                                     *)

BlockSize(k) ==
    IF k <= 0 THEN DefaultBlockSize ELSE IF k > MaxBlockSize THEN MaxBlockSize ELSE k

PadLength(b, k) == (BlockSize(k) - ((b.length + 1) % BlockSize(k))) % BlockSize(k)

CanPad(b, k) == b.offset + b.length + PadLength(b, k) + 1 <= BufferSize

\* mutant: the count includes the byte that holds it
PadCountsItself(b, k) ==
    LET pad == PadLength(b, k)
    IN  [b EXCEPT !.data = Write(b.data, b.offset + b.length,
                                 Cells("random", pad) \o << <<"number", (pad + 1) % ByteRange>> >>),
                  !.length = @ + pad + 1]

\* The last byte holds the length of the padding, as far as a byte can.
Pad(b, k) ==
    LET pad == PadLength(b, k)
    IN  [b EXCEPT !.data = Write(b.data, b.offset + b.length,
                                 Cells("random", pad) \o << <<"number", pad % ByteRange>> >>),
                  !.length = @ + pad + 1]

LastByte(b) == b.data[b.offset + b.length - 1][2]

\* int(byte) + 1 bytes go.
Unpad(b) == [b EXCEPT !.length = @ - (LastByte(b) + 1)]

-----------------------------------------------------------------------------
(* The path                                                                *)

Empty == [data |-> [k \in 0 .. BufferSize - 1 |-> <<"zero", 0>>], offset |-> 0, length |-> 0]

Init ==
    /\ stage = "idle"
    /\ n = 0 /\ source = "tun" /\ role = "none" /\ block = 0
    /\ sbuf = Empty /\ rbuf = Empty
    /\ wire = <<>> /\ out = <<>>
    /\ count = 0

Payload == Cells("ip", n)

\* A device hands over a packet of at most its MTU, an app any packet.
Read(device, length) ==
    /\ stage = "idle" /\ count < MaxPackets
    /\ device # "app" => length <= MTU
    /\ n' = length /\ source' = device
    /\ sbuf' = ReadPacket(Reset(sbuf), device, Cells("ip", length))
    /\ count' = count + 1
    /\ stage' = "read"
    /\ UNCHANGED <<rbuf, wire, role, out, block>>

\* EncryptPacket: seal, then prepend; an error and the caller drops it.
EncryptPacket ==
    /\ stage = "read"
    /\ LET sealed == EncryptInPlace(sbuf)
           ok == CanEncrypt(sbuf) /\ CanPrepend(sealed)
       IN  /\ sbuf' = IF ok THEN PrependHeader(sealed) ELSE sbuf
           /\ stage' = IF ok THEN "sealed" ELSE "lost"
    /\ UNCHANGED <<n, source, rbuf, wire, role, out, block, count>>

\* Send, and Receive into a buffer of the other end.
Transmit(receiver) ==
    /\ stage = "sealed"
    /\ role' = receiver
    /\ wire' = Bytes(sbuf)
    /\ rbuf' = LET b == Reset(rbuf)
               IN  [b EXCEPT !.data = Write(b.data, 0, Bytes(sbuf)), !.length = sbuf.length]
    /\ stage' = "received"
    /\ UNCHANGED <<n, source, sbuf, out, block, count>>

\* mutant: whatever is not longer than an initiation is taken for one
IsInitiationUpTo == role = "server" /\ rbuf.length <= InitSize

\* handleIncomingPacket goes by the length alone.  ConsumeInitiation then
\* fails to open what is not one.
IsInitiation == role = "server" /\ rbuf.length = InitSize

\* StripHeader and DecryptPacket, or the packet is dropped.
Accept ==
    /\ stage = "received"
    /\ LET ok == ~ IsInitiation /\ rbuf.length >= HeaderSize /\ CanDecrypt(StripHeader(rbuf))
       IN  /\ rbuf' = IF ok THEN DecryptInPlace(StripHeader(rbuf)) ELSE rbuf
           /\ stage' = IF ok THEN "opened" ELSE "lost"
    /\ UNCHANGED <<n, source, sbuf, wire, role, out, block, count>>

\* WritePacket, by the prefix of the receiver's device or, in the mobile
\* bridge, of the app's flow, and Put.
Deliver(device) ==
    /\ stage = "opened"
    /\ device = "app" => role = "client"
    /\ out' = Written(rbuf, device)
    /\ source' = device
    /\ stage' = "done"
    /\ UNCHANGED <<n, sbuf, rbuf, wire, role, block, count>>

\* Pad and unpad, as padding_test does, with the device's offset.
PadPacket(k) ==
    /\ stage = "read"
    /\ block' = BlockSize(k)
    /\ sbuf' = IF CanPad(sbuf, k) THEN Pad(sbuf, k) ELSE sbuf
    /\ stage' = IF CanPad(sbuf, k) THEN "padded" ELSE "lost"
    /\ UNCHANGED <<n, source, rbuf, wire, role, out, count>>

UnpadPacket ==
    /\ stage = "padded"
    /\ sbuf' = IF LastByte(sbuf) + 1 > sbuf.length THEN sbuf ELSE Unpad(sbuf)
    /\ stage' = IF LastByte(sbuf) + 1 > sbuf.length THEN "lost" ELSE "unpadded"
    /\ UNCHANGED <<n, source, rbuf, wire, role, out, block, count>>

\* The buffers go back to the pool with what is in them.
Recycle ==
    /\ stage \in {"done", "lost", "unpadded"}
    /\ stage' = "idle"
    /\ n' = 0 /\ block' = 0 /\ role' = "none"
    /\ UNCHANGED <<source, sbuf, rbuf, wire, out, count>>

Next ==
    \/ \E device \in {"tun", "utun", "app"}, length \in Lengths : Read(device, length)
    \/ EncryptPacket
    \/ \E receiver \in {"server", "client"} : Transmit(receiver)
    \/ Accept
    \/ \E device \in {"tun", "utun", "app"} : Deliver(device)
    \/ \E k \in Blocks : PadPacket(k)
    \/ UnpadPacket
    \/ Recycle

Spec == Init /\ [][Next]_vars

-----------------------------------------------------------------------------
TypeOK ==
    /\ stage \in {"idle", "read", "sealed", "received", "opened", "done", "lost",
                  "padded", "unpadded"}
    /\ n \in Lengths \cup {0}
    /\ source \in {"tun", "utun", "app"}
    /\ role \in {"server", "client", "none"}
    /\ DOMAIN sbuf.data = 0 .. BufferSize - 1 /\ DOMAIN rbuf.data = 0 .. BufferSize - 1
    /\ count \in 0 .. MaxPackets

\* Wherever the code takes Bytes of a buffer the slice lies in the array:
\* the checks of EncryptInPlace, PrependHeader and PadPacket leave no length
\* and offset for which the program would panic.
SlicesInArray ==
    /\ stage \in {"sealed", "padded", "unpadded"} => InArray(sbuf)
    /\ stage \in {"received", "opened"} => InArray(rbuf)

\* What goes on the wire is header, ciphertext and tag of this packet and
\* nothing else: no plaintext, no prefix of the device, no byte that an
\* earlier packet left in the pooled buffer.
WireIsSealed == stage \in {"received", "opened", "done"} => wire = HeaderCells \o Seal(Payload)

\* The packet that is written to the device, or handed to the app, is the
\* one that was read, with the prefix the receiver's device wants, whichever
\* devices the two ends have and whatever was in their buffers.
ArrivesIntact ==
    stage = "done" =>
        out = IF n > 0 /\ source = "utun" THEN Cells("family", FamilySize) \o Payload ELSE Payload

\* A packet is dropped for two reasons only: it does not fit a buffer with
\* header and tag, or it comes to the server and is by chance as long as a
\* handshake initiation (a 78-byte IP packet).
DropHasReason ==
    stage = "lost" /\ block = 0 =>
        \/ HeaderSize + n + TagSize > BufferSize
        \/ role = "server" /\ HeaderSize + n + TagSize = InitSize

\* Padding fills a block and comes off again.  Where the length of the
\* padding does not fit a byte (blocks of more than 256), too little is
\* removed and never a byte of the packet.
PaddingKeepsPacket ==
    /\ stage = "padded" => sbuf.length % block = 0
    /\ stage = "unpadded" =>
          /\ sbuf.length >= n /\ SubSeq(Bytes(sbuf), 1, n) = Payload
          /\ block <= ByteRange => sbuf.length = n

\* "UnpadPacket reads the trailing padding length and removes the padding
\* bytes in-place.", for every block up to MaxBlockSize.
UnpadRestores == stage = "unpadded" => Bytes(sbuf) = Payload
=============================================================================
