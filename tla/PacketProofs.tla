------------------------------ MODULE PacketProofs ------------------------------
(***************************************************************************)
(* A packet through the pooled buffers, for every size: of the buffer, the *)
(* header, the tag and the device's prefix, of the packet, the block, and  *)
(* whatever an earlier packet left behind.  A run checks the same for one  *)
(* small buffer; the code's are of 2048 bytes.                             *)
(*                                                                         *)
(* The inductive invariant describes the buffer in use cell by cell, for   *)
(* each stage; the first part of the module turns what the operators do to *)
(* sequences into facts about cells.                                       *)
(*                                                                         *)
(* The last part is about the way of packets through a TLS connection      *)
(* (module TLSFraming).                                                    *)
(***************************************************************************)
EXTENDS Packet, TLSFraming, SequenceTheorems, TLAPS

\* A sequence of the given length, given by its elements.
IsList(f, length) == f = [i \in 1 .. length |-> f[i]]

\* The i-th byte of a sealed packet of m bytes, and the k-th of what is sent
\* for it, counted from 0.
SealCell(i, m) == IF i <= m THEN <<"sealed", <<"ip", i>> >> ELSE <<"tag", i - m>>
WireCell(k, m) ==
    IF k < HeaderSize THEN <<"header", k + 1>> ELSE SealCell(k - HeaderSize + 1, m)

\* Array d holds m bytes of the packet from index k on, and the bytes that
\* are sent for a packet of m bytes.
Plain(d, k, m) == \A i \in 1 .. m : d[k + i - 1] = <<"ip", i>>
OnWire(d, m) == \A k \in 0 .. HeaderSize + m + TagSize - 1 : d[k] = WireCell(k, m)

IsBuffer(b) ==
    /\ DOMAIN b = {"data", "offset", "length"}
    /\ DOMAIN b.data = 0 .. BufferSize - 1

(***************************************************************************)
(* Assigning to data and length leaves the offset as it was.               *)
(***************************************************************************)
LEMMA AssignIs ==
    ASSUME NEW b, DOMAIN b = {"data", "offset", "length"}, NEW x, NEW y,
           NEW e, e = [b EXCEPT !.data = x, !.length = y]
    PROVE  /\ e.data = x /\ e.offset = b.offset /\ e.length = y
           /\ DOMAIN e = {"data", "offset", "length"}
  OBVIOUS

-----------------------------------------------------------------------------
(* Sequences and cells                                                     *)

(***************************************************************************)
(* The concatenation of two lists, element by element.                     *)
(***************************************************************************)
LEMMA ConcatIs ==
    ASSUME NEW L \in Nat, NEW M \in Nat, NEW f, NEW g, IsList(f, L), IsList(g, M)
    PROVE  f \o g = [i \in 1 .. L + M |-> IF i <= L THEN f[i] ELSE g[i - L]]
  <1> DEFINE S == {f[i] : i \in 1 .. L} \cup {g[i] : i \in 1 .. M}
  <1>1. f \in Seq(S) /\ Len(f) = L
    <2>1. f \in [1 .. L -> S]
      BY DEF IsList
    <2> QED
      BY <2>1
  <1>2. g \in Seq(S) /\ Len(g) = M
    <2>1. g \in [1 .. M -> S]
      BY DEF IsList
    <2> QED
      BY <2>1
  <1> HIDE DEF S
  <1> DEFINE r == f \o g
  <1>3. Len(r) = L + M /\ r \in Seq(S)
    BY <1>1, <1>2
  <1>4. \A i \in 1 .. L + M : r[i] = IF i <= L THEN f[i] ELSE g[i - L]
    BY <1>1, <1>2
  <1> HIDE DEF r
  <1>5. r \in [1 .. L + M -> S]
    BY <1>3, LenProperties
  <1>6. r = [i \in 1 .. L + M |-> IF i <= L THEN f[i] ELSE g[i - L]]
    BY <1>4, <1>5
  <1> QED
    BY <1>6 DEF r

(***************************************************************************)
(* A list with one more element.                                           *)
(***************************************************************************)
LEMMA AppendIs ==
    ASSUME NEW L \in Nat, NEW f, IsList(f, L), NEW x
    PROVE  IsList(f \o <<x>>, L + 1) /\ (f \o <<x>>)[L + 1] = x
  <1> DEFINE g == <<x>>
  <1>1. IsList(g, 1) /\ g[1] = x
    BY DEF IsList
  <1> HIDE DEF g
  <1>2. f \o g = [i \in 1 .. L + 1 |-> IF i <= L THEN f[i] ELSE g[i - L]]
    BY <1>1, ConcatIs
  <1>3. L + 1 \in 1 .. L + 1 /\ ~ (L + 1 <= L) /\ (L + 1) - L = 1
    OBVIOUS
  <1>4. IsList(f \o g, L + 1) /\ (f \o g)[L + 1] = g[1]
    BY <1>2, <1>3 DEF IsList
  <1> QED
    BY <1>1, <1>4 DEF g

(***************************************************************************)
(* An empty list is the empty sequence.                                    *)
(***************************************************************************)
LEMMA EmptyList == ASSUME NEW f, IsList(f, 0) PROVE f = <<>>
  <1>1. f \in [1 .. 0 -> {}]
    BY DEF IsList
  <1>2. f \in Seq({}) /\ Len(f) = 0
    BY <1>1
  <1> QED
    BY <1>2, EmptySeq

(***************************************************************************)
(* copy overwrites the cells it covers and no other.                       *)
(***************************************************************************)
LEMMA WriteIs ==
    ASSUME NEW data, DOMAIN data = 0 .. BufferSize - 1, NEW at \in Nat,
           NEW L \in Nat, NEW s, IsList(s, L)
    PROVE  /\ DOMAIN Write(data, at, s) = 0 .. BufferSize - 1
           /\ \A k \in 0 .. BufferSize - 1 :
                 Write(data, at, s)[k] =
                    IF at <= k /\ k < at + L THEN s[k - at + 1] ELSE data[k]
  <1>1. DOMAIN s = 1 .. L
    BY DEF IsList
  <1> QED
    BY <1>1, SizesAssumption DEF Write

(***************************************************************************)
(* Cells are a list.                                                       *)
(***************************************************************************)
LEMMA CellsIs ==
    ASSUME NEW L \in Nat, NEW kind
    PROVE  /\ IsList(Cells(kind, L), L)
           /\ \A i \in 1 .. L : Cells(kind, L)[i] = <<kind, i>>
  BY DEF IsList, Cells

(***************************************************************************)
(* The bytes of a buffer are the cells from its offset on.                 *)
(***************************************************************************)
LEMMA BytesIs ==
    ASSUME NEW b, b.length \in Nat
    PROVE  /\ IsList(Bytes(b), b.length)
           /\ \A i \in 1 .. b.length : Bytes(b)[i] = b.data[b.offset + i - 1]
  BY DEF IsList, Bytes

(***************************************************************************)
(* A slice that holds the packet is the packet.                            *)
(***************************************************************************)
LEMMA PlainBytes ==
    ASSUME NEW b, b.length \in Nat, Plain(b.data, b.offset, b.length)
    PROVE  Bytes(b) = Cells("ip", b.length)
  BY DEF Bytes, Cells, Plain

(***************************************************************************)
(* What sealing makes of a packet, cell by cell.                           *)
(***************************************************************************)
LEMMA SealIs ==
    ASSUME NEW m \in Nat
    PROVE  Seal(Cells("ip", m)) = [i \in 1 .. m + TagSize |-> SealCell(i, m)]
  <1> DEFINE c == [i \in 1 .. m |-> <<"sealed", <<"ip", i>> >>]
             t == Cells("tag", TagSize)
  <1>1. Seal(Cells("ip", m)) = c \o t
    BY DEF Seal, Cells
  <1>2. TagSize \in Nat
    BY SizesAssumption
  <1>3. IsList(c, m)
    BY DEF IsList
  <1>4. \A i \in 1 .. m : c[i] = <<"sealed", <<"ip", i>> >>
    OBVIOUS
  <1>5. IsList(t, TagSize)
    BY <1>2, CellsIs
  <1>6. \A i \in 1 .. TagSize : t[i] = <<"tag", i>>
    BY <1>2, CellsIs
  <1> HIDE DEF c, t
  <1>7. c \o t = [i \in 1 .. m + TagSize |-> IF i <= m THEN c[i] ELSE t[i - m]]
    BY <1>2, <1>3, <1>5, ConcatIs
  <1>8. \A i \in 1 .. m + TagSize : (IF i <= m THEN c[i] ELSE t[i - m]) = SealCell(i, m)
    BY <1>2, <1>4, <1>6 DEF SealCell
  <1> QED
    BY <1>1, <1>7, <1>8

(***************************************************************************)
(* Header, ciphertext and tag, cell by cell.                               *)
(***************************************************************************)
LEMMA WireIs ==
    ASSUME NEW m \in Nat
    PROVE  HeaderCells \o Seal(Cells("ip", m))
             = [i \in 1 .. HeaderSize + m + TagSize |-> WireCell(i - 1, m)]
  <1> DEFINE s == Seal(Cells("ip", m))
  <1>1. TagSize \in Nat /\ HeaderSize \in Nat
    BY SizesAssumption
  <1>2. IsList(s, m + TagSize) /\ \A i \in 1 .. m + TagSize : s[i] = SealCell(i, m)
    BY SealIs DEF IsList
  <1> HIDE DEF s
  <1>3. /\ IsList(HeaderCells, HeaderSize)
        /\ \A i \in 1 .. HeaderSize : HeaderCells[i] = <<"header", i>>
    BY <1>1, CellsIs DEF HeaderCells
  <1>4. HeaderCells \o s = [i \in 1 .. HeaderSize + (m + TagSize) |->
                               IF i <= HeaderSize THEN HeaderCells[i] ELSE s[i - HeaderSize]]
    BY <1>1, <1>2, <1>3, ConcatIs
  <1>5. \A i \in 1 .. HeaderSize + (m + TagSize) :
           (IF i <= HeaderSize THEN HeaderCells[i] ELSE s[i - HeaderSize]) = WireCell(i - 1, m)
    BY <1>1, <1>2, <1>3 DEF WireCell
  <1>6. HeaderCells \o s = [i \in 1 .. HeaderSize + m + TagSize |-> WireCell(i - 1, m)]
    BY <1>1, <1>4, <1>5
  <1> QED
    BY <1>6 DEF s

-----------------------------------------------------------------------------
(* What the operations make of a buffer                                    *)

\* Buffer r holds a packet of m bytes as the device hands it over, if there
\* is room.
HoldsPacket(r, device, m) ==
    /\ IsBuffer(r) /\ r.length = m
    /\ r.offset = IF device = "utun" THEN FamilySize ELSE 0
    /\ r.offset + m <= BufferSize => Plain(r.data, r.offset, m)

(***************************************************************************)
(* ReadPacket: the packet is in the buffer, behind the prefix of a utun    *)
(* device, if it fits.                                                     *)
(***************************************************************************)
LEMMA ReadIs ==
    ASSUME NEW b, IsBuffer(b), NEW m \in Nat, NEW device \in {"tun", "utun", "app"}
    PROVE  HoldsPacket(ReadPacket(Reset(b), device, Cells("ip", m)), device, m)
  <1> SUFFICES ASSUME NEW r, r = ReadPacket(Reset(b), device, Cells("ip", m))
               PROVE  HoldsPacket(r, device, m)
    OBVIOUS
  <1> DEFINE p == Cells("ip", m)
             f == Cells("family", FamilySize)
             q == IF device = "utun" THEN f \o p ELSE p
             at == IF device = "utun" THEN FamilySize ELSE 0
  <1>1. FamilySize \in Nat /\ BufferSize \in Nat
    BY SizesAssumption
  <1>2. IsList(p, m) /\ \A i \in 1 .. m : p[i] = <<"ip", i>>
    BY CellsIs
  <1>3. IsList(f, FamilySize)
    BY <1>1, CellsIs
  <1>4. Len(p) = m
    <2>1. p \in [1 .. m -> {p[i] : i \in 1 .. m}]
      BY <1>2 DEF IsList
    <2> QED
      BY <2>1
  <1>5. /\ Reset(b).data = b.data /\ Reset(b).offset = 0
        /\ DOMAIN Reset(b) = {"data", "offset", "length"}
    BY DEF Reset, IsBuffer
  <1>6. /\ r.data = Write(b.data, 0, q) /\ r.offset = at /\ r.length = m
        /\ DOMAIN r = {"data", "offset", "length"}
    BY <1>4, <1>5 DEF ReadPacket
  <1> HIDE DEF p, f
  <1>7. IsList(q, at + m) /\ \A i \in 1 .. m : q[at + i] = <<"ip", i>>
    <2>1. CASE device = "utun"
      <3>1. q = [i \in 1 .. FamilySize + m |-> IF i <= FamilySize THEN f[i] ELSE p[i - FamilySize]]
        BY <1>1, <1>2, <1>3, <2>1, ConcatIs
      <3> QED
        BY <1>1, <1>2, <2>1, <3>1 DEF IsList
    <2>2. CASE device # "utun"
      BY <1>2, <2>2
    <2> QED
      BY <2>1, <2>2
  <1>8. at \in Nat
    BY <1>1
  <1> HIDE DEF q, at
  <1>9. /\ DOMAIN Write(b.data, 0, q) = 0 .. BufferSize - 1
        /\ \A k \in 0 .. BufferSize - 1 : k < at + m => Write(b.data, 0, q)[k] = q[k + 1]
    <2>1. /\ at + m \in Nat /\ DOMAIN q = 1 .. at + m
          /\ DOMAIN b.data = 0 .. BufferSize - 1
      BY <1>7, <1>8 DEF IsList, IsBuffer
    <2> QED
      BY <1>1, <2>1 DEF Write
  <1>10. ASSUME at + m <= BufferSize PROVE Plain(Write(b.data, 0, q), at, m)
    <2> SUFFICES ASSUME NEW i \in 1 .. m PROVE Write(b.data, 0, q)[at + i - 1] = <<"ip", i>>
      BY DEF Plain
    <2>1. /\ at + i - 1 \in 0 .. BufferSize - 1 /\ at + i - 1 < at + m
          /\ (at + i - 1) + 1 = at + i
      BY <1>1, <1>8, <1>10
    <2> QED
      BY <1>7, <1>9, <2>1
  <1> QED
    BY <1>6, <1>9, <1>10 DEF HoldsPacket, IsBuffer, at

(***************************************************************************)
(* EncryptInPlace and PrependHeader: the buffer starts with header,        *)
(* ciphertext and tag, wherever in the headroom the packet was.            *)
(***************************************************************************)
LEMMA EncryptIs ==
    ASSUME NEW b, IsBuffer(b), b.offset \in Nat, b.length \in Nat, b.offset < HeaderSize,
           CanEncrypt(b), CanPrepend(EncryptInPlace(b)),
           Plain(b.data, b.offset, b.length),
           NEW r, r = PrependHeader(EncryptInPlace(b))
    PROVE  /\ IsBuffer(r) /\ r.offset = 0
           /\ r.length = HeaderSize + b.length + TagSize
           /\ r.length <= BufferSize
           /\ OnWire(r.data, b.length)
  <1> DEFINE m == b.length
             c == Seal(Cells("ip", m))
             e == EncryptInPlace(b)
             d1 == Write(b.data, b.offset, c)
             s == Bytes(e)
             d2 == Write(d1, HeaderSize, s)
             d3 == Write(d2, 0, HeaderCells)
  <1>1. HeaderSize \in Nat /\ TagSize \in Nat /\ BufferSize \in Nat
    BY SizesAssumption
  <1>2. /\ m + TagSize \in Nat /\ IsList(c, m + TagSize)
        /\ \A i \in 1 .. m + TagSize : c[i] = SealCell(i, m)
    <2>1. c = [i \in 1 .. m + TagSize |-> SealCell(i, m)]
      BY SealIs
    <2> HIDE DEF c
    <2> QED
      BY <1>1, <2>1 DEF IsList
  <1>3. e.data = d1 /\ e.offset = b.offset /\ e.length = m + TagSize
    <2>1. Bytes(b) = Cells("ip", m)
      BY PlainBytes
    <2>2. e = [b EXCEPT !.data = d1, !.length = m + TagSize]
      BY <2>1 DEF EncryptInPlace
    <2> HIDE DEF e, d1
    <2> QED
      BY <2>2, AssignIs DEF IsBuffer
  <1>4. b.offset + m + TagSize <= BufferSize
    BY DEF CanEncrypt
  <1>5. m + TagSize + HeaderSize <= BufferSize
    BY <1>1, <1>3 DEF CanPrepend
  <1>6. r = [data |-> d3, offset |-> 0, length |-> m + TagSize + HeaderSize]
    BY <1>1, <1>3 DEF PrependHeader
  <1> HIDE DEF c
  <1>7. /\ DOMAIN d1 = 0 .. BufferSize - 1
        /\ \A k \in 0 .. BufferSize - 1 :
              d1[k] = IF b.offset <= k /\ k < b.offset + (m + TagSize)
                      THEN c[k - b.offset + 1] ELSE b.data[k]
    <2>1. m + TagSize \in Nat /\ IsList(c, m + TagSize) /\ DOMAIN b.data = 0 .. BufferSize - 1
      BY <1>2 DEF IsBuffer
    <2> HIDE DEF m
    <2> QED
      BY <2>1, WriteIs
  <1> HIDE DEF d1, e
  <1>8. IsList(s, m + TagSize) /\ \A i \in 1 .. m + TagSize : s[i] = SealCell(i, m)
    <2>1. IsList(s, m + TagSize) /\ \A i \in 1 .. m + TagSize : s[i] = d1[b.offset + i - 1]
      BY <1>1, <1>3, BytesIs
    <2>2. ASSUME NEW i \in 1 .. m + TagSize PROVE d1[b.offset + i - 1] = SealCell(i, m)
      <3>1. /\ b.offset + i - 1 \in 0 .. BufferSize - 1
            /\ b.offset + i - 1 < b.offset + (m + TagSize)
            /\ (b.offset + i - 1) - b.offset + 1 = i
        BY <1>1, <1>4
      <3> QED
        BY <1>2, <1>7, <3>1
    <2> QED
      BY <2>1, <2>2
  <1> HIDE DEF s
  <1>9. /\ DOMAIN d2 = 0 .. BufferSize - 1
        /\ \A k \in 0 .. BufferSize - 1 :
              d2[k] = IF HeaderSize <= k /\ k < HeaderSize + (m + TagSize)
                      THEN s[k - HeaderSize + 1] ELSE d1[k]
    <2>1. m + TagSize \in Nat /\ IsList(s, m + TagSize) /\ DOMAIN d1 = 0 .. BufferSize - 1
      BY <1>2, <1>7, <1>8
    <2> HIDE DEF m
    <2> QED
      BY <1>1, <2>1, WriteIs
  <1> HIDE DEF d2
  <1>10. /\ IsList(HeaderCells, HeaderSize)
         /\ \A i \in 1 .. HeaderSize : HeaderCells[i] = <<"header", i>>
    BY <1>1, CellsIs DEF HeaderCells
  <1>11. /\ DOMAIN d3 = 0 .. BufferSize - 1
         /\ \A k \in 0 .. BufferSize - 1 :
               d3[k] = IF 0 <= k /\ k < 0 + HeaderSize THEN HeaderCells[k - 0 + 1] ELSE d2[k]
    BY <1>1, <1>9, <1>10, WriteIs
  <1> HIDE DEF d3
  <1>12. OnWire(d3, m)
    <2> SUFFICES ASSUME NEW k \in 0 .. HeaderSize + m + TagSize - 1 PROVE d3[k] = WireCell(k, m)
      BY DEF OnWire
    <2>1. k \in 0 .. BufferSize - 1 /\ k < HeaderSize + (m + TagSize)
      BY <1>1, <1>5
    <2>2. CASE k < HeaderSize
      <3>1. d3[k] = HeaderCells[k + 1] /\ k + 1 \in 1 .. HeaderSize
        BY <1>1, <1>11, <2>1, <2>2
      <3> QED
        BY <1>10, <2>2, <3>1 DEF WireCell
    <2>3. CASE k >= HeaderSize
      <3>1. d3[k] = s[k - HeaderSize + 1]
        BY <1>1, <1>9, <1>11, <2>1, <2>3
      <3>2. k - HeaderSize + 1 \in 1 .. m + TagSize
        BY <1>1, <2>1, <2>3
      <3> QED
        BY <1>1, <1>8, <2>3, <3>1, <3>2 DEF WireCell
    <2> QED
      BY <1>1, <2>2, <2>3
  <1> QED
    BY <1>1, <1>5, <1>6, <1>11, <1>12 DEF IsBuffer

(***************************************************************************)
(* Send and Receive: header, ciphertext and tag go out, and are at the     *)
(* start of the receiver's buffer.                                         *)
(***************************************************************************)
LEMMA TransmitIs ==
    ASSUME NEW b, b.offset = 0, NEW m \in Nat, b.length = HeaderSize + m + TagSize,
           b.length <= BufferSize, OnWire(b.data, m), NEW a, IsBuffer(a),
           NEW r, r = [Reset(a) EXCEPT !.data = Write(Reset(a).data, 0, Bytes(b)),
                                       !.length = b.length]
    PROVE  /\ Bytes(b) = HeaderCells \o Seal(Cells("ip", m))
           /\ IsBuffer(r) /\ r.offset = 0 /\ r.length = b.length
           /\ OnWire(r.data, m)
  <1> DEFINE s == Bytes(b)
             d == Write(a.data, 0, s)
  <1>1. HeaderSize \in Nat /\ TagSize \in Nat /\ BufferSize \in Nat /\ b.length \in Nat
    BY SizesAssumption
  <1>2. IsList(s, b.length) /\ \A i \in 1 .. b.length : s[i] = b.data[b.offset + i - 1]
    BY <1>1, BytesIs
  <1> HIDE DEF s
  <1>3. \A i \in 1 .. b.length : s[i] = WireCell(i - 1, m)
    <2> TAKE i \in 1 .. b.length
    <2>1. b.offset + i - 1 = i - 1 /\ i - 1 \in 0 .. HeaderSize + m + TagSize - 1
      BY <1>1
    <2> QED
      BY <1>2, <2>1 DEF OnWire
  <1>4. s = HeaderCells \o Seal(Cells("ip", m))
    <2>1. s = [i \in 1 .. b.length |-> WireCell(i - 1, m)]
      BY <1>2, <1>3 DEF IsList
    <2> QED
      BY <2>1, WireIs
  <1>5. /\ DOMAIN Reset(a) = {"data", "offset", "length"}
        /\ Reset(a).data = a.data /\ Reset(a).offset = 0
    BY DEF Reset, IsBuffer
  <1>6. /\ r.data = d /\ r.offset = 0 /\ r.length = b.length
        /\ DOMAIN r = {"data", "offset", "length"}
    <2>1. r = [Reset(a) EXCEPT !.data = d, !.length = b.length]
      BY <1>5 DEF s
    <2> HIDE DEF d
    <2> QED
      BY <1>5, <2>1, AssignIs
  <1>7. /\ DOMAIN d = 0 .. BufferSize - 1
        /\ \A k \in 0 .. BufferSize - 1 :
              d[k] = IF 0 <= k /\ k < 0 + b.length THEN s[k - 0 + 1] ELSE a.data[k]
    <2> DEFINE l == b.length
    <2>1. l \in Nat /\ IsList(s, l) /\ DOMAIN a.data = 0 .. BufferSize - 1
      BY <1>1, <1>2 DEF IsBuffer
    <2> HIDE DEF l
    <2>2. /\ DOMAIN d = 0 .. BufferSize - 1
          /\ \A k \in 0 .. BufferSize - 1 :
                d[k] = IF 0 <= k /\ k < 0 + l THEN s[k - 0 + 1] ELSE a.data[k]
      BY <2>1, WriteIs
    <2> QED
      BY <2>2 DEF l
  <1> HIDE DEF d
  <1>8. OnWire(d, m)
    <2> SUFFICES ASSUME NEW k \in 0 .. HeaderSize + m + TagSize - 1 PROVE d[k] = WireCell(k, m)
      BY DEF OnWire
    <2>1. /\ k \in 0 .. BufferSize - 1 /\ 0 <= k /\ k < 0 + b.length /\ k - 0 + 1 = k + 1
          /\ k + 1 \in 1 .. b.length /\ (k + 1) - 1 = k
      BY <1>1
    <2>2. d[k] = s[k + 1]
      BY <1>7, <2>1
    <2> QED
      BY <1>3, <2>1, <2>2
  <1> QED
    BY <1>4, <1>6, <1>7, <1>8 DEF IsBuffer, s

(***************************************************************************)
(* What was sealed opens, whatever its length, and is the packet again.    *)
(***************************************************************************)
LEMMA OpenIs ==
    ASSUME NEW b, IsBuffer(b), b.offset = 0, NEW m \in Nat,
           b.length = HeaderSize + m + TagSize, b.length <= BufferSize, OnWire(b.data, m),
           NEW r, r = DecryptInPlace(StripHeader(b))
    PROVE  /\ b.length >= HeaderSize /\ CanDecrypt(StripHeader(b))
           /\ IsBuffer(r) /\ r.offset = HeaderSize /\ r.length = m
           /\ Plain(r.data, HeaderSize, m)
  <1> DEFINE c == StripHeader(b)
             s == Bytes(c)
             p == [i \in 1 .. m |-> <<"ip", i>>]
             d == Write(b.data, HeaderSize, p)
  <1>1. HeaderSize \in Nat /\ TagSize \in Nat \ {0} /\ BufferSize \in Nat /\ b.length \in Nat
    BY SizesAssumption
  <1>2. /\ c.data = b.data /\ c.offset = HeaderSize /\ c.length = m + TagSize
        /\ DOMAIN c = {"data", "offset", "length"}
    BY <1>1 DEF StripHeader, IsBuffer
  <1> HIDE DEF c
  <1>3. IsList(s, m + TagSize) /\ \A i \in 1 .. m + TagSize : s[i] = c.data[c.offset + i - 1]
    BY <1>1, <1>2, BytesIs
  <1> HIDE DEF s
  <1>4. \A i \in 1 .. m + TagSize : s[i] = SealCell(i, m)
    <2> TAKE i \in 1 .. m + TagSize
    <2>1. /\ HeaderSize + i - 1 \in 0 .. HeaderSize + m + TagSize - 1
          /\ ~ (HeaderSize + i - 1 < HeaderSize) /\ (HeaderSize + i - 1) - HeaderSize + 1 = i
      BY <1>1
    <2>2. b.data[HeaderSize + i - 1] = SealCell(i, m)
      BY <2>1 DEF OnWire, WireCell
    <2> QED
      BY <1>2, <1>3, <2>2
  <1>5. Len(s) = m + TagSize
    <2>1. s \in [1 .. m + TagSize -> {s[i] : i \in 1 .. m + TagSize}]
      BY <1>3 DEF IsList
    <2> QED
      BY <1>1, <2>1
  <1>6. SubSeq(s, Len(s) - TagSize + 1, Len(s)) = Cells("tag", TagSize)
    <2>1. SubSeq(s, m + 1, m + TagSize) = [i \in 1 .. TagSize |-> s[i + m]]
      BY <1>1, <1>3, <1>5
    <2>2. \A i \in 1 .. TagSize : s[i + m] = <<"tag", i>>
      <3> TAKE i \in 1 .. TagSize
      <3>1. i + m \in 1 .. m + TagSize /\ ~ (i + m <= m) /\ (i + m) - m = i
        BY <1>1
      <3> QED
        BY <1>4, <3>1 DEF SealCell
    <2>3. Len(s) - TagSize + 1 = m + 1
      BY <1>1, <1>5
    <2> QED
      BY <1>5, <2>1, <2>2, <2>3 DEF Cells
  <1>7. \A i \in 1 .. Len(s) - TagSize : s[i] = <<"sealed", <<"ip", i>> >>
    <2>1. Len(s) - TagSize = m
      BY <1>1, <1>5
    <2>2. \A i \in 1 .. m : i \in 1 .. m + TagSize /\ i <= m
      BY <1>1
    <2> QED
      BY <1>4, <2>1, <2>2 DEF SealCell
  <1>8. CanDecrypt(c)
    BY <1>1, <1>2, <1>6, <1>7 DEF CanDecrypt, Opens, s
  <1>9. /\ r.data = d /\ r.offset = HeaderSize /\ r.length = m
        /\ DOMAIN r = {"data", "offset", "length"}
    <2>1. c.length - TagSize = m
      BY <1>1, <1>2
    <2>2. r = [c EXCEPT !.data = d, !.length = m]
      BY <1>2, <2>1 DEF DecryptInPlace, c
    <2> HIDE DEF d
    <2> QED
      BY <1>2, <2>2, AssignIs
  <1>10. IsList(p, m) /\ \A i \in 1 .. m : p[i] = <<"ip", i>>
    BY DEF IsList
  <1> HIDE DEF p
  <1>11. /\ DOMAIN d = 0 .. BufferSize - 1
         /\ \A k \in 0 .. BufferSize - 1 :
               d[k] = IF HeaderSize <= k /\ k < HeaderSize + m
                      THEN p[k - HeaderSize + 1] ELSE b.data[k]
    BY <1>1, <1>10, WriteIs DEF IsBuffer
  <1> HIDE DEF d
  <1>12. Plain(d, HeaderSize, m)
    <2> SUFFICES ASSUME NEW i \in 1 .. m PROVE d[HeaderSize + i - 1] = <<"ip", i>>
      BY DEF Plain
    <2>1. /\ HeaderSize + i - 1 \in 0 .. BufferSize - 1
          /\ HeaderSize <= HeaderSize + i - 1 /\ HeaderSize + i - 1 < HeaderSize + m
          /\ (HeaderSize + i - 1) - HeaderSize + 1 = i
      BY <1>1
    <2> QED
      BY <1>10, <1>11, <2>1
  <1> QED
    BY <1>1, <1>8, <1>9, <1>11, <1>12 DEF IsBuffer, c

(***************************************************************************)
(* WritePacket: the kernel gets the packet, on utun behind the prefix      *)
(* that is written over the end of the header.                             *)
(***************************************************************************)
LEMMA WrittenIs ==
    ASSUME NEW b, IsBuffer(b), b.offset = HeaderSize, b.length \in Nat,
           HeaderSize + b.length <= BufferSize, Plain(b.data, HeaderSize, b.length),
           NEW device \in {"tun", "utun", "app"}
    PROVE  Written(b, device) =
              IF b.length > 0 /\ device = "utun"
              THEN Cells("family", FamilySize) \o Cells("ip", b.length)
              ELSE Cells("ip", b.length)
  <1> DEFINE m == b.length
             f == Cells("family", FamilySize)
             p == Cells("ip", m)
             d == Write(b.data, HeaderSize - FamilySize, f)
             s == [i \in 1 .. m + FamilySize |-> d[(HeaderSize - FamilySize) + i - 1]]
  <1>1. /\ HeaderSize \in Nat /\ FamilySize \in Nat /\ BufferSize \in Nat
        /\ FamilySize < HeaderSize
    BY SizesAssumption
  <1>2. Bytes(b) = p
    BY PlainBytes
  <1>3. CASE m = 0
    <2>1. p = <<>>
      BY <1>3, CellsIs, EmptyList
    <2> QED
      BY <1>3, <2>1 DEF Written
  <1>4. CASE m > 0 /\ device # "utun"
    BY <1>2, <1>4 DEF Written
  <1>5. CASE m > 0 /\ device = "utun"
    <2>1. Written(b, device) = s
      BY <1>1, <1>5 DEF Written, Bytes
    <2>2. IsList(f, FamilySize) /\ \A i \in 1 .. FamilySize : f[i] = <<"family", i>>
      BY <1>1, CellsIs
    <2>3. IsList(p, m) /\ \A i \in 1 .. m : p[i] = <<"ip", i>>
      BY CellsIs
    <2> HIDE DEF f, p
    <2>4. /\ HeaderSize - FamilySize \in Nat
          /\ \A k \in 0 .. BufferSize - 1 :
               d[k] = IF HeaderSize - FamilySize <= k /\ k < (HeaderSize - FamilySize) + FamilySize
                      THEN f[k - (HeaderSize - FamilySize) + 1] ELSE b.data[k]
      <3>1. HeaderSize - FamilySize \in Nat
        BY <1>1
      <3> QED
        BY <1>1, <2>2, <3>1, WriteIs DEF IsBuffer
    <2> HIDE DEF d
    <2>5. f \o p = [i \in 1 .. FamilySize + m |->
                        IF i <= FamilySize THEN f[i] ELSE p[i - FamilySize]]
      <3>1. FamilySize \in Nat /\ m \in Nat /\ IsList(f, FamilySize) /\ IsList(p, m)
        BY <1>1, <2>2, <2>3
      <3> HIDE DEF m
      <3> QED
        BY <3>1, ConcatIs, SMTT(30)
    <2>6. ASSUME NEW i \in 1 .. FamilySize + m
          PROVE  d[(HeaderSize - FamilySize) + i - 1] =
                    IF i <= FamilySize THEN f[i] ELSE p[i - FamilySize]
      <3> DEFINE k == (HeaderSize - FamilySize) + i - 1
      <3>1. k \in 0 .. BufferSize - 1 /\ HeaderSize - FamilySize <= k
        BY <1>1
      <3>2. CASE i <= FamilySize
        <4>1. k < (HeaderSize - FamilySize) + FamilySize /\ k - (HeaderSize - FamilySize) + 1 = i
          BY <1>1, <3>2
        <4> HIDE DEF k
        <4>2. d[k] = f[i]
          BY <2>4, <3>1, <4>1
        <4> QED
          BY <3>2, <4>2 DEF k
      <3>3. CASE i > FamilySize
        <4>1. /\ ~ (k < (HeaderSize - FamilySize) + FamilySize)
              /\ k = HeaderSize + (i - FamilySize) - 1 /\ i - FamilySize \in 1 .. m
          BY <1>1, <3>3
        <4>2. b.data[HeaderSize + (i - FamilySize) - 1] = <<"ip", i - FamilySize>>
          BY <4>1 DEF Plain
        <4> HIDE DEF k
        <4>3. d[k] = b.data[k]
          BY <2>4, <3>1, <4>1
        <4>4. d[k] = p[i - FamilySize]
          BY <2>3, <4>1, <4>2, <4>3
        <4> QED
          BY <1>1, <3>3, <4>4 DEF k
      <3> QED
        BY <1>1, <3>2, <3>3
    <2>7. s = f \o p
      BY <1>1, <2>5, <2>6
    <2> QED
      BY <1>5, <2>1, <2>7 DEF f, p
  <1> QED
    BY <1>3, <1>4, <1>5

(***************************************************************************)
(* Filling up to a block makes the length a multiple of it.                *)
(***************************************************************************)
LEMMA FillsBlock ==
    ASSUME NEW a \in Nat, NEW k \in Nat \ {0}, NEW pad, pad = (k - (a % k)) % k
    PROVE  pad \in 0 .. k - 1 /\ (a + pad) % k = 0
  <1>1. a % k \in 0 .. k - 1
    OBVIOUS
  <1>2. a \div k \in Int /\ a = k * (a \div k) + (a % k)
    OBVIOUS
  <1>3. CASE a % k = 0
    <2>1. pad = 0
      BY <1>3
    <2> QED
      BY <1>3, <2>1
  <1>4. CASE a % k # 0
    <2>1. k - (a % k) \in 0 .. k - 1
      BY <1>1, <1>4
    <2>2. pad = k - (a % k)
      BY <2>1
    <2>3. a + pad = k * ((a \div k) + 1)
      BY <1>1, <1>2, <2>2
    <2>4. \A q \in Int : (k * q) % k = 0
      OBVIOUS
    <2>5. (k * ((a \div k) + 1)) % k = 0
      BY <1>2, <2>4
    <2>6. (a + pad) % k = 0
      BY <2>3, <2>5
    <2> QED
      BY <2>1, <2>2, <2>6
  <1> QED
    BY <1>3, <1>4

(***************************************************************************)
(* PadPacket: the packet stays, the length is a multiple of the block, and *)
(* the last byte is the length of the padding, as far as a byte can hold   *)
(* it.                                                                     *)
(***************************************************************************)
LEMMA PadIs ==
    ASSUME NEW b, IsBuffer(b), b.offset \in Nat, b.length \in Nat,
           NEW k \in Int, CanPad(b, k),
           Plain(b.data, b.offset, b.length),
           NEW r, r = Pad(b, k), NEW pad, pad = PadLength(b, k)
    PROVE  /\ BlockSize(k) \in Nat \ {0} /\ pad \in 0 .. BlockSize(k) - 1
           /\ IsBuffer(r) /\ r.offset = b.offset /\ r.length = b.length + pad + 1
           /\ r.offset + r.length <= BufferSize
           /\ r.length % BlockSize(k) = 0
           /\ Plain(r.data, r.offset, b.length)
           /\ LastByte(r) = pad % ByteRange
  <1> DEFINE m == b.length
             o == b.offset
             f == Cells("random", pad)
             s == f \o << <<"number", pad % ByteRange>> >>
             d == Write(b.data, o + m, s)
  <1>1. BlockSize(k) \in Nat \ {0}
    BY SizesAssumption DEF BlockSize
  <1>2. BufferSize \in Nat
    BY SizesAssumption
  <1>3. pad \in 0 .. BlockSize(k) - 1 /\ ((m + 1) + pad) % BlockSize(k) = 0
    <2>1. m + 1 \in Nat /\ pad = (BlockSize(k) - ((m + 1) % BlockSize(k))) % BlockSize(k)
      BY DEF PadLength
    <2> QED
      BY <1>1, <2>1, FillsBlock
  <1>4. pad \in Nat
    BY <1>1, <1>3
  <1>5. o + m + pad + 1 <= BufferSize
    BY DEF CanPad
  <1>6. /\ r.data = d /\ r.offset = o /\ r.length = m + pad + 1
        /\ DOMAIN r = {"data", "offset", "length"}
    <2>1. r = [b EXCEPT !.data = d, !.length = m + pad + 1]
      BY DEF Pad
    <2> HIDE DEF d
    <2> QED
      BY <2>1, AssignIs DEF IsBuffer
  <1>7. IsList(s, pad + 1) /\ s[pad + 1] = <<"number", pad % ByteRange>>
    <2>1. IsList(f, pad)
      BY <1>4, CellsIs
    <2> HIDE DEF f
    <2> QED
      BY <1>4, <2>1, AppendIs, ZenonT(30)
  <1> HIDE DEF s
  <1>8. /\ DOMAIN d = 0 .. BufferSize - 1
        /\ \A j \in 0 .. BufferSize - 1 :
              d[j] = IF o + m <= j /\ j < (o + m) + (pad + 1)
                     THEN s[j - (o + m) + 1] ELSE b.data[j]
    <2>1. o + m \in Nat /\ pad + 1 \in Nat /\ DOMAIN b.data = 0 .. BufferSize - 1
      BY <1>4 DEF IsBuffer
    <2> HIDE DEF o, m
    <2> QED
      BY <1>7, <2>1, WriteIs
  <1> HIDE DEF d
  <1>9. Plain(d, o, m)
    <2> SUFFICES ASSUME NEW i \in 1 .. m PROVE d[o + i - 1] = <<"ip", i>>
      BY DEF Plain
    <2>1. o + i - 1 \in 0 .. BufferSize - 1 /\ ~ (o + m <= o + i - 1)
      BY <1>2, <1>4, <1>5
    <2>2. d[o + i - 1] = b.data[o + i - 1]
      BY <1>8, <2>1
    <2> QED
      BY <2>2 DEF Plain
  <1>10. d[o + (m + pad + 1) - 1] = <<"number", pad % ByteRange>>
    <2> DEFINE j == o + (m + pad + 1) - 1
    <2>1. /\ j \in 0 .. BufferSize - 1 /\ o + m <= j /\ j < (o + m) + (pad + 1)
          /\ j - (o + m) + 1 = pad + 1
      BY <1>2, <1>4, <1>5
    <2> HIDE DEF j, o, m
    <2>2. d[j] = s[pad + 1]
      BY <1>8, <2>1
    <2> QED
      BY <1>7, <2>2 DEF j
  <1>11. LastByte(r) = pad % ByteRange
    BY <1>6, <1>10 DEF LastByte
  <1>12. r.length % BlockSize(k) = 0 /\ r.offset + r.length <= BufferSize
    <2>1. r.length = (m + 1) + pad
      BY <1>4, <1>6
    <2> QED
      BY <1>3, <1>4, <1>5, <1>6, <2>1
  <1> QED
    BY <1>1, <1>3, <1>6, <1>8, <1>9, <1>11, <1>12 DEF IsBuffer

-----------------------------------------------------------------------------
(* The path                                                                *)

TypeInv ==
    /\ TypeOK
    /\ IsBuffer(sbuf) /\ IsBuffer(rbuf)
    /\ block \in Nat
    /\ stage \notin {"padded", "unpadded", "lost"} => block = 0

\* Read, the packet starts behind at most a prefix, and a packet from a
\* device that has one is not longer than the MTU.  Sealed, it is what will
\* go on the wire.
AtSender ==
    /\ stage = "read" =>
          /\ sbuf.length = n
          /\ sbuf.offset = 0 \/ (sbuf.offset = FamilySize /\ n <= MTU)
          /\ sbuf.offset + n <= BufferSize => Plain(sbuf.data, sbuf.offset, n)
    /\ stage = "sealed" =>
          /\ sbuf.offset = 0 /\ sbuf.length = HeaderSize + n + TagSize
          /\ sbuf.length <= BufferSize
          /\ OnWire(sbuf.data, n)

\* Received, it is what was sent; opened, it is the packet behind the room
\* of the header.
AtReceiver ==
    /\ stage = "received" =>
          /\ rbuf.offset = 0 /\ rbuf.length = HeaderSize + n + TagSize
          /\ rbuf.length <= BufferSize
          /\ OnWire(rbuf.data, n)
    /\ stage = "opened" =>
          /\ rbuf.offset = HeaderSize /\ rbuf.length = n
          /\ HeaderSize + n <= BufferSize
          /\ Plain(rbuf.data, HeaderSize, n)

\* Padded, the last byte is the length of the padding, modulo what a byte
\* holds.
Padded ==
    stage = "padded" =>
        /\ block # 0 /\ sbuf.offset \in Nat
        /\ sbuf.offset + sbuf.length <= BufferSize
        /\ Plain(sbuf.data, sbuf.offset, n)
        /\ \E pad \in 0 .. block - 1 :
              sbuf.length = n + pad + 1 /\ LastByte(sbuf) = pad % ByteRange

IInv ==
    /\ TypeInv /\ AtSender /\ AtReceiver /\ Padded
    /\ SlicesInArray /\ WireIsSealed /\ ArrivesIntact /\ DropHasReason /\ PaddingKeepsPacket

(***************************************************************************)
(* The length of the packet is a number.                                   *)
(***************************************************************************)
LEMMA LengthIs == ASSUME IInv PROVE n \in Nat
  <1>1. n \in Lengths \cup {0}
    BY DEF IInv, TypeInv, TypeOK
  <1> QED
    BY <1>1, InputsAssumption

(***************************************************************************)
(* A device or an app hands over a packet.                                 *)
(***************************************************************************)
LEMMA ReadStep ==
    ASSUME IInv, NEW device \in {"tun", "utun", "app"}, NEW length \in Lengths,
           Read(device, length)
    PROVE  IInv'
  <1>1. stage' = "read" /\ n' = length /\ n' \in Nat
    BY InputsAssumption DEF Read
  <1>2. /\ IsBuffer(sbuf') /\ sbuf'.length = n'
        /\ sbuf'.offset = IF device = "utun" THEN FamilySize ELSE 0
        /\ sbuf'.offset + n' <= BufferSize => Plain(sbuf'.data, sbuf'.offset, n')
    <2>1. sbuf' = ReadPacket(Reset(sbuf), device, Cells("ip", n')) /\ IsBuffer(sbuf)
      BY <1>1 DEF Read, IInv, TypeInv
    <2>2. \A m \in Nat : HoldsPacket(ReadPacket(Reset(sbuf), device, Cells("ip", m)), device, m)
      BY <2>1, ReadIs
    <2>3. HoldsPacket(ReadPacket(Reset(sbuf), device, Cells("ip", n')), device, n')
      BY <1>1, <2>2
    <2>4. HoldsPacket(sbuf', device, n')
      BY <2>1, <2>3
    <2> QED
      BY <2>4 DEF HoldsPacket
  <1>3. device = "utun" => n' <= MTU
    BY <1>1 DEF Read
  <1>4. TypeInv'
    <2>1. rbuf' = rbuf /\ role' = role /\ block' = block /\ block = 0 /\ source' = device
      BY DEF Read, IInv, TypeInv
    <2>2. count' \in 0 .. MaxPackets
      BY MaxPacketsAssumption DEF Read, IInv, TypeInv, TypeOK
    <2> QED
      BY <1>1, <1>2, <2>1, <2>2 DEF IInv, TypeInv, TypeOK, IsBuffer
  <1>5. AtSender'
    BY <1>1, <1>2, <1>3 DEF AtSender
  <1>6. (AtReceiver /\ Padded /\ SlicesInArray)'
    BY <1>1 DEF AtReceiver, Padded, SlicesInArray
  <1>7. (WireIsSealed /\ ArrivesIntact /\ DropHasReason /\ PaddingKeepsPacket)'
    BY <1>1 DEF WireIsSealed, ArrivesIntact, DropHasReason, PaddingKeepsPacket
  <1> QED
    BY <1>4, <1>5, <1>6, <1>7 DEF IInv

(***************************************************************************)
(* EncryptPacket seals what fits and drops nothing else.                   *)
(***************************************************************************)
LEMMA EncryptStep == ASSUME IInv, EncryptPacket PROVE IInv'
  <1> DEFINE ok == CanEncrypt(sbuf) /\ CanPrepend(EncryptInPlace(sbuf))
  <1>1. /\ stage = "read" /\ n' = n /\ rbuf' = rbuf /\ role' = role /\ block' = block
        /\ source' = source /\ count' = count
        /\ sbuf' = IF ok THEN PrependHeader(EncryptInPlace(sbuf)) ELSE sbuf
        /\ stage' = IF ok THEN "sealed" ELSE "lost"
    BY DEF EncryptPacket
  <1>2. /\ n \in Nat /\ HeaderSize \in Nat /\ TagSize \in Nat /\ FamilySize \in Nat
        /\ BufferSize \in Nat /\ MTU \in Nat /\ FamilySize < HeaderSize
        /\ FamilySize + MTU + TagSize <= BufferSize
    BY SizesAssumption, LengthIs
  <1>3. /\ IsBuffer(sbuf) /\ sbuf.length = n
        /\ sbuf.offset = 0 \/ (sbuf.offset = FamilySize /\ n <= MTU)
        /\ sbuf.offset + n <= BufferSize => Plain(sbuf.data, sbuf.offset, n)
    BY <1>1 DEF IInv, TypeInv, AtSender
  <1>4. sbuf.offset \in Nat /\ sbuf.offset < HeaderSize
    BY <1>2, <1>3
  <1>5. CASE ok
    <2>1. Plain(sbuf.data, sbuf.offset, sbuf.length)
      BY <1>2, <1>3, <1>4, <1>5 DEF CanEncrypt
    <2>2. /\ IsBuffer(sbuf') /\ sbuf'.offset = 0
          /\ sbuf'.length = HeaderSize + n + TagSize
          /\ sbuf'.length <= BufferSize
          /\ OnWire(sbuf'.data, n)
      <3>1. sbuf' = PrependHeader(EncryptInPlace(sbuf))
        BY <1>1, <1>5
      <3> QED
        BY <1>2, <1>3, <1>4, <1>5, <2>1, <3>1, EncryptIs
    <2>3. stage' = "sealed"
      BY <1>1, <1>5
    <2> HIDE DEF ok
    <2>4. TypeInv'
      BY <1>1, <2>2, <2>3 DEF IInv, TypeInv, TypeOK, IsBuffer
    <2>5. AtSender'
      BY <1>1, <2>2, <2>3 DEF AtSender
    <2>6. SlicesInArray'
      BY <1>2, <2>2, <2>3 DEF SlicesInArray, InArray
    <2>7. (AtReceiver /\ Padded)'
      BY <2>3 DEF AtReceiver, Padded
    <2>8. (WireIsSealed /\ ArrivesIntact /\ DropHasReason /\ PaddingKeepsPacket)'
      BY <2>3 DEF WireIsSealed, ArrivesIntact, DropHasReason, PaddingKeepsPacket
    <2> QED
      BY <2>4, <2>5, <2>6, <2>7, <2>8 DEF IInv
  <1>6. CASE ~ ok
    <2>1. HeaderSize + n + TagSize > BufferSize
      <3>1. CASE ~ CanEncrypt(sbuf)
        BY <1>2, <1>3, <3>1 DEF CanEncrypt
      <3>2. CASE ~ CanPrepend(EncryptInPlace(sbuf))
        <4>1. EncryptInPlace(sbuf).length = n + TagSize
          BY <1>3 DEF EncryptInPlace, IsBuffer
        <4> QED
          BY <1>2, <3>2, <4>1 DEF CanPrepend
      <3> QED
        BY <1>6, <3>1, <3>2
    <2>2. stage' = "lost" /\ sbuf' = sbuf
      BY <1>1, <1>6
    <2> HIDE DEF ok
    <2>3. TypeInv'
      BY <1>1, <2>2 DEF IInv, TypeInv, TypeOK
    <2>4. DropHasReason'
      BY <1>1, <2>1 DEF DropHasReason
    <2>5. (AtSender /\ AtReceiver /\ Padded /\ SlicesInArray)'
      BY <2>2 DEF AtSender, AtReceiver, Padded, SlicesInArray
    <2>6. (WireIsSealed /\ ArrivesIntact /\ PaddingKeepsPacket)'
      BY <2>2 DEF WireIsSealed, ArrivesIntact, PaddingKeepsPacket
    <2> QED
      BY <2>3, <2>4, <2>5, <2>6 DEF IInv
  <1> QED
    BY <1>5, <1>6

(***************************************************************************)
(* The packet is sent and received.                                        *)
(***************************************************************************)
LEMMA TransmitStep ==
    ASSUME IInv, NEW receiver \in {"server", "client"}, Transmit(receiver)
    PROVE  IInv'
  <1>1. /\ stage = "sealed" /\ stage' = "received" /\ n' = n /\ sbuf' = sbuf /\ block' = block
        /\ source' = source /\ count' = count /\ role' = receiver
        /\ wire' = Bytes(sbuf)
        /\ rbuf' = [Reset(rbuf) EXCEPT !.data = Write(Reset(rbuf).data, 0, Bytes(sbuf)),
                                       !.length = sbuf.length]
    BY DEF Transmit
  <1>2. n \in Nat /\ HeaderSize \in Nat /\ TagSize \in Nat
    BY SizesAssumption, LengthIs
  <1>3. /\ sbuf.offset = 0 /\ sbuf.length = HeaderSize + n + TagSize
        /\ sbuf.length <= BufferSize /\ OnWire(sbuf.data, n) /\ IsBuffer(rbuf)
    BY <1>1 DEF IInv, TypeInv, AtSender
  <1>4. /\ wire' = HeaderCells \o Seal(Cells("ip", n))
        /\ IsBuffer(rbuf') /\ rbuf'.offset = 0 /\ rbuf'.length = sbuf.length
        /\ OnWire(rbuf'.data, n)
    <2> DEFINE r == [Reset(rbuf) EXCEPT !.data = Write(Reset(rbuf).data, 0, Bytes(sbuf)),
                                        !.length = sbuf.length]
    <2>1. r = [Reset(rbuf) EXCEPT !.data = Write(Reset(rbuf).data, 0, Bytes(sbuf)),
                                  !.length = sbuf.length]
      OBVIOUS
    <2>2. rbuf' = r /\ wire' = Bytes(sbuf)
      BY <1>1
    <2> HIDE DEF r
    <2>3. n \in Nat /\ sbuf.length = HeaderSize + n + TagSize
      BY <1>2, <1>3
    <2>4. /\ Bytes(sbuf) = HeaderCells \o Seal(Cells("ip", n))
          /\ IsBuffer(r) /\ r.offset = 0 /\ r.length = sbuf.length
          /\ OnWire(r.data, n)
      BY <1>3, <2>1, <2>3, TransmitIs, ZenonT(30)
    <2> QED
      BY <2>2, <2>4
  <1>5. TypeInv'
    <2>1. /\ stage' = "received" /\ n' = n /\ sbuf' = sbuf /\ block' = block /\ block = 0
          /\ source' = source /\ count' = count /\ role' = receiver
      BY <1>1 DEF IInv, TypeInv
    <2> QED
      BY <1>4, <2>1 DEF IInv, TypeInv, TypeOK, IsBuffer
  <1>6. AtReceiver'
    <2>1. stage' = "received" /\ n' = n
      BY <1>1
    <2> QED
      BY <1>3, <1>4, <2>1 DEF AtReceiver
  <1>7. SlicesInArray'
    <2>1. stage' = "received"
      BY <1>1
    <2> QED
      BY <1>2, <1>3, <1>4, <2>1 DEF SlicesInArray, InArray
  <1>8. WireIsSealed'
    BY <1>1, <1>4 DEF WireIsSealed, Payload
  <1>9. (AtSender /\ Padded /\ ArrivesIntact /\ DropHasReason /\ PaddingKeepsPacket)'
    BY <1>1 DEF AtSender, Padded, ArrivesIntact, DropHasReason, PaddingKeepsPacket
  <1> QED
    BY <1>5, <1>6, <1>7, <1>8, <1>9 DEF IInv

(***************************************************************************)
(* A packet that is not taken for an initiation is opened.                 *)
(***************************************************************************)
LEMMA AcceptStep == ASSUME IInv, Accept PROVE IInv'
  <1>1. /\ stage = "received" /\ n' = n /\ sbuf' = sbuf /\ role' = role /\ block' = block
        /\ source' = source /\ count' = count /\ wire' = wire
    BY DEF Accept
  <1>2. /\ n \in Nat /\ HeaderSize \in Nat /\ TagSize \in Nat /\ BufferSize \in Nat
        /\ block = 0
    BY <1>1, SizesAssumption, LengthIs DEF IInv, TypeInv
  <1>3. /\ IsBuffer(rbuf) /\ rbuf.offset = 0 /\ rbuf.length = HeaderSize + n + TagSize
        /\ rbuf.length <= BufferSize /\ OnWire(rbuf.data, n)
    BY <1>1 DEF IInv, TypeInv, AtReceiver
  <1> DEFINE r == DecryptInPlace(StripHeader(rbuf))
  <1>4. /\ rbuf.length >= HeaderSize /\ CanDecrypt(StripHeader(rbuf))
        /\ IsBuffer(r) /\ r.offset = HeaderSize /\ r.length = n
        /\ Plain(r.data, HeaderSize, n)
    BY <1>2, <1>3, OpenIs
  <1>5. CASE IsInitiation
    <2>1. stage' = "lost" /\ rbuf' = rbuf
      BY <1>5 DEF Accept
    <2>2. TypeInv'
      BY <1>1, <2>1 DEF IInv, TypeInv, TypeOK
    <2>3. DropHasReason'
      BY <1>1, <1>3, <1>5 DEF DropHasReason, IsInitiation
    <2>4. (AtSender /\ AtReceiver /\ Padded /\ SlicesInArray)'
      BY <2>1 DEF AtSender, AtReceiver, Padded, SlicesInArray
    <2>5. (WireIsSealed /\ ArrivesIntact /\ PaddingKeepsPacket)'
      BY <2>1 DEF WireIsSealed, ArrivesIntact, PaddingKeepsPacket
    <2> QED
      BY <2>2, <2>3, <2>4, <2>5 DEF IInv
  <1>6. CASE ~ IsInitiation
    <2>1. stage' = "opened" /\ rbuf' = r
      BY <1>4, <1>6 DEF Accept
    <2> HIDE DEF r
    <2>2. TypeInv'
      BY <1>1, <1>2, <1>4, <2>1 DEF IInv, TypeInv, TypeOK, IsBuffer
    <2>3. AtReceiver'
      BY <1>1, <1>2, <1>3, <1>4, <2>1 DEF AtReceiver
    <2>4. SlicesInArray'
      BY <1>2, <1>3, <1>4, <2>1 DEF SlicesInArray, InArray
    <2>5. WireIsSealed'
      BY <1>1, <2>1 DEF IInv, WireIsSealed, Payload
    <2>6. (AtSender /\ Padded /\ ArrivesIntact /\ DropHasReason /\ PaddingKeepsPacket)'
      BY <2>1 DEF AtSender, Padded, ArrivesIntact, DropHasReason, PaddingKeepsPacket
    <2> QED
      BY <2>2, <2>3, <2>4, <2>5, <2>6 DEF IInv
  <1> QED
    BY <1>5, <1>6

(***************************************************************************)
(* What was opened is written to the device.                               *)
(***************************************************************************)
LEMMA DeliverStep ==
    ASSUME IInv, NEW device \in {"tun", "utun", "app"}, Deliver(device)
    PROVE  IInv'
  <1>1. /\ stage = "opened" /\ stage' = "done" /\ n' = n /\ sbuf' = sbuf /\ rbuf' = rbuf
        /\ role' = role /\ block' = block /\ count' = count /\ wire' = wire
        /\ source' = device /\ out' = Written(rbuf, device)
    BY DEF Deliver
  <1>2. /\ n \in Nat /\ IsBuffer(rbuf) /\ rbuf.offset = HeaderSize /\ rbuf.length = n
        /\ HeaderSize + n <= BufferSize /\ Plain(rbuf.data, HeaderSize, n)
    BY <1>1, LengthIs DEF IInv, TypeInv, AtReceiver
  <1>3. out' = IF n > 0 /\ device = "utun"
               THEN Cells("family", FamilySize) \o Cells("ip", n) ELSE Cells("ip", n)
    BY <1>1, <1>2, WrittenIs
  <1>4. TypeInv'
    BY <1>1 DEF IInv, TypeInv, TypeOK
  <1>5. ArrivesIntact'
    BY <1>1, <1>3 DEF ArrivesIntact, Payload
  <1>6. WireIsSealed'
    BY <1>1 DEF IInv, WireIsSealed, Payload
  <1>7. (AtSender /\ AtReceiver /\ Padded /\ SlicesInArray /\ DropHasReason /\ PaddingKeepsPacket)'
    BY <1>1 DEF AtSender, AtReceiver, Padded, SlicesInArray, DropHasReason, PaddingKeepsPacket
  <1> QED
    BY <1>4, <1>5, <1>6, <1>7 DEF IInv

(***************************************************************************)
(* A packet is padded, if there is room for it.                            *)
(***************************************************************************)
LEMMA PadStep == ASSUME IInv, NEW k \in Blocks, PadPacket(k) PROVE IInv'
  <1>1. /\ stage = "read" /\ n' = n /\ rbuf' = rbuf /\ role' = role /\ block' = BlockSize(k)
        /\ source' = source /\ count' = count
    BY DEF PadPacket
  <1>2. /\ n \in Nat /\ FamilySize \in Nat /\ BufferSize \in Nat
        /\ k \in Int /\ BlockSize(k) \in Nat \ {0}
    <2>1. n \in Nat
      BY LengthIs
    <2>2. /\ FamilySize \in Nat /\ BufferSize \in Nat
          /\ DefaultBlockSize \in Nat \ {0} /\ MaxBlockSize \in Nat \ {0}
      BY SizesAssumption
    <2>3. k \in Int
      BY InputsAssumption
    <2> QED
      BY <2>1, <2>2, <2>3 DEF BlockSize
  <1>3. /\ IsBuffer(sbuf) /\ sbuf.length = n /\ sbuf.offset \in Nat
        /\ sbuf.offset + n <= BufferSize => Plain(sbuf.data, sbuf.offset, n)
    BY <1>1, <1>2 DEF IInv, TypeInv, AtSender
  <1>4. CASE CanPad(sbuf, k)
    <2> DEFINE pad == PadLength(sbuf, k)
    <2>1. stage' = "padded" /\ sbuf' = Pad(sbuf, k)
      BY <1>4 DEF PadPacket
    <2>2. pad \in Nat
      <3>1. (BlockSize(k) - ((n + 1) % BlockSize(k))) % BlockSize(k) \in Nat
        BY <1>2
      <3> QED
        BY <1>3, <3>1 DEF PadLength
    <2>3. Plain(sbuf.data, sbuf.offset, sbuf.length)
      BY <1>2, <1>3, <1>4, <2>2 DEF CanPad
    <2>4. /\ pad \in 0 .. BlockSize(k) - 1
          /\ IsBuffer(sbuf') /\ sbuf'.offset = sbuf.offset /\ sbuf'.length = n + pad + 1
          /\ sbuf'.offset + sbuf'.length <= BufferSize
          /\ sbuf'.length % BlockSize(k) = 0
          /\ Plain(sbuf'.data, sbuf'.offset, n)
          /\ LastByte(sbuf') = pad % ByteRange
      BY <1>2, <1>3, <1>4, <2>1, <2>3, PadIs
    <2> HIDE DEF pad
    <2>5. TypeInv'
      BY <1>1, <1>2, <2>1, <2>4 DEF IInv, TypeInv, TypeOK, IsBuffer
    <2>6. Padded'
      BY <1>1, <1>2, <1>3, <2>4 DEF Padded
    <2>7. SlicesInArray'
      BY <1>2, <1>3, <2>1, <2>2, <2>4 DEF SlicesInArray, InArray
    <2>8. PaddingKeepsPacket'
      BY <1>1, <2>1, <2>4 DEF PaddingKeepsPacket
    <2>9. (AtSender /\ AtReceiver /\ WireIsSealed /\ ArrivesIntact /\ DropHasReason)'
      BY <2>1 DEF AtSender, AtReceiver, WireIsSealed, ArrivesIntact, DropHasReason
    <2> QED
      BY <2>5, <2>6, <2>7, <2>8, <2>9 DEF IInv
  <1>5. CASE ~ CanPad(sbuf, k)
    <2>1. stage' = "lost" /\ sbuf' = sbuf
      BY <1>5 DEF PadPacket
    <2>2. TypeInv'
      BY <1>1, <1>2, <2>1 DEF IInv, TypeInv, TypeOK
    <2>3. DropHasReason'
      BY <1>1, <1>2 DEF DropHasReason
    <2>4. (AtSender /\ AtReceiver /\ Padded /\ SlicesInArray)'
      BY <2>1 DEF AtSender, AtReceiver, Padded, SlicesInArray
    <2>5. (WireIsSealed /\ ArrivesIntact /\ PaddingKeepsPacket)'
      BY <2>1 DEF WireIsSealed, ArrivesIntact, PaddingKeepsPacket
    <2> QED
      BY <2>2, <2>3, <2>4, <2>5 DEF IInv
  <1> QED
    BY <1>4, <1>5

(***************************************************************************)
(* Unpadding never refuses and never takes a byte of the packet.           *)
(***************************************************************************)
LEMMA UnpadStep == ASSUME IInv, UnpadPacket PROVE IInv'
  <1>1. /\ stage = "padded" /\ n' = n /\ rbuf' = rbuf /\ role' = role /\ block' = block
        /\ source' = source /\ count' = count
    BY DEF UnpadPacket
  <1>2. n \in Nat /\ BufferSize \in Nat /\ ByteRange \in Nat \ {0} /\ block \in Nat
    BY SizesAssumption, LengthIs DEF IInv, TypeInv
  <1>3. PICK pad \in 0 .. block - 1 : sbuf.length = n + pad + 1 /\ LastByte(sbuf) = pad % ByteRange
    BY <1>1 DEF IInv, Padded
  <1>4. /\ IsBuffer(sbuf) /\ sbuf.offset \in Nat /\ sbuf.offset + sbuf.length <= BufferSize
        /\ Plain(sbuf.data, sbuf.offset, n)
    BY <1>1 DEF IInv, TypeInv, Padded
  <1>5. /\ pad % ByteRange \in Nat /\ pad % ByteRange <= pad
        /\ block <= ByteRange => pad % ByteRange = pad
    BY <1>2
  <1>6. stage' = "unpadded" /\ sbuf' = [sbuf EXCEPT !.length = @ - (LastByte(sbuf) + 1)]
    <2>1. ~ (LastByte(sbuf) + 1 > sbuf.length)
      BY <1>2, <1>3, <1>5
    <2> QED
      BY <2>1 DEF UnpadPacket, Unpad
  <1>7. /\ sbuf'.data = sbuf.data /\ sbuf'.offset = sbuf.offset /\ IsBuffer(sbuf')
        /\ sbuf'.length = sbuf.length - (LastByte(sbuf) + 1)
    BY <1>4, <1>6 DEF IsBuffer
  <1>8. sbuf'.length = n + (pad - (pad % ByteRange))
    BY <1>2, <1>3, <1>5, <1>7
  <1>9. SlicesInArray'
    BY <1>2, <1>3, <1>4, <1>5, <1>6, <1>7, <1>8 DEF SlicesInArray, InArray
  <1>10. PaddingKeepsPacket'
    <2>1. sbuf'.length \in Nat /\ sbuf'.length >= n /\ (block <= ByteRange => sbuf'.length = n)
      BY <1>2, <1>5, <1>8
    <2>2. IsList(Bytes(sbuf'), sbuf'.length)
          /\ \A i \in 1 .. sbuf'.length : Bytes(sbuf')[i] = sbuf.data[sbuf.offset + i - 1]
      BY <1>7, <2>1, BytesIs
    <2>3. SubSeq(Bytes(sbuf'), 1, n) = [i \in 1 .. n |-> Bytes(sbuf')[i]]
      BY <1>2, <2>1, <2>2
    <2>4. \A i \in 1 .. n : Bytes(sbuf')[i] = <<"ip", i>>
      BY <1>2, <1>4, <2>1, <2>2 DEF Plain
    <2>5. SubSeq(Bytes(sbuf'), 1, n) = Cells("ip", n)
      BY <2>3, <2>4 DEF Cells
    <2> QED
      BY <1>1, <1>6, <2>1, <2>5 DEF PaddingKeepsPacket, Payload, Bytes
  <1>11. TypeInv'
    BY <1>1, <1>2, <1>6, <1>7 DEF IInv, TypeInv, TypeOK, IsBuffer
  <1>12. (AtSender /\ AtReceiver /\ Padded /\ WireIsSealed /\ ArrivesIntact /\ DropHasReason)'
    BY <1>6 DEF AtSender, AtReceiver, Padded, WireIsSealed, ArrivesIntact, DropHasReason
  <1> QED
    BY <1>9, <1>10, <1>11, <1>12 DEF IInv

(***************************************************************************)
(* The pool gets its buffers back.                                         *)
(***************************************************************************)
LEMMA RecycleStep == ASSUME IInv, Recycle PROVE IInv'
  <1>1. stage' = "idle" /\ sbuf' = sbuf /\ rbuf' = rbuf /\ source' = source /\ count' = count
    BY DEF Recycle
  <1>2. n' = 0 /\ block' = 0 /\ role' = "none"
    BY DEF Recycle
  <1>3. TypeInv'
    BY <1>1, <1>2 DEF IInv, TypeInv, TypeOK
  <1>4. (AtSender /\ AtReceiver /\ Padded /\ SlicesInArray)'
    BY <1>1 DEF AtSender, AtReceiver, Padded, SlicesInArray
  <1>5. (WireIsSealed /\ ArrivesIntact /\ DropHasReason /\ PaddingKeepsPacket)'
    BY <1>1 DEF WireIsSealed, ArrivesIntact, DropHasReason, PaddingKeepsPacket
  <1> QED
    BY <1>3, <1>4, <1>5 DEF IInv

(***************************************************************************)
(* New buffers.                                                            *)
(***************************************************************************)
LEMMA InitIInv == Init => IInv
  <1> SUFFICES ASSUME Init PROVE IInv
    OBVIOUS
  <1>1. TypeInv
    BY MaxPacketsAssumption DEF Init, TypeInv, TypeOK, IsBuffer, Empty
  <1>2. AtSender /\ AtReceiver /\ Padded /\ SlicesInArray
    BY DEF Init, AtSender, AtReceiver, Padded, SlicesInArray
  <1>3. WireIsSealed /\ ArrivesIntact /\ DropHasReason /\ PaddingKeepsPacket
    BY DEF Init, WireIsSealed, ArrivesIntact, DropHasReason, PaddingKeepsPacket
  <1> QED
    BY <1>1, <1>2, <1>3 DEF IInv

-----------------------------------------------------------------------------
(***************************************************************************)
(* At every stage the buffer in use holds this packet in the form of that  *)
(* stage.                                                                  *)
(***************************************************************************)
THEOREM IInvariant == Spec => []IInv
  <1>1. ASSUME IInv, UNCHANGED vars PROVE IInv'
    BY <1>1, SMTT(30) DEF vars, IInv, TypeInv, TypeOK, AtSender, AtReceiver, Padded, SlicesInArray,
                WireIsSealed, ArrivesIntact, DropHasReason, PaddingKeepsPacket, LastByte, InArray,
                Bytes, Payload
  <1>2. IInv /\ [Next]_vars => IInv'
    BY <1>1, ReadStep, EncryptStep, TransmitStep, AcceptStep, DeliverStep, PadStep, UnpadStep,
       RecycleStep DEF Next
  <1> QED
    BY <1>2, InitIInv, PTL DEF Spec

(***************************************************************************)
(* No slice the code takes of a buffer leaves the array.                   *)
(***************************************************************************)
THEOREM SlicesStayInArray == Spec => []SlicesInArray
  <1>1. IInv => SlicesInArray
    BY DEF IInv
  <1> QED
    BY <1>1, IInvariant, PTL

(***************************************************************************)
(* Header, ciphertext and tag of the packet go on the wire and nothing     *)
(* that an earlier packet left in the pooled buffer.                       *)
(***************************************************************************)
THEOREM OnlySealedIsSent == Spec => []WireIsSealed
  <1>1. IInv => WireIsSealed
    BY DEF IInv
  <1> QED
    BY <1>1, IInvariant, PTL

(***************************************************************************)
(* The packet that is written is the packet that was read.                 *)
(***************************************************************************)
THEOREM PacketsArriveIntact == Spec => []ArrivesIntact
  <1>1. IInv => ArrivesIntact
    BY DEF IInv
  <1> QED
    BY <1>1, IInvariant, PTL

(***************************************************************************)
(* A packet is lost only if it does not fit a buffer with header and tag,  *)
(* or has by chance the length of an initiation.                           *)
(***************************************************************************)
THEOREM DropsHaveReasons == Spec => []DropHasReason
  <1>1. IInv => DropHasReason
    BY DEF IInv
  <1> QED
    BY <1>1, IInvariant, PTL

(***************************************************************************)
(* Padding fills a block, and comes off again without a byte of the        *)
(* packet.                                                                 *)
(***************************************************************************)
THEOREM PaddingIsHarmless == Spec => []PaddingKeepsPacket
  <1>1. IInv => PaddingKeepsPacket
    BY DEF IInv
  <1> QED
    BY <1>1, IInvariant, PTL

-----------------------------------------------------------------------------
(* Packets through a TLS connection                                        *)

\* A cell of the stream: the length of packet i (a = 0), or the a-th piece
\* of its body.
Cell == [id : Nat, at : Nat, length : Nat]
CellOf(i, a, l) == [id |-> i, at |-> a, length |-> l]

\* A length is written and its body is not, and the length is l.
Writing == \E w \in Writers : writer[w].pc = "body"
Announced(l) == \E w \in Writers : writer[w].pc = "body" /\ writer[w].packet.length = l

\* No Send has begun between the two writes of another: at most one writer
\* has written a length and not its body.
Alone ==
    \A v, w \in Writers : writer[v].pc = "body" /\ writer[w].pc = "body" => v = w

\* What the reader and the writer rely on.
Types ==
    /\ writer \in [Writers -> [pc : {"idle", "body"}, packet : [id : Nat, length : Nat]]]
    /\ started \in Nat /\ up \in BOOLEAN
    /\ stream \in Seq(Cell)
    /\ sent \in Seq(Seq(Cell)) /\ incoming \in Seq(Seq(Cell)) /\ received \in Seq(Seq(Cell))
    /\ reader \in [pc : {"length", "body", "push", "done"}, need : Nat, frame : Seq(Cell)]

\* The packets that were sent, and the one that is being sent.
Sending ==
    /\ \A j \in 1 .. Len(sent) :
          /\ Len(sent[j]) \in 1 .. MaxLength
          /\ \A i \in 1 .. Len(sent[j]) : sent[j][i] = CellOf(j, i, Len(sent[j]))
    /\ up => started = IF Writing THEN Len(sent) + 1 ELSE Len(sent)
    /\ \A w \in Writers : writer[w].pc = "body" =>
          /\ writer[w].packet.length \in 1 .. MaxLength
          /\ up => writer[w].packet.id = Len(sent) + 1

\* The number of frames the read loop has made and not dropped.
Made == Len(received) + Len(incoming) + IF reader.pc = "push" THEN 1 ELSE 0

\* They are the packets that were sent, in that order.
Delivered ==
    /\ Made <= Len(sent)
    /\ \A j \in 1 .. Len(received) : received[j] = sent[j]
    /\ \A j \in 1 .. Len(incoming) : incoming[j] = sent[Len(received) + j]
    /\ reader.pc = "push" => reader.frame = sent[Made]

\* Cell c is one of a packet, and cell e the one m places after it: one of
\* the same packet, or the length of the next one.
Belongs(c) ==
    /\ c.id \in 1 .. Len(sent) + 1
    /\ c.length \in 1 .. MaxLength /\ c.at <= c.length
    /\ c.id <= Len(sent) => c.length = Len(sent[c.id])
    /\ c.id = Len(sent) + 1 => c.at = 0 /\ (up => Announced(c.length))

After(c, m, e) ==
    /\ c.at + m <= c.length => e = CellOf(c.id, c.at + m, c.length)
    /\ c.at + m = c.length + 1 => e.id = c.id + 1 /\ e.at = 0

\* So it is all along the stream.
CellsAre == \A i \in 1 .. Len(stream) : Belongs(stream[i])

InOrder ==
    \A i \in 1 .. Len(stream), m \in Nat :
        i + m <= Len(stream) => After(stream[i], m, stream[i + m])

\* The stream ends with what was written last.
EndsIn(c) ==
    IF Writing THEN c.id = Len(sent) + 1 /\ c.at = 0 ELSE c.id = Len(sent) /\ c.at = c.length

EndIs == up /\ stream # <<>> => EndsIn(stream[Len(stream)])

\* It begins with what the reader takes it to begin with.
StartIs ==
    /\ reader.pc = "body" =>
          /\ reader.need \in 1 .. MaxLength
          /\ Made + 1 <= Len(sent) => reader.need = Len(sent[Made + 1])
          /\ Made = Len(sent) /\ up => Announced(reader.need)
    /\ reader.pc # "done" /\ stream # <<>> =>
          stream[1].id = Made + 1 /\ stream[1].at = IF reader.pc = "body" THEN 1 ELSE 0
    /\ reader.pc # "done" /\ stream = <<>> /\ up =>
          Made = Len(sent) /\ (reader.pc = "body" <=> Writing)

\* All of it, which holds until two Sends overlap.
FramingInv == Types /\ Sending /\ Delivered /\ CellsAre /\ InOrder /\ EndIs /\ StartIs

WholeInv == mixed \/ (Alone /\ FramingInv)

-----------------------------------------------------------------------------
\* A cell and its parts.
LEMMA CellIs ==
    ASSUME NEW i \in Nat, NEW a \in Nat, NEW l \in Nat
    PROVE  /\ CellOf(i, a, l) \in Cell
           /\ CellOf(i, a, l).id = i /\ CellOf(i, a, l).at = a /\ CellOf(i, a, l).length = l
  BY DEF CellOf, Cell

\* The reader and its parts.
LEMMA ReaderIs ==
    ASSUME NEW pc, NEW need, NEW frame
    PROVE  /\ ReaderAt(pc, need, frame).pc = pc /\ ReaderAt(pc, need, frame).need = need
           /\ ReaderAt(pc, need, frame).frame = frame
  BY DEF ReaderAt

\* What the reader can be.
LEMMA ReaderTypes ==
    ASSUME NEW pc \in {"length", "body", "push", "done"}, NEW need \in Nat, NEW frame \in Seq(Cell)
    PROVE  ReaderAt(pc, need, frame) \in
               [pc : {"length", "body", "push", "done"}, need : Nat, frame : Seq(Cell)]
  BY DEF ReaderAt

\* The empty sequence is a frame, and a queue.
LEMMA EmptyType == <<>> \in Seq(Cell) /\ <<>> \in Seq(Seq(Cell))
  OBVIOUS

\* Nothing is written.
LEMMA FramingStarts == FramingInit => FramingInv
  <1> SUFFICES ASSUME FramingInit PROVE FramingInv
    OBVIOUS
  <1>1. \A w \in Writers : writer[w].pc = "idle"
    BY DEF FramingInit, IdleWriter
  <1>2. reader.pc = "length" /\ Len(sent) = 0 /\ Len(stream) = 0 /\ Made = 0
        /\ Len(received) = 0 /\ Len(incoming) = 0
    <2>1. reader.pc = "length"
      BY ReaderIs DEF FramingInit
    <2>2. Len(sent) = 0 /\ Len(stream) = 0 /\ Len(received) = 0 /\ Len(incoming) = 0
      BY DEF FramingInit
    <2> QED
      BY <2>1, <2>2 DEF Made
  <1>3. Types
    <2>1. IdleWriter \in [pc : {"idle", "body"}, packet : [id : Nat, length : Nat]]
      BY DEF IdleWriter, NoPacket
    <2>2. writer \in [Writers -> [pc : {"idle", "body"}, packet : [id : Nat, length : Nat]]]
      BY <2>1 DEF FramingInit
    <2>3. reader \in [pc : {"length", "body", "push", "done"}, need : Nat, frame : Seq(Cell)]
      BY ReaderTypes, EmptyType DEF FramingInit
    <2> QED
      BY <2>2, <2>3, EmptyType DEF FramingInit, Types
  <1>4. Sending /\ Delivered /\ CellsAre /\ InOrder /\ EndIs /\ StartIs
    <2>1. ~ Writing
      BY <1>1 DEF Writing
    <2>2. started = 0 /\ stream = <<>>
      BY DEF FramingInit
    <2> QED
      BY <1>1, <1>2, <2>1, <2>2 DEF Sending, Delivered, CellsAre, InOrder, EndIs, StartIs
  <1> QED
    BY <1>3, <1>4 DEF FramingInv

-----------------------------------------------------------------------------
\* What the reader takes from the stream leaves the rest in order.
LEMMA Dropping ==
    ASSUME FramingInv, NEW k \in 0 .. Len(stream), stream' \in Seq(Cell),
           Len(stream') = Len(stream) - k, \A i \in 1 .. Len(stream') : stream'[i] = stream[i + k],
           UNCHANGED <<sent, writer, up>>
    PROVE  CellsAre' /\ InOrder' /\ EndIs'
  <1>1. Len(stream) \in Nat /\ Len(stream') \in Nat /\ stream \in Seq(Cell)
    BY DEF FramingInv, Types
  <1>2. (Writing' <=> Writing) /\ \A l : Announced(l)' <=> Announced(l)
    BY DEF Writing, Announced
  <1>3. CellsAre'
    <2> SUFFICES ASSUME NEW i \in 1 .. Len(stream') PROVE Belongs(stream[i])'
      BY DEF CellsAre
    <2>1. i + k \in 1 .. Len(stream) /\ stream'[i] = stream[i + k]
      BY <1>1
    <2>2. Belongs(stream[i + k])
      BY <2>1 DEF FramingInv, CellsAre
    <2> QED
      BY <1>2, <2>1, <2>2 DEF Belongs
  <1>4. InOrder'
    <2> SUFFICES ASSUME NEW i \in 1 .. Len(stream'), NEW m \in Nat, i + m <= Len(stream')
                 PROVE  After(stream'[i], m, stream'[i + m])
      BY DEF InOrder, After
    <2>1. stream'[i] = stream[i + k] /\ stream'[i + m] = stream[(i + k) + m]
      BY <1>1
    <2>2. i + k \in 1 .. Len(stream) /\ (i + k) + m <= Len(stream)
      BY <1>1
    <2> QED
      BY <2>1, <2>2 DEF FramingInv, InOrder
  <1>5. EndIs'
    <2> SUFFICES ASSUME up, stream' # <<>>
                 PROVE  EndsIn(stream[Len(stream)])'
      BY DEF EndIs
    <2>1. Len(stream') # 0
      BY EmptySeq
    <2>2. stream'[Len(stream')] = stream[Len(stream)] /\ stream # <<>>
      BY <1>1, <2>1
    <2> QED
      BY <1>2, <2>2 DEF FramingInv, EndIs, EndsIn
  <1> QED
    BY <1>3, <1>4, <1>5

\* The connection is lost, with the end of the stream.
LEMMA Cutting ==
    ASSUME FramingInv, NEW l \in 0 .. Len(stream), stream' \in Seq(Cell), Len(stream') = l,
           \A i \in 1 .. l : stream'[i] = stream[i], up' = FALSE,
           UNCHANGED <<sent, writer, started>>, UNCHANGED <<reader, incoming, received>>
    PROVE  FramingInv'
  <1>1. Len(stream) \in Nat /\ stream \in Seq(Cell)
    BY DEF FramingInv, Types
  <1>2. Types' /\ Sending' /\ Delivered'
    BY DEF FramingInv, Types, Sending, Delivered, Made
  <1>3. CellsAre'
    <2> SUFFICES ASSUME NEW i \in 1 .. l PROVE Belongs(stream[i])'
      BY DEF CellsAre
    <2>1. stream'[i] = stream[i] /\ Belongs(stream[i])
      BY <1>1 DEF FramingInv, CellsAre
    <2> QED
      BY <2>1 DEF Belongs
  <1>4. InOrder'
    <2> SUFFICES ASSUME NEW i \in 1 .. l, NEW m \in Nat, i + m <= l
                 PROVE  After(stream'[i], m, stream'[i + m])
      BY DEF InOrder, After
    <2>1. stream'[i] = stream[i] /\ stream'[i + m] = stream[i + m] /\ i \in 1 .. Len(stream)
          /\ i + m <= Len(stream)
      BY <1>1
    <2> QED
      BY <2>1 DEF FramingInv, InOrder
  <1>5. EndIs' /\ StartIs'
    <2>1. stream' # <<>> => stream # <<>> /\ stream'[1] = stream[1]
      <3>1. stream' # <<>> => l # 0
        BY EmptySeq
      <3> QED
        BY <1>1, <3>1
    <2> QED
      BY <2>1 DEF FramingInv, EndIs, StartIs, Made
  <1> QED
    BY <1>2, <1>3, <1>4, <1>5 DEF FramingInv

-----------------------------------------------------------------------------
(* The reader                                                              *)

\* Steps beside the stream.
LEMMA BesideStream ==
    ASSUME FramingInv, UNCHANGED <<writer, sent, started, stream, up>>
    PROVE  Sending' /\ CellsAre' /\ InOrder' /\ EndIs'
  BY DEF FramingInv, Sending, CellsAre, InOrder, EndIs, Writing, Announced, Belongs, After,
         EndsIn

\* The read loop ends; what it had read and not pushed is dropped.
LEMMA ReaderEnds ==
    ASSUME FramingInv, UNCHANGED <<writer, sent, started, stream, up, incoming, received>>,
           reader' = ReaderAt("done", 0, <<>>)
    PROVE  FramingInv'
  <1>1. reader'.pc = "done"
    BY ReaderIs
  <1>2. Types'
    <2>1. reader' \in [pc : {"length", "body", "push", "done"}, need : Nat, frame : Seq(Cell)]
      BY ReaderTypes, EmptyType
    <2> QED
      BY <2>1 DEF FramingInv, Types
  <1>3. Made' <= Made /\ Made \in Nat /\ Made' \in Nat /\ Len(sent) \in Nat
    BY <1>1 DEF Made, FramingInv, Types
  <1>4. Delivered'
    BY <1>1, <1>3 DEF FramingInv, Delivered
  <1>5. StartIs'
    BY <1>1 DEF StartIs
  <1> QED
    BY <1>2, <1>4, <1>5, BesideStream DEF FramingInv

\* A frame goes from the read loop to the end of the queue ...
LEMMA PushStep == ASSUME FramingInv, Push PROVE FramingInv'
  <1>1. /\ reader.pc = "push" /\ incoming' = Append(incoming, reader.frame)
        /\ reader'.pc = "length" /\ reader' = ReaderAt("length", 0, <<>>)
        /\ UNCHANGED <<writer, sent, started, stream, up, received>>
    BY ReaderIs DEF Push
  <1>2. /\ incoming \in Seq(Seq(Cell)) /\ reader.frame \in Seq(Cell) /\ Len(received) \in Nat
        /\ Len(incoming) \in Nat /\ Len(sent) \in Nat
    BY DEF FramingInv, Types
  <1>3. /\ incoming' \in Seq(Seq(Cell)) /\ Len(incoming') = Len(incoming) + 1
        /\ \A j \in 1 .. Len(incoming) : incoming'[j] = incoming[j]
        /\ incoming'[Len(incoming) + 1] = reader.frame
    BY <1>1, <1>2
  <1>4. Types'
    <2>1. reader' \in [pc : {"length", "body", "push", "done"}, need : Nat, frame : Seq(Cell)]
      BY <1>1, ReaderTypes, EmptyType
    <2> QED
      BY <1>1, <1>3, <2>1 DEF FramingInv, Types
  <1>5. Made' = Made /\ Made = Len(received) + (Len(incoming) + 1)
    BY <1>1, <1>2, <1>3 DEF Made
  <1>6. Delivered'
    <2>1. \A j \in 1 .. Len(incoming') : incoming'[j] = sent[Len(received) + j]
      <3> SUFFICES ASSUME NEW j \in 1 .. Len(incoming') PROVE incoming'[j] = sent[Len(received) + j]
        OBVIOUS
      <3>1. CASE j = Len(incoming) + 1
        BY <1>1, <1>3, <1>5, <3>1 DEF FramingInv, Delivered
      <3>2. CASE j # Len(incoming) + 1
        <4>1. j \in 1 .. Len(incoming)
          BY <1>2, <1>3, <3>2
        <4> QED
          BY <1>3, <4>1 DEF FramingInv, Delivered
      <3> QED
        BY <3>1, <3>2
    <2> QED
      BY <1>1, <1>5, <2>1 DEF FramingInv, Delivered
  <1>7. StartIs'
    <2>1. (Writing' <=> Writing) /\ reader.pc # "body" /\ reader.pc # "done"
      BY <1>1 DEF Writing
    <2> QED
      BY <1>1, <1>5, <2>1 DEF FramingInv, StartIs
  <1> QED
    BY <1>1, <1>4, <1>6, <1>7, BesideStream DEF FramingInv

\* ... and from its head to the caller of Receive.
LEMMA ReceiveStep == ASSUME FramingInv, Receive PROVE FramingInv'
  <1>1. /\ incoming # <<>> /\ received' = Append(received, Head(incoming))
        /\ incoming' = Tail(incoming)
        /\ UNCHANGED <<writer, sent, started, stream, up, reader>>
    BY DEF Receive
  <1>2. /\ incoming \in Seq(Seq(Cell)) /\ received \in Seq(Seq(Cell)) /\ Len(received) \in Nat
        /\ Len(incoming) \in Nat /\ Len(sent) \in Nat
    BY DEF FramingInv, Types
  <1>3. /\ Len(incoming) > 0 /\ incoming' \in Seq(Seq(Cell)) /\ Len(incoming') = Len(incoming) - 1
        /\ \A j \in 1 .. Len(incoming) - 1 : incoming'[j] = incoming[j + 1]
        /\ Head(incoming) = incoming[1] /\ incoming[1] \in Seq(Cell)
    BY <1>1, <1>2
  <1>4. /\ received' \in Seq(Seq(Cell)) /\ Len(received') = Len(received) + 1
        /\ \A j \in 1 .. Len(received) : received'[j] = received[j]
        /\ received'[Len(received) + 1] = incoming[1]
    BY <1>1, <1>2, <1>3
  <1>5. Types'
    BY <1>1, <1>3, <1>4 DEF FramingInv, Types
  <1>6. Made' = Made
    BY <1>1, <1>2, <1>3, <1>4 DEF Made
  <1>7. Delivered'
    <2>1. \A j \in 1 .. Len(received') : received'[j] = sent[j]
      <3> SUFFICES ASSUME NEW j \in 1 .. Len(received') PROVE received'[j] = sent[j]
        OBVIOUS
      <3>1. CASE j = Len(received) + 1
        BY <1>2, <1>3, <1>4, <3>1 DEF FramingInv, Delivered
      <3>2. CASE j # Len(received) + 1
        <4>1. j \in 1 .. Len(received)
          BY <1>2, <1>4, <3>2
        <4> QED
          BY <1>4, <4>1 DEF FramingInv, Delivered
      <3> QED
        BY <3>1, <3>2
    <2>2. \A j \in 1 .. Len(incoming') : incoming'[j] = sent[Len(received') + j]
      <3> SUFFICES ASSUME NEW j \in 1 .. Len(incoming')
                   PROVE  incoming'[j] = sent[Len(received') + j]
        OBVIOUS
      <3>1. j \in 1 .. Len(incoming) - 1 /\ j + 1 \in 1 .. Len(incoming)
        BY <1>2, <1>3
      <3>2. incoming'[j] = incoming[j + 1]
        BY <1>3, <3>1
      <3>3. Len(received') + j = Len(received) + (j + 1)
        BY <1>2, <1>4, <3>1
      <3> QED
        BY <3>1, <3>2, <3>3 DEF FramingInv, Delivered
    <2> QED
      BY <1>1, <1>6, <2>1, <2>2 DEF FramingInv, Delivered
  <1>8. StartIs'
    BY <1>1, <1>6 DEF FramingInv, StartIs, Writing, Announced
  <1> QED
    BY <1>1, <1>5, <1>7, <1>8, BesideStream DEF FramingInv

\* The length that is read is the one of the packet that comes next.
LEMMA ReadLengthStep ==
    ASSUME FramingInv, ReadLength
    PROVE  FramingInv'
  <1>1. /\ reader.pc = "length" /\ stream # <<>> /\ stream' = Tail(stream)
        /\ UNCHANGED <<writer, sent, started, up, incoming, received>>
    BY DEF ReadLength
  <1>2. /\ stream \in Seq(Cell) /\ Len(stream) \in Nat /\ Len(sent) \in Nat
        /\ Len(received) \in Nat /\ Len(incoming) \in Nat /\ MaxLength \in Nat
    BY MaxLengthAssumption DEF FramingInv, Types
  <1>3. /\ Len(stream) > 0 /\ stream' \in Seq(Cell) /\ Len(stream') = Len(stream) - 1
        /\ \A i \in 1 .. Len(stream) - 1 : stream'[i] = stream[i + 1]
        /\ Head(stream) = stream[1] /\ stream[1] \in Cell
    BY <1>1, <1>2
  <1> DEFINE c == stream[1]
  <1>4. /\ Belongs(c) /\ c.id = Made + 1 /\ c.at = 0 /\ c.length \in 1 .. MaxLength
        /\ c.length \in Nat
    <2>1. Belongs(c)
      BY <1>2, <1>3 DEF FramingInv, CellsAre
    <2>2. c.id = Made + 1 /\ c.at = 0
      BY <1>1 DEF FramingInv, StartIs
    <2> QED
      BY <1>2, <2>1, <2>2 DEF Belongs
  <1>5. \A e : After(c, 1, e) => e = CellOf(Made + 1, 1, c.length)
    BY <1>4 DEF After
  <1>6. reader' = ReaderAt("body", c.length, <<>>)
    <2>1. PICK l \in ReadAsLength(c) :
              reader' = IF l \in 1 .. MaxLength THEN ReaderAt("body", l, <<>>)
                                                ELSE ReaderAt("done", 0, <<>>)
      BY <1>3 DEF ReadLength
    <2>2. l = c.length
      BY <1>4, <2>1 DEF ReadAsLength
    <2> QED
      BY <1>4, <2>1, <2>2
  <1>7. reader'.pc = "body" /\ reader'.need = c.length
    BY <1>6, ReaderIs
  <1>8. Types'
    <2>1. reader' \in [pc : {"length", "body", "push", "done"}, need : Nat, frame : Seq(Cell)]
      BY <1>4, <1>6, ReaderTypes, EmptyType
    <2> QED
      BY <1>1, <1>3, <2>1 DEF FramingInv, Types
  <1>9. Made' = Made /\ Made \in Nat
    BY <1>1, <1>2, <1>7 DEF Made
  <1>10. Sending' /\ Delivered'
    <2>1. Sending'
      BY <1>1 DEF FramingInv, Sending, Writing
    <2>2. Delivered'
      BY <1>1, <1>7, <1>9 DEF FramingInv, Delivered
    <2> QED
      BY <2>1, <2>2
  <1>11. CellsAre' /\ InOrder' /\ EndIs'
    <2>1. 1 \in 0 .. Len(stream)
      BY <1>2, <1>3
    <2> QED
      BY <1>1, <1>3, <2>1, Dropping
  <1>12. (Writing' <=> Writing) /\ \A l : Announced(l)' <=> Announced(l)
    BY <1>1 DEF Writing, Announced
  <1>13. StartIs'
    <2>1. /\ Made + 1 <= Len(sent) => c.length = Len(sent[Made + 1])
          /\ Made = Len(sent) /\ up => Announced(c.length)
      BY <1>4, <1>9 DEF Belongs
    <2>2. ASSUME stream' # <<>> PROVE stream'[1].id = Made + 1 /\ stream'[1].at = 1
      <3>1. Len(stream') # 0
        BY <1>3, <2>2, EmptySeq
      <3>2. stream'[1] = stream[1 + 1] /\ 1 \in 1 .. Len(stream) /\ 1 + 1 <= Len(stream)
        BY <1>2, <1>3, <3>1
      <3>3. After(c, 1, stream'[1])
        BY <3>2 DEF FramingInv, InOrder
      <3>4. stream'[1] = CellOf(Made + 1, 1, c.length)
        BY <1>4, <1>5, <3>3
      <3> QED
        BY <1>4, <1>9, <3>4, CellIs
    <2>3. ASSUME stream' = <<>>, up PROVE Made = Len(sent) /\ Writing
      <3>1. Len(stream) = 1
        BY <1>2, <1>3, <2>3
      <3>2. EndsIn(c)
        BY <1>1, <2>3, <3>1 DEF FramingInv, EndIs
      <3> QED
        BY <1>2, <1>4, <1>9, <3>2 DEF EndsIn
    <2> QED
      BY <1>1, <1>4, <1>7, <1>9, <1>12, <2>1, <2>2, <2>3 DEF StartIs
  <1> QED
    BY <1>8, <1>10, <1>11, <1>13 DEF FramingInv

\* The frame that is read is the packet that was sent.
LEMMA ReadBodyStep ==
    ASSUME FramingInv, ReadBody
    PROVE  FramingInv'
  <1> DEFINE l == reader.need
             c == stream[1]
             frame == SubSeq(stream, 1, l)
  <1>1. /\ reader.pc = "body" /\ l <= Len(stream) /\ stream' = SubSeq(stream, l + 1, Len(stream))
        /\ reader' = ReaderAt("push", 0, frame)
        /\ UNCHANGED <<writer, sent, started, up, incoming, received>>
    BY DEF ReadBody
  <1>2. /\ stream \in Seq(Cell) /\ Len(stream) \in Nat /\ Len(sent) \in Nat
        /\ Len(received) \in Nat /\ Len(incoming) \in Nat /\ MaxLength \in Nat
        /\ sent \in Seq(Seq(Cell)) /\ Made \in Nat
    BY <1>1, MaxLengthAssumption DEF FramingInv, Types, Made
  <1>3. l \in 1 .. MaxLength /\ l \in Nat /\ Len(stream) # 0
    BY <1>1, <1>2 DEF FramingInv, StartIs
  <1>4. c \in Cell /\ c.id = Made + 1 /\ c.at = 1 /\ Belongs(c)
    <2>1. stream # <<>> /\ 1 \in 1 .. Len(stream)
      BY <1>2, <1>3
    <2> QED
      BY <1>1, <1>2, <2>1 DEF FramingInv, StartIs, CellsAre
  <1>5. Made + 1 \in 1 .. Len(sent) /\ Len(sent[Made + 1]) = l /\ c.length = l
    <2>1. c.id \in 1 .. Len(sent) + 1 /\ c.id # Len(sent) + 1
      BY <1>4 DEF Belongs
    <2>2. Made + 1 \in 1 .. Len(sent)
      BY <1>2, <1>4, <2>1
    <2>3. c.length = Len(sent[Made + 1])
      BY <1>4, <2>2 DEF Belongs
    <2>4. l = Len(sent[Made + 1])
      BY <1>1, <2>2 DEF FramingInv, StartIs
    <2> QED
      BY <2>2, <2>3, <2>4
  <1>6. \A i \in 1 .. l : stream[i] = CellOf(Made + 1, i, l)
    <2> SUFFICES ASSUME NEW i \in 1 .. l PROVE stream[i] = CellOf(Made + 1, i, l)
      OBVIOUS
    <2>1. 1 \in 1 .. Len(stream) /\ i - 1 \in Nat /\ 1 + (i - 1) = i /\ i <= Len(stream)
      BY <1>1, <1>2, <1>3
    <2>2. After(c, i - 1, stream[i])
      BY <2>1 DEF FramingInv, InOrder
    <2> QED
      BY <1>3, <1>4, <1>5, <2>1, <2>2 DEF After
  <1>7. /\ frame \in Seq(Cell) /\ Len(frame) = l /\ \A i \in 1 .. l : frame[i] = stream[i]
    BY <1>1, <1>2, <1>3, SubSeqProperties
  <1>8. /\ stream' \in Seq(Cell) /\ Len(stream') = Len(stream) - l
        /\ \A i \in 1 .. Len(stream') : stream'[i] = stream[i + l]
    <2>1. /\ stream' \in Seq(Cell) /\ Len(stream') = Len(stream) - l
          /\ \A i \in 1 .. Len(stream) - l : stream'[i] = stream[i + l]
      <3>1. /\ stream' = SubSeq(stream, l + 1, Len(stream)) /\ stream \in Seq(Cell)
            /\ l \in Nat /\ l <= Len(stream)
        BY <1>1, <1>2, <1>3
      <3> HIDE DEF l
      <3> QED
        BY <3>1
    <2> QED
      BY <2>1
  <1> HIDE DEF frame
  <1>9. frame = sent[Made + 1]
    <2>1. sent[Made + 1] \in Seq(Cell)
      BY <1>2, <1>5
    <2>2. \A i \in 1 .. l : frame[i] = sent[Made + 1][i]
      BY <1>5, <1>6, <1>7 DEF FramingInv, Sending
    <2> QED
      BY <1>5, <1>7, <2>1, <2>2, SeqEqual
  <1>10. reader'.pc = "push" /\ reader'.frame = frame
    BY <1>1, ReaderIs
  <1>11. Types'
    <2>1. reader' \in [pc : {"length", "body", "push", "done"}, need : Nat, frame : Seq(Cell)]
      BY <1>1, <1>7, ReaderTypes
    <2> QED
      BY <1>1, <1>8, <2>1 DEF FramingInv, Types
  <1>12. Made' = Made + 1
    BY <1>1, <1>2, <1>10 DEF Made
  <1>13. Sending' /\ Delivered'
    <2>1. Sending'
      BY <1>1 DEF FramingInv, Sending, Writing
    <2>2. Delivered'
      BY <1>1, <1>2, <1>5, <1>9, <1>10, <1>12 DEF FramingInv, Delivered
    <2> QED
      BY <2>1, <2>2
  <1>14. CellsAre' /\ InOrder' /\ EndIs'
    <2>1. l \in 0 .. Len(stream)
      BY <1>1, <1>2, <1>3
    <2> QED
      BY <1>1, <1>8, <2>1, Dropping
  <1>15. StartIs'
    <2>1. ASSUME stream' # <<>> PROVE stream'[1].id = Made + 2 /\ stream'[1].at = 0
      <3>1. Len(stream') # 0
        BY <1>8, <2>1, EmptySeq
      <3>2. stream'[1] = stream[1 + l] /\ 1 \in 1 .. Len(stream) /\ 1 + l <= Len(stream)
        BY <1>2, <1>3, <1>8, <3>1
      <3>3. After(c, l, stream'[1])
        BY <1>3, <3>2 DEF FramingInv, InOrder
      <3> QED
        BY <1>2, <1>3, <1>4, <1>5, <3>3 DEF After
    <2>2. ASSUME stream' = <<>>, up PROVE Made + 1 = Len(sent) /\ ~ Writing
      <3>1. Len(stream') = 0
        BY <2>2
      <3>2. Len(stream) = l /\ stream # <<>>
        <4>1. Len(stream) - l = 0
          BY <1>8, <3>1
        <4>2. l \in Nat /\ Len(stream) \in Nat /\ Len(stream) # 0
          BY <1>2, <1>3
        <4> HIDE DEF l
        <4>3. Len(stream) = l
          BY <4>1, <4>2
        <4> QED
          BY <4>2, <4>3
      <3>3. EndsIn(stream[l])
        BY <2>2, <3>2 DEF FramingInv, EndIs
      <3>4. stream[l] = CellOf(Made + 1, l, l)
        BY <1>3, <1>6
      <3>5. stream[l].id = Made + 1 /\ stream[l].at = l
        <4>1. Made + 1 \in Nat
          BY <1>2
        <4> QED
          BY <1>3, <3>4, <4>1, CellIs
      <3> QED
        BY <1>3, <3>3, <3>5 DEF EndsIn
    <2>3. Made' + 1 = Made + 2
      BY <1>2, <1>12
    <2>4. Writing' <=> Writing
      BY <1>1 DEF Writing
    <2> QED
      BY <1>1, <1>10, <1>12, <2>1, <2>2, <2>3, <2>4 DEF StartIs
  <1> QED
    BY <1>11, <1>13, <1>14, <1>15 DEF FramingInv

-----------------------------------------------------------------------------
(* The writer                                                              *)

\* The length of a packet is written where the packet before it ends.
LEMMA WriteLengthStep ==
    ASSUME FramingInv, NEW w \in Writers,
           NEW l \in 1 .. MaxLength, WriteLength(w, l), ~ mixed'
    PROVE  Alone' /\ FramingInv'
  <1> DEFINE c == CellOf(Len(sent) + 1, 0, l)
             p == [id |-> started + 1, length |-> l]
  <1>1. /\ writer[w].pc = "idle" /\ up /\ started' = started + 1
        /\ writer' = [writer EXCEPT ![w] = [pc |-> "body", packet |-> p]]
        /\ stream' = Append(stream, LengthCell(p))
        /\ UNCHANGED <<sent, up, reader, incoming, received>>
    BY DEF WriteLength
  <1>2. /\ stream \in Seq(Cell) /\ Len(stream) \in Nat /\ Len(sent) \in Nat /\ started \in Nat
        /\ MaxLength \in Nat /\ l \in Nat /\ Len(sent) + 1 \in Nat
        /\ writer \in [Writers -> [pc : {"idle", "body"}, packet : [id : Nat, length : Nat]]]
    BY MaxLengthAssumption DEF FramingInv, Types
  <1>3. /\ ~ Writing /\ \A x : ~ Announced(x)
        /\ \A v \in Writers : writer[v].pc # "body"
    BY DEF WriteLength, Writing, Announced
  <1>4. started = Len(sent)
    BY <1>1, <1>3 DEF FramingInv, Sending
  <1>5. LengthCell(p) = c
    BY <1>4 DEF LengthCell, CellOf
  <1>6. c \in Cell /\ c.id = Len(sent) + 1 /\ c.at = 0 /\ c.length = l
    BY <1>2 DEF CellOf, Cell
  <1> HIDE DEF c
  <1>7. /\ stream' \in Seq(Cell) /\ Len(stream') = Len(stream) + 1
        /\ \A i \in 1 .. Len(stream) : stream'[i] = stream[i]
        /\ stream'[Len(stream) + 1] = c
    BY <1>1, <1>2, <1>5, <1>6
  <1>8. /\ writer' \in [Writers -> [pc : {"idle", "body"}, packet : [id : Nat, length : Nat]]]
        /\ writer'[w].pc = "body" /\ writer'[w].packet.length = l
        /\ writer'[w].packet.id = Len(sent) + 1
    BY <1>1, <1>2, <1>4
  <1>9. Writing' /\ Announced(l)'
    BY <1>8 DEF Writing, Announced
  <1>10. Types'
    BY <1>1, <1>2, <1>7, <1>8 DEF FramingInv, Types
  <1>11. Sending' /\ Delivered' /\ Alone'
    <2>1. \A v \in Writers : writer'[v].pc = "body" => v = w
      BY <1>1, <1>2, <1>3
    <2>2. Sending'
      BY <1>1, <1>2, <1>4, <1>8, <1>9, <2>1 DEF FramingInv, Sending
    <2>3. Delivered'
      BY <1>1 DEF FramingInv, Delivered, Made
    <2> QED
      BY <2>1, <2>2, <2>3 DEF Alone
  <1>12. CellsAre'
    <2> SUFFICES ASSUME NEW i \in 1 .. Len(stream) + 1 PROVE Belongs(stream[i])'
      BY <1>7 DEF CellsAre
    <2>1. CASE i = Len(stream) + 1
      BY <1>1, <1>2, <1>6, <1>7, <1>9, <2>1 DEF Belongs
    <2>2. CASE i # Len(stream) + 1
      <3>1. i \in 1 .. Len(stream)
        BY <1>2, <2>2
      <3>2. stream'[i] = stream[i] /\ Belongs(stream[i])
        BY <1>7, <3>1 DEF FramingInv, CellsAre
      <3>3. stream[i].id # Len(sent) + 1
        BY <1>1, <1>3, <3>2 DEF Belongs
      <3> QED
        BY <1>1, <3>2, <3>3 DEF Belongs
    <2> QED
      BY <2>1, <2>2
  <1>13. InOrder'
    <2> SUFFICES ASSUME NEW i \in 1 .. Len(stream) + 1, NEW m \in Nat, i + m <= Len(stream) + 1
                 PROVE  After(stream'[i], m, stream'[i + m])
      BY <1>7 DEF InOrder, After
    <2>1. CASE i = Len(stream) + 1
      <3>1. m = 0 /\ stream'[i] = c /\ stream'[i + m] = c
        BY <1>2, <1>7, <2>1
      <3>2. CellOf(c.id, c.at + 0, c.length) = c
        BY <1>6 DEF CellOf, Cell
      <3> QED
        BY <1>2, <1>6, <3>1, <3>2 DEF After
    <2>2. CASE i # Len(stream) + 1
      <3>1. i \in 1 .. Len(stream) /\ stream'[i] = stream[i]
        BY <1>2, <1>7, <2>2
      <3>2. CASE i + m <= Len(stream)
        <4>1. stream'[i + m] = stream[i + m]
          BY <1>2, <1>7, <3>1, <3>2
        <4> QED
          BY <3>1, <3>2, <4>1 DEF FramingInv, InOrder
      <3>3. CASE ~ (i + m <= Len(stream))
        <4> DEFINE a == stream[i]
                   z == stream[Len(stream)]
        <4>1. Len(stream) \in Nat /\ i \in Nat /\ i <= Len(stream)
          BY <1>2, <3>1
        <4>2. i + m = Len(stream) + 1 /\ m - 1 \in Nat /\ i + (m - 1) = Len(stream)
          BY <3>3, <4>1
        <4>3. After(a, m - 1, z)
          BY <3>1, <4>1, <4>2 DEF FramingInv, InOrder
        <4>4. z.id = Len(sent) /\ z.at = z.length
          <5>1. stream # <<>>
            BY <3>1
          <5> QED
            BY <1>1, <1>3, <5>1 DEF FramingInv, EndIs, EndsIn
        <4>5. a \in Cell
          BY <1>2, <3>1
        <4> HIDE DEF a, z
        <4>6. a.id \in Nat /\ a.at \in Nat /\ a.length \in Nat /\ a.at + (m - 1) \in Nat
          BY <4>2, <4>5 DEF Cell
        <4>7. a.at + (m - 1) <= a.length =>
                  z.id = a.id /\ z.at = a.at + (m - 1) /\ z.length = a.length
          <5>1. a.at + (m - 1) <= a.length => z = CellOf(a.id, a.at + (m - 1), a.length)
            BY <4>3 DEF After
          <5> DEFINE y == CellOf(a.id, a.at + (m - 1), a.length)
          <5>2. y.id = a.id /\ y.at = a.at + (m - 1) /\ y.length = a.length
            BY DEF CellOf
          <5> HIDE DEF y
          <5> QED
            BY <5>1, <5>2 DEF y
        <4>8. After(a, m, c)
          <5>1. ~ (a.at + m <= a.length)
            BY <4>4, <4>6, <4>7
          <5>2. a.at + m = a.length + 1 => a.id = Len(sent)
            BY <4>4, <4>6, <4>7
          <5> QED
            BY <1>6, <5>1, <5>2 DEF After
        <4> QED
          BY <1>7, <3>1, <4>2, <4>8 DEF a
      <3> QED
        BY <3>2, <3>3
    <2> QED
      BY <2>1, <2>2
  <1>14. EndIs'
    BY <1>1, <1>6, <1>7, <1>9 DEF EndIs, EndsIn
  <1>15. StartIs'
    <2>1. Made' = Made /\ Made \in Nat /\ Made <= Len(sent)
      BY <1>1 DEF Made, FramingInv, Types, Delivered
    <2>2. reader.pc = "body" => Made # Len(sent) /\ reader.need \in 1 .. MaxLength
              /\ (Made + 1 <= Len(sent) => reader.need = Len(sent[Made + 1]))
      BY <1>1, <1>3 DEF FramingInv, StartIs
    <2>3. ASSUME reader.pc # "done"
          PROVE  stream'[1].id = Made + 1 /\ stream'[1].at = IF reader.pc = "body" THEN 1 ELSE 0
      <3>1. CASE stream = <<>>
        <4>1. Made = Len(sent) /\ reader.pc # "body"
          BY <1>1, <1>3, <2>3, <3>1 DEF FramingInv, StartIs
        <4>2. stream'[1] = c
          BY <1>7, <3>1
        <4> QED
          BY <1>6, <4>1, <4>2
      <3>2. CASE stream # <<>>
        <4>1. stream'[1] = stream[1]
          BY <1>2, <1>7, <3>2
        <4> QED
          BY <2>3, <3>2, <4>1 DEF FramingInv, StartIs
      <3> QED
        BY <3>1, <3>2
    <2>4. stream' # <<>>
      BY <1>2, <1>7
    <2> QED
      BY <1>1, <2>1, <2>2, <2>3, <2>4 DEF StartIs
  <1> QED
    BY <1>10, <1>11, <1>12, <1>13, <1>14, <1>15 DEF FramingInv

\* The packet is written where its length is.
LEMMA WriteBodyStep ==
    ASSUME Alone, FramingInv, NEW w \in Writers, WriteBody(w)
    PROVE  Alone' /\ FramingInv'
  <1> DEFINE p == writer[w].packet
             b == Body(p)
             l == p.length
  <1>1. /\ writer[w].pc = "body" /\ up /\ stream' = stream \o b /\ sent' = Append(sent, b)
        /\ writer' = [writer EXCEPT ![w] = IdleWriter]
        /\ UNCHANGED <<started, up, reader, incoming, received>>
    BY DEF WriteBody
  <1>2. /\ stream \in Seq(Cell) /\ Len(stream) \in Nat /\ sent \in Seq(Seq(Cell))
        /\ Len(sent) \in Nat /\ MaxLength \in Nat
        /\ writer \in [Writers -> [pc : {"idle", "body"}, packet : [id : Nat, length : Nat]]]
    BY MaxLengthAssumption DEF FramingInv, Types
  <1>3. p.id = Len(sent) + 1 /\ l \in 1 .. MaxLength /\ l \in Nat /\ p.id \in Nat
    BY <1>1, <1>2 DEF FramingInv, Sending
  <1>4. Writing /\ \A x : Announced(x) => x = l
    BY <1>1 DEF Writing, Announced, Alone
  <1>5. started = Len(sent) + 1
    BY <1>1, <1>4 DEF FramingInv, Sending
  <1>6. b \in Seq(Cell) /\ Len(b) = l /\ \A i \in 1 .. l : b[i] = CellOf(Len(sent) + 1, i, l)
    <2>1. b = [i \in 1 .. l |-> CellOf(p.id, i, l)]
      BY DEF Body, CellOf
    <2>2. \A i \in 1 .. l : CellOf(p.id, i, l) \in Cell
      BY <1>3, CellIs
    <2> HIDE DEF b, l, p
    <2>3. b \in [1 .. l -> Cell]
      BY <2>1, <2>2
    <2> QED
      BY <1>3, <2>1, <2>3
  <1> HIDE DEF b, l, p
  <1>7. /\ stream' \in Seq(Cell) /\ Len(stream') = Len(stream) + l
        /\ \A i \in 1 .. Len(stream) : stream'[i] = stream[i]
        /\ \A i \in 1 .. l : stream'[Len(stream) + i] = b[i]
    <2>1. stream' = stream \o b /\ stream \in Seq(Cell) /\ b \in Seq(Cell) /\ Len(b) = l
      BY <1>1, <1>2, <1>6
    <2>2. /\ stream' \in Seq(Cell) /\ Len(stream') = Len(stream) + Len(b)
          /\ \A i \in 1 .. Len(stream) + Len(b) :
                stream'[i] = IF i <= Len(stream) THEN stream[i] ELSE b[i - Len(stream)]
      BY <2>1, ConcatProperties
    <2>3. \A i \in 1 .. l : /\ Len(stream) + i \in 1 .. Len(stream) + l
                            /\ ~ (Len(stream) + i <= Len(stream))
                            /\ Len(stream) + i - Len(stream) = i
      BY <1>2, <1>3
    <2>4. \A i \in 1 .. Len(stream) : i \in 1 .. Len(stream) + l /\ i <= Len(stream)
      BY <1>2, <1>3
    <2> QED
      BY <2>1, <2>2, <2>3, <2>4
  <1>8. /\ sent' \in Seq(Seq(Cell)) /\ Len(sent') = Len(sent) + 1
        /\ \A j \in 1 .. Len(sent) : sent'[j] = sent[j]
        /\ sent'[Len(sent) + 1] = b
    BY <1>1, <1>2, <1>6
  <1>9. /\ writer' \in [Writers -> [pc : {"idle", "body"}, packet : [id : Nat, length : Nat]]]
        /\ \A v \in Writers : writer'[v].pc = "idle"
    BY <1>1, <1>2 DEF IdleWriter, NoPacket, Alone
  <1>10. ~ Writing'
    BY <1>9 DEF Writing
  <1>11. Types'
    BY <1>1, <1>7, <1>8, <1>9 DEF FramingInv, Types
  <1>12. Sending'
    <2>1. ASSUME NEW j \in 1 .. Len(sent')
          PROVE  /\ Len(sent'[j]) \in 1 .. MaxLength
                 /\ \A i \in 1 .. Len(sent'[j]) : sent'[j][i] = CellOf(j, i, Len(sent'[j]))
      <3>1. CASE j = Len(sent) + 1
        BY <1>3, <1>6, <1>8, <3>1
      <3>2. CASE j # Len(sent) + 1
        <4>1. j \in 1 .. Len(sent) /\ sent'[j] = sent[j]
          BY <1>2, <1>8, <3>2
        <4> QED
          BY <4>1 DEF FramingInv, Sending
      <3> QED
        BY <3>1, <3>2
    <2> QED
      BY <1>1, <1>5, <1>8, <1>9, <1>10, <2>1 DEF Sending
  <1>13. /\ Made' = Made /\ Made \in Nat /\ Made <= Len(sent)
         /\ Len(received) \in Nat /\ Len(incoming) \in Nat
    BY <1>1 DEF Made, FramingInv, Types, Delivered
  <1>14. Delivered'
    <2>1. \A j \in 1 .. Len(received) : received[j] = sent'[j]
      <3> SUFFICES ASSUME NEW j \in 1 .. Len(received) PROVE received[j] = sent'[j]
        OBVIOUS
      <3>1. j \in 1 .. Len(sent) /\ received[j] = sent[j]
        BY <1>2, <1>13 DEF FramingInv, Delivered, Made
      <3> QED
        BY <1>8, <3>1
    <2>2. \A j \in 1 .. Len(incoming) : incoming[j] = sent'[Len(received) + j]
      <3> SUFFICES ASSUME NEW j \in 1 .. Len(incoming)
                   PROVE  incoming[j] = sent'[Len(received) + j]
        OBVIOUS
      <3>1. Len(received) + j \in 1 .. Len(sent)
        BY <1>2, <1>13 DEF Made
      <3>2. incoming[j] = sent[Len(received) + j]
        BY DEF FramingInv, Delivered
      <3> QED
        BY <1>8, <3>1, <3>2
    <2>3. reader.pc = "push" => reader.frame = sent'[Made]
      <3>1. reader.pc = "push" => Made \in 1 .. Len(sent)
        BY <1>2, <1>13 DEF Made
      <3> QED
        BY <1>8, <3>1 DEF FramingInv, Delivered
    <2>4. Made <= Len(sent')
      BY <1>2, <1>8, <1>13
    <2> QED
      BY <1>1, <1>13, <2>1, <2>2, <2>3, <2>4 DEF Delivered
  <1>15. CellsAre'
    <2> SUFFICES ASSUME NEW i \in 1 .. Len(stream) + l PROVE Belongs(stream[i])'
      BY <1>7 DEF CellsAre
    <2>1. CASE i <= Len(stream)
      <3> DEFINE c == stream[i]
      <3>1. i \in 1 .. Len(stream)
        BY <1>2, <2>1
      <3>2. stream'[i] = c /\ Belongs(c)
        BY <1>7, <3>1 DEF FramingInv, CellsAre
      <3> HIDE DEF c
      <3>3. /\ c.id \in 1 .. Len(sent) + 1 /\ c.length \in 1 .. MaxLength /\ c.at <= c.length
            /\ c.id <= Len(sent) => c.length = Len(sent[c.id])
            /\ c.id = Len(sent) + 1 => c.length = l
        BY <1>1, <1>4, <3>2 DEF Belongs
      <3>4. c.length = Len(sent'[c.id])
        <4>1. CASE c.id = Len(sent) + 1
          BY <1>6, <1>8, <3>3, <4>1
        <4>2. CASE c.id # Len(sent) + 1
          <5>1. c.id \in 1 .. Len(sent)
            BY <1>2, <3>3, <4>2
          <5> QED
            BY <1>8, <3>3, <5>1
        <4> QED
          BY <4>1, <4>2
      <3>5. c.id # Len(sent') + 1
        BY <1>2, <1>8, <3>3
      <3> QED
        BY <1>8, <3>2, <3>3, <3>4, <3>5 DEF Belongs
    <2>2. CASE ~ (i <= Len(stream))
      <3> DEFINE k == i - Len(stream)
      <3>1. k \in 1 .. l /\ i = Len(stream) + k
        BY <1>2, <1>3, <2>2
      <3> HIDE DEF k
      <3>2. stream'[i] = CellOf(Len(sent) + 1, k, l)
        BY <1>6, <1>7, <3>1
      <3>3. stream'[i].id = Len(sent) + 1 /\ stream'[i].at = k /\ stream'[i].length = l
        BY <3>2 DEF CellOf
      <3>4. /\ stream'[i].id \in 1 .. Len(sent') + 1 /\ stream'[i].id # Len(sent') + 1
            /\ stream'[i].length \in 1 .. MaxLength /\ stream'[i].at <= stream'[i].length
        BY <1>2, <1>3, <1>8, <3>1, <3>3
      <3>5. Len(sent'[stream'[i].id]) = stream'[i].length
        BY <1>6, <1>8, <3>3
      <3> QED
        BY <3>4, <3>5 DEF Belongs
    <2> QED
      BY <2>1, <2>2
  <1>16. InOrder'
    <2> SUFFICES ASSUME NEW i \in 1 .. Len(stream) + l, NEW m \in Nat, i + m <= Len(stream) + l
                 PROVE  After(stream'[i], m, stream'[i + m])
      BY <1>7 DEF InOrder, After
    <2>1. CASE i + m <= Len(stream)
      <3>1. i \in 1 .. Len(stream) /\ i + m \in 1 .. Len(stream)
        BY <1>2, <2>1
      <3>2. stream'[i] = stream[i] /\ stream'[i + m] = stream[i + m]
        BY <1>7, <3>1
      <3> QED
        BY <2>1, <3>1, <3>2 DEF FramingInv, InOrder
    <2>2. CASE ~ (i + m <= Len(stream))
      <3> DEFINE k == i + m - Len(stream)
      <3>1. k \in 1 .. l /\ i + m = Len(stream) + k /\ k \in Nat
        BY <1>2, <1>3, <2>2
      <3> HIDE DEF k
      <3>2. stream'[i + m] = CellOf(Len(sent) + 1, k, l)
        BY <1>6, <1>7, <3>1
      <3>3. CASE i <= Len(stream)
        <4> DEFINE a == stream[i]
                   q == Len(stream) - i
                   z == stream[Len(stream)]
        <4>1. i \in 1 .. Len(stream) /\ q \in Nat /\ i + q = Len(stream) /\ m = q + k
          BY <1>2, <3>1, <3>3
        <4>2. After(a, q, z)
          BY <1>2, <4>1 DEF FramingInv, InOrder
        <4>3. z.id = Len(sent) + 1 /\ z.at = 0
          <5>1. stream # <<>>
            BY <4>1
          <5> QED
            BY <1>1, <1>4, <5>1 DEF FramingInv, EndIs, EndsIn
        <4>4. a \in Cell /\ Belongs(a) /\ stream'[i] = a
          BY <1>2, <1>7, <4>1 DEF FramingInv, CellsAre
        <4> HIDE DEF a, q, z
        <4>5. a.id \in Nat /\ a.at \in Nat /\ a.length \in Nat
          BY <4>4 DEF Cell
        <4>6. a.at + q <= a.length =>
                  z.id = a.id /\ z.at = a.at + q /\ z.length = a.length
          <5>1. a.at + q <= a.length => z = CellOf(a.id, a.at + q, a.length)
            BY <4>2 DEF After
          <5> DEFINE y == CellOf(a.id, a.at + q, a.length)
          <5>2. y.id = a.id /\ y.at = a.at + q /\ y.length = a.length
            BY DEF CellOf
          <5> HIDE DEF y
          <5> QED
            BY <5>1, <5>2 DEF y
        <4>7. a.at + m <= a.length + 1 => a.at + q <= a.length
          BY <3>1, <4>1, <4>5
        <4>8. a.id = Len(sent) + 1 => a.length = l
          BY <1>1, <1>4, <4>4 DEF Belongs
        <4>9. a.at + m <= a.length + 1 => a.id = Len(sent) + 1 /\ a.at = 0 /\ q = 0 /\ a.length = l
          BY <4>1, <4>3, <4>5, <4>6, <4>7, <4>8
        <4>10. a.at + m <= a.length => stream'[i + m] = CellOf(a.id, a.at + m, a.length)
          <5>1. a.at + m <= a.length => a.at + m <= a.length + 1
            BY <4>5
          <5>2. a.at = 0 /\ q = 0 => a.at + m = k
            BY <3>1, <4>1
          <5> QED
            BY <3>2, <4>9, <5>1, <5>2
        <4>11. a.at + m # a.length + 1
          BY <1>3, <3>1, <4>1, <4>5, <4>9
        <4> QED
          BY <4>4, <4>10, <4>11 DEF After
      <3>4. CASE ~ (i <= Len(stream))
        <4> DEFINE q == i - Len(stream)
        <4>1. q \in 1 .. l /\ i = Len(stream) + q /\ k = q + m /\ q \in Nat
          BY <1>2, <1>3, <3>1, <3>4
        <4> HIDE DEF q
        <4>2. stream'[i] = CellOf(Len(sent) + 1, q, l)
          BY <1>6, <1>7, <4>1
        <4>3. stream'[i].id = Len(sent) + 1 /\ stream'[i].at = q /\ stream'[i].length = l
          BY <4>2 DEF CellOf
        <4>4. ~ (q + m = l + 1)
          BY <1>3, <3>1, <4>1
        <4> QED
          BY <3>2, <4>1, <4>3, <4>4 DEF After
      <3> QED
        BY <3>3, <3>4
    <2> QED
      BY <2>1, <2>2
  <1>17. EndIs'
    <2>1. l \in 1 .. l /\ Len(stream') = Len(stream) + l
      BY <1>3, <1>7
    <2>2. stream'[Len(stream')] = CellOf(Len(sent) + 1, l, l)
      BY <1>6, <1>7, <2>1
    <2>3. stream'[Len(stream')].id = Len(sent') /\ stream'[Len(stream')].at = l
          /\ stream'[Len(stream')].length = l
      BY <1>8, <2>2 DEF CellOf
    <2> QED
      BY <1>10, <2>3 DEF EndIs, EndsIn
  <1>18. StartIs'
    <2>1. ASSUME reader.pc = "body"
          PROVE  reader.need \in 1 .. MaxLength /\ reader.need = Len(sent'[Made + 1])
      <3>1. CASE Made = Len(sent)
        <4>1. reader.need = l
          BY <1>1, <1>4, <2>1, <3>1 DEF FramingInv, StartIs
        <4> QED
          BY <1>3, <1>6, <1>8, <3>1, <4>1
      <3>2. CASE Made # Len(sent)
        <4>1. Made + 1 \in 1 .. Len(sent)
          BY <1>2, <1>13, <3>2
        <4> QED
          BY <1>8, <2>1, <4>1 DEF FramingInv, StartIs
      <3> QED
        BY <3>1, <3>2
    <2>2. ASSUME reader.pc # "done"
          PROVE  stream'[1].id = Made + 1 /\ stream'[1].at = IF reader.pc = "body" THEN 1 ELSE 0
      <3>1. CASE stream = <<>>
        <4>1. Made = Len(sent) /\ reader.pc = "body"
          BY <1>1, <1>4, <2>2, <3>1 DEF FramingInv, StartIs
        <4>2. stream'[1] = CellOf(Len(sent) + 1, 1, l)
          <5>1. Len(stream) + 1 = 1 /\ 1 \in 1 .. l
            BY <1>3, <3>1
          <5> QED
            BY <1>6, <1>7, <5>1
        <4>3. stream'[1].id = Len(sent) + 1 /\ stream'[1].at = 1
          BY <4>2 DEF CellOf
        <4> QED
          BY <4>1, <4>3
      <3>2. CASE stream # <<>>
        <4>1. 1 \in 1 .. Len(stream)
          BY <1>2, <3>2
        <4>2. stream'[1] = stream[1]
          BY <1>7, <4>1
        <4> QED
          BY <2>2, <3>2, <4>2 DEF FramingInv, StartIs
      <3> QED
        BY <3>1, <3>2
    <2>3. stream' # <<>>
      <3>1. Len(stream') # 0
        BY <1>2, <1>3, <1>7
      <3> QED
        BY <3>1
    <2>4. Made # Len(sent')
      BY <1>2, <1>8, <1>13
    <2> QED
      BY <1>1, <1>13, <2>1, <2>2, <2>3, <2>4 DEF StartIs
  <1> QED
    BY <1>9, <1>11, <1>12, <1>14, <1>15, <1>16, <1>17, <1>18 DEF FramingInv, Alone

-----------------------------------------------------------------------------
\* The steps that begin no Send and complete none keep it ...
LEMMA OtherFramingSteps ==
    ASSUME FramingInv, [FramingNext]_framingVars
    PROVE  \/ \E w \in Writers, l \in 1 .. MaxLength : WriteLength(w, l)
           \/ \E w \in Writers : WriteBody(w)
           \/ FramingInv'
  <1>1. ASSUME NEW w \in Writers, WriteFails(w) PROVE FramingInv'
    <2>1. ~ up /\ writer' = [writer EXCEPT ![w] = IdleWriter]
          /\ UNCHANGED <<sent, started, stream, up, reader, incoming, received>>
      BY <1>1 DEF WriteFails
    <2>2. Types' /\ \A v \in Writers : writer'[v] = writer[v] \/ writer'[v].pc = "idle"
      BY <2>1 DEF FramingInv, Types, IdleWriter, NoPacket
    <2>3. Sending' /\ Delivered' /\ EndIs'
      BY <2>1, <2>2 DEF FramingInv, Sending, Delivered, Made, EndIs
    <2>4. CellsAre' /\ InOrder' /\ StartIs'
      BY <2>1 DEF FramingInv, CellsAre, Belongs, InOrder, After, StartIs, Made
    <2> QED
      BY <2>2, <2>3, <2>4 DEF FramingInv
  <1>2. CASE Break
    <2>1. PICK l \in 0 .. Len(stream) : stream' = SubSeq(stream, 1, l)
      BY <1>2 DEF Break
    <2>2. stream \in Seq(Cell)
      BY DEF FramingInv, Types
    <2>3. /\ stream' \in Seq(Cell) /\ Len(stream') = l
          /\ \A i \in 1 .. l : stream'[i] = stream[i]
      BY <2>1, <2>2
    <2>4. UNCHANGED <<writer, sent, started, reader, incoming, received>> /\ up' = FALSE
      BY <1>2 DEF Break
    <2> QED
      BY <2>1, <2>3, <2>4, Cutting
  <1>3. CASE CloseConn
    <2>1. 0 \in 0 .. Len(stream) /\ stream' \in Seq(Cell) /\ Len(stream') = 0
      BY <1>3 DEF CloseConn, FramingInv, Types
    <2>2. UNCHANGED <<writer, sent, started, reader, incoming, received>> /\ up' = FALSE
      BY <1>3 DEF CloseConn
    <2>3. \A i \in 1 .. 0 : stream'[i] = stream[i]
      OBVIOUS
    <2> QED
      BY <2>1, <2>2, <2>3, Cutting
  <1>4. CASE ReadFails \/ PushStops
    BY <1>4, ReaderEnds DEF ReadFails, PushStops
  <1>5. CASE UNCHANGED <<writer, sent, started, stream, up, reader, incoming, received>>
    <2>1. Types' /\ Delivered' /\ StartIs'
      BY <1>5 DEF FramingInv, Types, Delivered, Made, StartIs, Writing, Announced
    <2> QED
      BY <1>5, <2>1, BesideStream DEF FramingInv
  <1>6. CASE ReceiveFails \/ CloseChannel \/ UNCHANGED framingVars
    BY <1>5, <1>6 DEF ReceiveFails, CloseChannel, framingVars
  <1> QED
    BY <1>1, <1>2, <1>3, <1>4, <1>6, ReadLengthStep, ReadBodyStep, PushStep, ReceiveStep
       DEF FramingNext

\* ... and leave at most one writer between its writes.
LEMMA OtherWriters ==
    ASSUME Alone, FramingInv, [FramingNext]_framingVars
    PROVE  \/ \E w \in Writers, l \in 1 .. MaxLength : WriteLength(w, l)
           \/ \E w \in Writers : WriteBody(w)
           \/ Alone'
  <1>1. ASSUME NEW w \in Writers, WriteFails(w) PROVE Alone'
    <2>1. \A v \in Writers : writer'[v] = writer[v] \/ writer'[v].pc = "idle"
      BY <1>1 DEF WriteFails, FramingInv, Types, IdleWriter
    <2> QED
      BY <2>1 DEF Alone
  <1>2. CASE UNCHANGED writer
    BY <1>2 DEF Alone
  <1> QED
    BY <1>1, <1>2 DEF FramingNext, framingVars, Break, ReadLength, ReadBody, ReadFails, Push,
       PushStops, Receive, ReceiveFails, CloseChannel, CloseConn

\* The invariant is inductive.
LEMMA FramingSteps == WholeInv /\ [FramingNext]_framingVars => WholeInv'
  <1> SUFFICES ASSUME WholeInv, [FramingNext]_framingVars, ~ mixed' PROVE Alone' /\ FramingInv'
    BY DEF WholeInv
  <1>1. ~ mixed
    BY DEF FramingNext, framingVars, WriteLength, WriteBody, WriteFails, Break, ReadLength,
       ReadBody, ReadFails, Push, PushStops, Receive, ReceiveFails, CloseChannel, CloseConn
  <1>2. Alone /\ FramingInv
    BY <1>1 DEF WholeInv
  <1> QED
    BY <1>2, WriteLengthStep, WriteBodyStep, OtherFramingSteps, OtherWriters

\* What was received, is queued and is being pushed, one after the other.
LEMMA FramesAre ==
    ASSUME FramingInv
    PROVE  IsPrefix(Frames, sent)
  <1> DEFINE s == received \o incoming
             t == s \o Pushing
  <1>1. /\ received \in Seq(Seq(Cell)) /\ incoming \in Seq(Seq(Cell)) /\ sent \in Seq(Seq(Cell))
        /\ Len(received) \in Nat /\ Len(incoming) \in Nat /\ Len(sent) \in Nat
        /\ reader.frame \in Seq(Cell)
    BY DEF FramingInv, Types
  <1>2. /\ s \in Seq(Seq(Cell)) /\ Len(s) = Len(received) + Len(incoming)
        /\ \A j \in 1 .. Len(received) : s[j] = received[j]
        /\ \A j \in 1 .. Len(incoming) : s[Len(received) + j] = incoming[j]
    BY <1>1
  <1> HIDE DEF s
  <1>3. \A j \in 1 .. Len(s) : s[j] = sent[j]
    <2> SUFFICES ASSUME NEW j \in 1 .. Len(s) PROVE s[j] = sent[j]
      OBVIOUS
    <2>1. CASE j <= Len(received)
      <3>1. j \in 1 .. Len(received)
        BY <1>1, <1>2, <2>1
      <3> QED
        BY <1>2, <3>1 DEF FramingInv, Delivered
    <2>2. CASE ~ (j <= Len(received))
      <3> DEFINE k == j - Len(received)
      <3>1. k \in 1 .. Len(incoming) /\ j = Len(received) + k
        BY <1>1, <1>2, <2>2
      <3> HIDE DEF k
      <3> QED
        BY <1>2, <3>1 DEF FramingInv, Delivered
    <2> QED
      BY <2>1, <2>2
  <1>4. t \in Seq(Seq(Cell)) /\ Len(t) = Made /\ \A j \in 1 .. Made : t[j] = sent[j]
    <2>1. CASE reader.pc = "push"
      <3>1. Pushing = <<reader.frame>>
        BY <2>1 DEF Pushing
      <3>2. /\ t \in Seq(Seq(Cell)) /\ Len(t) = Len(s) + 1
            /\ \A j \in 1 .. Len(s) : t[j] = s[j]
            /\ t[Len(s) + 1] = reader.frame
        BY <1>1, <1>2, <3>1
      <3> HIDE DEF t
      <3>3. Made = Len(s) + 1 /\ Len(s) \in Nat
        BY <1>1, <1>2, <2>1 DEF Made
      <3>4. reader.frame = sent[Made]
        BY <2>1 DEF FramingInv, Delivered
      <3>5. \A j \in 1 .. Made : j = Made \/ j \in 1 .. Len(s)
        BY <3>3
      <3> QED
        BY <1>3, <3>2, <3>3, <3>4, <3>5
    <2>2. CASE reader.pc # "push"
      <3>1. Pushing = <<>> /\ Made = Len(s)
        BY <1>1, <1>2, <2>2 DEF Pushing, Made
      <3>2. t = s
        BY <1>2, <3>1
      <3> HIDE DEF t
      <3> QED
        BY <1>2, <1>3, <3>1, <3>2
    <2> QED
      BY <2>1, <2>2
  <1> HIDE DEF t
  <1>5. Made \in Nat /\ Made <= Len(sent)
    BY <1>1, <1>4 DEF FramingInv, Delivered
  <1>6. IsPrefix(t, sent)
    <2>1. /\ SubSeq(t, 1, Made) \in Seq(Seq(Cell)) /\ Len(SubSeq(t, 1, Made)) = Made
          /\ \A j \in 1 .. Made : SubSeq(t, 1, Made)[j] = t[j]
      BY <1>4, <1>5
    <2>2. /\ SubSeq(sent, 1, Made) \in Seq(Seq(Cell)) /\ Len(SubSeq(sent, 1, Made)) = Made
          /\ \A j \in 1 .. Made : SubSeq(sent, 1, Made)[j] = sent[j]
      BY <1>1, <1>5
    <2>3. SubSeq(t, 1, Made) = SubSeq(sent, 1, Made)
      BY <1>4, <2>1, <2>2, SeqEqual
    <2> QED
      BY <1>4, <1>5, <2>3 DEF IsPrefix
  <1> QED
    BY <1>6 DEF Frames, s, t

(***************************************************************************)
(* For any number of goroutines that call Send, packets of any length, any *)
(* number of them and any queue: until a Send begins between the writes of *)
(* another, the frames the other end makes of the stream are the packets   *)
(* that were sent, whole and in order, wherever the connection is cut.     *)
(* After such a Send it fails, as TLC shows for                            *)
(* MCTLSFramingTwoWriters.cfg.                                             *)
(***************************************************************************)
THEOREM WholePackets == FramingSpec => []PacketsArriveWhole
  <1>1. FramingInit => WholeInv
    <2>1. FramingInit => Alone
      BY DEF FramingInit, IdleWriter, Alone
    <2> QED
      BY <2>1, FramingStarts DEF WholeInv
  <1>2. WholeInv /\ [FramingNext]_framingVars => WholeInv'
    BY FramingSteps
  <1>3. WholeInv => PacketsArriveWhole
    BY FramesAre DEF WholeInv, PacketsArriveWhole
  <1> QED
    BY <1>1, <1>2, <1>3, PTL DEF FramingSpec

=============================================================================
