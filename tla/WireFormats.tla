---------------------------- MODULE WireFormats ----------------------------
(* What goes over the wire: the checksums of IP packets (kernel/tcpip.c), the   *)
(* CRC of Ethernet frames (kernel/ethernet.c) and the names in DNS questions.   *)
(* Pure algorithms, checked against definitions of their own: a state is one    *)
(* sample.  A byte has 4 bits here (two nibbles of 2), so a checksum 8, a CRC   *)
(* 16; an IP header has 8 bytes.                                                *)
EXTENDS Integers, Sequences, FiniteSets, SequencesExt, FiniteSetsExt, Bitwise

CONSTANTS Bytes,         \* the values of bytes in samples
          MaxBytes       \* bound: their number

ByteBase == 16
Word == ByteBase * ByteBase

Two(word) == <<word \div ByteBase, word % ByteBase>>
Zeros(n) == [i \in 1..n |-> 0]
-----------------------------------------------------------------------------
(* Checksums *)

\* The sum of the 16-bit words of some bytes; a last odd byte is the upper one
Words(data) ==
    FoldLeft(LAMBDA sum, i : sum + data[i] * (IF (i % 2) = 1 THEN ByteBase ELSE 1),
             0, [i \in DOMAIN data |-> i])

\* Broken variant: the carry is lost
NoCarry(sum) == sum % Word

\* The carries are added until there is none
Carry(sum) ==
    LET add[n \in 0..sum] == IF n < Word THEN n ELSE add[(n % Word) + (n \div Word)] IN add[sum]

\* A checksum that goes on from another one
IPChecksum(checksum, data) == Word - 1 - Carry(Word - 1 - checksum + Words(data))

IpHeader(p) == <<0, p.protocol>> \o Two(p.length) \o Two(p.ipChecksum) \o <<p.source, p.dest>>
PING == 1
UDP == 2
TCP == 3

\* What follows the IP header: for UDP and TCP, one word stands for both ports
Transport(p) ==
    CASE p.protocol = PING -> <<8, 0>> \o Two(p.checksum) \o p.data
      [] p.protocol = UDP  -> <<p.port, p.port>> \o Two(p.udpLength) \o Two(p.checksum) \o p.data
      [] p.protocol = TCP  -> <<p.port, p.port>> \o Two(p.checksum) \o p.data

Pseudo(p, length) == <<p.source, p.dest, 0, p.protocol>> \o Two(length)

HeaderLength == 8

\* IPSendPacket: the lengths and checksums of a packet
IPSendPacket(packet) ==
    LET size == Len(Transport(packet))
        p == [packet EXCEPT !.length = HeaderLength + size, !.udpLength = size,
                            !.ipChecksum = 0, !.checksum = 0]
    IN [p EXCEPT !.ipChecksum = IPChecksum(Word - 1, IpHeader(p)),
          !.checksum = IF p.protocol = PING THEN IPChecksum(Word - 1, Transport(p))
                       ELSE IPChecksum(IPChecksum(Word - 1, Pseudo(p, size)), Transport(p))]

\* EthernetVerifyChecksums of a packet that came with some padding
EthernetVerifyChecksums(p, pad) ==
    /\ IPChecksum(Word - 1, IpHeader(p)) = 0
    /\ CASE p.protocol = PING -> IPChecksum(Word - 1, Transport(p) \o Zeros(pad)) = 0
         [] p.protocol = UDP  ->
              \/ p.checksum = 0
              \/ IPChecksum(IPChecksum(Word - 1, Pseudo(p, p.udpLength)), Transport(p)) = 0
         [] p.protocol = TCP  ->
              IPChecksum(IPChecksum(Word - 1, Pseudo(p, p.length - HeaderLength)), Transport(p)) = 0

\* EthernetCreateResponse: source and destination change places
EthernetCreateResponse(p) == [p EXCEPT !.source = p.dest, !.dest = p.source]
-----------------------------------------------------------------------------
(* The CRC *)

CrcBits == 16
ByteBits == 4
Top == 2 ^ (CrcBits - 1)
POLYNOMIAL == 4129

Reflect(value, bits) ==
    FoldLeft(LAMBDA num, i : (num * 2) + ((value \div (2 ^ i)) % 2), 0, [i \in 1..bits |-> i - 1])

\* CrcInit: the remainder of each byte, a bit at a time, and the bytes turned round
Divide(r) == IF r >= Top THEN ((r * 2) % (2 * Top)) ^^ POLYNOMIAL ELSE r * 2
CrcTable ==
    [dividend \in 0..ByteBase - 1 |->
       FoldLeft(LAMBDA r, bit : Divide(r), dividend * (2 ^ (CrcBits - ByteBits)),
                [bit \in 1..ByteBits |-> bit])]
reflect == [i \in 0..ByteBase - 1 |-> Reflect(i, ByteBits)]

\* The inverted nibbles of a byte, each turned round
ReflectNibble(i) == (Reflect(3 - (i \div 4), 2) * 4) + Reflect(3 - (i % 4), 2)

SwapNibbles(byte) == ((byte % 4) * 4) + (byte \div 4)

CrcStep(crc, byte) ==
    CrcTable[reflect[byte] ^^ (crc \div (2 ^ (CrcBits - ByteBits)))] ^^ ((crc * ByteBase) % (2 * Top))
Crc(data) == FoldLeft(CrcStep, 2 * Top - 1, data)
CrcCells(crc) == [i \in 1..4 |-> ReflectNibble((crc \div (2 ^ (CrcBits - (ByteBits * i)))) % ByteBase)]

MinTransmit == 4      \* 60 bytes
MinReceive == 2       \* 40

\* EthernetTransmit: padded to whole words, nibbles swapped, with the CRC
Padded(data) ==
    LET length == IF Len(data) <= MinTransmit THEN MinTransmit ELSE ((Len(data) + 3) \div 4) * 4
    IN data \o Zeros(length - Len(data))
EthernetTransmit(data) ==
    [i \in DOMAIN Padded(data) |-> SwapNibbles(Padded(data)[i])] \o CrcCells(Crc(Padded(data)))

\* The end of a frame that EthernetReceive finds in cells: the first place where the CRC is right
EthernetReceive(cells) ==
    LET buffer == [i \in DOMAIN cells |-> SwapNibbles(cells[i])]
        ends   == {n \in MinReceive..Len(cells) - 4 :
                     CrcCells(Crc(SubSeq(buffer, 1, n))) = SubSeq(cells, n + 1, n + 4)}
        first  == CHOOSE n \in ends : \A m \in ends : n <= m
    IN IF ends = {} THEN <<>> ELSE SubSeq(buffer, 1, first)
-----------------------------------------------------------------------------
(* Names in DNS questions: a dot becomes the length of the label after it *)

Dot == "."

\* Where a label ends that begins after a place: at a dot, or at the end of the name.
\* Assumed: no label has 100 bytes; IPResolve looks for ever for the end of such a one.
LabelEnd(text, at) == Min({i \in at + 1..Len(text) + 1 : i > Len(text) \/ text[i] = Dot})

\* IPResolve: each dot, and one before the name, becomes the length of what follows; then 0
IPResolve(name) ==
    LET text == <<Dot>> \o name
        from[at \in 1..Len(text) + 2] ==
            IF at > Len(text) THEN <<0>>
            ELSE LET end == LabelEnd(text, at)
                 IN <<end - at - 1>> \o SubSeq(text, at + 1, end - 1) \o from[end]
    IN from[1]
-----------------------------------------------------------------------------
(* The samples *)

VARIABLE sample

PacketSample ==
    \E protocol \in {PING, UDP, TCP}, from, to, port \in Bytes, data \in BoundedSeq(Bytes, MaxBytes) :
      sample' = [kind |-> "packet", pad |-> 2,
                 packet |-> [protocol |-> protocol, source |-> from, dest |-> to, port |-> port,
                             length |-> 0, udpLength |-> 0, ipChecksum |-> 0, checksum |-> 0,
                             data |-> data]]
FrameSample == \E data \in BoundedSeq(Bytes, MaxBytes) : sample' = [kind |-> "frame", data |-> data]
NameSample ==
    \E labels \in BoundedSeq({<<"a">>, <<"b", "c">>}, 3) :
      labels # <<>> /\ sample' = [kind |-> "name", labels |-> labels]

SampleInit == sample = [kind |-> "none"]
TakeSample == sample.kind = "none" /\ (PacketSample \/ FrameSample \/ NameSample)
SampleSpec == SampleInit /\ [][TakeSample]_sample
-----------------------------------------------------------------------------
\* A packet that IPSendPacket has completed, and the response to it, verify where they come in,
\* in one's complement arithmetic, and with one byte changed they do not (a UDP checksum that
\* comes out as 0 is sent as 0, which says that there is none)
PacketsVerify ==
    sample.kind = "packet" =>
      LET p == IPSendPacket(sample.packet)
          r == IPSendPacket(EthernetCreateResponse(p))
      IN /\ EthernetVerifyChecksums(p, sample.pad) /\ EthernetVerifyChecksums(r, sample.pad)
         /\ (Words(IpHeader(p)) % (Word - 1)) = 0
         /\ (p.protocol = UDP => p.checksum # 0) /\ Len(p.data) > 0 =>
              \A b \in 1..ByteBase - 1 :
                ~EthernetVerifyChecksums([p EXCEPT !.data[1] = (@ + b) % ByteBase], sample.pad)

\* IEEE 802.3: the bits of a frame on the wire, each byte from its lowest bit, then the inverted
\* remainder of their division, from its highest
BitsOf(value, from) == [i \in DOMAIN from |-> (value \div (2 ^ from[i])) % 2]
LowFirst == [i \in 1..ByteBits |-> i - 1]
Remainder(bits) ==
    FoldLeft(LAMBDA r, bit : IF (((r \div Top) + bit) % 2) = 1 THEN ((r * 2) % (2 * Top)) ^^ POLYNOMIAL
                             ELSE (r * 2) % (2 * Top),
             2 * Top - 1, bits)
Wire(data) ==
    LET bits == FlattenSeq([i \in DOMAIN data |-> BitsOf(data[i], LowFirst)])
    IN bits \o BitsOf(2 * Top - 1 - Remainder(bits), [i \in 1..CrcBits |-> CrcBits - i])

\* The hardware sends the upper nibble of a cell first, a nibble from its lowest bit
Sent(cells) == FlattenSeq([i \in DOMAIN cells |-> BitsOf(cells[i], <<2, 3, 0, 1>>)])

\* Frames go out as the standard says, and what EthernetTransmit sends EthernetReceive finds
WireRight ==
    sample.kind = "frame" =>
      LET cells == EthernetTransmit(sample.data)
      IN /\ Sent(cells) = Wire(Padded(sample.data))
         /\ EthernetReceive(cells) = Padded(sample.data)

\* A name is sent as its labels, each after its length, and the empty one (RFC 1035)
NameEncoded ==
    sample.kind = "name" =>
      LET labels == sample.labels
          name   == Tail(FlattenSeq([i \in DOMAIN labels |-> <<Dot>> \o labels[i]]))
      IN IPResolve(name) = FlattenSeq([i \in DOMAIN labels |-> <<Len(labels[i])>> \o labels[i]]) \o <<0>>

\* The three together
FormatsRight == PacketsVerify /\ WireRight /\ NameEncoded
=============================================================================
