----------------------------- MODULE TcpProofs -----------------------------
(***************************************************************************)
(* The proofs about TcpSocket: both streams, and what the stack keeps.     *)
(***************************************************************************)
EXTENDS TcpSocket, ListLemmas

(***************************************************************************)
(* The inductive invariant.                                                *)
(***************************************************************************)

\* The bytes of a stream after position from.
Stream(from, n) == [i \in 1 .. n |-> from + i]

SockType ==
    [state : {"none", "tcp", "finClient", "finServer", "closed"}, seq : Nat, ack : Nat,
     ackProcessed : Nat, seqReceived : Nat, resentDone : BOOLEAN, timed : BOOLEAN,
     frameSend : Seq(Nat), read : Seq(Seq(Nat)), readOffset : Nat, fins : Nat, gaveUp : BOOLEAN]

FrameType ==
    [seq : Nat, flag : {"syn", "data", "fin"}, data : Seq(Nat), retry : Nat, seqEnd : Nat]

NowType == [sock : SockType, sending : SUBSET FrameType, resend : SUBSET FrameType]

AppType ==
    [opened : BOOLEAN, closed : BOOLEAN, put : Seq(Nat), got : Seq(Nat), length : 0 .. MaxBytes]

PeerType ==
    [role : {"client", "server"}, connected : BOOLEAN, closing : BOOLEAN, fin : BOOLEAN,
     count : Nat, got : Seq(Nat), length : 0 .. MaxBytes]

PacketType == [seq : Nat, flag : {"syn", "data", "fin"}, data : Seq(Nat), last : BOOLEAN]

SocketTypeOK ==
    Now \in NowType /\ wire \in SUBSET PacketType /\ app \in AppType /\ peer \in PeerType

\* How many bytes have left the frame that waits.
Sent(n, put) == Len(put) - Len(n.sock.frameSend)

\* A frame carries bytes of the stream at their number, and a FIN comes after all bytes.
Numbered(f, syn, sent, fins) ==
    /\ f.flag = "syn" => syn = 1 /\ f.data = <<>>
    /\ f.flag = "data" =>
         \E a \in 0 .. sent :
            /\ f.seq = (Isn + 1 + a) % M /\ a + Len(f.data) <= sent
            /\ f.data = Stream(a, Len(f.data))
    /\ f.flag = "fin" => \E k \in 0 .. fins - 1 : f.seq = (Isn + syn + sent + k) % M

\* The socket's numbers when it has sent syn SYNs and fins FINs.
Outgoing(n, put, syn, fins) ==
    /\ syn \in 0 .. 1 /\ fins \in 0 .. 2
    /\ Len(n.sock.frameSend) <= Len(put)
    /\ n.sock.frameSend = Stream(Sent(n, put), Len(n.sock.frameSend))
    /\ n.sock.state # "none" => n.sock.seq = (Isn + syn + Sent(n, put) + fins) % M
    /\ n.sock.state = "none" => n.sock.frameSend = <<>>
    /\ fins > 0 => n.sock.state \notin {"tcp", "finClient"} /\ n.sock.frameSend = <<>>
    /\ syn = 0 => ~peer.connected /\ put = <<>> /\ peer.role = "server"
    /\ peer.fin => fins > 0 /\ Len(peer.got) = Len(put)
    /\ Len(peer.got) <= Sent(n, put)
    /\ \A f \in n.sending \cup n.resend :
          /\ Numbered(f, syn, Sent(n, put), fins)
          /\ f.seqEnd = (f.seq + IF f.flag = "data" THEN Len(f.data) ELSE 1) % M
    /\ \A f \in wire : Numbered(f, syn, Sent(n, put), fins)

\* A byte's frame was transmitted for the last time.
Dropped(i) == \E f \in wire : f.last /\ i \in ToSet(f.data)

\* What the peer has not received is in a frame that is kept, or was dropped.
Kept(n, put) ==
    ~n.sock.gaveUp =>
        \A i \in Len(peer.got) + 1 .. Sent(n, put) :
            Dropped(i) \/ \E f \in n.sending \cup n.resend : f.flag = "data" /\ i \in ToSet(f.data)

\* The position in the peer's stream of a number, where the numbers do not wrap.
Place(number) == number - PeerIsn - 1

\* The frames that wait to be read are the stream from ackProcessed to ack.
Incoming(n, got) ==
    /\ peer.length = 0 => n.sock.read = <<>>
    /\ ~n.sock.gaveUp =>
       IF n.sock.ack = 0
       THEN n.sock.read = <<>> /\ got = <<>> /\ n.sock.fins = 0 /\ n.sock.readOffset = 0
       ELSE LET first == Place(n.sock.ackProcessed)
                end   == Place(n.sock.ack) - n.sock.fins
            IN  /\ first >= 0 /\ first <= end /\ end <= peer.length
                /\ n.sock.fins > 0 => end = peer.length
                /\ n.sock.fins <= MaxFin
                /\ got = Stream(0, first + n.sock.readOffset)
                /\ n.sock.read = <<>> => first = end /\ n.sock.readOffset = 0
                /\ n.sock.read # <<>> =>
                     /\ n.sock.readOffset < Len(Head(n.sock.read))
                     /\ Head(n.sock.read)[1] = first + 1
                     /\ Last(n.sock.read)[Len(Last(n.sock.read))] = end
                /\ \A j \in DOMAIN n.sock.read :
                     /\ n.sock.read[j] # <<>> /\ Last(n.sock.read[j]) <= end
                     /\ n.sock.read[j] = Stream(n.sock.read[j][1] - 1, Len(n.sock.read[j]))
                     /\ j > 1 => n.sock.read[j][1] = Last(n.sock.read[j - 1]) + 1

AppInv ==
    /\ app.put = Stream(0, Len(app.put)) /\ Len(app.put) <= app.length
    /\ peer.got = Stream(0, Len(peer.got))
    /\ peer.count = Len(peer.got) + IF peer.fin THEN 1 ELSE 0
    /\ ~app.opened =>
         /\ sock.state = "none" /\ sending = {} /\ resend = {} /\ wire = {} /\ app.put = <<>>
         /\ ~peer.connected /\ ~app.closed /\ ~peer.fin /\ sock.ack = 0
    /\ sock.state = "closed" => sock.gaveUp
    /\ ~peer.connected /\ peer.role = "server" => sock.seqReceived = 0
    /\ sock.state = "none" => sending = {} /\ resend = {} /\ ~sock.timed

SendInv ==
    \E syn \in 0 .. 1, fins \in 0 .. 2 : Outgoing(Now, app.put, syn, fins) /\ (fins > 1 => app.closed)

SocketInv ==
    /\ SocketTypeOK /\ AppInv /\ SendInv /\ Kept(Now, app.put)
    /\ Orderly => Incoming(Now, app.got)

(***************************************************************************)
(* Sequence numbers.                                                       *)
(***************************************************************************)

LEMMA SocketFacts ==
    /\ M \in Nat \ {0} /\ Isn \in 0 .. M - 1 /\ MaxBytes \in Nat /\ 2 * (MaxBytes + 5) < M
    /\ PeerIsn \in 0 .. M - 1 /\ MaxFin \in Nat
    /\ Mss \in Nat /\ RECEIVE_WINDOW \in Nat /\ MaxRetry \in Nat
  BY SocketAssumption

LEMMA FirstType == First \in Nat
  BY SocketFacts DEF First

\* If the peer's numbers do not wrap, they are its positions.
LEMMA OrderlyFacts ==
    ASSUME Orderly
    PROVE  /\ ~FinMerges /\ ~LateSynAck /\ PeerIsn + MaxBytes + MaxFin + 2 < M
           /\ First = PeerIsn + 1
<1>1. PeerIsn + MaxBytes + MaxFin + 2 < M /\ ~FinMerges /\ ~LateSynAck
  BY DEF Orderly
<1>2. PeerIsn + 1 \in 0 .. M - 1
  BY <1>1, SocketFacts
<1>3. (PeerIsn + 1) % M = PeerIsn + 1
  BY <1>2, SocketFacts
<1>. QED
  BY <1>1, <1>3 DEF First

LEMMA NumberOfPlace ==
    ASSUME Orderly, NEW k \in 0 .. MaxBytes + MaxFin
    PROVE  (First + k) % M = PeerIsn + 1 + k
<1>1. PeerIsn + 1 + k \in 0 .. M - 1 /\ First + k = PeerIsn + 1 + k
  BY SocketFacts, OrderlyFacts
<1>2. \A x \in 0 .. M - 1 : x % M = x
  BY SocketFacts
<1>. QED
  BY <1>1, <1>2

LEMMA PlaceOfNumber ==
    ASSUME Orderly, NEW number \in Nat, Place(number) \in 0 .. MaxBytes + MaxFin
    PROVE  PeerAt(number) = Place(number)
<1>1. Place(number) \in 0 .. M - 1 /\ number - First = Place(number)
  BY SocketFacts, OrderlyFacts DEF Place
<1>2. \A x \in 0 .. M - 1 : x % M = x
  BY SocketFacts
<1>. QED
  BY <1>1, <1>2 DEF PeerAt

LEMMA Numbers ==
    ASSUME NEW x \in 0 .. M - 1
    PROVE  /\ (Isn + x) % M = IF Isn + x < M THEN Isn + x ELSE Isn + x - M
           /\ (Isn + x) % M \in 0 .. M - 1
<1>1. (Isn + x) % M = IF Isn + x < M THEN Isn + x ELSE Isn + x - M
  BY SocketFacts, ModSum
<1>. QED
  BY <1>1, SocketFacts

\* Places of a connection are told apart by their numbers.
LEMMA NumbersDiffer ==
    ASSUME NEW x \in 0 .. MaxBytes + 4, NEW y \in 0 .. MaxBytes + 4, (Isn + x) % M = (Isn + y) % M
    PROVE  x = y
<1>1. x \in 0 .. M - 1 /\ y \in 0 .. M - 1
  BY SocketFacts
<1>. QED
  BY <1>1, Numbers, SocketFacts

LEMMA NumbersAdd ==
    ASSUME NEW x \in 0 .. MaxBytes + 4, NEW k \in 0 .. MaxBytes + 4, x + k <= MaxBytes + 4
    PROVE  (((Isn + x) % M) + k) % M = (Isn + (x + k)) % M
<1>1. /\ x \in 0 .. M - 1 /\ k \in 0 .. M - 1 /\ x + k \in 0 .. M - 1 /\ (Isn + x) % M \in 0 .. M - 1
  BY SocketFacts, Numbers
<1>2. (((Isn + x) % M) + k) % M
        = IF ((Isn + x) % M) + k < M THEN ((Isn + x) % M) + k ELSE ((Isn + x) % M) + k - M
  BY <1>1, SocketFacts, ModSum
<1>3. (Isn + x) % M = IF Isn + x < M THEN Isn + x ELSE Isn + x - M
  BY <1>1, Numbers
<1>4. (Isn + (x + k)) % M = IF Isn + (x + k) < M THEN Isn + (x + k) ELSE Isn + (x + k) - M
  BY <1>1, Numbers
<1>5. Isn \in Int /\ M \in Int /\ x + k < M /\ Isn < M
  BY <1>1, SocketFacts
<1>. DEFINE a == (Isn + x) % M  b == (((Isn + x) % M) + k) % M  c == (Isn + (x + k)) % M
<1>6. a \in Int
  BY <1>1
<1>7. /\ b = IF a + k < M THEN a + k ELSE a + k - M
      /\ a = IF Isn + x < M THEN Isn + x ELSE Isn + x - M
      /\ c = IF Isn + (x + k) < M THEN Isn + (x + k) ELSE Isn + (x + k) - M
  BY <1>2, <1>3, <1>4
<1>. HIDE DEF a, b, c
<1>8. b = c
  BY <1>5, <1>6, <1>7
<1>. QED
  BY <1>8 DEF b, c

\* An acknowledgement of a place comes not before the places up to it, and no other.
LEMMA AckOrder ==
    ASSUME NEW x \in 0 .. MaxBytes + 4, NEW y \in 0 .. MaxBytes + 4
    PROVE  NotBefore((Isn + x) % M, (Isn + y) % M) <=> x >= y
<1>. DEFINE a == (Isn + x) % M  b == (Isn + y) % M
<1>1. x \in 0 .. M - 1 /\ y \in 0 .. M - 1
  BY SocketFacts
<1>2. a \in 0 .. M - 1 /\ b \in 0 .. M - 1
  BY <1>1, Numbers
<1>3. /\ a = IF Isn + x < M THEN Isn + x ELSE Isn + x - M
      /\ b = IF Isn + y < M THEN Isn + y ELSE Isn + y - M
  BY <1>1, Numbers
<1>. HIDE DEF a, b
<1>4. (a - b) % M = IF a >= b THEN a - b ELSE a - b + M
  BY <1>2, SocketFacts, ModDifference
<1>5. (a - b) % M = IF x >= y THEN x - y ELSE x - y + M
  BY <1>1, <1>2, <1>3, <1>4, SocketFacts
<1>6. MaxBytes + 4 < M \div 2 /\ M \div 2 < M - (MaxBytes + 4) /\ M \div 2 \in Int
  BY SocketFacts
<1>7. (a - b) % M < M \div 2 <=> x >= y
  BY <1>5, <1>6, SocketFacts
<1>. QED
  BY <1>7 DEF NotBefore, a, b

(***************************************************************************)
(* The parts of the handlers, on the socket and its frames.                *)
(***************************************************************************)

LEMMA NowFields ==
    /\ Now.sock = sock /\ Now.sending = sending /\ Now.resend = resend
  BY DEF Now

LEMMA BecomesNow ==
    ASSUME NEW m \in NowType, Becomes(m)
    PROVE  Now' = m
  BY DEF Now, Becomes, NowType

\* The frame TCPSendPacket sends.
FrameOf(k, flag, data) ==
    [seq |-> k.seq, flag |-> flag, data |-> data, retry |-> 0,
     seqEnd |-> (k.seq + IF flag = "data" THEN Len(data) ELSE 1) % M]

LEMMA FrameOfFields ==
    ASSUME NEW k \in SockType, NEW flag \in {"syn", "data", "fin"}, NEW data \in Seq(Nat)
    PROVE  /\ FrameOf(k, flag, data) \in FrameType
           /\ FrameOf(k, flag, data).seq = k.seq
           /\ FrameOf(k, flag, data).flag = flag
           /\ FrameOf(k, flag, data).data = data
           /\ FrameOf(k, flag, data).seqEnd = (k.seq + IF flag = "data" THEN Len(data) ELSE 1) % M
<1>1. k.seq \in Nat /\ Len(data) \in Nat
  BY DEF SockType
<1>2. (k.seq + IF flag = "data" THEN Len(data) ELSE 1) % M \in Nat
  BY <1>1, SocketFacts
<1>. QED
  BY <1>1, <1>2 DEF FrameOf, FrameType

LEMMA WithSending ==
    ASSUME NEW r \in NowType, NEW S \in SUBSET FrameType
    PROVE  /\ [r EXCEPT !.sending = S] \in NowType
           /\ [r EXCEPT !.sending = S].sock = r.sock
           /\ [r EXCEPT !.sending = S].sending = S
           /\ [r EXCEPT !.sending = S].resend = r.resend
  BY DEF NowType

LEMMA SendPacket ==
    ASSUME NEW n \in NowType, NEW flag \in {"syn", "data", "fin"}, NEW data \in Seq(Nat)
    PROVE  /\ TCPSendPacket(n, flag, data) \in NowType
           /\ TCPSendPacket(n, flag, data).sock = n.sock
           /\ TCPSendPacket(n, flag, data).sending = n.sending \cup {FrameOf(n.sock, flag, data)}
           /\ TCPSendPacket(n, flag, data).resend = n.resend
<1>1. n.sock \in SockType /\ n.sending \in SUBSET FrameType
  BY DEF NowType
<1>2. n.sending \cup {FrameOf(n.sock, flag, data)} \in SUBSET FrameType
  BY <1>1, FrameOfFields
<1>3. TCPSendPacket(n, flag, data)
        = [n EXCEPT !.sending = n.sending \cup {FrameOf(n.sock, flag, data)}]
  BY DEF TCPSendPacket, FrameOf
<1>. DEFINE S == n.sending \cup {FrameOf(n.sock, flag, data)}
            m == TCPSendPacket(n, flag, data)
<1>4. S \in SUBSET FrameType /\ m = [n EXCEPT !.sending = S]
  BY <1>2, <1>3
<1>. HIDE DEF S, m
<1>5. m \in NowType /\ m.sock = n.sock /\ m.sending = S /\ m.resend = n.resend
  BY <1>4, WithSending
<1>. QED
  BY <1>5 DEF S, m

LEMMA WithSock ==
    ASSUME NEW r \in NowType, NEW s \in SockType
    PROVE  /\ [r EXCEPT !.sock = s] \in NowType
           /\ [r EXCEPT !.sock = s].sock = s
           /\ [r EXCEPT !.sock = s].sending = r.sending
           /\ [r EXCEPT !.sock = s].resend = r.resend
  BY DEF NowType

\* The socket after IPWriteFlush.
Flushed(k) == [k EXCEPT !.seq = (k.seq + Len(k.frameSend)) % M, !.frameSend = <<>>]

LEMMA FlushedFields ==
    ASSUME NEW k \in SockType
    PROVE  /\ Flushed(k) \in SockType /\ Flushed(k).frameSend = <<>>
           /\ Flushed(k).seq = (k.seq + Len(k.frameSend)) % M
           /\ Flushed(k).state = k.state /\ Flushed(k).gaveUp = k.gaveUp
           /\ Flushed(k).read = k.read /\ Flushed(k).readOffset = k.readOffset
           /\ Flushed(k).ack = k.ack /\ Flushed(k).ackProcessed = k.ackProcessed
           /\ Flushed(k).fins = k.fins /\ Flushed(k).seqReceived = k.seqReceived
<1>1. (k.seq + Len(k.frameSend)) % M \in Nat /\ <<>> \in Seq(Nat)
  <2>1. k.seq \in Nat /\ Len(k.frameSend) \in Nat
    BY DEF SockType
  <2>. QED
    BY <2>1, SocketFacts
<1>. QED
  BY <1>1 DEF Flushed, SockType

LEMMA FlushFields ==
    ASSUME NEW n \in NowType, n.sock.frameSend # <<>>
    PROVE  /\ IPWriteFlush(n) \in NowType
           /\ IPWriteFlush(n).sock = Flushed(n.sock)
           /\ IPWriteFlush(n).sending = n.sending \cup {FrameOf(n.sock, "data", n.sock.frameSend)}
           /\ IPWriteFlush(n).resend = n.resend
<1>. DEFINE p == TCPSendPacket(n, "data", n.sock.frameSend)
            k == Len(n.sock.frameSend)
<1>1. n.sock \in SockType /\ n.sock.frameSend \in Seq(Nat) /\ k \in Nat
  BY DEF NowType, SockType
<1>2. /\ p \in NowType /\ p.sock = n.sock /\ p.resend = n.resend
      /\ p.sending = n.sending \cup {FrameOf(n.sock, "data", n.sock.frameSend)}
  BY <1>1, SendPacket
<1>3. IPWriteFlush(n) = [p EXCEPT !.sock.seq = (@ + k) % M, !.sock.frameSend = <<>>]
  BY DEF IPWriteFlush
<1>. HIDE DEF p, k
<1>4. \A r \in NowType, j \in Nat :
        [r EXCEPT !.sock.seq = (@ + j) % M, !.sock.frameSend = <<>>]
          = [r EXCEPT !.sock = [r.sock EXCEPT !.seq = (r.sock.seq + j) % M, !.frameSend = <<>>]]
  BY DEF NowType, SockType
<1>5. [p EXCEPT !.sock.seq = (@ + k) % M, !.sock.frameSend = <<>>] = [p EXCEPT !.sock = Flushed(n.sock)]
  BY <1>1, <1>2, <1>4 DEF Flushed, k
<1>6. IPWriteFlush(n) = [p EXCEPT !.sock = Flushed(n.sock)]
  BY <1>3, <1>5
<1>. QED
  BY <1>1, <1>2, <1>6, WithSock, FlushedFields

\* The socket after IPClose with a frame for the FIN.
Closing(k) == [k EXCEPT !.seq = (k.seq + 1) % M, !.timed = TRUE, !.state = "finServer"]

LEMMA ClosingFields ==
    ASSUME NEW k \in SockType
    PROVE  /\ Closing(k) \in SockType /\ Closing(k).frameSend = k.frameSend
           /\ Closing(k).seq = (k.seq + 1) % M
           /\ Closing(k).state = "finServer" /\ Closing(k).gaveUp = k.gaveUp
           /\ Closing(k).read = k.read /\ Closing(k).readOffset = k.readOffset
           /\ Closing(k).ack = k.ack /\ Closing(k).ackProcessed = k.ackProcessed
           /\ Closing(k).fins = k.fins /\ Closing(k).seqReceived = k.seqReceived
<1>1. (k.seq + 1) % M \in Nat
  <2>1. k.seq \in Nat
    BY DEF SockType
  <2>. QED
    BY <2>1, SocketFacts
<1>. QED
  BY <1>1 DEF Closing, SockType

LEMMA CloseFields ==
    ASSUME NEW n \in NowType, n.sock.frameSend = <<>>
    PROVE  /\ IPClose(n, TRUE) \in NowType
           /\ IPClose(n, TRUE).sock = Closing(n.sock)
           /\ IPClose(n, TRUE).sending = n.sending \cup {FrameOf(n.sock, "fin", <<>>)}
           /\ IPClose(n, TRUE).resend = n.resend
<1>. DEFINE p == TCPSendPacket(n, "fin", <<>>)
<1>1. n.sock \in SockType
  BY DEF NowType
<1>2. /\ p \in NowType /\ p.sock = n.sock /\ p.resend = n.resend
      /\ p.sending = n.sending \cup {FrameOf(n.sock, "fin", <<>>)}
  <2>1. <<>> \in Seq(Nat)
    OBVIOUS
  <2>. QED
    BY <2>1, SendPacket
<1>3. IPClose(n, TRUE) = [p EXCEPT !.sock.seq = (@ + 1) % M, !.sock.timed = TRUE,
                                   !.sock.state = "finServer"]
  BY DEF IPClose, IPWriteFlush
<1>. HIDE DEF p
<1>4. \A r \in NowType :
        [r EXCEPT !.sock.seq = (@ + 1) % M, !.sock.timed = TRUE, !.sock.state = "finServer"]
          = [r EXCEPT !.sock = [r.sock EXCEPT !.seq = (r.sock.seq + 1) % M, !.timed = TRUE,
                                              !.state = "finServer"]]
  BY DEF NowType, SockType
<1>5. IPClose(n, TRUE) = [p EXCEPT !.sock = Closing(n.sock)]
  BY <1>1, <1>2, <1>3, <1>4 DEF Closing
<1>6. Closing(n.sock) \in SockType
  BY <1>1, ClosingFields
<1>. QED
  BY <1>2, <1>5, <1>6, WithSock, ZenonT(60)

\* IPClose first flushes.
LEMMA CloseFlushes ==
    ASSUME NEW n \in NowType
    PROVE  /\ IPClose(n, TRUE) = IPClose(IPWriteFlush(n), TRUE)
           /\ IPClose(n, FALSE) = IPWriteFlush(n)
           /\ IPWriteFlush(n) \in NowType /\ IPWriteFlush(n).sock.frameSend = <<>>
<1>1. IPWriteFlush(n) \in NowType /\ IPWriteFlush(n).sock.frameSend = <<>>
  <2>1. CASE n.sock.frameSend = <<>>
    BY <2>1 DEF IPWriteFlush
  <2>2. CASE n.sock.frameSend # <<>>
    BY <2>2, FlushFields, FlushedFields DEF NowType
  <2>. QED
    BY <2>1, <2>2
<1>2. IPWriteFlush(IPWriteFlush(n)) = IPWriteFlush(n)
  BY <1>1 DEF IPWriteFlush
<1>. QED
  BY <1>1, <1>2 DEF IPClose

Close2Fields(n, m) ==
    /\ m \in NowType /\ m.sending = {} /\ m.resend = {}
    /\ m.sock.seq = n.sock.seq /\ m.sock.frameSend = n.sock.frameSend
    /\ m.sock.state = "closed" /\ m.sock.gaveUp = TRUE /\ m.sock.read = <<>>
    /\ m.sock.seqReceived = n.sock.seqReceived

LEMMA Close2 ==
    ASSUME NEW n \in NowType
    PROVE  Close2Fields(n, IPClose2(n))
<1>. DEFINE k == [n.sock EXCEPT !.read = <<>>, !.gaveUp = TRUE, !.timed = TRUE, !.state = "closed"]
            m == IPClose2(n)
<1>1. n.sock \in SockType /\ {} \in SUBSET FrameType /\ <<>> \in Seq(Seq(Nat))
  BY DEF NowType
<1>2. /\ k \in SockType /\ k.seq = n.sock.seq /\ k.frameSend = n.sock.frameSend
      /\ k.state = "closed" /\ k.gaveUp = TRUE /\ k.read = <<>>
      /\ k.seqReceived = n.sock.seqReceived
  BY <1>1 DEF SockType
<1>3. m = [sock |-> k, sending |-> {}, resend |-> {}]
  BY DEF IPClose2
<1>. HIDE DEF m, k
<1>4. m \in NowType /\ m.sock = k /\ m.sending = {} /\ m.resend = {}
  BY <1>1, <1>2, <1>3 DEF NowType
<1>. QED
  BY <1>2, <1>4 DEF m, Close2Fields

\* An acknowledgement changes nothing but which frames are kept, and where.
SameSocket(j, k) ==
    /\ j.state = k.state /\ j.seq = k.seq /\ j.frameSend = k.frameSend /\ j.gaveUp = k.gaveUp
    /\ j.read = k.read /\ j.readOffset = k.readOffset /\ j.ack = k.ack
    /\ j.ackProcessed = k.ackProcessed /\ j.fins = k.fins

AcknowledgeFields(n, m, ack) ==
    /\ m \in NowType /\ SameSocket(m.sock, n.sock)
    /\ m.sending \cup m.resend \subseteq n.sending \cup n.resend
    /\ \A f \in n.sending \cup n.resend : f \in m.sending \cup m.resend \/ NotBefore(ack, f.seqEnd)

LEMMA Acknowledged ==
    ASSUME NEW n \in NowType, NEW ack \in Nat, NEW pure \in BOOLEAN
    PROVE  AcknowledgeFields(n, Acknowledge(n, ack, pure), ack)
<1>. DEFINE m == Acknowledge(n, ack, pure)
<1>1. n.sock \in SockType /\ n.sending \in SUBSET FrameType /\ n.resend \in SUBSET FrameType
  BY DEF NowType
<1>2. CASE ack # n.sock.seqReceived
  <2>. DEFINE k == [n.sock EXCEPT !.seqReceived = ack, !.resentDone = FALSE]
              kept == Unacked(n, ack)
  <2>1. k \in SockType /\ SameSocket(k, n.sock)
    BY <1>1 DEF SockType, SameSocket
  <2>2. kept \subseteq n.resend /\ \A f \in n.resend : f \in kept \/ NotBefore(ack, f.seqEnd)
    BY DEF Unacked
  <2>3. m = [sock |-> k, sending |-> n.sending, resend |-> kept]
    BY <1>2 DEF Acknowledge, NowType, SockType
  <2>. HIDE DEF m, k, kept
  <2>4. m \in NowType
    BY <1>1, <2>1, <2>2, <2>3 DEF NowType
  <2>. QED
    BY <2>1, <2>2, <2>3, <2>4 DEF AcknowledgeFields, m
<1>3. CASE ack = n.sock.seqReceived /\ pure /\ ~n.sock.resentDone
  <2>. DEFINE k == [n.sock EXCEPT !.resentDone = TRUE]
              all == n.sending \cup n.resend
  <2>1. k \in SockType /\ SameSocket(k, n.sock)
    BY <1>1 DEF SockType, SameSocket
  <2>2. m = [sock |-> k, sending |-> all, resend |-> {}]
    BY <1>3 DEF Acknowledge, NowType, SockType
  <2>. HIDE DEF m, k
  <2>3. m \in NowType
    BY <1>1, <2>1, <2>2 DEF NowType
  <2>. QED
    BY <2>1, <2>2, <2>3 DEF AcknowledgeFields, m
<1>4. CASE ack = n.sock.seqReceived /\ ~(pure /\ ~n.sock.resentDone)
  BY <1>4 DEF Acknowledge, AcknowledgeFields, SameSocket
<1>. QED
  BY <1>2, <1>3, <1>4

\* Data that comes next is appended, other data leaves everything as it is.
TakeDataFields(n, m, seq, data) ==
    /\ m \in NowType /\ m.sending = n.sending /\ m.resend = n.resend
    /\ IF data = <<>> \/ n.sock.ack # seq THEN m.sock = n.sock
       ELSE m.sock = [n.sock EXCEPT !.read = Append(n.sock.read, data),
                                    !.ack = (n.sock.ack + Len(data)) % M]

LEMMA DataTaken ==
    ASSUME NEW n \in NowType, NEW seq \in Nat, NEW data \in Seq(Nat)
    PROVE  TakeDataFields(n, TakeData(n, seq, data), seq, data)
<1>. DEFINE m == TakeData(n, seq, data)
<1>1. n.sock \in SockType
  BY DEF NowType
<1>2. CASE data = <<>> \/ n.sock.ack # seq
  BY <1>2 DEF TakeData, TakeDataFields
<1>3. CASE ~(data = <<>> \/ n.sock.ack # seq)
  <2>. DEFINE k == [n.sock EXCEPT !.read = Append(n.sock.read, data),
                                  !.ack = (n.sock.ack + Len(data)) % M]
  <2>1. Append(n.sock.read, data) \in Seq(Seq(Nat)) /\ (n.sock.ack + Len(data)) % M \in Nat
    <3>1. n.sock.read \in Seq(Seq(Nat)) /\ n.sock.ack \in Nat /\ Len(data) \in Nat
      BY <1>1 DEF SockType
    <3>. QED
      BY <3>1, SocketFacts
  <2>2. k \in SockType
    BY <1>1, <2>1 DEF SockType
  <2>3. m = [n EXCEPT !.sock = k]
    BY <1>3 DEF TakeData, NowType, SockType
  <2>. HIDE DEF m, k
  <2>4. m \in NowType /\ m.sock = k /\ m.sending = n.sending /\ m.resend = n.resend
    BY <2>2, <2>3, WithSock
  <2>. QED
    BY <1>3, <2>4 DEF TakeDataFields, m, k
<1>. QED
  BY <1>2, <1>3

\* A FIN is counted or leaves the numbers as they are.
TakeFinFields(n, m, seq, fin) ==
    /\ m \in NowType /\ m.sending = n.sending /\ m.resend = n.resend
    /\ m.sock.seq = n.sock.seq /\ m.sock.frameSend = n.sock.frameSend
    /\ m.sock.gaveUp = n.sock.gaveUp /\ m.sock.read = n.sock.read
    /\ m.sock.readOffset = n.sock.readOffset /\ m.sock.ackProcessed = n.sock.ackProcessed
    /\ \/ m.sock.state = n.sock.state
       \/ n.sock.state = "tcp" /\ m.sock.state = "finClient"
    /\ \/ m.sock.ack = n.sock.ack /\ m.sock.fins = n.sock.fins
       \/ /\ fin /\ n.sock.ack >= seq
          /\ m.sock.ack = (n.sock.ack + 1) % M /\ m.sock.fins = n.sock.fins + 1

LEMMA FinTaken ==
    ASSUME NEW n \in NowType, NEW seq \in Nat, NEW fin \in BOOLEAN, NEW frame \in BOOLEAN
    PROVE  TakeFinFields(n, TakeFin(n, seq, fin, frame), seq, fin)
<1>. DEFINE m == TakeFin(n, seq, fin, frame)
<1>1. n.sock \in SockType
  BY DEF NowType
<1>2. CASE ~fin \/ ~(n.sock.ack >= seq)
  BY <1>2 DEF TakeFin, TakeFinFields
<1>3. CASE fin /\ n.sock.ack >= seq /\ ~frame
  <2>. DEFINE k == [n.sock EXCEPT !.timed = TRUE]
  <2>1. /\ k \in SockType /\ k.seq = n.sock.seq /\ k.frameSend = n.sock.frameSend
        /\ k.gaveUp = n.sock.gaveUp /\ k.read = n.sock.read /\ k.readOffset = n.sock.readOffset
        /\ k.ackProcessed = n.sock.ackProcessed /\ k.state = n.sock.state
        /\ k.ack = n.sock.ack /\ k.fins = n.sock.fins
    BY <1>1 DEF SockType
  <2>2. m = [n EXCEPT !.sock = k]
    BY <1>3 DEF TakeFin, NowType, SockType
  <2>. HIDE DEF m, k
  <2>3. m \in NowType /\ m.sock = k /\ m.sending = n.sending /\ m.resend = n.resend
    BY <2>1, <2>2, WithSock
  <2>. QED
    BY <2>1, <2>3 DEF TakeFinFields, m
<1>4. CASE fin /\ n.sock.ack >= seq /\ frame
  <2>. DEFINE st == IF n.sock.state = "tcp" THEN "finClient" ELSE n.sock.state
              ack == (n.sock.ack + 1) % M
              fins == n.sock.fins + 1
              k == [n.sock EXCEPT !.timed = TRUE, !.ack = ack, !.fins = fins, !.state = st]
  <2>1. ack \in Nat /\ fins \in Nat /\ st \in {"none", "tcp", "finClient", "finServer", "closed"}
    <3>1. /\ n.sock.ack \in Nat /\ n.sock.fins \in Nat
          /\ n.sock.state \in {"none", "tcp", "finClient", "finServer", "closed"}
      BY <1>1 DEF SockType
    <3>. QED
      BY <3>1, SocketFacts
  <2>2. m = [n EXCEPT !.sock = k]
    BY <1>4 DEF TakeFin, NowType, SockType
  <2>3. st = n.sock.state \/ (n.sock.state = "tcp" /\ st = "finClient")
    OBVIOUS
  <2>. HIDE DEF ack, fins, st
  <2>4. /\ k \in SockType /\ k.seq = n.sock.seq /\ k.frameSend = n.sock.frameSend
        /\ k.gaveUp = n.sock.gaveUp /\ k.read = n.sock.read /\ k.readOffset = n.sock.readOffset
        /\ k.ackProcessed = n.sock.ackProcessed /\ k.state = st /\ k.ack = ack /\ k.fins = fins
    BY <1>1, <2>1 DEF SockType
  <2>. HIDE DEF m, k
  <2>5. m \in NowType /\ m.sock = k /\ m.sending = n.sending /\ m.resend = n.resend
    BY <2>2, <2>4, WithSock
  <2>. QED
    BY <1>4, <2>3, <2>4, <2>5 DEF TakeFinFields, m, ack, fins
<1>. QED
  BY <1>2, <1>3, <1>4

(***************************************************************************)
(* What is sent.                                                           *)
(***************************************************************************)

\* Lengths that occur, and the bound on places they give.
LEMMA Lengths ==
    ASSUME SocketTypeOK, NEW put \in Seq(Nat), Len(put) <= MaxBytes,
           NEW n \in NowType, NEW syn, NEW fins, Outgoing(n, put, syn, fins)
    PROVE  /\ Len(put) \in 0 .. MaxBytes /\ Len(n.sock.frameSend) \in Nat
           /\ Sent(n, put) \in 0 .. MaxBytes /\ Sent(n, put) + Len(n.sock.frameSend) = Len(put)
           /\ syn \in 0 .. 1 /\ fins \in 0 .. 2 /\ Len(peer.got) \in 0 .. Sent(n, put)
           /\ n.sock \in SockType /\ n.sock.frameSend \in Seq(Nat)
           /\ n.sending \in SUBSET FrameType /\ n.resend \in SUBSET FrameType
<1>1. peer.got \in Seq(Nat)
  BY DEF SocketTypeOK, PeerType
<1>2. /\ n.sock \in SockType /\ n.sock.frameSend \in Seq(Nat)
      /\ n.sending \in SUBSET FrameType /\ n.resend \in SUBSET FrameType
  BY DEF NowType, SockType
<1>3. Len(put) \in Nat /\ Len(peer.got) \in Nat /\ Len(n.sock.frameSend) \in Nat
  BY <1>1, <1>2
<1>4. /\ syn \in 0 .. 1 /\ fins \in 0 .. 2 /\ Len(n.sock.frameSend) <= Len(put)
      /\ Len(peer.got) <= Sent(n, put) /\ Sent(n, put) = Len(put) - Len(n.sock.frameSend)
  BY DEF Outgoing, Sent
<1>. DEFINE p == Len(put)  g == Len(peer.got)  w == Len(n.sock.frameSend)  s == Sent(n, put)
<1>5. /\ p \in Nat /\ g \in Nat /\ w \in Nat /\ p <= MaxBytes
      /\ w <= p /\ g <= s /\ s = p - w
  BY <1>1, <1>3, <1>4
<1>. HIDE DEF p, g, w, s
<1>6. p \in 0 .. MaxBytes /\ s \in 0 .. MaxBytes /\ s + w = p /\ g \in 0 .. s
  BY <1>5, SocketFacts
<1>. QED
  BY <1>1, <1>2, <1>3, <1>4, <1>6 DEF p, g, w, s

\* Frames stay what they are when more bytes are sent, as long as there is no FIN.
LEMMA NumberedSince ==
    ASSUME NEW f, NEW syn \in 0 .. 1, NEW s \in Nat, NEW t \in Nat, NEW k \in Nat, NEW j \in Nat,
           Numbered(f, syn, s, k), s <= t, k <= j, k = 0 \/ s = t, f.data \in Seq(Nat)
    PROVE  Numbered(f, syn, t, j)
<1>. DEFINE len == Len(f.data)
<1>1. len \in Nat
  OBVIOUS
<1>2. f.flag = "data" => \E a \in 0 .. t :
          f.seq = (Isn + 1 + a) % M /\ a + len <= t /\ f.data = Stream(a, len)
  <2>. SUFFICES ASSUME f.flag = "data"
                PROVE  \E a \in 0 .. t :
                         f.seq = (Isn + 1 + a) % M /\ a + len <= t /\ f.data = Stream(a, len)
    OBVIOUS
  <2>1. PICK a \in 0 .. s : f.seq = (Isn + 1 + a) % M /\ a + len <= s /\ f.data = Stream(a, len)
    BY DEF Numbered
  <2>2. a \in 0 .. t /\ a + len <= t
    BY <1>1, <2>1
  <2>. QED
    BY <2>1, <2>2
<1>3. f.flag = "fin" => \E i \in 0 .. j - 1 : f.seq = (Isn + syn + t + i) % M
  <2>. SUFFICES ASSUME f.flag = "fin"
                PROVE  \E i \in 0 .. j - 1 : f.seq = (Isn + syn + t + i) % M
    OBVIOUS
  <2>1. PICK i \in 0 .. k - 1 : f.seq = (Isn + syn + s + i) % M
    BY DEF Numbered
  <2>2. i \in 0 .. j - 1 /\ s = t
    BY <2>1
  <2>. QED
    BY <2>1, <2>2
<1>. QED
  BY <1>2, <1>3 DEF Numbered

\* The same frame, perhaps sent once more.
Alike(f, g) == f.seq = g.seq /\ f.flag = g.flag /\ f.data = g.data /\ f.seqEnd = g.seqEnd

\* Frames may be dropped and sent again, and the state may go on towards its end.
Onwards(n, m) ==
    /\ m.sock.seq = n.sock.seq /\ m.sock.frameSend = n.sock.frameSend
    /\ \/ m.sock.state = n.sock.state
       \/ m.sock.state = "finClient" /\ n.sock.state = "tcp"
       \/ m.sock.state = "closed" /\ n.sock.state # "none"
    /\ \A f \in m.sending \cup m.resend : \E g \in n.sending \cup n.resend : Alike(f, g)

LEMMA OnwardsSends ==
    ASSUME NEW n, NEW m, NEW put, NEW syn, NEW fins, Outgoing(n, put, syn, fins), Onwards(n, m)
    PROVE  Outgoing(m, put, syn, fins) /\ Sent(m, put) = Sent(n, put)
<1>1. Sent(m, put) = Sent(n, put)
  BY DEF Sent, Onwards
<1>2. ASSUME NEW f \in m.sending \cup m.resend
      PROVE  /\ Numbered(f, syn, Sent(m, put), fins)
             /\ f.seqEnd = (f.seq + IF f.flag = "data" THEN Len(f.data) ELSE 1) % M
  <2>1. PICK g \in n.sending \cup n.resend : Alike(f, g)
    BY DEF Onwards
  <2>2. /\ Numbered(g, syn, Sent(n, put), fins)
        /\ g.seqEnd = (g.seq + IF g.flag = "data" THEN Len(g.data) ELSE 1) % M
    BY DEF Outgoing
  <2>. QED
    BY <1>1, <2>1, <2>2 DEF Alike, Numbered
<1>3. \A f \in wire : Numbered(f, syn, Sent(m, put), fins)
  BY <1>1 DEF Outgoing
<1>4. /\ syn \in 0 .. 1 /\ fins \in 0 .. 2
      /\ Len(m.sock.frameSend) <= Len(put)
      /\ m.sock.frameSend = Stream(Sent(m, put), Len(m.sock.frameSend))
      /\ m.sock.state # "none" => m.sock.seq = (Isn + syn + Sent(m, put) + fins) % M
      /\ m.sock.state = "none" => m.sock.frameSend = <<>>
      /\ fins > 0 => m.sock.state \notin {"tcp", "finClient"} /\ m.sock.frameSend = <<>>
      /\ syn = 0 => ~peer.connected /\ put = <<>> /\ peer.role = "server"
      /\ peer.fin => fins > 0 /\ Len(peer.got) = Len(put)
      /\ Len(peer.got) <= Sent(m, put)
  <2>. HIDE DEF Sent
  <2>. QED
    BY <1>1 DEF Outgoing, Onwards
<1>. QED
  BY <1>1, <1>2, <1>3, <1>4 DEF Outgoing

LEMMA FlushSends ==
    ASSUME SocketTypeOK, NEW put \in Seq(Nat), Len(put) <= MaxBytes,
           NEW n \in NowType, NEW syn, NEW fins, Outgoing(n, put, syn, fins)
    PROVE  /\ Outgoing(IPWriteFlush(n), put, syn, fins)
           /\ Kept(n, put) => Kept(IPWriteFlush(n), put)
<1>1. CASE n.sock.frameSend = <<>>
  BY <1>1 DEF IPWriteFlush
<1>2. CASE n.sock.frameSend # <<>>
  <2>. DEFINE m == IPWriteFlush(n)
              data == n.sock.frameSend
              len == Len(data)
              s == Sent(n, put)
              f == FrameOf(n.sock, "data", data)
  <2>1. /\ data \in Seq(Nat) /\ len \in Nat \ {0} /\ s \in 0 .. MaxBytes /\ s + len = Len(put)
        /\ Len(put) \in 0 .. MaxBytes /\ syn \in 0 .. 1 /\ Len(peer.got) \in 0 .. s
        /\ n.sock \in SockType
    BY <1>2, Lengths
  <2>2. /\ m.sock = Flushed(n.sock) /\ m.resend = n.resend /\ m.sending = n.sending \cup {f}
    BY <1>2, FlushFields
  <2>3. /\ fins = 0 /\ n.sock.state # "none" /\ n.sock.seq = (Isn + syn + s + fins) % M
        /\ data = Stream(s, len)
    BY <1>2 DEF Outgoing
  <2>4. syn = 1
    <3>1. put # <<>>
      BY <2>1
    <3>. QED
      BY <2>1, <3>1 DEF Outgoing
  <2>5. n.sock.seq = (Isn + (1 + s)) % M
    <3>1. Isn + syn + s + fins = Isn + (1 + s)
      BY <2>1, <2>3, <2>4, SocketFacts
    <3>. QED
      BY <2>3, <3>1
  <2>6. (n.sock.seq + len) % M = (Isn + (1 + s + len)) % M
    <3>1. 1 + s \in 0 .. MaxBytes + 4 /\ len \in 0 .. MaxBytes + 4 /\ (1 + s) + len <= MaxBytes + 4
      <4>. HIDE DEF s, len
      <4>. QED
        BY <2>1, SocketFacts
    <3>. HIDE DEF s, len
    <3>. QED
      BY <2>5, <3>1, NumbersAdd
  <2>7. Sent(m, put) = Len(put) /\ m.sock.frameSend = <<>> /\ Len(m.sock.frameSend) = 0
    <3>1. m.sock.frameSend = <<>>
      BY <2>1, <2>2, FlushedFields
    <3>. HIDE DEF m
    <3>. QED
      BY <2>1, <3>1 DEF Sent
  <2>8. /\ f.seq = n.sock.seq /\ f.flag = "data" /\ f.data = data
        /\ f.seqEnd = (n.sock.seq + Len(data)) % M
    BY <2>1, FrameOfFields
  <2>9. Numbered(f, syn, Len(put), fins)
    <3>1. s \in 0 .. Len(put) /\ s + len <= Len(put) /\ Isn + 1 + s = Isn + (1 + s)
      <4>. HIDE DEF s, len
      <4>. QED
        BY <2>1, SocketFacts
    <3>. HIDE DEF s, len, f
    <3>2. f.seq = (Isn + 1 + s) % M /\ s + Len(f.data) <= Len(put)
      <4>1. f.seq = (Isn + 1 + s) % M
        BY <2>5, <2>8, <3>1
      <4>2. Len(f.data) = len
        BY <2>8 DEF len
      <4>. QED
        BY <3>1, <4>1, <4>2
    <3>. QED
      BY <2>3, <2>8, <3>1, <3>2 DEF Numbered, len
  <2>10. ASSUME NEW g, g.data \in Seq(Nat), Numbered(g, syn, s, fins)
         PROVE  Numbered(g, syn, Len(put), fins)
    <3>1. s \in Nat /\ Len(put) \in Nat /\ s <= Len(put)
      <4>. HIDE DEF s, len
      <4>. QED
        BY <2>1, SocketFacts
    <3>2. syn \in 0 .. 1 /\ fins \in Nat /\ fins <= fins /\ fins = 0
      BY <2>1, <2>3
    <3>. HIDE DEF s
    <3>. QED
      BY <2>10, <3>1, <3>2, NumberedSince
  <2>11. \A g \in m.sending \cup m.resend :
            /\ Numbered(g, syn, Sent(m, put), fins)
            /\ g.seqEnd = (g.seq + IF g.flag = "data" THEN Len(g.data) ELSE 1) % M
    <3>. SUFFICES ASSUME NEW g \in m.sending \cup m.resend
                  PROVE  /\ Numbered(g, syn, Sent(m, put), fins)
                         /\ g.seqEnd = (g.seq + IF g.flag = "data" THEN Len(g.data) ELSE 1) % M
      OBVIOUS
    <3>. HIDE DEF m, f, s
    <3>1. CASE g = f
      BY <2>7, <2>8, <2>9, <3>1
    <3>2. CASE g \in n.sending \cup n.resend
      <4>1. /\ Numbered(g, syn, s, fins)
            /\ g.seqEnd = (g.seq + IF g.flag = "data" THEN Len(g.data) ELSE 1) % M
        BY <3>2 DEF Outgoing, s
      <4>2. g.data \in Seq(Nat)
        BY <3>2 DEF NowType, FrameType
      <4>. QED
        BY <2>7, <2>10, <4>1, <4>2
    <3>. QED
      BY <2>2, <3>1, <3>2
  <2>12. \A g \in wire : Numbered(g, syn, Sent(m, put), fins)
    <3>. SUFFICES ASSUME NEW g \in wire
                  PROVE  Numbered(g, syn, Sent(m, put), fins)
      OBVIOUS
    <3>1. g.data \in Seq(Nat)
      BY DEF SocketTypeOK, PacketType
    <3>2. Numbered(g, syn, s, fins)
      BY DEF Outgoing
    <3>. HIDE DEF m, s
    <3>. QED
      BY <2>7, <2>10, <3>1, <3>2
  <2>13. Outgoing(m, put, syn, fins)
    <3>1. m.sock.seq = (Isn + syn + Sent(m, put) + fins) % M
      <4>1. m.sock.seq = (n.sock.seq + len) % M
        BY <2>1, <2>2, FlushedFields
      <4>2. Isn + (1 + s + len) = Isn + syn + Len(put) + fins
        <5>. DEFINE p == Len(put)
        <5>1. fins = 0 /\ fins \in Int /\ syn \in Int /\ syn = 1
          BY <2>3, <2>4
        <5>2. s \in Int /\ len \in Int /\ p \in Int /\ s + len = p /\ Isn \in Int
          BY <2>1, SocketFacts
        <5>. HIDE DEF s, len, p
        <5>3. Isn + (1 + s + len) = Isn + syn + p + fins
          BY <5>1, <5>2
        <5>. QED
          BY <5>3 DEF p
      <4>. HIDE DEF m, s, len
      <4>. QED
        BY <2>6, <2>7, <4>1, <4>2
    <3>2. m.sock.state = n.sock.state
      BY <2>1, <2>2, FlushedFields
    <3>3. m.sock.frameSend = Stream(Sent(m, put), Len(m.sock.frameSend))
      <4>1. Stream(Len(put), 0) = <<>>
        BY DEF Stream
      <4>. HIDE DEF m
      <4>. QED
        BY <2>7, <4>1
    <3>4. Len(peer.got) <= Sent(m, put) /\ Len(m.sock.frameSend) <= Len(put)
      <4>1. Len(peer.got) <= Len(put) /\ 0 <= Len(put)
        <5>. HIDE DEF s, len
        <5>. QED
          BY <2>1
      <4>. HIDE DEF m
      <4>. QED
        BY <2>7, <4>1
    <3>5. /\ peer.fin => fins > 0 /\ Len(peer.got) = Len(put)
          /\ syn \in 0 .. 1 /\ fins \in 0 .. 2
      BY DEF Outgoing
    <3>. HIDE DEF m
    <3>. QED
      BY <2>3, <2>4, <2>7, <2>11, <2>12, <3>1, <3>2, <3>3, <3>4, <3>5 DEF Outgoing
  <2>14. ASSUME Kept(n, put) PROVE Kept(m, put)
    <3>. SUFFICES ASSUME ~m.sock.gaveUp, NEW i \in Len(peer.got) + 1 .. Len(put), ~Dropped(i)
                  PROVE  \E g \in m.sending \cup m.resend : g.flag = "data" /\ i \in ToSet(g.data)
      BY <2>7 DEF Kept
    <3>1. ~n.sock.gaveUp
      BY <2>1, <2>2, FlushedFields
    <3>2. CASE i <= s
      <4>1. i \in Len(peer.got) + 1 .. s
        <5>. HIDE DEF s, len
        <5>. QED
          BY <2>1, <3>2
      <4>. HIDE DEF m
      <4>. QED
        BY <2>2, <2>14, <3>1, <4>1 DEF Kept
    <3>3. CASE i > s
      <4>1. i - s \in 1 .. len
        <5>. HIDE DEF s, len
        <5>. QED
          BY <2>1, <3>3
      <4>2. data[i - s] = i
        <5>1. data[i - s] = s + (i - s)
          <6>. HIDE DEF s, len, data
          <6>. QED
            BY <2>3, <4>1 DEF Stream
        <5>. HIDE DEF data, len, s
        <5>. QED
          BY <2>1, <5>1
      <4>3. i \in ToSet(data)
        <5>1. DOMAIN data = 1 .. len
          BY <2>1
        <5>. HIDE DEF data, len, s
        <5>. QED
          BY <4>1, <4>2, <5>1 DEF ToSet
      <4>. HIDE DEF m, f
      <4>. QED
        BY <2>2, <2>8, <4>3
    <3>. QED
      <4>. HIDE DEF s, len
      <4>. QED
        BY <2>1, <3>2, <3>3
  <2>. QED
    BY <2>13, <2>14
<1>. QED
  BY <1>1, <1>2

LEMMA FinSends ==
    ASSUME SocketTypeOK, NEW put \in Seq(Nat), Len(put) <= MaxBytes,
           NEW n \in NowType, NEW syn, NEW fins, Outgoing(n, put, syn, fins),
           fins <= 1, n.sock.state # "none", n.sock.frameSend = <<>>
    PROVE  /\ Outgoing(IPClose(n, TRUE), put, syn, fins + 1)
           /\ Kept(n, put) => Kept(IPClose(n, TRUE), put)
<1>. DEFINE m == IPClose(n, TRUE)
            s == Sent(n, put)
            f == FrameOf(n.sock, "fin", <<>>)
<1>1. /\ s \in 0 .. MaxBytes /\ s = Len(put)
      /\ syn \in 0 .. 1 /\ fins \in 0 .. 1 /\ Len(peer.got) \in 0 .. s
      /\ n.sock \in SockType
  <2>1. /\ s \in 0 .. MaxBytes /\ s + Len(n.sock.frameSend) = Len(put) /\ Len(n.sock.frameSend) = 0
        /\ syn \in 0 .. 1 /\ fins \in 0 .. 2 /\ Len(peer.got) \in 0 .. s
        /\ n.sock \in SockType
    BY Lengths
  <2>. HIDE DEF s
  <2>. QED
    BY <2>1
<1>2. /\ m.sock = Closing(n.sock) /\ m.resend = n.resend /\ m.sending = n.sending \cup {f}
  BY CloseFields
<1>3. n.sock.seq = (Isn + syn + s + fins) % M
  BY DEF Outgoing
<1>4. (n.sock.seq + 1) % M = (Isn + syn + s + (fins + 1)) % M
  <2>. HIDE DEF s
  <2>1. /\ syn + s + fins \in 0 .. MaxBytes + 4 /\ 1 \in 0 .. MaxBytes + 4
        /\ syn + s + fins + 1 <= MaxBytes + 4
    BY <1>1, SocketFacts
  <2>2. /\ Isn + syn + s + fins = Isn + (syn + s + fins)
        /\ Isn + ((syn + s + fins) + 1) = Isn + syn + s + (fins + 1)
    BY <1>1, SocketFacts
  <2>3. (((Isn + (syn + s + fins)) % M) + 1) % M = (Isn + ((syn + s + fins) + 1)) % M
    BY <2>1, NumbersAdd
  <2>. QED
    BY <1>3, <2>2, <2>3
<1>5. m.sock.frameSend = <<>> /\ Sent(m, put) = s
  <2>1. m.sock.frameSend = n.sock.frameSend
    BY <1>1, <1>2, ClosingFields
  <2>. HIDE DEF m
  <2>. QED
    BY <2>1 DEF Sent
<1>6. /\ f.seq = n.sock.seq /\ f.flag = "fin" /\ f.seqEnd = (n.sock.seq + 1) % M
  <2>1. <<>> \in Seq(Nat) /\ "fin" \in {"syn", "data", "fin"} /\ "fin" # "data"
    OBVIOUS
  <2>2. /\ f.seq = n.sock.seq /\ f.flag = "fin"
        /\ f.seqEnd = (n.sock.seq + IF "fin" = "data" THEN Len(<<>>) ELSE 1) % M
    <3>1. \A d \in Seq(Nat) :
             /\ FrameOf(n.sock, "fin", d).seq = n.sock.seq /\ FrameOf(n.sock, "fin", d).flag = "fin"
             /\ FrameOf(n.sock, "fin", d).seqEnd
                  = (n.sock.seq + IF "fin" = "data" THEN Len(d) ELSE 1) % M
      BY <1>1, FrameOfFields
    <3>. QED
      BY <2>1, <3>1
  <2>. HIDE DEF f
  <2>. QED
    BY <2>2
<1>7. Numbered(f, syn, s, fins + 1)
  <2>1. fins \in 0 .. (fins + 1) - 1
    BY <1>1
  <2>. HIDE DEF f, s
  <2>. QED
    BY <1>3, <1>6, <2>1 DEF Numbered
<1>8. ASSUME NEW g, g.data \in Seq(Nat), Numbered(g, syn, s, fins)
      PROVE  Numbered(g, syn, s, fins + 1)
  <2>1. s \in Nat /\ s <= s /\ syn \in 0 .. 1 /\ fins \in Nat /\ fins + 1 \in Nat /\ fins <= fins + 1
    <3>. HIDE DEF s
    <3>. QED
      BY <1>1
  <2>. HIDE DEF s
  <2>. QED
    BY <1>8, <2>1, NumberedSince
<1>9. \A g \in m.sending \cup m.resend :
         /\ Numbered(g, syn, s, fins + 1)
         /\ g.seqEnd = (g.seq + IF g.flag = "data" THEN Len(g.data) ELSE 1) % M
  <2>. SUFFICES ASSUME NEW g \in m.sending \cup m.resend
                PROVE  /\ Numbered(g, syn, s, fins + 1)
                       /\ g.seqEnd = (g.seq + IF g.flag = "data" THEN Len(g.data) ELSE 1) % M
    OBVIOUS
  <2>. HIDE DEF m, f, s
  <2>1. CASE g = f
    BY <1>6, <1>7, <2>1
  <2>2. CASE g \in n.sending \cup n.resend
    <3>1. /\ Numbered(g, syn, s, fins)
          /\ g.seqEnd = (g.seq + IF g.flag = "data" THEN Len(g.data) ELSE 1) % M
      BY <2>2 DEF Outgoing, s
    <3>2. g.data \in Seq(Nat)
      BY <2>2 DEF NowType, FrameType
    <3>. QED
      BY <1>8, <3>1, <3>2
  <2>. QED
    BY <1>2, <2>1, <2>2
<1>10. \A g \in wire : Numbered(g, syn, s, fins + 1)
  <2>. SUFFICES ASSUME NEW g \in wire
                PROVE  Numbered(g, syn, s, fins + 1)
    OBVIOUS
  <2>1. g.data \in Seq(Nat)
    BY DEF SocketTypeOK, PacketType
  <2>2. Numbered(g, syn, s, fins)
    BY DEF Outgoing
  <2>. HIDE DEF s
  <2>. QED
    BY <1>8, <2>1, <2>2
<1>11. Outgoing(m, put, syn, fins + 1)
  <2>1. m.sock.seq = (Isn + syn + Sent(m, put) + (fins + 1)) % M /\ m.sock.state = "finServer"
    <3>1. m.sock.seq = (n.sock.seq + 1) % M /\ m.sock.state = "finServer"
      BY <1>1, <1>2, ClosingFields
    <3>. HIDE DEF m, s
    <3>. QED
      BY <1>4, <1>5, <3>1
  <2>2. m.sock.frameSend = Stream(Sent(m, put), Len(m.sock.frameSend))
    <3>1. \A x : Stream(x, 0) = <<>>
      BY DEF Stream
    <3>. HIDE DEF m
    <3>. QED
      BY <1>5, <3>1
  <2>3. Len(peer.got) <= Sent(m, put) /\ Len(m.sock.frameSend) <= Len(put)
    <3>1. Len(peer.got) <= s /\ 0 <= Len(put)
      <4>. HIDE DEF s
      <4>. QED
        BY <1>1
    <3>. HIDE DEF m, s
    <3>. QED
      BY <1>5, <3>1
  <2>4. /\ peer.fin => fins + 1 > 0 /\ Len(peer.got) = Len(put)
        /\ syn \in 0 .. 1 /\ fins + 1 \in 0 .. 2
        /\ syn = 0 => ~peer.connected /\ put = <<>> /\ peer.role = "server"
    BY <1>1 DEF Outgoing
  <2>. HIDE DEF m
  <2>. QED
    BY <1>5, <1>9, <1>10, <2>1, <2>2, <2>3, <2>4 DEF Outgoing
<1>12. ASSUME Kept(n, put) PROVE Kept(m, put)
  <2>1. m.sock.gaveUp = n.sock.gaveUp
    BY <1>1, <1>2, ClosingFields
  <2>. HIDE DEF m, f
  <2>. QED
    BY <1>2, <1>5, <1>12, <2>1 DEF Kept
<1>. QED
  BY <1>11, <1>12

\* IPClose sends what is left and a FIN, if there is a frame for it.
LEMMA CloseSends ==
    ASSUME SocketTypeOK, NEW put \in Seq(Nat), Len(put) <= MaxBytes,
           NEW n \in NowType, NEW syn, NEW fins, Outgoing(n, put, syn, fins),
           fins <= 1, n.sock.state # "none", NEW frame \in BOOLEAN
    PROVE  /\ IPClose(n, frame) \in NowType
           /\ Outgoing(IPClose(n, frame), put, syn, fins + IF frame THEN 1 ELSE 0)
           /\ Kept(n, put) => Kept(IPClose(n, frame), put)
<1>. DEFINE m == IPWriteFlush(n)
<1>1. /\ m \in NowType /\ m.sock.frameSend = <<>>
      /\ IPClose(n, TRUE) = IPClose(m, TRUE) /\ IPClose(n, FALSE) = m
  BY CloseFlushes
<1>2. Outgoing(m, put, syn, fins) /\ (Kept(n, put) => Kept(m, put))
  BY FlushSends
<1>3. m.sock.state # "none"
  <2>1. CASE n.sock.frameSend = <<>>
    BY <2>1 DEF IPWriteFlush
  <2>2. CASE n.sock.frameSend # <<>>
    <3>1. n.sock \in SockType
      BY DEF NowType
    <3>2. m.sock = Flushed(n.sock)
      BY <2>2, FlushFields
    <3>. QED
      BY <3>1, <3>2, FlushedFields
  <2>. QED
    BY <2>1, <2>2
<1>. HIDE DEF m
<1>4. CASE frame
  <2>1. /\ IPClose(m, TRUE) \in NowType /\ Outgoing(IPClose(m, TRUE), put, syn, fins + 1)
        /\ Kept(m, put) => Kept(IPClose(m, TRUE), put)
    BY <1>1, <1>2, <1>3, FinSends, CloseFields
  <2>. QED
    BY <1>1, <1>2, <1>4, <2>1
<1>5. CASE ~frame
  <2>1. fins + 0 = fins
    BY DEF Outgoing
  <2>. QED
    BY <1>1, <1>2, <1>5, <2>1
<1>. QED
  BY <1>4, <1>5

(***************************************************************************)
(* Acknowledgements.                                                       *)
(***************************************************************************)

\* Where the bytes of a frame are, and the number that acknowledges it.
LEMMA DataFrame ==
    ASSUME SocketTypeOK, NEW put \in Seq(Nat), Len(put) <= MaxBytes,
           NEW n \in NowType, NEW syn, NEW fins, Outgoing(n, put, syn, fins),
           NEW f \in n.sending \cup n.resend, f.flag = "data"
    PROVE  \E a \in 0 .. Sent(n, put) :
              /\ a + Len(f.data) <= Sent(n, put)
              /\ f.seqEnd = (Isn + (1 + a + Len(f.data))) % M
              /\ \A j \in ToSet(f.data) : a < j /\ j <= a + Len(f.data)
<1>. DEFINE len == Len(f.data)
            s == Sent(n, put)
<1>1. /\ Numbered(f, syn, s, fins)
      /\ f.seqEnd = (f.seq + IF f.flag = "data" THEN len ELSE 1) % M
  BY DEF Outgoing
<1>2. PICK a \in 0 .. s : f.seq = (Isn + 1 + a) % M /\ a + len <= s /\ f.data = Stream(a, len)
  BY <1>1 DEF Numbered
<1>3. s \in 0 .. MaxBytes
  BY Lengths
<1>4. f.data \in Seq(Nat) /\ len \in Nat
  <2>1. f.data \in Seq(Nat)
    BY DEF NowType, FrameType
  <2>. QED
    BY <2>1
<1>5. f.seqEnd = (Isn + (1 + a + len)) % M
  <2>. HIDE DEF s, len
  <2>1. 1 + a \in 0 .. MaxBytes + 4 /\ len \in 0 .. MaxBytes + 4 /\ (1 + a) + len <= MaxBytes + 4
    BY <1>2, <1>3, <1>4, SocketFacts
  <2>2. Isn + 1 + a = Isn + (1 + a)
    BY <1>2, <1>3, SocketFacts
  <2>3. f.seqEnd = (((Isn + (1 + a)) % M) + len) % M
    <3>1. f.seqEnd = (f.seq + len) % M
      BY <1>1
    <3>. QED
      BY <1>2, <2>2, <3>1
  <2>. QED
    BY <2>1, <2>3, NumbersAdd
<1>6. ASSUME NEW j \in ToSet(f.data)
      PROVE  a < j /\ j <= a + len
  <2>1. PICK i \in 1 .. len : j = f.data[i]
    BY <1>4 DEF ToSet
  <2>2. f.data[i] = a + i
    <3>. HIDE DEF len
    <3>. QED
      BY <1>2 DEF Stream
  <2>. HIDE DEF len, s
  <2>. QED
    BY <1>2, <1>3, <1>4, <2>1, <2>2
<1>. QED
  BY <1>2, <1>5, <1>6

LEMMA AcknowledgedKeeps ==
    ASSUME SocketTypeOK, AppInv, NEW put \in Seq(Nat), Len(put) <= MaxBytes,
           NEW n \in NowType, NEW syn, NEW fins, Outgoing(n, put, syn, fins), Kept(n, put),
           NEW ack \in PeerAcks, NEW pure \in BOOLEAN
    PROVE  LET m == Acknowledge(n, ack, pure)
           IN  m \in NowType /\ SameSocket(m.sock, n.sock) /\ Onwards(n, m) /\ Kept(m, put)
<1>. DEFINE m == Acknowledge(n, ack, pure)
            s == Sent(n, put)
            g == Len(peer.got)
<1>1. PICK i \in 0 .. peer.count : ack = (Isn + 1 + i) % M
  BY DEF PeerAcks
<1>2. /\ peer.count = g + (IF peer.fin THEN 1 ELSE 0) /\ g \in 0 .. s /\ s \in 0 .. MaxBytes
      /\ s <= Len(put) /\ Len(put) \in Nat
      /\ peer.fin => g = Len(put)
  <2>1. /\ s \in 0 .. MaxBytes /\ s + Len(n.sock.frameSend) = Len(put) /\ g \in 0 .. s
        /\ Len(n.sock.frameSend) \in Nat /\ Len(put) \in Nat
    BY Lengths
  <2>2. s <= Len(put)
    <3>. HIDE DEF s
    <3>. QED
      BY <2>1
  <2>. QED
    BY <2>1, <2>2 DEF AppInv, Outgoing
<1>3. 1 + i \in 0 .. MaxBytes + 4 /\ Isn + 1 + i = Isn + (1 + i) /\ i \in Nat
  <2>. HIDE DEF s, g
  <2>. QED
    BY <1>2, SocketFacts
<1>4. AcknowledgeFields(n, m, ack)
  <2>1. ack \in Nat
    <3>1. 1 + i \in 0 .. M - 1
      BY <1>3, SocketFacts
    <3>. QED
      BY <1>1, <1>3, <3>1, Numbers, SocketFacts
  <2>. QED
    BY <2>1, Acknowledged
<1>. HIDE DEF m
<1>5. Onwards(n, m)
  BY <1>4 DEF AcknowledgeFields, SameSocket, Onwards, Alike
<1>6. Sent(m, put) = s
  BY <1>5, OnwardsSends
<1>7. Kept(m, put)
  <2>. SUFFICES ASSUME ~m.sock.gaveUp, NEW j \in g + 1 .. s, ~Dropped(j)
                PROVE  \E f \in m.sending \cup m.resend : f.flag = "data" /\ j \in ToSet(f.data)
    BY <1>6 DEF Kept
  <2>1. PICK f \in n.sending \cup n.resend : f.flag = "data" /\ j \in ToSet(f.data)
    BY <1>4 DEF Kept, AcknowledgeFields, SameSocket
  <2>2. CASE f \in m.sending \cup m.resend
    BY <2>1, <2>2
  <2>3. CASE NotBefore(ack, f.seqEnd)
    <3>. DEFINE len == Len(f.data)
    <3>1. PICK a \in 0 .. s : /\ a + len <= s /\ f.seqEnd = (Isn + (1 + a + len)) % M
                              /\ \A k \in ToSet(f.data) : a < k /\ k <= a + len
      BY <2>1, DataFrame
    <3>2. len \in Nat
      <4>1. f.data \in Seq(Nat)
        BY DEF NowType, FrameType
      <4>. QED
        BY <4>1
    <3>3. 1 + a + len \in 0 .. MaxBytes + 4
      <4>. HIDE DEF s, len
      <4>. QED
        BY <1>2, <3>1, <3>2, SocketFacts
    <3>4. 1 + i >= 1 + a + len
      <4>. HIDE DEF len
      <4>. QED
        BY <1>1, <1>3, <2>3, <3>1, <3>3, AckOrder
    <3>5. j <= a + len
      BY <2>1, <3>1
    <3>6. FALSE
      <4>. HIDE DEF s, g, len
      <4>. QED
        BY <1>1, <1>2, <3>1, <3>2, <3>4, <3>5
    <3>. QED
      BY <3>6
  <2>. QED
    BY <1>4, <2>2, <2>3 DEF AcknowledgeFields
<1>. QED
  BY <1>4, <1>5, <1>7 DEF AcknowledgeFields, m

(***************************************************************************)
(* The invariant is inductive.                                             *)
(***************************************************************************)

\* What a step that leaves the network and the peer alone has to show.
LEMMA Handled ==
    ASSUME SocketInv, NEW m \in NowType, Becomes(m), UNCHANGED <<wire, peer>>,
           app' \in AppType, app'.opened,
           app'.put = Stream(0, Len(app'.put)), Len(app'.put) <= app'.length,
           NEW syn, NEW fins, Outgoing(m, app'.put, syn, fins), fins > 1 => app'.closed,
           Kept(m, app'.put),
           m.sock.state = "closed" => m.sock.gaveUp,
           ~peer.connected /\ peer.role = "server" => m.sock.seqReceived = 0,
           m.sock.state = "none" => m.sending = {} /\ m.resend = {} /\ ~m.sock.timed,
           Orderly => Incoming(m, app'.got)
    PROVE  SocketInv'
<1>1. Now' = m /\ sock' = m.sock /\ sending' = m.sending /\ resend' = m.resend
  BY BecomesNow DEF Becomes
<1>2. wire' = wire /\ peer' = peer
  OBVIOUS
<1>3. SocketTypeOK'
  BY <1>1, <1>2 DEF SocketInv, SocketTypeOK
<1>4. AppInv'
  BY <1>1, <1>2 DEF SocketInv, AppInv
<1>5. (Outgoing(Now, app.put, syn, fins))'
  BY <1>1, <1>2 DEF Outgoing, Sent
<1>6. SendInv'
  <2>1. syn \in 0 .. 1 /\ fins \in 0 .. 2
    BY DEF Outgoing
  <2>. QED
    BY <1>5, <2>1 DEF SendInv
<1>7. (Kept(Now, app.put))'
  BY <1>1, <1>2 DEF Kept, Sent, Dropped
<1>8. (Orderly => Incoming(Now, app.got))'
  <2>. SUFFICES ASSUME Orderly
                PROVE  (Incoming(Now, app.got))'
    OBVIOUS
  <2>1. Incoming(m, app'.got)
    OBVIOUS
  <2>. QED
    BY <1>1, <1>2, <2>1 DEF Incoming, Place
<1>. QED
  BY <1>3, <1>4, <1>6, <1>7, <1>8 DEF SocketInv

\* ... and the application.
LEMMA HandledAlone ==
    ASSUME SocketInv, NEW m \in NowType, Becomes(m), UNCHANGED <<wire, app, peer>>, app.opened,
           NEW syn, NEW fins, Outgoing(m, app.put, syn, fins), fins > 1 => app.closed,
           Kept(m, app.put),
           m.sock.state = "closed" => m.sock.gaveUp,
           ~peer.connected /\ peer.role = "server" => m.sock.seqReceived = 0,
           m.sock.state = "none" => m.sending = {} /\ m.resend = {} /\ ~m.sock.timed,
           Orderly => Incoming(m, app.got)
    PROVE  SocketInv'
<1>1. /\ app' = app /\ app \in AppType /\ app.put = Stream(0, Len(app.put))
      /\ Len(app.put) <= app.length
  BY DEF SocketInv, SocketTypeOK, AppInv
<1>. QED
  BY <1>1, Handled

\* Reading is concerned with these fields only.
SameReading(j, k) ==
    /\ j.gaveUp = k.gaveUp /\ j.read = k.read /\ j.readOffset = k.readOffset /\ j.ack = k.ack
    /\ j.ackProcessed = k.ackProcessed /\ j.fins = k.fins

LEMMA IncomingStays ==
    ASSUME NEW n, NEW m, NEW got, Incoming(n, got), SameReading(m.sock, n.sock)
    PROVE  Incoming(m, got)
  BY DEF Incoming, SameReading

\* Facts of a state that all steps use.
LEMMA Before ==
    ASSUME SocketInv
    PROVE  /\ SocketTypeOK /\ AppInv /\ Kept(Now, app.put) /\ Now \in NowType
           /\ app.put \in Seq(Nat) /\ Len(app.put) <= MaxBytes
           /\ sock \in SockType /\ sending \in SUBSET FrameType /\ resend \in SUBSET FrameType
           /\ \E syn \in 0 .. 1, fins \in 0 .. 2 :
                 Outgoing(Now, app.put, syn, fins) /\ (fins > 1 => app.closed)
<1>1. app.put \in Seq(Nat) /\ app.length \in 0 .. MaxBytes /\ Len(app.put) <= app.length
  BY DEF SocketInv, SocketTypeOK, AppType, AppInv
<1>2. Len(app.put) \in Nat
  BY <1>1
<1>3. Len(app.put) <= MaxBytes
  <2>. DEFINE p == Len(app.put)
  <2>1. p \in Nat /\ p <= app.length /\ app.length \in 0 .. MaxBytes
    BY <1>1, <1>2
  <2>. HIDE DEF p
  <2>2. p <= MaxBytes
    BY <2>1, SocketFacts
  <2>. QED
    BY <2>2 DEF p
<1>4. sock \in SockType /\ sending \in SUBSET FrameType /\ resend \in SUBSET FrameType
  BY DEF SocketInv, SocketTypeOK, Now, NowType
<1>. QED
  BY <1>1, <1>3, <1>4 DEF SocketInv, SendInv, SocketTypeOK

\* Once it has given up, a connection is followed only if it carries nothing.
LEMMA NothingToCarry ==
    ASSUME SocketInv, app.length + peer.length = 0
    PROVE  /\ app.put = <<>> /\ sock.frameSend = <<>> /\ peer.length = 0
           /\ Orderly => sock.read = <<>>
<1>1. /\ app.length \in Nat /\ peer.length \in Nat /\ app.put \in Seq(Nat)
      /\ Len(app.put) <= app.length /\ sock.frameSend \in Seq(Nat)
  BY Before DEF SocketInv, SocketTypeOK, AppType, PeerType, AppInv, SockType
<1>2. app.length = 0 /\ peer.length = 0
  BY <1>1
<1>3. app.put = <<>> /\ Len(app.put) = 0
  <2>1. Len(app.put) \in Nat /\ Len(app.put) <= 0
    BY <1>1, <1>2
  <2>. QED
    BY <1>1, <2>1
<1>4. Len(sock.frameSend) <= 0
  BY <1>3, Before, NowFields DEF Outgoing
<1>5. sock.frameSend = <<>>
  <2>1. Len(sock.frameSend) \in Nat
    BY <1>1
  <2>. QED
    BY <1>1, <1>4, <2>1
<1>. QED
  BY <1>2, <1>3, <1>5, NowFields DEF SocketInv, Incoming

\* IPWriteFlush and IPClose do not read.
CloseFieldsKept(n, m) ==
    /\ SameReading(m.sock, n.sock) /\ m.sock.seqReceived = n.sock.seqReceived
    /\ m.sock.state \in {n.sock.state, "finServer"}

LEMMA FlushKeeps ==
    ASSUME NEW n \in NowType
    PROVE  CloseFieldsKept(n, IPWriteFlush(n)) /\ IPWriteFlush(n).sock.state = n.sock.state
<1>1. CASE n.sock.frameSend = <<>>
  BY <1>1 DEF IPWriteFlush, CloseFieldsKept, SameReading
<1>2. CASE n.sock.frameSend # <<>>
  <2>1. n.sock \in SockType
    BY DEF NowType
  <2>2. IPWriteFlush(n).sock = Flushed(n.sock)
    BY <1>2, FlushFields
  <2>. QED
    BY <2>1, <2>2, FlushedFields DEF CloseFieldsKept, SameReading
<1>. QED
  BY <1>1, <1>2

LEMMA CloseKeeps ==
    ASSUME NEW n \in NowType, NEW frame \in BOOLEAN
    PROVE  CloseFieldsKept(n, IPClose(n, frame))
<1>. DEFINE m == IPWriteFlush(n)
<1>1. /\ m \in NowType /\ m.sock.frameSend = <<>>
      /\ IPClose(n, TRUE) = IPClose(m, TRUE) /\ IPClose(n, FALSE) = m
  BY CloseFlushes
<1>2. CloseFieldsKept(n, m) /\ m.sock \in SockType
  BY <1>1, FlushKeeps DEF NowType
<1>. HIDE DEF m
<1>3. CloseFieldsKept(n, IPClose(m, TRUE))
  <2>1. IPClose(m, TRUE).sock = Closing(m.sock)
    BY <1>1, CloseFields
  <2>2. /\ SameReading(Closing(m.sock), m.sock) /\ Closing(m.sock).state = "finServer"
        /\ Closing(m.sock).seqReceived = m.sock.seqReceived
    BY <1>2, ClosingFields DEF SameReading
  <2>. QED
    BY <1>2, <2>1, <2>2 DEF CloseFieldsKept, SameReading
<1>. QED
  BY <1>1, <1>2, <1>3

\* Giving up a connection.
LEMMA GivesUp ==
    ASSUME NEW n \in NowType, NEW put, NEW syn, NEW fins, Outgoing(n, put, syn, fins)
    PROVE  LET m == [n EXCEPT !.sock.gaveUp = TRUE]
           IN  /\ m \in NowType /\ Outgoing(m, put, syn, fins) /\ Kept(m, put)
               /\ m.sock.gaveUp /\ m.sock.state = n.sock.state /\ m.sock.read = n.sock.read
               /\ m.sock.seqReceived = n.sock.seqReceived /\ m.sock.timed = n.sock.timed
               /\ m.sending = n.sending /\ m.resend = n.resend
<1>. DEFINE k == [n.sock EXCEPT !.gaveUp = TRUE]
            m == [n EXCEPT !.sock.gaveUp = TRUE]
<1>1. n.sock \in SockType
  BY DEF NowType
<1>2. /\ k \in SockType /\ k.gaveUp = TRUE /\ k.state = n.sock.state /\ k.read = n.sock.read
      /\ k.seq = n.sock.seq /\ k.frameSend = n.sock.frameSend
      /\ k.seqReceived = n.sock.seqReceived /\ k.timed = n.sock.timed
  BY <1>1 DEF SockType
<1>3. m = [n EXCEPT !.sock = k]
  BY DEF NowType, SockType
<1>. HIDE DEF k, m
<1>4. m \in NowType /\ m.sock = k /\ m.sending = n.sending /\ m.resend = n.resend
  BY <1>2, <1>3, WithSock
<1>5. Onwards(n, m)
  BY <1>2, <1>4 DEF Onwards, Alike
<1>. QED
  BY <1>2, <1>4, <1>5, OnwardsSends DEF Kept, m

LEMMA TimeoutStep ==
    ASSUME SocketInv, sock.gaveUp => app.length + peer.length = 0, SocketTimeout
    PROVE  SocketInv'
<1>1. /\ SocketTypeOK /\ AppInv /\ Kept(Now, app.put) /\ Now \in NowType
      /\ app.put \in Seq(Nat) /\ Len(app.put) <= MaxBytes
  BY Before
<1>2. PICK syn \in 0 .. 1, fins \in 0 .. 2 :
        Outgoing(Now, app.put, syn, fins) /\ (fins > 1 => app.closed)
  BY Before
<1>3. /\ sock.timed /\ UNCHANGED <<wire, app, peer>> /\ sock.state # "none" /\ app.opened
      /\ Now.sock = sock
  BY <1>1, NowFields DEF SocketTimeout, AppInv
<1>4. CASE sock.state \in {"tcp", "finClient"}
  <2>. DEFINE m == IPClose(Now, TRUE)
  <2>1. fins = 0 /\ fins + 1 = 1
    BY <1>2, <1>3, <1>4 DEF Outgoing
  <2>2. m \in NowType /\ Outgoing(m, app.put, syn, fins + 1) /\ Kept(m, app.put)
    <3>1. \A frame \in BOOLEAN :
            /\ IPClose(Now, frame) \in NowType
            /\ Outgoing(IPClose(Now, frame), app.put, syn, fins + IF frame THEN 1 ELSE 0)
            /\ Kept(IPClose(Now, frame), app.put)
      BY <1>1, <1>2, <1>3, <2>1, CloseSends
    <3>2. TRUE \in BOOLEAN /\ (IF TRUE THEN 1 ELSE 0) = 1
      OBVIOUS
    <3>. QED
      BY <3>1, <3>2
  <2>3. CloseFieldsKept(Now, m)
    BY <1>1, CloseKeeps
  <2>4. Becomes(m)
    BY <1>4 DEF SocketTimeout
  <2>. HIDE DEF m
  <2>5. /\ m.sock.state # "none" /\ m.sock.state # "closed"
        /\ m.sock.seqReceived = sock.seqReceived
    BY <1>3, <1>4, <2>3 DEF CloseFieldsKept
  <2>6. Orderly => Incoming(m, app.got)
    BY <2>3, IncomingStays DEF CloseFieldsKept, SocketInv
  <2>. QED
    BY <1>1, <1>3, <2>1, <2>2, <2>4, <2>5, <2>6, HandledAlone DEF AppInv
<1>5. CASE sock.state \notin {"tcp", "finClient", "closed"}
  <2>. DEFINE m == IPClose2(Now)
  <2>1. Close2Fields(Now, m) /\ Becomes(m)
    BY <1>1, <1>5, Close2 DEF SocketTimeout
  <2>. HIDE DEF m
  <2>2. Onwards(Now, m) /\ m \in NowType
    BY <1>3, <2>1 DEF Close2Fields, Onwards
  <2>3. Outgoing(m, app.put, syn, fins)
    BY <1>2, <2>2, OnwardsSends
  <2>4. Kept(m, app.put) /\ Incoming(m, app.got)
    BY <2>1 DEF Kept, Incoming, Close2Fields
  <2>5. m.sock.seqReceived = sock.seqReceived
    BY <1>3, <2>1 DEF Close2Fields
  <2>. QED
    BY <1>1, <1>2, <1>3, <2>1, <2>2, <2>3, <2>4, <2>5, HandledAlone DEF AppInv, Close2Fields
<1>6. CASE sock.state = "closed"
  <2>. DEFINE k == [sock EXCEPT !.state = "none", !.timed = FALSE, !.frameSend = <<>>, !.read = <<>>]
              m == [sock |-> k, sending |-> sending, resend |-> resend]
  <2>1. sock \in SockType /\ sending \in SUBSET FrameType /\ resend \in SUBSET FrameType
    BY Before
  <2>2. sock.frameSend = <<>> /\ app.put = <<>>
    BY <1>1, <1>6, NothingToCarry DEF AppInv
  <2>3. /\ k \in SockType /\ k.state = "none" /\ k.timed = FALSE /\ k.frameSend = <<>>
        /\ k.read = <<>> /\ k.seqReceived = sock.seqReceived /\ k.gaveUp = sock.gaveUp
    <3>1. <<>> \in Seq(Nat) /\ <<>> \in Seq(Seq(Nat))
      OBVIOUS
    <3>. QED
      BY <2>1, <3>1 DEF SockType
  <2>4. /\ Becomes(m) /\ sending = {} /\ resend = {}
    BY <1>6 DEF SocketTimeout, Becomes
  <2>. HIDE DEF k
  <2>5. /\ m \in NowType /\ m.sock = k /\ m.sending = {} /\ m.resend = {}
    BY <2>1, <2>3, <2>4 DEF NowType
  <2>. HIDE DEF m
  <2>6. Sent(m, app.put) = Sent(Now, app.put)
    BY <1>3, <2>2, <2>3, <2>5 DEF Sent
  <2>7. Outgoing(m, app.put, syn, fins)
    <3>. HIDE DEF Sent
    <3>. QED
      BY <1>2, <1>3, <2>2, <2>3, <2>5, <2>6 DEF Outgoing
  <2>8. Kept(m, app.put) /\ Incoming(m, app.got)
    BY <1>1, <1>6, <2>3, <2>5 DEF Kept, Incoming, AppInv
  <2>. QED
    BY <1>1, <1>2, <1>3, <2>3, <2>4, <2>5, <2>7, <2>8, HandledAlone DEF AppInv
<1>. QED
  BY <1>4, <1>5, <1>6

LEMMA RetransmitStep ==
    ASSUME SocketInv, sock.gaveUp => app.length + peer.length = 0, Retransmit
    PROVE  SocketInv'
<1>1. /\ SocketTypeOK /\ AppInv /\ Kept(Now, app.put) /\ Now \in NowType
      /\ app.put \in Seq(Nat) /\ Len(app.put) <= MaxBytes
      /\ sock \in SockType /\ sending \in SUBSET FrameType /\ resend \in SUBSET FrameType
      /\ Orderly => Incoming(Now, app.got)
  BY Before DEF SocketInv
<1>2. PICK syn \in 0 .. 1, fins \in 0 .. 2 :
        Outgoing(Now, app.put, syn, fins) /\ (fins > 1 => app.closed)
  BY Before
<1>3. PICK f \in resend, frame \in BOOLEAN :
        /\ LET n == [Now EXCEPT !.resend = @ \ {f}] IN
           Becomes(IF f.retry < MaxRetry /\ sock.state # "closed"
                   THEN [n EXCEPT !.sending = @ \cup {f}]
                   ELSE [IF sock.state = "tcp" THEN IPClose(n, frame) ELSE n EXCEPT
                           !.sock.gaveUp = TRUE])
        /\ UNCHANGED <<wire, app, peer>>
  BY DEF Retransmit
<1>. DEFINE n == [sock |-> sock, sending |-> sending, resend |-> resend \ {f}]
            m == [sock |-> sock, sending |-> sending \cup {f}, resend |-> resend \ {f}]
            closed == IPClose(n, frame)
<1>4. n = [Now EXCEPT !.resend = @ \ {f}] /\ m = [n EXCEPT !.sending = @ \cup {f}]
  BY DEF Now
<1>5. n \in NowType /\ n.sock = sock /\ n.sending = sending /\ n.resend = resend \ {f}
  BY <1>1 DEF NowType
<1>6. m \in NowType /\ m.sock = sock /\ m.sending = sending \cup {f} /\ m.resend = resend \ {f}
  BY <1>1 DEF NowType
<1>7. IF f.retry < MaxRetry /\ sock.state # "closed" THEN Becomes(m)
      ELSE IF sock.state = "tcp" THEN Becomes([closed EXCEPT !.sock.gaveUp = TRUE])
      ELSE Becomes([n EXCEPT !.sock.gaveUp = TRUE])
  BY <1>3, <1>4
<1>8. sock.state # "none" /\ app.opened /\ UNCHANGED <<wire, app, peer>>
  BY <1>1, <1>3 DEF AppInv
<1>. HIDE DEF n, m, closed
<1>9. CASE f.retry < MaxRetry /\ sock.state # "closed"
  <2>1. Onwards(Now, m)
    BY <1>6, NowFields DEF Onwards, Alike
  <2>2. Outgoing(m, app.put, syn, fins) /\ Sent(m, app.put) = Sent(Now, app.put)
    BY <1>2, <2>1, OnwardsSends
  <2>3. Kept(m, app.put)
    <3>. HIDE DEF Sent
    <3>. QED
      BY <1>1, <1>6, <2>2, NowFields DEF Kept
  <2>4. Orderly => Incoming(m, app.got)
    BY <1>1, <1>6, NowFields, IncomingStays DEF SameReading
  <2>. QED
    BY <1>1, <1>2, <1>6, <1>7, <1>8, <1>9, <2>2, <2>3, <2>4, HandledAlone DEF AppInv
<1>10. Onwards(Now, n)
  BY <1>5, NowFields DEF Onwards, Alike
<1>11. Outgoing(n, app.put, syn, fins)
  BY <1>2, <1>10, OnwardsSends
<1>12. Orderly => (peer.length = 0 => sock.read = <<>>)
  BY <1>1, NowFields DEF Incoming
<1>13. CASE ~(f.retry < MaxRetry /\ sock.state # "closed") /\ sock.state = "tcp"
  <2>. DEFINE k == [closed EXCEPT !.sock.gaveUp = TRUE]
  <2>1. fins = 0
    BY <1>2, <1>13, NowFields DEF Outgoing
  <2>2. PICK j \in 0 .. 1 : closed \in NowType /\ Outgoing(closed, app.put, syn, j)
    <3>1. closed \in NowType /\ Outgoing(closed, app.put, syn, fins + IF frame THEN 1 ELSE 0)
      BY <1>1, <1>5, <1>8, <1>11, <2>1, CloseSends DEF closed
    <3>2. (fins + IF frame THEN 1 ELSE 0) \in 0 .. 1
      BY <2>1
    <3>. QED
      BY <3>1, <3>2
  <2>3. CloseFieldsKept(n, closed)
    BY <1>5, CloseKeeps DEF closed
  <2>4. /\ k \in NowType /\ Outgoing(k, app.put, syn, j) /\ Kept(k, app.put) /\ k.sock.gaveUp
        /\ k.sock.state = closed.sock.state /\ k.sock.read = closed.sock.read
        /\ k.sock.seqReceived = closed.sock.seqReceived
    BY <2>2, GivesUp
  <2>5. Becomes(k)
    BY <1>7, <1>13
  <2>. HIDE DEF k
  <2>6. k.sock.state # "none" /\ k.sock.seqReceived = sock.seqReceived /\ k.sock.read = sock.read
    BY <1>5, <1>8, <2>3, <2>4 DEF CloseFieldsKept, SameReading
  <2>7. Orderly => Incoming(k, app.got)
    BY <1>12, <2>4, <2>6 DEF Incoming
  <2>8. ~(j > 1)
    OBVIOUS
  <2>. QED
    BY <1>1, <1>8, <2>4, <2>5, <2>6, <2>7, <2>8, HandledAlone DEF AppInv
<1>14. CASE ~(f.retry < MaxRetry /\ sock.state # "closed") /\ sock.state # "tcp"
  <2>. DEFINE k == [n EXCEPT !.sock.gaveUp = TRUE]
  <2>1. /\ k \in NowType /\ Outgoing(k, app.put, syn, fins) /\ Kept(k, app.put) /\ k.sock.gaveUp
        /\ k.sock.state = sock.state /\ k.sock.read = sock.read
        /\ k.sock.seqReceived = sock.seqReceived
    BY <1>5, <1>11, GivesUp
  <2>2. Becomes(k)
    BY <1>7, <1>14
  <2>. HIDE DEF k
  <2>3. Orderly => Incoming(k, app.got)
    BY <1>12, <2>1 DEF Incoming
  <2>. QED
    BY <1>1, <1>2, <1>8, <2>1, <2>2, <2>3, HandledAlone DEF AppInv
<1>. QED
  BY <1>9, <1>13, <1>14

LEMMA FlushStep ==
    ASSUME SocketInv, Flush
    PROVE  SocketInv'
<1>1. /\ SocketTypeOK /\ AppInv /\ Kept(Now, app.put) /\ Now \in NowType
      /\ app.put \in Seq(Nat) /\ Len(app.put) <= MaxBytes
      /\ Orderly => Incoming(Now, app.got)
  BY Before DEF SocketInv
<1>2. PICK syn \in 0 .. 1, fins \in 0 .. 2 :
        Outgoing(Now, app.put, syn, fins) /\ (fins > 1 => app.closed)
  BY Before
<1>. DEFINE m == IPWriteFlush(Now)
<1>3. Becomes(m) /\ UNCHANGED <<wire, app, peer>> /\ sock.frameSend # <<>>
  BY DEF Flush
<1>4. sock.state # "none" /\ app.opened
  BY <1>1, <1>2, <1>3, NowFields DEF AppInv, Outgoing
<1>5. m \in NowType /\ Outgoing(m, app.put, syn, fins) /\ Kept(m, app.put)
  BY <1>1, <1>2, FlushSends, CloseFlushes
<1>6. CloseFieldsKept(Now, m) /\ m.sock.state = sock.state
  BY <1>1, FlushKeeps, NowFields
<1>. HIDE DEF m
<1>7. Orderly => Incoming(m, app.got)
  BY <1>1, <1>6, IncomingStays DEF CloseFieldsKept
<1>8. m.sock.seqReceived = sock.seqReceived /\ m.sock.gaveUp = sock.gaveUp
  BY <1>6, NowFields DEF CloseFieldsKept, SameReading
<1>. QED
  BY <1>1, <1>2, <1>3, <1>4, <1>5, <1>6, <1>7, <1>8, HandledAlone DEF AppInv

LEMMA ResetStep ==
    ASSUME SocketInv, ReceiveReset
    PROVE  SocketInv'
<1>1. /\ SocketTypeOK /\ AppInv /\ Kept(Now, app.put) /\ Now \in NowType
      /\ app.put \in Seq(Nat) /\ Len(app.put) <= MaxBytes
  BY Before
<1>2. PICK syn \in 0 .. 1, fins \in 0 .. 2 :
        Outgoing(Now, app.put, syn, fins) /\ (fins > 1 => app.closed)
  BY Before
<1>3. PICK ack \in PeerAcks : Becomes(IPClose2(Acknowledge(Now, ack, FALSE)))
  BY DEF ReceiveReset
<1>4. UNCHANGED <<wire, app, peer>> /\ sock.state # "none" /\ peer.connected /\ app.opened
  BY <1>1 DEF ReceiveReset, AppInv
<1>. DEFINE n == Acknowledge(Now, ack, FALSE)
            m == IPClose2(n)
<1>5. n \in NowType /\ SameSocket(n.sock, sock) /\ Onwards(Now, n)
  <2>1. \A pure \in BOOLEAN :
          LET k == Acknowledge(Now, ack, pure)
          IN  k \in NowType /\ SameSocket(k.sock, Now.sock) /\ Onwards(Now, k)
    BY <1>1, <1>2, AcknowledgedKeeps
  <2>. QED
    BY <2>1, NowFields
<1>. HIDE DEF n
<1>6. Close2Fields(n, m)
  BY <1>5, Close2
<1>7. Becomes(m)
  BY <1>3 DEF n
<1>. HIDE DEF m
<1>8. Outgoing(n, app.put, syn, fins) /\ n.sock.state # "none"
  BY <1>2, <1>4, <1>5, OnwardsSends DEF SameSocket
<1>9. Onwards(n, m)
  BY <1>6, <1>8 DEF Onwards, Close2Fields
<1>10. Outgoing(m, app.put, syn, fins)
  BY <1>8, <1>9, OnwardsSends
<1>11. Kept(m, app.put) /\ Incoming(m, app.got)
  BY <1>6 DEF Kept, Incoming, Close2Fields
<1>. QED
  BY <1>1, <1>2, <1>4, <1>6, <1>7, <1>10, <1>11, HandledAlone DEF Close2Fields

LEMMA SynAckStep ==
    ASSUME SocketInv, ReceiveSynAck
    PROVE  SocketInv'
<1>1. /\ SocketTypeOK /\ AppInv /\ Kept(Now, app.put) /\ Now \in NowType
      /\ app.put \in Seq(Nat) /\ Len(app.put) <= MaxBytes
      /\ Orderly => Incoming(Now, app.got)
  BY Before DEF SocketInv
<1>2. PICK syn \in 0 .. 1, fins \in 0 .. 2 :
        Outgoing(Now, app.put, syn, fins) /\ (fins > 1 => app.closed)
  BY Before
<1>3. PICK pure \in BOOLEAN :
        LET n == Acknowledge(Now, (Isn + 1) % M, pure) IN
        Becomes([n EXCEPT !.sock.ack = First, !.sock.ackProcessed = First])
  BY DEF ReceiveSynAck
<1>4. /\ UNCHANGED <<wire, app, peer>> /\ sock.state # "none" /\ peer.connected /\ app.opened
      /\ Orderly => sock.ack \in {0, First} /\ app.got = <<>> /\ sock.read = <<>>
  BY <1>1, OrderlyFacts DEF ReceiveSynAck, AppInv
<1>. DEFINE n == Acknowledge(Now, (Isn + 1) % M, pure)
            k == [n.sock EXCEPT !.ack = First, !.ackProcessed = First]
            m == [n EXCEPT !.sock = k]
<1>5. n \in NowType /\ SameSocket(n.sock, sock) /\ Onwards(Now, n) /\ Kept(n, app.put)
  <2>1. (Isn + 1) % M \in PeerAcks
    <3>1. peer.count \in Nat
      BY <1>1 DEF SocketTypeOK, PeerType
    <3>2. 0 \in 0 .. peer.count /\ Isn + 1 = Isn + 1 + 0
      BY <3>1, SocketFacts
    <3>. QED
      BY <3>2 DEF PeerAcks
  <2>2. LET a == Acknowledge(Now, (Isn + 1) % M, pure)
        IN  a \in NowType /\ SameSocket(a.sock, Now.sock) /\ Onwards(Now, a) /\ Kept(a, app.put)
    BY <1>1, <1>2, <2>1, AcknowledgedKeeps
  <2>. QED
    BY <2>2, NowFields
<1>. HIDE DEF n
<1>6. /\ k \in SockType /\ k.ack = First /\ k.ackProcessed = First
      /\ k.state = n.sock.state /\ k.seq = n.sock.seq /\ k.frameSend = n.sock.frameSend
      /\ k.gaveUp = n.sock.gaveUp /\ k.read = n.sock.read /\ k.readOffset = n.sock.readOffset
      /\ k.fins = n.sock.fins
  <2>1. n.sock \in SockType
    BY <1>5 DEF NowType
  <2>2. First \in Nat
    BY FirstType
  <2>. QED
    BY <2>1, <2>2 DEF SockType
<1>7. m = [n EXCEPT !.sock.ack = First, !.sock.ackProcessed = First]
  BY <1>5 DEF NowType, SockType
<1>8. Becomes(m)
  BY <1>3, <1>7 DEF n
<1>. HIDE DEF k, m
<1>9. m \in NowType /\ m.sock = k /\ m.sending = n.sending /\ m.resend = n.resend
  BY <1>5, <1>6, WithSock DEF m
<1>10. Onwards(n, m)
  BY <1>6, <1>9 DEF Onwards, Alike
<1>11. Outgoing(n, app.put, syn, fins) /\ Outgoing(m, app.put, syn, fins)
       /\ Sent(m, app.put) = Sent(n, app.put)
  BY <1>2, <1>5, <1>10, OnwardsSends
<1>12. Kept(m, app.put)
  <2>. HIDE DEF Sent
  <2>. QED
    BY <1>5, <1>6, <1>9, <1>11 DEF Kept
<1>13. ASSUME Orderly
       PROVE  Incoming(m, app.got)
  <2>1. Incoming(Now, app.got)
    BY <1>1, <1>13
  <2>2. /\ k.read = <<>> /\ k.gaveUp = sock.gaveUp /\ k.readOffset = sock.readOffset
        /\ k.fins = sock.fins
    BY <1>4, <1>5, <1>6, <1>13 DEF SameSocket
  <2>3. CASE sock.gaveUp
    BY <1>9, <2>2, <2>3 DEF Incoming
  <2>4. CASE ~sock.gaveUp
    <3>1. sock.fins = 0 /\ sock.readOffset = 0
      <4>1. sock.fins \in Nat /\ sock.ackProcessed \in Nat
        BY Before DEF SockType
      <4>2. CASE sock.ack = 0
        BY <1>4, <1>13, <2>1, <2>4, <4>2, NowFields DEF Incoming
      <4>3. CASE sock.ack # 0
        <5>1. /\ Place(sock.ackProcessed) >= 0
              /\ Place(sock.ackProcessed) <= Place(sock.ack) - sock.fins
              /\ sock.readOffset = 0
          BY <1>4, <1>13, <2>1, <2>4, <4>3, NowFields DEF Incoming
        <5>2. Place(sock.ack) = 0
          BY <1>4, <1>13, <4>3, SocketFacts, OrderlyFacts DEF Place
        <5>3. Place(sock.ackProcessed) \in Int
          BY <4>1, SocketFacts DEF Place
        <5>. QED
          BY <4>1, <5>1, <5>2, <5>3
      <4>. QED
        BY <4>2, <4>3
    <3>2. Place(First) = 0 /\ First # 0
      BY <1>13, SocketFacts, OrderlyFacts DEF Place
    <3>3. app.got = Stream(0, 0)
      BY <1>4, <1>13 DEF Stream
    <3>4. 0 <= peer.length /\ 0 <= MaxFin
      BY <1>1, SocketFacts DEF SocketTypeOK, PeerType
    <3>. QED
      BY <1>4, <1>6, <1>9, <1>13, <2>2, <2>4, <3>1, <3>2, <3>3, <3>4 DEF Incoming
  <2>. QED
    BY <2>3, <2>4
<1>14. m.sock.state = sock.state /\ m.sock.gaveUp = sock.gaveUp
  BY <1>5, <1>6, <1>9 DEF SameSocket
<1>. QED
  BY <1>1, <1>2, <1>4, <1>8, <1>9, <1>11, <1>12, <1>13, <1>14, HandledAlone DEF AppInv

\* The data of a segment.
LEMMA SegmentData ==
    ASSUME peer.length \in Nat, NEW at \in Nat, NEW len \in Nat, at + len <= peer.length
    PROVE  LET data == SubSeq(PeerData, at + 1, at + len)
           IN  data \in Seq(Nat) /\ Len(data) = len /\ data = Stream(at, len)
<1>. DEFINE l == peer.length
            all == [i \in 1 .. l |-> i]
            data == SubSeq(all, at + 1, at + len)
<1>1. l \in Nat /\ at + len <= l
  OBVIOUS
<1>. HIDE DEF l
<1>2. all \in Seq(Nat) /\ Len(all) = l
  BY <1>1
<1>3. /\ at + 1 \in 1 .. Len(all) + 1 /\ at + len \in 0 .. Len(all)
  BY <1>1, <1>2
<1>4. data \in Seq(Nat) /\ Len(data) = len /\ \A i \in 1 .. len : data[i] = at + i
  <2>1. \A i \in 1 .. len : at + i \in 1 .. l
    BY <1>1
  <2>. QED
    BY <1>1, <1>2, <1>3, <2>1
<1>. HIDE DEF data
<1>5. data = Stream(at, len)
  BY <1>4 DEF Stream
<1>. QED
  BY <1>4, <1>5 DEF PeerData, data, l

\* A segment's data comes next or is not taken.
LEMMA DataIncoming ==
    ASSUME Orderly, SocketTypeOK, NEW n \in NowType, NEW m, NEW got, Incoming(n, got),
           n.sock.gaveUp => peer.length = 0, NEW at \in Nat, NEW len \in Nat,
           at + len <= peer.length,
           TakeDataFields(n, m, PeerIsn + 1 + at, SubSeq(PeerData, at + 1, at + len))
    PROVE  Incoming(m, got)
<1>. DEFINE data == SubSeq(PeerData, at + 1, at + len)
            seq == PeerIsn + 1 + at
            k == n.sock
            j == m.sock
<1>1. peer.length \in 0 .. MaxBytes /\ peer.length \in Nat /\ k \in SockType
  BY SocketFacts DEF SocketTypeOK, PeerType, NowType
<1>2. data \in Seq(Nat) /\ Len(data) = len /\ data = Stream(at, len)
  BY <1>1, SegmentData
<1>. HIDE DEF data
<1>3. CASE data = <<>> \/ k.ack # seq
  <2>1. m.sock = n.sock
    BY <1>3 DEF TakeDataFields, data
  <2>. QED
    BY <2>1, IncomingStays DEF SameReading
<1>4. CASE ~(data = <<>> \/ k.ack # seq)
  <2>. DEFINE read == Append(k.read, data)
              ack == (k.ack + Len(data)) % M
              L == Len(k.read)
              first == Place(k.ackProcessed)
  <2>1. j = [k EXCEPT !.read = read, !.ack = ack]
    BY <1>4 DEF TakeDataFields, data
  <2>2. len > 0 /\ peer.length # 0 /\ ~k.gaveUp /\ k.ack = seq /\ k.ack # 0
    <3>1. k.ack = seq /\ seq # 0
      BY <1>4, SocketFacts
    <3>2. len > 0
      BY <1>2, <1>4
    <3>3. peer.length # 0
      BY <1>1, <3>2
    <3>. QED
      BY <3>1, <3>2, <3>3
  <2>3. /\ first >= 0 /\ first <= Place(k.ack) - k.fins
        /\ k.fins > 0 => Place(k.ack) - k.fins = peer.length
        /\ k.fins <= MaxFin
        /\ got = Stream(0, first + k.readOffset)
        /\ k.read = <<>> => first = Place(k.ack) - k.fins /\ k.readOffset = 0
        /\ k.read # <<>> =>
             /\ k.readOffset < Len(Head(k.read))
             /\ Head(k.read)[1] = first + 1
             /\ Last(k.read)[Len(Last(k.read))] = Place(k.ack) - k.fins
        /\ \A i \in DOMAIN k.read :
             /\ k.read[i] # <<>> /\ Last(k.read[i]) <= Place(k.ack) - k.fins
             /\ k.read[i] = Stream(k.read[i][1] - 1, Len(k.read[i]))
             /\ i > 1 => k.read[i][1] = Last(k.read[i - 1]) + 1
    BY <2>2 DEF Incoming
  <2>4. k.read \in Seq(Seq(Nat)) /\ k.fins \in Nat /\ k.readOffset \in Nat /\ k.ackProcessed \in Nat
    BY <1>1 DEF SockType
  <2>5. Place(k.ack) = at
    BY <2>2, SocketFacts DEF Place
  <2>6. k.fins = 0
    BY <1>1, <2>2, <2>3, <2>4, <2>5
  <2>7. ack = PeerIsn + 1 + at + len /\ Place(ack) = at + len /\ ack # 0
    <3>1. k.ack + Len(data) = PeerIsn + 1 + at + len
      BY <1>2, <2>2
    <3>2. PeerIsn + 1 + at + len \in 0 .. M - 1
      BY <1>1, SocketFacts, OrderlyFacts
    <3>3. \A x \in 0 .. M - 1 : x % M = x
      BY SocketFacts
    <3>4. ack = PeerIsn + 1 + at + len
      BY <3>1, <3>2, <3>3
    <3>. HIDE DEF ack
    <3>. QED
      BY <3>4, SocketFacts DEF Place
  <2>8. /\ j.read = read /\ j.ack = ack /\ j.gaveUp = k.gaveUp /\ j.readOffset = k.readOffset
        /\ j.ackProcessed = k.ackProcessed /\ j.fins = k.fins
    BY <1>1, <2>1 DEF SockType
  <2>9. data[1] = at + 1 /\ data[len] = at + len
    <3>1. 1 \in 1 .. len /\ len \in 1 .. len
      BY <2>2
    <3>. QED
      BY <1>2, <3>1 DEF Stream
  <2>10. /\ L \in Nat /\ Len(read) = L + 1 /\ read[L + 1] = data
         /\ \A i \in 1 .. L : read[i] = k.read[i]
         /\ read # <<>> /\ DOMAIN read = 1 .. L + 1 /\ DOMAIN k.read = 1 .. L
         /\ Last(read) = data /\ Head(read) = (IF L = 0 THEN data ELSE Head(k.read))
    <3>1. read \in Seq(Seq(Nat)) /\ L \in Nat
      BY <1>2, <2>4
    <3>2. Len(read) = L + 1 /\ read[L + 1] = data /\ \A i \in 1 .. L : read[i] = k.read[i]
      BY <1>2, <2>4
    <3>. HIDE DEF read
    <3>3. read # <<>> /\ DOMAIN read = 1 .. L + 1 /\ DOMAIN k.read = 1 .. L
      BY <2>4, <3>1, <3>2
    <3>4. Last(read) = data
      BY <3>2 DEF Last
    <3>5. Head(read) = read[1] /\ (L # 0 => Head(k.read) = k.read[1])
      BY <2>4, <3>1, <3>3
    <3>6. Head(read) = (IF L = 0 THEN data ELSE Head(k.read))
      BY <3>1, <3>2, <3>5, SMTT(60)
    <3>. QED
      BY <3>1, <3>2, <3>3, <3>4, <3>6
  <2>11. k.read = <<>> <=> L = 0
    BY <2>4
  <2>12. Len(data) = len
    BY <1>2
  <2>. HIDE DEF read, ack, L, first
  <2>13. k.readOffset < Len(Head(read)) /\ Head(read)[1] = first + 1
    BY <2>2, <2>3, <2>4, <2>5, <2>6, <2>9, <2>10, <2>11, <2>12, SMTT(60)
  <2>14. ASSUME NEW i \in 1 .. L + 1
         PROVE  /\ read[i] # <<>> /\ Last(read[i]) <= at + len
                /\ read[i] = Stream(read[i][1] - 1, Len(read[i]))
                /\ i > 1 => read[i][1] = Last(read[i - 1]) + 1
    <3>1. CASE i \in 1 .. L
      <4>1. i > 1 => i - 1 \in 1 .. L
        BY <2>10, <3>1
      <4>2. Last(read[i]) <= at + len
        <5>1. k.read[i] \in Seq(Nat) /\ k.read[i] # <<>> /\ read[i] = k.read[i]
          <6>1. k.read[i] \in Seq(Nat)
            BY <2>4, <2>10, <3>1, SMTT(60)
          <6>2. k.read[i] # <<>>
            BY <2>3, <2>10, <3>1, Zenon
          <6>3. read[i] = k.read[i]
            BY <2>10, <3>1, Zenon
          <6>. QED
            BY <6>1, <6>2, <6>3, Zenon
        <5>2. Last(k.read[i]) \in Nat
          BY <5>1, SMTT(60) DEF Last
        <5>3. Last(k.read[i]) <= at - 0
          BY <2>3, <2>5, <2>6, <2>10, <3>1
        <5>. QED
          BY <5>1, <5>2, <5>3
      <4>. QED
        BY <2>3, <2>10, <3>1, <4>1, <4>2
    <3>2. CASE i = L + 1
      <4>1. read[i] = data /\ data # <<>> /\ data = Stream(data[1] - 1, Len(data))
        <5>1. at + 1 - 1 = at
          OBVIOUS
        <5>. QED
          BY <1>2, <1>4, <2>9, <2>10, <3>2, <5>1
      <4>2. ASSUME i > 1
            PROVE  data[1] = Last(read[i - 1]) + 1
        <5>1. i - 1 = L /\ L \in 1 .. L /\ L # 0
          BY <2>10, <3>2, <4>2
        <5>2. read[i - 1] = k.read[L] /\ Last(k.read) = k.read[L]
          BY <2>10, <5>1 DEF Last, L
        <5>3. Last(k.read[L]) = at - 0
          <6>1. Last(k.read)[Len(Last(k.read))] = Place(k.ack) - k.fins
            BY <2>3, <2>11, <5>1
          <6>. QED
            BY <2>5, <2>6, <5>2, <6>1 DEF Last
        <5>. QED
          BY <2>9, <5>2, <5>3
      <4>3. Last(data) <= at + len
        BY <2>9, <2>12 DEF Last
      <4>. QED
        BY <4>1, <4>2, <4>3
    <3>. QED
      BY <2>10, <3>1, <3>2
  <2>15. Place(ack) - k.fins = at + len /\ first <= at + len
    <3>1. first \in Int
      <4>1. \A x \in Int : Place(x) \in Int
        BY SocketFacts DEF Place
      <4>2. k.ackProcessed \in Int
        BY <2>4
      <4>. QED
        BY <4>1, <4>2 DEF first
    <3>2. Place(k.ack) - k.fins = at /\ Place(ack) - k.fins = at + len
      BY <2>5, <2>6, <2>7
    <3>3. first <= at
      BY <2>3, <3>2
    <3>. QED
      BY <3>1, <3>2, <3>3
  <2>16. /\ first >= 0 /\ k.fins <= MaxFin /\ ~(k.fins > 0)
         /\ got = Stream(0, first + k.readOffset)
    BY <2>3, <2>6
  <2>17. /\ peer.length = 0 => read = <<>>
         /\ ack # 0 /\ first >= 0 /\ first <= Place(ack) - k.fins
         /\ Place(ack) - k.fins <= peer.length
    BY <2>2, <2>7, <2>15, <2>16
  <2>18. Last(read)[Len(Last(read))] = Place(ack) - k.fins
    BY <2>9, <2>10, <2>12, <2>15
  <2>19. \A i \in DOMAIN read :
            /\ read[i] # <<>> /\ Last(read[i]) <= Place(ack) - k.fins
            /\ read[i] = Stream(read[i][1] - 1, Len(read[i]))
            /\ i > 1 => read[i][1] = Last(read[i - 1]) + 1
    BY <2>10, <2>14, <2>15
  <2>. QED
    BY <2>8, <2>10, <2>13, <2>16, <2>17, <2>18, <2>19 DEF Incoming, first
<1>. QED
  BY <1>3, <1>4

\* A FIN is counted when all data has come.
LEMMA FinIncoming ==
    ASSUME Orderly, SocketTypeOK, NEW n \in NowType, NEW m, NEW got, Incoming(n, got), NEW seq \in Nat \ {0},
           NEW fin \in BOOLEAN, TakeFinFields(n, m, seq, fin),
           fin => n.sock.fins < MaxFin,
           fin /\ n.sock.ack >= seq => Place(n.sock.ack) >= peer.length
    PROVE  Incoming(m, got)
<1>. DEFINE k == n.sock
            j == m.sock
<1>1. /\ peer.length \in 0 .. MaxBytes /\ k.ack \in Nat /\ k.fins \in Nat /\ k.ackProcessed \in Nat
  BY DEF SocketTypeOK, PeerType, NowType, SockType
<1>2. /\ j.gaveUp = k.gaveUp /\ j.read = k.read /\ j.readOffset = k.readOffset
      /\ j.ackProcessed = k.ackProcessed
  BY DEF TakeFinFields
<1>3. CASE j.ack = k.ack /\ j.fins = k.fins
  BY <1>2, <1>3, IncomingStays DEF SameReading
<1>4. CASE fin /\ k.ack >= seq /\ j.ack = (k.ack + 1) % M /\ j.fins = k.fins + 1
  <2>1. CASE k.gaveUp
    BY <1>2, <2>1 DEF Incoming
  <2>2. CASE ~k.gaveUp
    <3>1. k.ack # 0 /\ Place(k.ack) >= peer.length /\ k.fins < MaxFin
      BY <1>1, <1>4
    <3>2. /\ Place(k.ack) - k.fins <= peer.length
          /\ k.fins > 0 => Place(k.ack) - k.fins = peer.length
      BY <2>2, <3>1 DEF Incoming
    <3>3. Place(k.ack) - k.fins = peer.length /\ Place(k.ack) = k.ack - PeerIsn - 1
      <4>1. Place(k.ack) = k.ack - PeerIsn - 1 /\ Place(k.ack) \in Int
        BY <1>1, SocketFacts DEF Place
      <4>. QED
        BY <1>1, <3>1, <3>2, <4>1
    <3>4. j.ack = k.ack + 1
      <4>1. k.ack + 1 \in 0 .. M - 1
        BY <1>1, <3>1, <3>3, SocketFacts, OrderlyFacts
      <4>2. \A x \in 0 .. M - 1 : x % M = x
        BY SocketFacts
      <4>. QED
        BY <1>4, <4>1, <4>2
    <3>5. Place(j.ack) - j.fins = Place(k.ack) - k.fins /\ j.ack # 0 /\ j.fins <= MaxFin
      <4>1. Place(j.ack) = k.ack + 1 - PeerIsn - 1
        <5>1. \A x \in Int : Place(x + 1) = x + 1 - PeerIsn - 1
          BY SocketFacts DEF Place
        <5>2. k.ack \in Int
          BY <1>1
        <5>. HIDE DEF k, j
        <5>. QED
          BY <3>4, <5>1, <5>2
      <4>2. Place(j.ack) - j.fins = Place(k.ack) - k.fins
        <5>1. /\ Place(j.ack) = k.ack + 1 - PeerIsn - 1 /\ j.fins = k.fins + 1
              /\ Place(k.ack) = k.ack - PeerIsn - 1 /\ k.ack \in Nat /\ PeerIsn \in Nat /\ k.fins \in Nat
          BY <1>1, <1>4, <3>3, <4>1, SocketFacts
        <5>. HIDE DEF k, j
        <5>. QED
          BY <5>1
      <4>3. j.ack # 0
        BY <1>1, <3>4
      <4>4. j.fins <= MaxFin
        BY <1>1, <1>4, <3>1, SocketFacts
      <4>. QED
        BY <4>2, <4>3, <4>4
    <3>. QED
      BY <1>2, <2>2, <3>1, <3>3, <3>5 DEF Incoming
  <2>. QED
    BY <2>1, <2>2
<1>. QED
  BY <1>3, <1>4 DEF TakeFinFields

LEMMA DataStep ==
    ASSUME SocketInv, sock.gaveUp => app.length + peer.length = 0, ReceiveData
    PROVE  SocketInv'
<1>1. /\ SocketTypeOK /\ AppInv /\ Kept(Now, app.put) /\ Now \in NowType
      /\ app.put \in Seq(Nat) /\ Len(app.put) <= MaxBytes
      /\ Orderly => Incoming(Now, app.got)
  BY Before DEF SocketInv
<1>2. PICK syn \in 0 .. 1, fins \in 0 .. 2 :
        Outgoing(Now, app.put, syn, fins) /\ (fins > 1 => app.closed)
  BY Before
<1>3. PICK at \in 0 .. peer.length, len \in 0 .. Mss, fin \in BOOLEAN, frame \in BOOLEAN :
        /\ at + len <= peer.length
        /\ ReceiveSegment(at, SubSeq(PeerData, at + 1, at + len), fin, frame)
  BY DEF ReceiveData
<1>. DEFINE data == SubSeq(PeerData, at + 1, at + len)
            seq  == (First + at) % M
<1>4. PICK ack \in PeerAcks :
        Becomes(TakeFin(TakeData(Acknowledge(Now, ack, data = <<>> /\ ~fin), seq, data),
                        seq, fin, frame))
  BY <1>3 DEF ReceiveSegment
<1>5. /\ UNCHANGED <<wire, app, peer>> /\ sock.state # "none" /\ peer.connected /\ app.opened
      /\ fin => at + Len(data) = peer.length /\ sock.fins < MaxFin
      /\ fin /\ Orderly => PeerAt(sock.ack) \notin at + 1 .. peer.length - 1
  BY <1>1, <1>3, OrderlyFacts DEF ReceiveSegment, AppInv
<1>6. peer.length \in Nat /\ at \in Nat /\ len \in Nat /\ at <= peer.length /\ seq \in Nat
  <2>1. peer.length \in Nat
    BY <1>1, SocketFacts DEF SocketTypeOK, PeerType
  <2>. QED
    BY <2>1, SocketFacts, FirstType
<1>7. data \in Seq(Nat) /\ Len(data) = len
  BY <1>3, <1>6, SegmentData
<1>. DEFINE a == Acknowledge(Now, ack, data = <<>> /\ ~fin)
            b == TakeData(a, seq, data)
            c == TakeFin(b, seq, fin, frame)
<1>8. a \in NowType /\ SameSocket(a.sock, sock) /\ Onwards(Now, a) /\ Kept(a, app.put)
  <2>1. \A pure \in BOOLEAN :
          LET k == Acknowledge(Now, ack, pure)
          IN  /\ k \in NowType /\ SameSocket(k.sock, Now.sock) /\ Onwards(Now, k)
              /\ Kept(k, app.put)
    BY <1>1, <1>2, AcknowledgedKeeps
  <2>2. (data = <<>> /\ ~fin) \in BOOLEAN
    OBVIOUS
  <2>. QED
    BY <2>1, <2>2, NowFields
<1>. HIDE DEF a
<1>9. TakeDataFields(a, b, seq, data)
  BY <1>6, <1>7, <1>8, DataTaken
<1>. HIDE DEF b
<1>10. TakeFinFields(b, c, seq, fin) /\ b \in NowType
  <2>1. b \in NowType
    BY <1>9 DEF TakeDataFields
  <2>. QED
    BY <1>6, <2>1, FinTaken
<1>11. Becomes(c) /\ c \in NowType
  BY <1>4, <1>10 DEF a, b, TakeFinFields
<1>. HIDE DEF c, data, seq
<1>12. /\ b.sock.seq = a.sock.seq /\ b.sock.frameSend = a.sock.frameSend
       /\ b.sock.state = a.sock.state /\ b.sock.gaveUp = a.sock.gaveUp
       /\ b.sock.fins = a.sock.fins
       /\ b.sending = a.sending /\ b.resend = a.resend
       /\ b.sock.ack = IF data = <<>> \/ a.sock.ack # seq THEN a.sock.ack
                       ELSE (a.sock.ack + Len(data)) % M
  <2>1. a.sock \in SockType
    BY <1>8 DEF NowType
  <2>. QED
    BY <1>9, <2>1 DEF TakeDataFields, SockType
<1>13. Onwards(a, b) /\ Onwards(b, c)
  BY <1>10, <1>12 DEF Onwards, Alike, TakeFinFields
<1>14. /\ Outgoing(a, app.put, syn, fins) /\ Outgoing(b, app.put, syn, fins)
       /\ Outgoing(c, app.put, syn, fins)
       /\ Sent(c, app.put) = Sent(a, app.put)
  <2>1. Outgoing(a, app.put, syn, fins)
    BY <1>2, <1>8, OnwardsSends
  <2>2. Outgoing(b, app.put, syn, fins) /\ Sent(b, app.put) = Sent(a, app.put)
    BY <1>13, <2>1, OnwardsSends
  <2>3. Outgoing(c, app.put, syn, fins) /\ Sent(c, app.put) = Sent(b, app.put)
    BY <1>13, <2>2, OnwardsSends
  <2>. HIDE DEF Sent
  <2>. QED
    BY <2>1, <2>2, <2>3
<1>15. Kept(c, app.put)
  <2>. HIDE DEF Sent
  <2>. QED
    BY <1>8, <1>10, <1>12, <1>14 DEF Kept, TakeFinFields
<1>16. /\ c.sock.state # "none" /\ c.sock.gaveUp = sock.gaveUp
       /\ c.sock.state = "closed" => sock.state = "closed"
  BY <1>5, <1>8, <1>10, <1>12 DEF SameSocket, TakeFinFields
<1>17. ASSUME Orderly
       PROVE  Incoming(c, app.got)
  <2>7. seq = PeerIsn + 1 + at /\ seq \in Nat \ {0}
    <3>1. at \in 0 .. MaxBytes + MaxFin
      <4>1. peer.length <= MaxBytes
        BY <1>1 DEF SocketTypeOK, PeerType
      <4>. QED
        BY <1>6, <4>1, SocketFacts
    <3>2. seq = PeerIsn + 1 + at
      BY <1>17, <3>1, NumberOfPlace DEF seq
    <3>. QED
      BY <1>6, <3>2, SocketFacts
  <2>1. Incoming(a, app.got)
    BY <1>1, <1>8, <1>17, NowFields, IncomingStays DEF SameSocket, SameReading
  <2>2. a.sock.gaveUp => peer.length = 0
    BY <1>8, NothingToCarry DEF SameSocket
  <2>3. Incoming(b, app.got)
    <3>1. TakeDataFields(a, b, PeerIsn + 1 + at, SubSeq(PeerData, at + 1, at + len))
      BY <1>9, <2>7 DEF data
    <3>. QED
      BY <1>1, <1>3, <1>6, <1>8, <1>17, <2>1, <2>2, <3>1, DataIncoming
  <2>4. b.sock.fins = sock.fins /\ a.sock.ack = sock.ack /\ sock.ack \in Nat
    BY <1>8, <1>12, Before DEF SameSocket, SockType
  <2>5. ASSUME fin, b.sock.ack >= seq
        PROVE  Place(b.sock.ack) >= peer.length
    <3>2. Place(sock.ack) = sock.ack - PeerIsn - 1 /\ Place(sock.ack) \in Int
      BY <2>4, SocketFacts DEF Place
    <3>1. at + len = peer.length /\ Place(sock.ack) \notin at + 1 .. peer.length - 1
      <4>1. at + len = peer.length /\ PeerAt(sock.ack) \notin at + 1 .. peer.length - 1
        BY <1>5, <1>7, <1>17, <2>5
      <4>2. ASSUME Place(sock.ack) \in at + 1 .. peer.length - 1
            PROVE  FALSE
        <5>1. peer.length <= MaxBytes
          BY <1>1 DEF SocketTypeOK, PeerType
        <5>2. Place(sock.ack) \in 0 .. MaxBytes + MaxFin
          BY <1>6, <4>2, <5>1, SocketFacts
        <5>3. PeerAt(sock.ack) = Place(sock.ack)
          BY <1>17, <2>4, <5>2, PlaceOfNumber
        <5>. QED
          BY <4>1, <4>2, <5>3
      <4>. QED
        BY <4>1, <4>2
    <3>3. CASE data = <<>>
      <4>1. len = 0 /\ b.sock.ack = sock.ack
        BY <1>7, <1>12, <2>4, <3>3
      <4>2. Place(sock.ack) >= at
        BY <1>6, <2>4, <2>5, <2>7, <3>2, <4>1, SocketFacts
      <4>. QED
        BY <1>6, <3>1, <4>1, <4>2
    <3>4. CASE data # <<>> /\ sock.ack # seq
      <4>1. b.sock.ack = sock.ack
        BY <1>12, <2>4, <3>4
      <4>2. Place(sock.ack) >= at + 1
        BY <1>6, <2>4, <2>5, <2>7, <3>2, <3>4, <4>1, SocketFacts
      <4>. QED
        BY <1>6, <3>1, <3>2, <4>1, <4>2
    <3>5. CASE data # <<>> /\ sock.ack = seq
      <4>1. b.sock.ack = (seq + len) % M
        BY <1>7, <1>12, <2>4, <3>5
      <4>2. seq + len = PeerIsn + 1 + peer.length /\ seq + len \in 0 .. M - 1
        <5>1. peer.length <= MaxBytes
          BY <1>1 DEF SocketTypeOK, PeerType
        <5>. QED
          BY <1>6, <1>17, <2>7, <3>1, <5>1, SocketFacts, OrderlyFacts
      <4>3. \A x \in 0 .. M - 1 : x % M = x
        BY SocketFacts
      <4>4. b.sock.ack = PeerIsn + 1 + peer.length
        BY <4>1, <4>2, <4>3
      <4>. QED
        BY <1>6, <4>4, SocketFacts DEF Place
    <3>. QED
      BY <3>3, <3>4, <3>5
  <2>6. fin => b.sock.fins < MaxFin
    BY <1>5, <2>4
  <2>. QED
    BY <1>1, <1>10, <1>17, <2>3, <2>5, <2>6, <2>7, FinIncoming
<1>. QED
  BY <1>1, <1>2, <1>5, <1>11, <1>14, <1>15, <1>16, <1>17, HandledAlone DEF AppInv

LEMMA TransmitStep ==
    ASSUME SocketInv, sock.gaveUp => app.length + peer.length = 0, Transmit
    PROVE  SocketInv'
<1>1. /\ SocketTypeOK /\ AppInv /\ Kept(Now, app.put) /\ Now \in NowType
      /\ app.put \in Seq(Nat) /\ Len(app.put) <= MaxBytes
      /\ sock \in SockType /\ sending \in SUBSET FrameType /\ resend \in SUBSET FrameType
      /\ Orderly => Incoming(Now, app.got)
  BY Before DEF SocketInv
<1>2. PICK syn \in 0 .. 1, fins \in 0 .. 2 :
        Outgoing(Now, app.put, syn, fins) /\ (fins > 1 => app.closed)
  BY Before
<1>3. PICK f \in sending :
        /\ LET n == [Now EXCEPT !.sending = @ \ {f}] IN
           Becomes(IF LastTime(f) THEN n
                   ELSE [n EXCEPT !.resend = @ \cup {[f EXCEPT !.retry = @ + 1]}])
        /\ wire' = wire \cup {[seq |-> f.seq, flag |-> f.flag, data |-> f.data,
                               last |-> f.flag = "data" /\ LastTime(f)]}
        /\ UNCHANGED <<app, peer>>
  BY DEF Transmit
<1>. DEFINE again  == [f EXCEPT !.retry = @ + 1]
            n      == [sock |-> sock, sending |-> sending \ {f}, resend |-> resend]
            m      == [sock |-> sock, sending |-> sending \ {f}, resend |-> resend \cup {again}]
            packet == [seq |-> f.seq, flag |-> f.flag, data |-> f.data,
                       last |-> f.flag = "data" /\ LastTime(f)]
<1>4. f \in FrameType /\ again \in FrameType /\ Alike(again, f)
  BY <1>1 DEF FrameType, Alike
<1>5. n = [Now EXCEPT !.sending = @ \ {f}] /\ m = [n EXCEPT !.resend = @ \cup {again}]
  BY DEF Now
<1>6. n \in NowType /\ n.sock = sock /\ n.sending = sending \ {f} /\ n.resend = resend
  BY <1>1 DEF NowType
<1>7. m \in NowType /\ m.sock = sock /\ m.sending = sending \ {f} /\ m.resend = resend \cup {again}
  <2>1. resend \cup {again} \in SUBSET FrameType
    BY <1>1, <1>4
  <2>. QED
    BY <1>1, <2>1 DEF NowType
<1>8. IF LastTime(f) THEN Becomes(n) ELSE Becomes(m)
  BY <1>3, <1>5
<1>9. sock.state # "none" /\ app.opened
  BY <1>1, <1>3 DEF AppInv
<1>10. /\ packet.seq = f.seq /\ packet.flag = f.flag /\ packet.data = f.data
       /\ packet.last <=> f.flag = "data" /\ LastTime(f)
  OBVIOUS
<1>11. packet \in PacketType
  <2>1. /\ f.seq \in Nat /\ f.flag \in {"syn", "data", "fin"} /\ f.data \in Seq(Nat)
        /\ (f.flag = "data" /\ LastTime(f)) \in BOOLEAN
    BY <1>4 DEF FrameType
  <2>. QED
    BY <2>1 DEF PacketType
<1>. HIDE DEF again, n, m, packet
<1>12. Onwards(Now, n) /\ Onwards(Now, m)
  BY <1>4, <1>6, <1>7, NowFields DEF Onwards, Alike
<1>13. PICK now : Becomes(now) /\ (now = m \/ (LastTime(f) /\ now = n))
  <2>1. CASE LastTime(f)
    BY <1>8, <2>1
  <2>2. CASE ~LastTime(f)
    BY <1>8, <2>2
  <2>. QED
    BY <2>1, <2>2
<1>14. now \in NowType /\ now.sock = sock /\ Onwards(Now, now)
  BY <1>6, <1>7, <1>12, <1>13
<1>15. Outgoing(now, app.put, syn, fins) /\ Sent(now, app.put) = Sent(Now, app.put)
  BY <1>2, <1>14, OnwardsSends
<1>16. /\ Now' = now /\ sock' = now.sock /\ sending' = now.sending /\ resend' = now.resend
       /\ app' = app /\ peer' = peer /\ wire' = wire \cup {packet}
  BY <1>3, <1>13, <1>14, BecomesNow DEF Becomes, packet
<1>17. Numbered(packet, syn, Sent(Now, app.put), fins)
  <2>1. Numbered(f, syn, Sent(Now, app.put), fins)
    BY <1>2, NowFields DEF Outgoing
  <2>. QED
    BY <1>10, <2>1 DEF Numbered
<1>18. SocketTypeOK'
  <2>1. wire' \in SUBSET PacketType
    BY <1>1, <1>11, <1>16 DEF SocketTypeOK
  <2>. QED
    BY <1>1, <1>14, <1>16, <2>1 DEF SocketTypeOK
<1>19. AppInv'
  BY <1>1, <1>9, <1>14, <1>16 DEF AppInv
<1>20. SendInv'
  <2>1. \A g \in wire' : Numbered(g, syn, Sent(now, app.put), fins)
    <3>. HIDE DEF Sent
    <3>. QED
      BY <1>2, <1>15, <1>16, <1>17 DEF Outgoing
  <2>2. (Outgoing(Now, app.put, syn, fins))'
    BY <1>15, <1>16, <2>1 DEF Outgoing, Sent
  <2>. QED
    BY <1>2, <1>16, <2>2 DEF SendInv
<1>21. ASSUME ~sock.gaveUp, NEW i \in Len(peer.got) + 1 .. Sent(Now, app.put)
       PROVE  Dropped(i)' \/ \E g \in now.sending \cup now.resend :
                                g.flag = "data" /\ i \in ToSet(g.data)
  <2>1. CASE Dropped(i)
    BY <1>16, <2>1 DEF Dropped
  <2>2. CASE ~Dropped(i)
    <3>1. PICK g \in sending \cup resend : g.flag = "data" /\ i \in ToSet(g.data)
      BY <1>1, <1>21, <2>2, NowFields DEF Kept
    <3>2. CASE g # f
      BY <1>6, <1>7, <1>13, <3>1, <3>2
    <3>3. CASE g = f /\ now = m
      BY <1>4, <1>7, <3>1, <3>3 DEF Alike
    <3>4. CASE g = f /\ LastTime(f)
      <4>1. packet \in wire' /\ packet.last /\ i \in ToSet(packet.data)
        BY <1>10, <1>16, <3>1, <3>4
      <4>. QED
        BY <4>1 DEF Dropped
    <3>. QED
      BY <1>13, <3>2, <3>3, <3>4
  <2>. QED
    BY <2>1, <2>2
<1>22. (Kept(Now, app.put))'
  <2>1. Sent(Now', app.put) = Sent(Now, app.put)
    BY <1>15, <1>16
  <2>. HIDE DEF Sent
  <2>. QED
    BY <1>14, <1>16, <1>21, <2>1 DEF Kept
<1>23. (Orderly => Incoming(Now, app.got))'
  <2>1. Orderly => Incoming(now, app.got)
    BY <1>1, <1>14, NowFields, IncomingStays DEF SameReading
  <2>. QED
    BY <1>16, <2>1 DEF Incoming, Place
<1>. QED
  BY <1>18, <1>19, <1>20, <1>22, <1>23 DEF SocketInv

\* A connection begins with a SYN.
LEMMA OpenSends ==
    ASSUME SocketInv, ~app.opened, NEW k \in SockType, k.frameSend = <<>>, k.seq = Isn,
           k.state = "tcp"
    PROVE  LET n == [Now EXCEPT !.sock = k]
               m == [TCPSendPacket(n, "syn", <<>>) EXCEPT !.sock.seq = (Isn + 1) % M]
           IN  /\ n \in NowType /\ n.sock = k
               /\ peer.role = "server" => Outgoing(n, app.put, 0, 0)
               /\ m \in NowType /\ Outgoing(m, app.put, 1, 0)
               /\ SameReading(m.sock, k) /\ m.sock.state = "tcp"
               /\ m.sock.seqReceived = k.seqReceived
<1>. DEFINE n == [Now EXCEPT !.sock = k]
            p == TCPSendPacket(n, "syn", <<>>)
            j == [k EXCEPT !.seq = (Isn + 1) % M]
            m == [p EXCEPT !.sock.seq = (Isn + 1) % M]
            f == FrameOf(k, "syn", <<>>)
<1>1. /\ SocketTypeOK /\ AppInv /\ Now \in NowType /\ app.put = <<>> /\ ~peer.connected /\ ~peer.fin
      /\ sending = {} /\ resend = {} /\ wire = {}
  BY Before DEF AppInv
<1>2. n \in NowType /\ n.sock = k /\ n.sending = {} /\ n.resend = {}
  BY <1>1, WithSock, NowFields
<1>3. peer.got \in Seq(Nat) /\ Len(peer.got) = 0 /\ Len(<<>>) = 0
  <2>1. PICK syn \in 0 .. 1, fins \in 0 .. 2 : Outgoing(Now, app.put, syn, fins)
    BY Before
  <2>2. Len(peer.got) \in 0 .. Sent(Now, app.put) /\ Sent(Now, app.put) + Len(sock.frameSend) = 0
        /\ Len(sock.frameSend) \in Nat /\ Sent(Now, app.put) \in Nat
    <3>1. /\ Sent(Now, app.put) \in 0 .. MaxBytes /\ Len(Now.sock.frameSend) \in Nat
          /\ Sent(Now, app.put) + Len(Now.sock.frameSend) = Len(app.put)
          /\ Len(peer.got) \in 0 .. Sent(Now, app.put)
      BY <1>1, <2>1, Lengths, Before
    <3>2. Len(app.put) = 0 /\ Now.sock.frameSend = sock.frameSend
      BY <1>1, NowFields
    <3>. HIDE DEF Sent
    <3>. QED
      BY <3>1, <3>2, SocketFacts
  <2>3. peer.got \in Seq(Nat)
    BY <1>1 DEF SocketTypeOK, PeerType
  <2>. HIDE DEF Sent
  <2>. QED
    BY <2>2, <2>3
<1>4. p \in NowType /\ p.sock = k /\ p.sending = {f} /\ p.resend = {}
  <2>1. \A d \in Seq(Nat) :
          /\ TCPSendPacket(n, "syn", d) \in NowType
          /\ TCPSendPacket(n, "syn", d).sock = n.sock
          /\ TCPSendPacket(n, "syn", d).sending = n.sending \cup {FrameOf(n.sock, "syn", d)}
          /\ TCPSendPacket(n, "syn", d).resend = n.resend
    BY <1>2, SendPacket
  <2>2. <<>> \in Seq(Nat)
    OBVIOUS
  <2>. HIDE DEF n
  <2>. QED
    BY <1>2, <2>1, <2>2
<1>5. /\ f.seq = Isn /\ f.flag = "syn" /\ f.data = <<>> /\ f.seqEnd = (Isn + 1) % M
  <2>1. \A d \in Seq(Nat) :
          /\ FrameOf(k, "syn", d).seq = k.seq /\ FrameOf(k, "syn", d).flag = "syn"
          /\ FrameOf(k, "syn", d).data = d
          /\ FrameOf(k, "syn", d).seqEnd = (k.seq + IF "syn" = "data" THEN Len(d) ELSE 1) % M
    BY FrameOfFields
  <2>2. <<>> \in Seq(Nat)
    OBVIOUS
  <2>. QED
    BY <2>1, <2>2
<1>6. /\ j \in SockType /\ j.seq = (Isn + 1) % M /\ j.frameSend = <<>> /\ j.state = "tcp"
      /\ SameReading(j, k) /\ j.seqReceived = k.seqReceived
  <2>1. (Isn + 1) % M \in Nat
    BY SocketFacts
  <2>. QED
    BY <2>1 DEF SockType, SameReading
<1>7. m = [p EXCEPT !.sock = j]
  BY <1>4 DEF NowType, SockType
<1>. HIDE DEF f, j, m, n, p
<1>8. m \in NowType /\ m.sock = j /\ m.sending = {f} /\ m.resend = {}
  BY <1>4, <1>6, <1>7, WithSock
<1>9. Sent(n, <<>>) = 0 /\ Sent(m, <<>>) = 0
  BY <1>2, <1>3, <1>6, <1>8 DEF Sent
<1>10. Stream(0, 0) = <<>>
  BY DEF Stream
<1>11. Isn % M = Isn /\ Isn + 0 + 0 + 0 = Isn /\ Isn + 1 + 0 + 0 = Isn + 1
  BY SocketFacts
<1>12. ASSUME peer.role = "server" PROVE Outgoing(n, <<>>, 0, 0)
  <2>. HIDE DEF Sent
  <2>1. n.sock.seq = (Isn + 0 + Sent(n, <<>>) + 0) % M
    BY <1>2, <1>9, <1>11
  <2>. QED
    BY <1>1, <1>2, <1>3, <1>9, <1>10, <1>12, <2>1 DEF Outgoing
<1>13. Outgoing(m, <<>>, 1, 0)
  <2>. HIDE DEF Sent
  <2>1. m.sock.seq = (Isn + 1 + Sent(m, <<>>) + 0) % M
    BY <1>6, <1>8, <1>9, <1>11
  <2>2. Numbered(f, 1, 0, 0)
    BY <1>5 DEF Numbered
  <2>3. f.seqEnd = (f.seq + IF f.flag = "data" THEN Len(f.data) ELSE 1) % M
    BY <1>5
  <2>. QED
    BY <1>1, <1>3, <1>6, <1>8, <1>9, <1>10, <2>1, <2>2, <2>3 DEF Outgoing
<1>. QED
  BY <1>1, <1>2, <1>6, <1>8, <1>12, <1>13 DEF m, n, p

\* Nothing has come when a connection begins.
LEMMA NothingYet ==
    ASSUME SocketInv, ~app.opened
    PROVE  /\ sock.frameSend = <<>> /\ app.put = <<>> /\ Len(app.put) = 0 /\ app \in AppType
           /\ app.length \in Nat
           /\ \A n, put : put = <<>> /\ n.sock.frameSend = <<>> => Kept(n, put)
<1>1. SocketTypeOK /\ AppInv /\ app.put = <<>> /\ sock.state = "none"
  BY Before DEF AppInv
<1>2. sock.frameSend = <<>>
  BY <1>1, Before, NowFields DEF Outgoing
<1>3. Len(peer.got) \in Nat
  <2>1. peer.got \in Seq(Nat)
    BY <1>1 DEF SocketTypeOK, PeerType
  <2>. QED
    BY <2>1
<1>4. ASSUME NEW n, NEW put, put = <<>>, n.sock.frameSend = <<>>
      PROVE  Kept(n, put)
  <2>1. Sent(n, put) = 0
    BY <1>4 DEF Sent
  <2>2. Len(peer.got) + 1 .. 0 = {}
    BY <1>3
  <2>. HIDE DEF Sent
  <2>. QED
    BY <2>1, <2>2 DEF Kept
<1>. QED
  BY <1>1, <1>2, <1>4, SocketFacts DEF SocketTypeOK, AppType

LEMMA OpenStep ==
    ASSUME SocketInv, IPOpen
    PROVE  SocketInv'
<1>. DEFINE k == [sock EXCEPT !.state = "tcp", !.seq = Isn, !.seqReceived = 0]
            n == [Now EXCEPT !.sock = k]
            m == [TCPSendPacket(n, "syn", <<>>) EXCEPT !.sock.seq = (Isn + 1) % M]
<1>1. /\ ~app.opened /\ app' = [app EXCEPT !.opened = TRUE] /\ UNCHANGED <<wire, peer>>
      /\ peer.role = "server"
  BY DEF IPOpen
<1>2. /\ sock \in SockType /\ sock.frameSend = <<>> /\ app.put = <<>> /\ Len(app.put) = 0
      /\ app \in AppType /\ app.length \in Nat
      /\ \A j, put : put = <<>> /\ j.sock.frameSend = <<>> => Kept(j, put)
  BY <1>1, Before, NothingYet
<1>3. /\ k \in SockType /\ k.frameSend = <<>> /\ k.seq = Isn /\ k.state = "tcp"
      /\ SameReading(k, sock) /\ k.seqReceived = 0
  <2>1. Isn \in Nat /\ 0 \in Nat
    BY SocketFacts
  <2>. QED
    BY <1>2, <2>1 DEF SockType, SameReading
<1>4. \/ Becomes(n)
      \/ Becomes([TCPSendPacket(n, "syn", <<>>) EXCEPT !.sock.seq = (@ + 1) % M])
  BY DEF IPOpen
<1>. HIDE DEF k
<1>5. /\ n \in NowType /\ Outgoing(n, app.put, 0, 0) /\ n.sock = k
      /\ m \in NowType /\ Outgoing(m, app.put, 1, 0)
      /\ SameReading(m.sock, k) /\ m.sock.state = "tcp" /\ m.sock.seqReceived = k.seqReceived
  BY <1>1, <1>3, OpenSends
<1>6. [TCPSendPacket(n, "syn", <<>>) EXCEPT !.sock.seq = (@ + 1) % M] = m
  <2>1. TCPSendPacket(n, "syn", <<>>) \in NowType /\ TCPSendPacket(n, "syn", <<>>).sock = n.sock
    <3>1. \A d \in Seq(Nat) : /\ TCPSendPacket(n, "syn", d) \in NowType
                              /\ TCPSendPacket(n, "syn", d).sock = n.sock
      <4>. HIDE DEF n
      <4>. QED
        BY <1>5, SendPacket
    <3>2. <<>> \in Seq(Nat)
      OBVIOUS
    <3>. QED
      BY <3>1, <3>2
  <2>2. TCPSendPacket(n, "syn", <<>>).sock.seq = Isn
    BY <1>3, <1>5, <2>1
  <2>. DEFINE p == TCPSendPacket(n, "syn", <<>>)
  <2>3. p \in NowType /\ p.sock.seq = Isn
    BY <2>1, <2>2
  <2>. HIDE DEF p
  <2>4. [p EXCEPT !.sock.seq = (@ + 1) % M] = [p EXCEPT !.sock.seq = (p.sock.seq + 1) % M]
    BY <2>3 DEF NowType, SockType
  <2>5. [p EXCEPT !.sock.seq = (@ + 1) % M] = [p EXCEPT !.sock.seq = (Isn + 1) % M]
    BY <2>3, <2>4
  <2>. QED
    BY <2>5 DEF p
<1>. HIDE DEF m, n
<1>7. Becomes(n) \/ Becomes(m)
  BY <1>4, <1>6
<1>8. /\ app' \in AppType /\ app'.opened /\ app'.put = <<>> /\ app'.got = app.got
      /\ app'.length = app.length
  BY <1>1, <1>2 DEF AppType
<1>9. app'.put = Stream(0, Len(app'.put)) /\ Len(app'.put) <= app'.length /\ app'.put = app.put
  BY <1>2, <1>8 DEF Stream
<1>10. Orderly => Incoming(n, app'.got) /\ Incoming(m, app'.got)
  <2>1. Orderly => Incoming(Now, app.got)
    BY DEF SocketInv
  <2>2. SameReading(n.sock, Now.sock) /\ SameReading(m.sock, Now.sock)
    BY <1>3, <1>5, NowFields DEF SameReading
  <2>. QED
    BY <1>8, <2>1, <2>2, IncomingStays
<1>11. Kept(n, app.put) /\ Kept(m, app.put)
  <2>1. n.sock.frameSend = <<>> /\ m.sock.frameSend = <<>>
    <3>1. Len(m.sock.frameSend) <= 0 /\ m.sock.frameSend \in Seq(Nat)
      BY <1>2, <1>5 DEF Outgoing, NowType, SockType
    <3>2. Len(m.sock.frameSend) \in Nat
      BY <3>1
    <3>. QED
      BY <1>3, <1>5, <3>1, <3>2
  <2>. QED
    BY <1>2, <2>1
<1>12. PICK now \in NowType, syn \in 0 .. 1 :
          /\ Becomes(now) /\ Outgoing(now, app'.put, syn, 0) /\ Kept(now, app'.put)
          /\ now.sock.state = "tcp" /\ now.sock.seqReceived = 0
          /\ Orderly => Incoming(now, app'.got)
  <2>1. /\ Outgoing(n, app'.put, 0, 0) /\ Outgoing(m, app'.put, 1, 0)
        /\ Kept(n, app'.put) /\ Kept(m, app'.put)
        /\ n.sock.state = "tcp" /\ n.sock.seqReceived = 0 /\ m.sock.seqReceived = 0
    BY <1>3, <1>5, <1>9, <1>11
  <2>. QED
    BY <1>5, <1>7, <1>10, <2>1
<1>13. ~(0 > 1)
  OBVIOUS
<1>. QED
  BY <1>1, <1>8, <1>9, <1>12, <1>13, Handled

LEMMA AcceptStep ==
    ASSUME SocketInv, AcceptSyn
    PROVE  SocketInv'
<1>. DEFINE k == [sock EXCEPT !.state = "tcp", !.timed = TRUE, !.seq = Isn, !.seqReceived = Isn,
                              !.ack = First, !.ackProcessed = First]
            n == [Now EXCEPT !.sock = k]
            m == [TCPSendPacket(n, "syn", <<>>) EXCEPT !.sock.seq = (Isn + 1) % M]
<1>1. /\ ~app.opened /\ app' = [app EXCEPT !.opened = TRUE] /\ UNCHANGED <<wire, peer>>
      /\ Becomes(m) /\ peer.role = "client"
  BY DEF AcceptSyn
<1>2. /\ sock \in SockType /\ sock.frameSend = <<>> /\ app.put = <<>> /\ Len(app.put) = 0
      /\ app \in AppType /\ app.length \in Nat
      /\ \A j, put : put = <<>> /\ j.sock.frameSend = <<>> => Kept(j, put)
  BY <1>1, Before, NothingYet
<1>3. /\ k \in SockType /\ k.frameSend = <<>> /\ k.seq = Isn /\ k.state = "tcp"
      /\ k.seqReceived = Isn /\ k.ack = First /\ k.ackProcessed = First
      /\ k.gaveUp = sock.gaveUp /\ k.read = sock.read /\ k.readOffset = sock.readOffset
      /\ k.fins = sock.fins
  <2>1. First \in Nat /\ Isn \in Nat
    BY SocketFacts, FirstType
  <2>. QED
    BY <1>2, <2>1 DEF SockType
<1>. HIDE DEF k
<1>4. /\ m \in NowType /\ Outgoing(m, app.put, 1, 0)
      /\ SameReading(m.sock, k) /\ m.sock.state = "tcp" /\ m.sock.seqReceived = k.seqReceived
  BY <1>1, <1>3, OpenSends
<1>. HIDE DEF m, n
<1>5. /\ app' \in AppType /\ app'.opened /\ app'.put = <<>> /\ app'.got = app.got
      /\ app'.length = app.length
  BY <1>1, <1>2 DEF AppType
<1>6. app'.put = Stream(0, Len(app'.put)) /\ Len(app'.put) <= app'.length /\ app'.put = app.put
  BY <1>2, <1>5 DEF Stream
<1>7. Kept(m, app.put)
  <2>1. Len(m.sock.frameSend) <= 0 /\ m.sock.frameSend \in Seq(Nat)
    BY <1>2, <1>4 DEF Outgoing, NowType, SockType
  <2>2. Len(m.sock.frameSend) \in Nat
    BY <2>1
  <2>3. m.sock.frameSend = <<>>
    BY <2>1, <2>2
  <2>. QED
    BY <1>2, <2>3
<1>8. Orderly => Incoming(m, app.got)
  <2>. SUFFICES ASSUME Orderly
                PROVE  Incoming(m, app.got)
    OBVIOUS
  <2>1. Incoming(Now, app.got) /\ peer.length \in 0 .. MaxBytes /\ sock.ack = 0
    BY <1>1 DEF SocketInv, SocketTypeOK, PeerType, AppInv
  <2>2. Place(First) = 0 /\ First # 0 /\ Stream(0, 0) = <<>> /\ MaxFin >= 0
    BY SocketFacts, OrderlyFacts DEF Place, Stream
  <2>. QED
    BY <1>3, <1>4, <2>1, <2>2, NowFields DEF Incoming, SameReading
<1>9. /\ Outgoing(m, app'.put, 1, 0) /\ ~(0 > 1) /\ Kept(m, app'.put)
      /\ m.sock.seqReceived = Isn
      /\ Orderly => Incoming(m, app'.got)
  BY <1>3, <1>4, <1>5, <1>6, <1>7, <1>8
<1>. QED
  BY <1>1, <1>4, <1>5, <1>6, <1>9, Handled

LEMMA StreamType ==
    ASSUME NEW a \in Nat, NEW x \in Nat
    PROVE  Stream(a, x) \in Seq(Nat) /\ Len(Stream(a, x)) = x
  BY DEF Stream

\* Pieces of a stream that follow each other.
LEMMA StreamConcat ==
    ASSUME NEW a \in Nat, NEW x \in Nat, NEW y \in Nat
    PROVE  Stream(a, x) \o Stream(a + x, y) = Stream(a, x + y)
<1>. DEFINE s == Stream(a, x)
            t == Stream(a + x, y)
            u == Stream(a, x + y)
<1>1. s \in Seq(Nat) /\ Len(s) = x /\ \A i \in 1 .. x : s[i] = a + i
  BY DEF Stream
<1>2. t \in Seq(Nat) /\ Len(t) = y /\ \A i \in 1 .. y : t[i] = a + x + i
  BY DEF Stream
<1>3. u \in Seq(Nat) /\ Len(u) = x + y /\ \A i \in 1 .. x + y : u[i] = a + i
  BY DEF Stream
<1>. HIDE DEF s, t, u
<1>. DEFINE v == s \o t
<1>4. /\ v \in Seq(Nat) /\ Len(v) = x + y
      /\ \A i \in 1 .. x + y : v[i] = IF i <= x THEN s[i] ELSE t[i - x]
  BY <1>1, <1>2, ConcatProperties, ZenonT(60)
<1>. HIDE DEF v
<1>5. \A i \in 1 .. x + y : v[i] = u[i]
  <2>. SUFFICES ASSUME NEW i \in 1 .. x + y
                PROVE  v[i] = u[i]
    OBVIOUS
  <2>1. CASE i <= x
    BY <1>1, <1>3, <1>4, <2>1
  <2>2. CASE i > x
    <3>1. i - x \in 1 .. y
      BY <2>2
    <3>2. t[i - x] = a + x + (i - x) /\ u[i] = a + i
      BY <1>2, <1>3, <3>1
    <3>. QED
      BY <1>4, <2>2, <3>2
  <2>. QED
    BY <2>1, <2>2
<1>6. v = u
  BY <1>3, <1>4, <1>5, SeqEqual
<1>. QED
  BY <1>6 DEF s, t, u, v

\* A stream begins with its shorter parts.
LEMMA StreamPrefix ==
    ASSUME NEW x \in Nat, NEW y \in Nat, x <= y
    PROVE  IsPrefix(Stream(0, x), Stream(0, y))
<1>. DEFINE s == Stream(0, x)
            t == Stream(0, y)
            u == SubSeq(s, 1, x)
            v == SubSeq(t, 1, x)
<1>1. s \in Seq(Nat) /\ Len(s) = x /\ \A i \in 1 .. x : s[i] = 0 + i
  BY DEF Stream
<1>2. t \in Seq(Nat) /\ Len(t) = y /\ \A i \in 1 .. y : t[i] = 0 + i
  BY DEF Stream
<1>. HIDE DEF s, t
<1>3. u \in Seq(Nat) /\ Len(u) = x /\ \A i \in 1 .. x : u[i] = s[i]
  BY <1>1
<1>4. v \in Seq(Nat) /\ Len(v) = x /\ \A i \in 1 .. x : v[i] = t[i]
  BY <1>2
<1>. HIDE DEF u, v
<1>5. \A i \in 1 .. x : u[i] = v[i]
  BY <1>1, <1>2, <1>3, <1>4
<1>6. u = v
  BY <1>3, <1>4, <1>5, SeqEqual
<1>. QED
  BY <1>1, <1>2, <1>6 DEF IsPrefix, u, v, s, t

LEMMA WriteStep ==
    ASSUME SocketInv, IPWrite
    PROVE  SocketInv' /\ IsPrefix(app.put, app'.put) /\ app'.put \in Seq(Nat)
<1>1. /\ SocketTypeOK /\ AppInv /\ Kept(Now, app.put) /\ Now \in NowType
      /\ app.put \in Seq(Nat) /\ Len(app.put) <= MaxBytes
      /\ sock \in SockType /\ sending \in SUBSET FrameType /\ resend \in SUBSET FrameType
      /\ Orderly => Incoming(Now, app.got)
  BY Before DEF SocketInv
<1>2. PICK syn \in 0 .. 1, fins \in 0 .. 2 :
        Outgoing(Now, app.put, syn, fins) /\ (fins > 1 => app.closed)
  BY Before
<1>. DEFINE from == Len(app.put)
            data(n) == [i \in 1 .. n |-> from + i]
            w == Len(sock.frameSend)
<1>3. PICK n \in 1 .. Mss :
        /\ sock.state = "tcp" /\ from + n <= app.length
        /\ peer.role = "client" \/ sock.seqReceived # 0
        /\ LET m == [Now EXCEPT !.sock.frameSend = @ \o data(n)] IN
           Becomes(IF w + n = Mss THEN IPWriteFlush(m) ELSE m)
        /\ app' = [app EXCEPT !.put = @ \o data(n)]
        /\ UNCHANGED <<wire, peer>>
  BY DEF IPWrite
<1>. DEFINE put == app.put \o Stream(from, n)
            k == [sock EXCEPT !.frameSend = sock.frameSend \o Stream(from, n)]
            a == [Now EXCEPT !.sock = k]
            b == IPWriteFlush(a)
            s == Sent(Now, app.put)
<1>4. from \in Nat /\ n \in Nat \ {0} /\ app.length \in 0 .. MaxBytes /\ app \in AppType
  BY <1>1, SocketFacts DEF SocketTypeOK, AppType
<1>5. data(n) = Stream(from, n)
  BY DEF Stream
<1>6. s \in 0 .. MaxBytes /\ w \in Nat /\ s + w = from /\ Len(peer.got) \in 0 .. s
      /\ sock.frameSend \in Seq(Nat)
  <2>1. /\ Len(Now.sock.frameSend) \in Nat /\ s \in 0 .. MaxBytes /\ Now.sock.frameSend \in Seq(Nat)
        /\ s + Len(Now.sock.frameSend) = from /\ Len(peer.got) \in 0 .. s
    BY <1>1, <1>2, Lengths
  <2>. QED
    BY <2>1, NowFields
<1>7. sock.frameSend = Stream(s, w) /\ app.put = Stream(0, from)
  BY <1>1, <1>2, NowFields DEF Outgoing, AppInv
<1>8. /\ put \in Seq(Nat) /\ Len(put) = from + n /\ put = Stream(0, from + n)
      /\ Len(put) <= MaxBytes /\ Len(put) <= app.length
  <2>1. /\ Stream(0, from) \o Stream(0 + from, n) = Stream(0, from + n)
        /\ Stream(0, from + n) \in Seq(Nat) /\ Len(Stream(0, from + n)) = from + n
    <3>1. from \in Nat /\ n \in Nat /\ from + n \in Nat /\ 0 \in Nat
      BY <1>4
    <3>. HIDE DEF from
    <3>2. Stream(0, from) \o Stream(0 + from, n) = Stream(0, from + n)
      BY <3>1, StreamConcat
    <3>. QED
      BY <3>1, <3>2, StreamType
  <2>2. put = Stream(0, from + n)
    <3>1. 0 + from = from
      BY <1>4
    <3>. HIDE DEF from
    <3>. QED
      BY <1>7, <2>1, <3>1
  <2>3. from + n <= app.length /\ app.length <= MaxBytes
    BY <1>3, <1>4
  <2>. HIDE DEF put, from
  <2>4. Len(put) = from + n /\ put \in Seq(Nat)
    BY <2>1, <2>2
  <2>5. from + n <= MaxBytes
    BY <1>4, <2>3, SocketFacts
  <2>. QED
    BY <2>2, <2>3, <2>4, <2>5
<1>9. /\ Stream(from, n) \in Seq(Nat)
      /\ sock.frameSend \o Stream(from, n) = Stream(s, w + n)
      /\ Len(Stream(s, w + n)) = w + n /\ Stream(s, w + n) \in Seq(Nat)
  <2>. HIDE DEF from, s, w
  <2>1. /\ s \in Nat /\ w + n \in Nat
    BY <1>4, <1>6
  <2>2. /\ Stream(s, w) \o Stream(s + w, n) = Stream(s, w + n) /\ Stream(s + w, n) \in Seq(Nat)
        /\ Len(Stream(s, w + n)) = w + n /\ Stream(s, w + n) \in Seq(Nat)
    <3>1. w \in Nat /\ n \in Nat
      BY <1>4, <1>6
    <3>2. QED
      <4>1. Stream(s, w) \o Stream(s + w, n) = Stream(s, w + n)
        BY <2>1, <3>1, StreamConcat
      <4>2. s + w \in Nat
        BY <2>1, <3>1
      <4>. QED
        BY <2>1, <3>1, <4>1, <4>2, StreamType
  <2>. QED
    BY <1>6, <1>7, <2>2
<1>10. /\ k \in SockType /\ k.frameSend = Stream(s, w + n) /\ k.seq = sock.seq
       /\ k.state = sock.state /\ k.seqReceived = sock.seqReceived /\ SameReading(k, sock)
  <2>. HIDE DEF from, s, w
  <2>. QED
    BY <1>1, <1>9 DEF SockType, SameReading
<1>11. /\ Becomes(a) \/ Becomes(b)
       /\ app' = [app EXCEPT !.put = put]
  <2>1. [Now EXCEPT !.sock.frameSend = @ \o data(n)] = a
    BY <1>1, <1>5 DEF NowType, SockType, Now
  <2>. QED
    BY <1>3, <1>5, <2>1
<1>. HIDE DEF k, put
<1>12. a \in NowType /\ a.sock = k /\ a.sending = sending /\ a.resend = resend
  BY <1>1, <1>10, WithSock, NowFields
<1>. HIDE DEF a
<1>13. Sent(a, put) = s
  <2>1. Sent(a, put) = Len(put) - Len(k.frameSend)
    BY <1>12 DEF Sent
  <2>2. Len(k.frameSend) = w + n
    BY <1>9, <1>10
  <2>. HIDE DEF s, w, from, Sent
  <2>. QED
    BY <1>4, <1>6, <1>8, <2>1, <2>2
<1>14. fins = 0 /\ syn = 1 /\ ~peer.fin
  <2>1. fins = 0 /\ ~peer.fin /\ syn \in 0 .. 1
    BY <1>2, <1>3, NowFields DEF Outgoing
  <2>2. syn = 0 => ~peer.connected /\ peer.role = "server"
    BY <1>2 DEF Outgoing
  <2>3. ~(syn = 0)
    BY <1>1, <1>3, <2>2 DEF AppInv
  <2>. QED
    BY <2>1, <2>3
<1>15. Outgoing(a, put, syn, fins)
  <2>1. Len(a.sock.frameSend) <= Len(put)
    <3>1. Len(a.sock.frameSend) = w + n
      BY <1>9, <1>10, <1>12
    <3>. HIDE DEF s, w, from
    <3>. QED
      BY <1>4, <1>6, <1>8, <3>1
  <2>2. a.sock.frameSend = Stream(s, Len(a.sock.frameSend))
    BY <1>9, <1>10, <1>12
  <2>3. /\ a.sock.seq = (Isn + syn + s + fins) % M /\ a.sock.state = "tcp"
    BY <1>2, <1>3, <1>10, <1>12, NowFields DEF Outgoing
  <2>4. /\ \A f \in sending \cup resend :
             /\ Numbered(f, syn, s, fins)
             /\ f.seqEnd = (f.seq + IF f.flag = "data" THEN Len(f.data) ELSE 1) % M
        /\ \A f \in wire : Numbered(f, syn, s, fins)
    BY <1>2, NowFields DEF Outgoing
  <2>5. Len(peer.got) <= s
    BY <1>6
  <2>. HIDE DEF s, Sent
  <2>. QED
    BY <1>12, <1>13, <1>14, <2>1, <2>2, <2>3, <2>4, <2>5 DEF Outgoing
<1>16. Kept(a, put)
  <2>. HIDE DEF Sent
  <2>. QED
    BY <1>1, <1>10, <1>12, <1>13, NowFields DEF Kept, SameReading
<1>17. b \in NowType /\ Outgoing(b, put, syn, fins) /\ Kept(b, put)
       /\ CloseFieldsKept(a, b) /\ b.sock.state = a.sock.state
  BY <1>1, <1>8, <1>12, <1>15, <1>16, FlushSends, FlushKeeps, CloseFlushes
<1>. HIDE DEF b
<1>18. /\ app'.put = put /\ app'.got = app.got /\ app'.opened = app.opened
       /\ app'.closed = app.closed /\ app'.length = app.length /\ app' \in AppType
  BY <1>4, <1>8, <1>11 DEF AppType
<1>19. PICK now \in {a, b} : Becomes(now)
  BY <1>11
<1>20. /\ now \in NowType /\ Outgoing(now, app'.put, syn, fins) /\ Kept(now, app'.put)
       /\ SameReading(now.sock, sock) /\ now.sock.state = "tcp"
       /\ now.sock.seqReceived = sock.seqReceived
  BY <1>3, <1>10, <1>12, <1>15, <1>16, <1>17, <1>18, <1>19 DEF CloseFieldsKept, SameReading
<1>21. Orderly => Incoming(now, app'.got)
  BY <1>1, <1>18, <1>20, NowFields, IncomingStays
<1>22. /\ app'.opened /\ app'.put = Stream(0, Len(app'.put)) /\ Len(app'.put) <= app'.length
       /\ ~(fins > 1)
  <2>1. app.opened
    BY <1>1, <1>3 DEF AppInv
  <2>2. Len(put) = from + n /\ put = Stream(0, from + n) /\ Len(put) <= app.length
    BY <1>8
  <2>. HIDE DEF from
  <2>. QED
    BY <1>14, <1>18, <2>1, <2>2
<1>23. SocketInv'
  BY <1>1, <1>3, <1>18, <1>19, <1>20, <1>21, <1>22, Handled DEF AppInv
<1>24. IsPrefix(app.put, put)
  <2>1. app.put = Stream(0, from) /\ put = Stream(0, from + n)
    BY <1>7, <1>8
  <2>. HIDE DEF from
  <2>2. from + n \in Nat /\ from <= from + n
    BY <1>4
  <2>. QED
    BY <1>4, <2>1, <2>2, StreamPrefix
<1>. QED
  BY <1>8, <1>18, <1>23, <1>24

\* A part of a stream.
LEMMA StreamPart ==
    ASSUME NEW a \in Nat, NEW x \in Nat, NEW from \in Nat, NEW len \in Nat, from + len <= x
    PROVE  SubSeq(Stream(a, x), from + 1, from + len) = Stream(a + from, len)
<1>. DEFINE s == Stream(a, x)
            t == SubSeq(s, from + 1, from + len)
            u == Stream(a + from, len)
<1>1. s \in Seq(Nat) /\ Len(s) = x /\ \A i \in 1 .. x : s[i] = a + i
  BY DEF Stream
<1>2. u \in Seq(Nat) /\ Len(u) = len /\ \A i \in 1 .. len : u[i] = a + from + i
  BY DEF Stream
<1>. HIDE DEF s, u
<1>3. \A i \in from + 1 .. from + len : i \in 1 .. Len(s)
  BY <1>1
<1>4. t \in Seq(Nat) /\ Len(t) = len /\ \A i \in 1 .. len : t[i] = s[from + i]
  BY <1>1, <1>3
<1>. HIDE DEF t
<1>5. \A i \in 1 .. len : t[i] = u[i]
  <2>1. \A i \in 1 .. len : from + i \in 1 .. x /\ a + (from + i) = a + from + i
    OBVIOUS
  <2>. QED
    BY <1>1, <1>2, <1>4, <2>1
<1>6. t = u
  BY <1>2, <1>4, <1>5, SeqEqual
<1>. QED
  BY <1>6 DEF t, s, u

\* How a number of the peer grows.
LEMMA ReadNumber ==
    ASSUME Orderly, NEW p \in Nat, NEW len \in Nat, Place(p) + len <= MaxBytes
    PROVE  Place((p + len) % M) = Place(p) + len
<1>1. p - PeerIsn - 1 + len <= MaxBytes
  BY DEF Place
<1>2. p + len \in 0 .. M - 1
  BY <1>1, SocketFacts, OrderlyFacts
<1>3. \A z \in 0 .. M - 1 : z % M = z
  BY SocketFacts
<1>4. (p + len) % M = p + len
  BY <1>2, <1>3
<1>5. p + len - PeerIsn - 1 = p - PeerIsn - 1 + len
  BY SocketFacts
<1>6. Place(p + len) = p + len - PeerIsn - 1 /\ Place(p) = p - PeerIsn - 1
  BY SocketFacts DEF Place
<1>. QED
  BY <1>4, <1>5, <1>6

LEMMA SomeBytes ==
    ASSUME NEW n \in 1 .. Mss
    PROVE  n \in Nat \ {0}
  BY SocketFacts

\* What IPRead reads comes next in the stream.
LEMMA ReadIncoming ==
    ASSUME Orderly, SocketTypeOK, Incoming(Now, app.got), ~sock.gaveUp, sock.read # <<>>, NEW n \in 1 .. Mss,
           NEW m \in NowType, m.sending = sending, m.resend = resend,
           LET frame == Head(sock.read)
               rest  == Len(frame) - sock.readOffset
               bytes == IF n < rest THEN n ELSE rest
           IN  /\ app'.got =
                    app.got \o SubSeq(frame, sock.readOffset + 1, sock.readOffset + bytes)
               /\ m.sock = IF bytes < rest THEN [sock EXCEPT !.readOffset = @ + bytes]
                           ELSE FrameRead
    PROVE  /\ Incoming(m, app'.got)
           /\ \E x \in Nat, y \in Nat : /\ x <= y /\ y <= peer.length
                                        /\ app.got = Stream(0, x) /\ app'.got = Stream(0, y)
<1>. DEFINE r == sock.read
            h == Head(r)
            L == Len(r)
            H == Len(h)
            off == sock.readOffset
            first == Place(sock.ackProcessed)
            end == Place(sock.ack) - sock.fins
            rest == H - off
            bytes == IF n < rest THEN n ELSE rest
            x == first + off
            y == first + off + bytes
            j == m.sock
<1>1. /\ r \in Seq(Seq(Nat)) /\ off \in Nat /\ sock.ackProcessed \in Nat /\ sock.ack \in Nat
      /\ sock.fins \in Nat /\ r # <<>> /\ n \in Nat \ {0} /\ sock \in SockType
      /\ peer.length \in 0 .. MaxBytes
  <2>1. sock \in SockType /\ peer \in PeerType
    BY DEF SocketTypeOK, Now, NowType
  <2>2. n \in Nat \ {0}
    BY SomeBytes
  <2>. QED
    BY <2>1, <2>2 DEF SockType, PeerType
<1>2. /\ sock.ack # 0 /\ peer.length # 0
      /\ first >= 0 /\ first <= end /\ end <= peer.length
      /\ sock.fins > 0 => end = peer.length
      /\ sock.fins <= MaxFin
      /\ app.got = Stream(0, first + off)
      /\ off < Len(h) /\ h[1] = first + 1 /\ Last(r)[Len(Last(r))] = end
      /\ \A i \in DOMAIN r :
           /\ r[i] # <<>> /\ Last(r[i]) <= end
           /\ r[i] = Stream(r[i][1] - 1, Len(r[i]))
           /\ i > 1 => r[i][1] = Last(r[i - 1]) + 1
  BY NowFields DEF Incoming
<1>3. /\ L \in Nat \ {0} /\ DOMAIN r = 1 .. L /\ h = r[1] /\ h \in Seq(Nat) /\ H \in Nat
      /\ \A i \in 1 .. L : r[i] \in Seq(Nat)
  <2>. HIDE DEF r
  <2>1. L \in Nat \ {0} /\ DOMAIN r = 1 .. L /\ h = r[1] /\ \A i \in 1 .. L : r[i] \in Seq(Nat)
    BY <1>1
  <2>. HIDE DEF h, L
  <2>2. 1 \in 1 .. L
    BY <2>1
  <2>3. r[1] \in Seq(Nat)
    BY <2>1, <2>2, Zenon
  <2>4. h \in Seq(Nat)
    BY <2>1, <2>3, Zenon
  <2>5. Len(h) \in Nat
    BY <2>4
  <2>. QED
    BY <2>1, <2>4, <2>5
<1>4. first \in Int /\ end \in Int /\ first = sock.ackProcessed - PeerIsn - 1
  <2>1. \A z \in Int : Place(z) \in Int /\ Place(z) = z - PeerIsn - 1
    BY SocketFacts DEF Place
  <2>2. sock.ack \in Int /\ sock.ackProcessed \in Int /\ sock.fins \in Int
    BY <1>1
  <2>. QED
    BY <2>1, <2>2
<1>5. /\ app'.got = app.got \o SubSeq(h, off + 1, off + bytes)
      /\ j = IF bytes < rest THEN [sock EXCEPT !.readOffset = @ + bytes] ELSE FrameRead
  OBVIOUS
<1>. HIDE DEF first, end
<1>6. /\ rest \in Nat \ {0} /\ bytes \in 1 .. rest /\ off + bytes <= H /\ first \in Nat
      /\ ~(bytes < rest) => off + bytes = H
      /\ bytes < rest => off + bytes < H
  <2>1. off \in Nat /\ H \in Nat /\ off < H /\ first \in Nat /\ n \in Nat \ {0}
    BY <1>1, <1>2, <1>3, <1>4
  <2>. HIDE DEF off, H, first
  <2>2. /\ H - off \in Nat \ {0}
        /\ (IF n < H - off THEN n ELSE H - off) \in 1 .. H - off
    BY <2>1
  <2>. DEFINE b == IF n < H - off THEN n ELSE H - off
  <2>3. b \in Nat /\ H - off \in Nat
    BY <2>2
  <2>. HIDE DEF b
  <2>4. off + b <= H /\ (~(b < H - off) => off + b = H) /\ (b < H - off => off + b < H)
    <3>1. b \in 1 .. H - off
      BY <2>2 DEF b
    <3>. QED
      BY <2>1, <2>3, <3>1
  <2>. QED
    BY <2>1, <2>2, <2>4 DEF b
<1>. HIDE DEF rest, bytes
<1>7. h = Stream(first, H)
  <2>1. 1 \in DOMAIN r /\ first + 1 - 1 = first
    <3>. HIDE DEF r, h
    <3>. QED
      BY <1>3, <1>6
  <2>2. r[1] = Stream(r[1][1] - 1, Len(r[1]))
    BY <1>2, <2>1
  <2>3. h = Stream(h[1] - 1, H) /\ h[1] - 1 = first
    <3>1. h = r[1] /\ h[1] = first + 1
      BY <1>2, <1>3
    <3>. HIDE DEF r, h
    <3>2. h[1] - 1 = first
      BY <1>6, <3>1
    <3>3. h = Stream(h[1] - 1, Len(h))
      BY <2>2, <3>1
    <3>. QED
      BY <3>2, <3>3
  <2>. HIDE DEF r, h, H
  <2>. QED
    BY <2>3
<1>8. Last(h) = first + H /\ first + H <= end
  <2>1. H \in 1 .. H
    <3>1. H \in Nat /\ off < H /\ off \in Nat
      BY <1>1, <1>2, <1>3
    <3>. HIDE DEF H, off
    <3>. QED
      BY <3>1
  <2>2. h[H] = first + H
    <3>. HIDE DEF H, h
    <3>. QED
      BY <1>7, <2>1 DEF Stream
  <2>3. 1 \in DOMAIN r
    <3>. HIDE DEF r, h
    <3>. QED
      BY <1>3
  <2>4. Last(h) = h[H]
    BY DEF Last
  <2>. HIDE DEF h, H, r
  <2>. QED
    BY <1>2, <1>3, <2>2, <2>3, <2>4
<1>9. app'.got = Stream(0, y) /\ app.got = Stream(0, x) /\ x \in Nat /\ y \in Nat /\ x <= y
      /\ y <= first + H
  <2>0. off \in Nat /\ H \in Nat /\ first \in Nat /\ bytes \in Nat /\ off + bytes <= H
    BY <1>1, <1>3, <1>6
  <2>. HIDE DEF off, H
  <2>1. SubSeq(Stream(first, H), off + 1, off + bytes) = Stream(first + off, bytes)
    BY <2>0, StreamPart, ZenonT(60)
  <2>2. x \in Nat /\ 0 \in Nat /\ y = x + bytes /\ 0 + x = x /\ y <= first + H /\ x <= y /\ y \in Nat
    BY <2>0
  <2>3. Stream(0, x) \o Stream(0 + x, bytes) = Stream(0, x + bytes)
    <3>1. x \in Nat /\ bytes \in Nat /\ 0 \in Nat
      BY <2>0, <2>2
    <3>. HIDE DEF x
    <3>. QED
      BY <3>1, StreamConcat
  <2>4. app'.got = Stream(0, x) \o Stream(x, bytes)
    <3>. HIDE DEF h
    <3>. QED
      BY <1>2, <1>5, <1>7, <2>1
  <2>5. app'.got = Stream(0, y)
    <3>. HIDE DEF x, y
    <3>. QED
      BY <2>2, <2>3, <2>4
  <2>6. app.got = Stream(0, x)
    BY <1>2
  <2>. HIDE DEF x, y
  <2>. QED
    BY <2>2, <2>5, <2>6
<1>10. \E a \in Nat, b \in Nat : /\ a <= b /\ b <= peer.length
                                 /\ app.got = Stream(0, a) /\ app'.got = Stream(0, b)
  <2>1. y \in Nat /\ H \in Nat /\ first \in Int /\ end \in Int /\ y <= first + H
        /\ first + H <= end /\ end <= peer.length /\ peer.length \in Int
    <3>1. peer.length \in Int
      BY <1>1, SocketFacts
    <3>. HIDE DEF y, H
    <3>. QED
      BY <1>2, <1>3, <1>4, <1>8, <1>9, <3>1
  <2>. HIDE DEF x, y, H
  <2>2. y <= peer.length
    BY <2>1
  <2>. QED
    BY <1>9, <2>2
<1>. HIDE DEF H
<1>11. CASE bytes < rest
  <2>1. /\ j.read = r /\ j.readOffset = off + bytes /\ j.gaveUp = sock.gaveUp /\ j.ack = sock.ack
        /\ j.ackProcessed = sock.ackProcessed /\ j.fins = sock.fins
    BY <1>1, <1>5, <1>11 DEF SockType
  <2>2. off + bytes < H /\ first + (off + bytes) = y
    <3>1. off \in Nat /\ bytes \in Nat /\ first \in Nat
      BY <1>1, <1>6
    <3>. HIDE DEF off
    <3>. QED
      BY <1>6, <1>11, <3>1
  <2>. HIDE DEF r, y, h, off, j
  <2>3. Incoming(m, app'.got)
    BY <1>1, <1>2, <1>9, <2>1, <2>2 DEF Incoming, first, end, j, h, H
  <2>. QED
    BY <1>10, <2>3
<1>12. CASE ~(bytes < rest)
  <2>. DEFINE ap == (sock.ackProcessed + H) % M
              q == Tail(r)
  <2>1. /\ j.read = q /\ j.readOffset = 0 /\ j.gaveUp = sock.gaveUp /\ j.ack = sock.ack
        /\ j.ackProcessed = ap /\ j.fins = sock.fins
    <3>1. j = [sock EXCEPT !.readOffset = 0, !.read = q, !.ackProcessed = ap]
      BY <1>5, <1>12 DEF FrameRead, H, r
    <3>. HIDE DEF q, ap, j
    <3>. QED
      BY <1>1, <3>1 DEF SockType
  <2>2. Place(ap) = first + H
    <3>1. first + H <= MaxBytes /\ H \in Nat /\ Place(sock.ackProcessed) = first
      <4>1. /\ peer.length \in Int /\ MaxBytes \in Int /\ peer.length <= MaxBytes
        BY <1>1, SocketFacts
      <4>2. first + H <= end /\ end <= peer.length /\ H \in Nat /\ first \in Int /\ end \in Int
        BY <1>2, <1>3, <1>4, <1>8
      <4>3. first + H <= MaxBytes
        BY <4>1, <4>2
      <4>. QED
        BY <4>2, <4>3 DEF first
    <3>2. sock.ackProcessed \in Nat
      BY <1>1
    <3>. QED
      BY <3>1, <3>2, ReadNumber
  <2>3. /\ q \in Seq(Seq(Nat)) /\ Len(q) = L - 1 /\ DOMAIN q = 1 .. L - 1
        /\ \A i \in 1 .. L - 1 : q[i] = r[i + 1]
        /\ q = <<>> <=> L = 1
    <3>. HIDE DEF r
    <3>1. q \in Seq(Seq(Nat)) /\ Len(q) = L - 1
      BY <1>1, <1>3
    <3>2. \A i \in 1 .. L - 1 : q[i] = r[i + 1]
      BY <1>1, <1>3
    <3>3. L \in Nat \ {0}
      BY <1>3
    <3>. HIDE DEF q, L
    <3>. QED
      BY <3>1, <3>2, <3>3
  <2>4. y = first + H
    <3>1. off \in Nat /\ bytes \in Nat /\ first \in Nat /\ off + bytes = H /\ H \in Nat
      BY <1>1, <1>3, <1>6, <1>12
    <3>. HIDE DEF off
    <3>. QED
      BY <3>1
  <2>5. CASE L = 1
    <3>1. Last(r) = h
      BY <1>3, <2>5 DEF Last
    <3>2. first + H = end
      <4>1. h[Len(h)] = Last(h)
        BY DEF Last
      <4>. HIDE DEF h, r
      <4>. QED
        BY <1>2, <1>8, <3>1, <4>1
    <3>3. q = <<>> /\ DOMAIN q = {}
      BY <2>3, <2>5
    <3>4. first + H >= 0 /\ first + H + 0 = first + H
      BY <1>3, <1>6
    <3>. HIDE DEF q, ap, r, h, H, y, j
    <3>5. /\ m.sock.read = <<>> /\ m.sock.readOffset = 0 /\ m.sock.ack # 0
          /\ Place(m.sock.ackProcessed) = first + H
          /\ Place(m.sock.ack) - m.sock.fins = end /\ m.sock.fins = sock.fins
      BY <1>2, <2>1, <2>2, <3>3 DEF end, j
    <3>6. /\ first + H >= 0 /\ first + H <= end /\ end <= peer.length /\ peer.length # 0
          /\ sock.fins > 0 => end = peer.length
          /\ sock.fins <= MaxFin
          /\ app'.got = Stream(0, first + H + 0)
      BY <1>2, <1>8, <1>9, <2>4, <3>4
    <3>7. DOMAIN <<>> = {}
      OBVIOUS
    <3>8. Incoming(m, app'.got)
      BY <3>2, <3>5, <3>6, <3>7 DEF Incoming
    <3>. QED
      BY <1>10, <3>8
  <2>6. CASE L # 1
    <3>1. /\ q # <<>> /\ 1 \in 1 .. L - 1 /\ L - 1 \in 1 .. L - 1 /\ 2 \in DOMAIN r
          /\ 1 + 1 = 2 /\ 2 - 1 = 1 /\ (L - 1) + 1 = L
      <4>1. L \in Nat \ {0, 1} /\ DOMAIN r = 1 .. L
        BY <1>3, <2>6
      <4>2. q # <<>>
        BY <2>3, <2>6
      <4>. HIDE DEF L, r, q
      <4>. QED
        BY <4>1, <4>2
    <3>2. Head(q) = r[2] /\ Last(q) = Last(r)
      <4>1. Head(q) = q[1]
        BY <2>3, <3>1
      <4>2. Last(q) = q[L - 1] /\ Last(r) = r[L]
        BY <2>3 DEF Last
      <4>. HIDE DEF q, r, L
      <4>. QED
        BY <2>3, <3>1, <4>1, <4>2
    <3>3. Head(q)[1] = first + H + 1 /\ 0 < Len(Head(q))
      <4>1. r[2] # <<>> /\ r[2][1] = Last(r[1]) + 1 /\ r[2] \in Seq(Nat)
        <5>1. 2 > 1 /\ 2 \in 1 .. L
          BY <1>3, <3>1
        <5>. HIDE DEF r, L
        <5>. QED
          BY <1>2, <1>3, <3>1, <5>1
      <4>2. Len(r[2]) > 0
        BY <4>1
      <4>. HIDE DEF r, q, h, H
      <4>. QED
        BY <1>3, <1>8, <3>2, <4>1, <4>2
    <3>4. ASSUME NEW i \in 1 .. L - 1
          PROVE  /\ q[i] # <<>> /\ Last(q[i]) <= end
                 /\ q[i] = Stream(q[i][1] - 1, Len(q[i]))
                 /\ i > 1 => q[i][1] = Last(q[i - 1]) + 1
      <4>1. /\ i + 1 \in DOMAIN r /\ i + 1 > 1 /\ (i + 1) - 1 = i
            /\ i > 1 => i - 1 \in 1 .. L - 1 /\ (i - 1) + 1 = i
        <5>1. L \in Nat \ {0} /\ DOMAIN r = 1 .. L
          BY <1>3
        <5>. HIDE DEF L, r
        <5>. QED
          BY <5>1
      <4>2. q[i] = r[i + 1] /\ (i > 1 => q[i - 1] = r[i])
        BY <2>3, <4>1
      <4>. HIDE DEF q, r, L
      <4>. QED
        BY <1>2, <4>1, <4>2
    <3>5. first + H >= 0 /\ first + H + 0 = first + H
      BY <1>3, <1>6
    <3>. HIDE DEF q, ap, r, h, H, y, j, L
    <3>6. /\ \A i \in DOMAIN q :
                /\ q[i] # <<>> /\ Last(q[i]) <= end
                /\ q[i] = Stream(q[i][1] - 1, Len(q[i]))
                /\ i > 1 => q[i][1] = Last(q[i - 1]) + 1
          /\ Last(q)[Len(Last(q))] = end
          /\ app'.got = Stream(0, first + H + 0)
      BY <1>2, <1>9, <2>3, <2>4, <3>2, <3>4, <3>5
    <3>7. Incoming(m, app'.got)
      BY <1>2, <1>8, <2>1, <2>2, <3>1, <3>3, <3>5, <3>6, ZenonT(60) DEF Incoming, end, j
    <3>. QED
      BY <1>10, <3>7
  <2>. QED
    BY <2>5, <2>6
<1>. QED
  BY <1>11, <1>12

\* The streams that have come out so far, and what comes out next.
Grows(out, next, length) ==
    \E x \in Nat, y \in Nat : x <= y /\ y <= length /\ out = Stream(0, x) /\ next = Stream(0, y)

LEMMA ReadStep ==
    ASSUME SocketInv, sock.gaveUp => app.length + peer.length = 0, IPRead
    PROVE  SocketInv' /\ (Orderly => Grows(app.got, app'.got, peer.length))
<1>1. /\ SocketTypeOK /\ AppInv /\ Kept(Now, app.put) /\ Now \in NowType
      /\ sock \in SockType /\ sending \in SUBSET FrameType /\ resend \in SUBSET FrameType
      /\ Orderly => Incoming(Now, app.got)
  BY Before DEF SocketInv
<1>2. PICK syn \in 0 .. 1, fins \in 0 .. 2 :
        Outgoing(Now, app.put, syn, fins) /\ (fins > 1 => app.closed)
  BY Before
<1>. DEFINE frame == Head(sock.read)
            off == sock.readOffset
            rest == Len(frame) - off
            part(b) == SubSeq(frame, off + 1, off + b)
<1>3. PICK n \in 1 .. Mss :
        LET bytes == IF n < rest THEN n ELSE rest IN
        /\ sock.state # "none" /\ sock.read # <<>>
        /\ app' = [app EXCEPT !.got = app.got \o part(bytes)]
        /\ sock' = IF bytes < rest THEN [sock EXCEPT !.readOffset = @ + bytes] ELSE FrameRead
        /\ UNCHANGED <<sending, resend, wire, peer>>
  BY DEF IPRead, AppType, SocketTypeOK
<1>. DEFINE bytes == IF n < rest THEN n ELSE rest
            k == IF bytes < rest THEN [sock EXCEPT !.readOffset = off + bytes] ELSE FrameRead
            m == [sock |-> k, sending |-> sending, resend |-> resend]
            got == app.got \o part(bytes)
<1>4. /\ frame \in Seq(Nat) /\ Len(frame) \in Nat /\ off \in Nat /\ n \in Nat \ {0}
      /\ app.got \in Seq(Nat) /\ app \in AppType
      /\ sock.read \in Seq(Seq(Nat)) /\ sock.ackProcessed \in Nat
  <2>1. sock.read \in Seq(Seq(Nat)) /\ off \in Nat /\ sock.read # <<>> /\ sock.ackProcessed \in Nat
    BY <1>1, <1>3 DEF SockType
  <2>2. frame \in Seq(Nat)
    BY <2>1
  <2>3. n \in Nat \ {0}
    BY SocketFacts
  <2>4. app.got \in Seq(Nat) /\ app \in AppType
    BY <1>1 DEF SocketTypeOK, AppType
  <2>. HIDE DEF frame
  <2>. QED
    BY <2>1, <2>2, <2>3, <2>4
<1>5. /\ k \in SockType /\ k.seq = sock.seq /\ k.frameSend = sock.frameSend
      /\ k.state = sock.state /\ k.gaveUp = sock.gaveUp /\ k.seqReceived = sock.seqReceived
      /\ k.timed = sock.timed
  <2>1. CASE bytes < rest
    <3>1. off + bytes \in Nat
      <4>. DEFINE z == rest
      <4>1. z \in Int
        BY <1>4
      <4>2. bytes = n
        <5>1. (IF n < z THEN n ELSE z) < z => (IF n < z THEN n ELSE z) = n
          <6>. HIDE DEF z
          <6>. QED
            BY <1>4, <4>1
        <5>. QED
          BY <2>1, <5>1
      <4>. HIDE DEF off, bytes, z
      <4>. QED
        BY <1>4, <4>2
    <3>. DEFINE o == off + bytes
    <3>2. k = [sock EXCEPT !.readOffset = o] /\ o \in Nat
      BY <2>1, <3>1
    <3>. HIDE DEF k, o
    <3>. QED
      BY <1>1, <3>2 DEF SockType
  <2>2. CASE ~(bytes < rest)
    <3>. DEFINE q == Tail(sock.read)
                ap == (sock.ackProcessed + Len(frame)) % M
    <3>1. q \in Seq(Seq(Nat)) /\ ap \in Nat
      <4>. DEFINE r == sock.read  e == Len(frame)
      <4>1. r \in Seq(Seq(Nat)) /\ r # <<>> /\ sock.ackProcessed \in Nat /\ e \in Nat
        BY <1>3, <1>4
      <4>2. (sock.ackProcessed + e) % M \in Nat
        <5>. HIDE DEF e
        <5>. QED
          BY <4>1, SocketFacts
      <4>3. Tail(r) \in Seq(Seq(Nat))
        <5>. HIDE DEF r
        <5>. QED
          BY <4>1
      <4>. QED
        BY <4>2, <4>3
    <3>2. k = [sock EXCEPT !.readOffset = 0, !.read = q, !.ackProcessed = ap]
      BY <2>2 DEF FrameRead
    <3>. HIDE DEF k, q, ap
    <3>. QED
      BY <1>1, <3>1, <3>2 DEF SockType
  <2>. QED
    BY <2>1, <2>2
<1>6. got \in Seq(Nat)
  <2>1. \A i \in off + 1 .. off + bytes : i \in 1 .. Len(frame)
    <3>. DEFINE H == Len(frame)
    <3>1. H \in Nat /\ off \in Nat /\ n \in Nat
      BY <1>4
    <3>. HIDE DEF H, off
    <3>. QED
      BY <3>1
  <2>2. part(bytes) \in Seq(Nat)
    <3>1. off + bytes \in Int
      <4>. DEFINE H == Len(frame)
      <4>1. H \in Nat /\ off \in Nat /\ n \in Nat
        BY <1>4
      <4>. HIDE DEF H, off
      <4>. QED
        BY <4>1
    <3>. HIDE DEF bytes, frame, off
    <3>. QED
      BY <1>4, <2>1, <3>1
  <2>. HIDE DEF part, bytes
  <2>. QED
    BY <1>4, <2>2
<1>7. sock' = k /\ app' = [app EXCEPT !.got = got] /\ UNCHANGED <<sending, resend, wire, peer>>
  BY <1>3
<1>. HIDE DEF k, got
<1>8. m \in NowType /\ m.sock = k /\ m.sending = sending /\ m.resend = resend
  BY <1>1, <1>5 DEF NowType
<1>. HIDE DEF m
<1>9. Becomes(m)
  BY <1>7, <1>8 DEF Becomes
<1>10. /\ app' \in AppType /\ app'.got = got /\ app'.put = app.put /\ app'.opened = app.opened
       /\ app'.closed = app.closed /\ app'.length = app.length
  BY <1>4, <1>6, <1>7 DEF AppType
<1>11. Onwards(Now, m)
  BY <1>5, <1>8, NowFields DEF Onwards, Alike
<1>12. Outgoing(m, app.put, syn, fins) /\ Sent(m, app.put) = Sent(Now, app.put)
  BY <1>2, <1>11, OnwardsSends
<1>13. Kept(m, app.put)
  <2>. HIDE DEF Sent
  <2>. QED
    BY <1>1, <1>5, <1>8, <1>12, NowFields DEF Kept
<1>14. ASSUME Orderly
       PROVE  Incoming(m, app'.got) /\ Grows(app.got, app'.got, peer.length)
  <2>1. Incoming(Now, app.got)
    BY <1>1, <1>14
  <2>2. ~sock.gaveUp
    BY <1>3, <1>14, NothingToCarry
  <2>3. LET b == IF n < rest THEN n ELSE rest
        IN  /\ app'.got = app.got \o SubSeq(frame, sock.readOffset + 1, sock.readOffset + b)
            /\ m.sock = IF b < rest THEN [sock EXCEPT !.readOffset = @ + b] ELSE FrameRead
    BY <1>8, <1>10 DEF got, k
  <2>. QED
    BY <1>1, <1>3, <1>8, <1>14, <2>1, <2>2, <2>3, ReadIncoming DEF Grows
<1>15. /\ app'.opened /\ app'.put = Stream(0, Len(app'.put)) /\ Len(app'.put) <= app'.length
  BY <1>1, <1>3, <1>10 DEF AppInv
<1>16. SocketInv'
  <2>1. /\ Outgoing(m, app'.put, syn, fins) /\ (fins > 1 => app'.closed) /\ Kept(m, app'.put)
        /\ Orderly => Incoming(m, app'.got)
        /\ m.sock.state = "closed" => m.sock.gaveUp
        /\ ~peer.connected /\ peer.role = "server" => m.sock.seqReceived = 0
        /\ m.sock.state # "none" /\ UNCHANGED <<wire, peer>>
    BY <1>1, <1>2, <1>3, <1>5, <1>7, <1>8, <1>10, <1>12, <1>13, <1>14 DEF AppInv
  <2>. QED
    BY <1>8, <1>9, <1>10, <1>15, <2>1, Handled
<1>. QED
  BY <1>14, <1>16

LEMMA CloseStep ==
    ASSUME SocketInv, CloseSocket
    PROVE  SocketInv'
<1>1. /\ SocketTypeOK /\ AppInv /\ Kept(Now, app.put) /\ Now \in NowType
      /\ app.put \in Seq(Nat) /\ Len(app.put) <= MaxBytes
      /\ Orderly => Incoming(Now, app.got)
  BY Before DEF SocketInv
<1>2. PICK syn \in 0 .. 1, fins \in 0 .. 2 :
        Outgoing(Now, app.put, syn, fins) /\ (fins > 1 => app.closed)
  BY Before
<1>. DEFINE m == IPClose(Now, TRUE)
<1>3. /\ app.opened /\ ~app.closed /\ sock.state # "none" /\ Becomes(m)
      /\ app' = [app EXCEPT !.closed = TRUE] /\ UNCHANGED <<wire, peer>>
  BY DEF CloseSocket
<1>4. fins <= 1 /\ Now.sock.state # "none"
  BY <1>2, <1>3, NowFields
<1>5. /\ m \in NowType /\ Kept(m, app.put) /\ CloseFieldsKept(Now, m)
      /\ \E j \in 0 .. 2 : Outgoing(m, app.put, syn, j)
  <2>1. \A frame \in BOOLEAN :
          /\ IPClose(Now, frame) \in NowType
          /\ Outgoing(IPClose(Now, frame), app.put, syn, fins + IF frame THEN 1 ELSE 0)
          /\ Kept(IPClose(Now, frame), app.put) /\ CloseFieldsKept(Now, IPClose(Now, frame))
    BY <1>1, <1>2, <1>4, CloseSends, CloseKeeps
  <2>2. TRUE \in BOOLEAN /\ (fins + IF TRUE THEN 1 ELSE 0) \in 0 .. 2
    BY <1>4
  <2>. QED
    BY <2>1, <2>2
<1>. HIDE DEF m
<1>6. PICK j \in 0 .. 2 : Outgoing(m, app.put, syn, j)
  BY <1>5
<1>7. /\ app' \in AppType /\ app'.opened /\ app'.closed /\ app'.put = app.put
      /\ app'.got = app.got /\ app'.length = app.length
  BY <1>1, <1>3 DEF AppType, SocketTypeOK
<1>8. /\ app'.put = Stream(0, Len(app'.put)) /\ Len(app'.put) <= app'.length
  BY <1>1, <1>7 DEF AppInv
<1>9. Orderly => Incoming(m, app'.got)
  BY <1>1, <1>5, <1>7, IncomingStays DEF CloseFieldsKept
<1>10. /\ m.sock.state # "none" /\ m.sock.seqReceived = sock.seqReceived
       /\ m.sock.state = "closed" => m.sock.gaveUp
  BY <1>1, <1>3, <1>5, NowFields DEF CloseFieldsKept, SameReading, AppInv
<1>11. /\ Outgoing(m, app'.put, syn, j) /\ (j > 1 => app'.closed) /\ Kept(m, app'.put)
       /\ ~peer.connected /\ peer.role = "server" => m.sock.seqReceived = 0
  BY <1>1, <1>5, <1>6, <1>7, <1>10 DEF AppInv
<1>. QED
  BY <1>3, <1>5, <1>7, <1>8, <1>9, <1>10, <1>11, Handled

LEMMA PeerCloseStep ==
    ASSUME SocketInv, PeerClose
    PROVE  SocketInv'
<1>1. SocketTypeOK /\ AppInv /\ SendInv /\ Kept(Now, app.put)
  BY DEF SocketInv
<1>2. /\ peer' = [peer EXCEPT !.closing = TRUE] /\ UNCHANGED <<sock, sending, resend, wire, app>>
      /\ peer \in PeerType
  BY <1>1 DEF PeerClose, SocketTypeOK
<1>3. /\ peer' \in PeerType /\ peer'.connected = peer.connected /\ peer'.fin = peer.fin
      /\ peer'.count = peer.count /\ peer'.got = peer.got /\ peer'.length = peer.length
      /\ peer'.role = peer.role
  BY <1>2 DEF PeerType
<1>4. Now' = Now
  BY <1>2 DEF Now
<1>5. SocketTypeOK' /\ AppInv'
  BY <1>1, <1>2, <1>3, <1>4 DEF SocketTypeOK, AppInv
<1>6. SendInv' /\ (Kept(Now, app.put))'
  <2>1. PICK syn \in 0 .. 1, fins \in 0 .. 2 :
          Outgoing(Now, app.put, syn, fins) /\ (fins > 1 => app.closed)
    BY <1>1 DEF SendInv
  <2>2. (Outgoing(Now, app.put, syn, fins))'
    BY <1>2, <1>3, <1>4, <2>1 DEF Outgoing, Sent
  <2>3. SendInv'
    BY <1>2, <2>1, <2>2 DEF SendInv
  <2>4. (Kept(Now, app.put))'
    BY <1>1, <1>2, <1>3, <1>4 DEF Kept, Sent, Dropped
  <2>. QED
    BY <2>3, <2>4
<1>7. (Orderly => Incoming(Now, app.got))'
  BY <1>2, <1>3, <1>4 DEF SocketInv, Incoming, Place
<1>. QED
  BY <1>5, <1>6, <1>7 DEF SocketInv

\* Numbers of places that follow each other: the peer waits for the place after what it has.
LEMMA PeerWaits ==
    ASSUME NEW g \in 0 .. MaxBytes + 2, NEW x \in 0 .. MaxBytes + 2,
           (Isn + 1 + x) % M = (Isn + 1 + g) % M
    PROVE  x = g
<1>1. /\ 1 + x \in 0 .. MaxBytes + 4 /\ 1 + g \in 0 .. MaxBytes + 4
      /\ Isn + 1 + x = Isn + (1 + x) /\ Isn + 1 + g = Isn + (1 + g)
  BY SocketFacts
<1>2. 1 + x = 1 + g
  BY <1>1, NumbersDiffer
<1>. QED
  BY <1>2, SocketFacts

LEMMA PeerReceiveStep ==
    ASSUME SocketInv, PeerReceive
    PROVE  SocketInv' /\ Grows(peer.got, peer'.got, Len(app.put))
<1>1. /\ SocketTypeOK /\ AppInv /\ Kept(Now, app.put) /\ Now \in NowType
      /\ app.put \in Seq(Nat) /\ Len(app.put) <= MaxBytes /\ peer \in PeerType
      /\ Orderly => Incoming(Now, app.got)
  BY Before DEF SocketInv, SocketTypeOK
<1>2. PICK syn \in 0 .. 1, fins \in 0 .. 2 :
        Outgoing(Now, app.put, syn, fins) /\ (fins > 1 => app.closed)
  BY Before
<1>. DEFINE s == Sent(Now, app.put)
            g == Len(peer.got)
            p == Len(app.put)
<1>3. PICK f \in wire :
        /\ \/ /\ f.flag = "syn" /\ ~peer.connected
              /\ peer' = [peer EXCEPT !.connected = TRUE]
           \/ /\ f.flag = "fin" /\ peer.connected /\ f.seq = PeerNext /\ ~peer.fin
              /\ peer' = [peer EXCEPT !.fin = TRUE, !.count = @ + 1]
           \/ /\ f.flag = "data" /\ peer.connected /\ f.seq = PeerNext /\ ~peer.fin
              /\ peer' = [peer EXCEPT !.got = @ \o f.data, !.count = @ + Len(f.data)]
        /\ UNCHANGED <<sock, sending, resend, wire, app>>
  BY DEF PeerReceive
<1>4. /\ peer.got \in Seq(Nat) /\ peer.count \in Nat /\ peer.got = Stream(0, g)
      /\ peer.count = g + IF peer.fin THEN 1 ELSE 0
  BY <1>1 DEF PeerType, AppInv
<1>5. s \in 0 .. MaxBytes /\ g \in 0 .. s /\ p \in Nat /\ s + Len(Now.sock.frameSend) = p
  BY <1>1, <1>2, Lengths
<1>6. Len(Now.sock.frameSend) \in Nat
  BY <1>1, <1>2, Lengths
<1>7. s <= p
  <2>. DEFINE w == Len(Now.sock.frameSend)
  <2>1. w \in Nat /\ s + w = p
    BY <1>5, <1>6
  <2>. HIDE DEF w, s, p
  <2>. QED
    BY <1>5, <2>1, SocketFacts
<1>8. Numbered(f, syn, s, fins) /\ Now' = Now /\ app.opened /\ f \in PacketType
  BY <1>1, <1>2, <1>3 DEF Outgoing, AppInv, Now, SocketTypeOK
<1>9. UNCHANGED <<sock, sending, resend, wire, app>>
  BY <1>3
<1>10. ASSUME peer'.got = peer.got
       PROVE  Grows(peer.got, peer'.got, Len(app.put))
  <2>. HIDE DEF g, p, s
  <2>1. g \in Nat /\ g <= g /\ g <= p
    BY <1>5, <1>7, SocketFacts
  <2>2. peer.got = Stream(0, g) /\ peer'.got = Stream(0, g)
    BY <1>4, <1>10
  <2>. QED
    BY <2>1, <2>2 DEF Grows, p
\* What remains to be shown of the peer.
<1>11. ASSUME /\ peer' \in PeerType /\ peer'.connected /\ peer'.length = peer.length
              /\ syn = 1
              /\ peer'.got = Stream(0, Len(peer'.got))
              /\ peer'.count = Len(peer'.got) + IF peer'.fin THEN 1 ELSE 0
              /\ peer'.fin => fins > 0 /\ Len(peer'.got) = p
              /\ g <= Len(peer'.got) /\ Len(peer'.got) <= s
       PROVE  SocketInv'
  <2>1. SocketTypeOK' /\ AppInv'
    BY <1>1, <1>8, <1>9, <1>11 DEF SocketTypeOK, AppInv
  <2>2. (Outgoing(Now, app.put, syn, fins))'
    <3>1. Now' = Now /\ app'.put = app.put /\ wire' = wire
      BY <1>8, <1>9
    <3>2. /\ ~(syn = 0) /\ (peer'.fin => fins > 0 /\ Len(peer'.got) = Len(app.put))
          /\ Len(peer'.got) <= Sent(Now, app.put)
      BY <1>11
    <3>. QED
      BY <1>2, <3>1, <3>2 DEF Outgoing
  <2>3. SendInv'
    BY <1>2, <1>9, <2>2 DEF SendInv
  <2>4. (Kept(Now, app.put))'
    <3>1. \A i \in Len(peer'.got) + 1 .. s : i \in g + 1 .. s
      <4>. DEFINE h == Len(peer'.got)
      <4>1. h \in Nat /\ g <= h
        <5>1. peer'.got \in Seq(Nat)
          BY <1>11 DEF PeerType
        <5>. QED
          BY <1>11, <5>1
      <4>. HIDE DEF h, g, s
      <4>2. \A i \in h + 1 .. s : i \in g + 1 .. s
        BY <1>5, <4>1
      <4>. QED
        BY <4>2 DEF h
    <3>2. Sent(Now', app'.put) = s
      BY <1>8, <1>9
    <3>3. Kept(Now, app.put)
      BY <1>1
    <3>. QED
      BY <1>8, <1>9, <3>1, <3>2, <3>3 DEF Kept, Dropped
  <2>5. (Orderly => Incoming(Now, app.got))'
    BY <1>1, <1>8, <1>9, <1>11 DEF Incoming, Place
  <2>. QED
    BY <2>1, <2>3, <2>4, <2>5 DEF SocketInv
<1>12. CASE f.flag = "syn" /\ ~peer.connected /\ peer' = [peer EXCEPT !.connected = TRUE]
  <2>1. /\ peer' \in PeerType /\ peer'.connected /\ peer'.length = peer.length
        /\ peer'.got = peer.got /\ peer'.count = peer.count /\ peer'.fin = peer.fin
    BY <1>1, <1>12 DEF PeerType
  <2>2. syn = 1
    BY <1>8, <1>12 DEF Numbered
  <2>3. peer.fin => fins > 0 /\ g = p
    BY <1>2 DEF Outgoing
  <2>4. g <= g /\ g <= s
    BY <1>5
  <2>5. SocketInv'
    <3>. HIDE DEF p, s
    <3>. QED
      BY <1>4, <1>11, <2>1, <2>2, <2>3, <2>4
  <2>. QED
    BY <1>10, <2>1, <2>5
<1>13. ASSUME peer.connected
       PROVE  syn = 1
  BY <1>2, <1>13 DEF Outgoing
<1>14. CASE /\ f.flag = "fin" /\ peer.connected /\ f.seq = PeerNext /\ ~peer.fin
            /\ peer' = [peer EXCEPT !.fin = TRUE, !.count = @ + 1]
  <2>1. /\ peer' \in PeerType /\ peer'.connected /\ peer'.length = peer.length
        /\ peer'.got = peer.got /\ peer'.count = peer.count + 1 /\ peer'.fin
    <3>. DEFINE c == peer.count + 1
    <3>1. c \in Nat
      <4>1. peer.count \in Nat
        BY <1>4
      <4>. QED
        BY <4>1
    <3>2. peer' = [peer EXCEPT !.fin = TRUE, !.count = c]
      BY <1>14
    <3>. HIDE DEF c
    <3>3. /\ peer' \in PeerType /\ peer'.connected /\ peer'.length = peer.length
          /\ peer'.got = peer.got /\ peer'.count = c /\ peer'.fin
      BY <1>1, <1>14, <3>1, <3>2 DEF PeerType
    <3>. QED
      BY <3>3 DEF c
  <2>2. syn = 1 /\ peer.count = g
    BY <1>4, <1>13, <1>14
  <2>3. PICK k \in 0 .. fins - 1 : f.seq = (Isn + syn + s + k) % M
    BY <1>8, <1>14 DEF Numbered
  <2>. HIDE DEF s, g
  <2>4. fins > 0 /\ k \in 0 .. 1
    BY <2>3
  <2>5. (Isn + 1 + (s + k)) % M = (Isn + 1 + g) % M
    <3>1. Isn + syn + s + k = Isn + 1 + (s + k)
      BY <1>5, <2>2, <2>4, SocketFacts
    <3>. QED
      BY <1>14, <2>2, <2>3, <3>1 DEF PeerNext
  <2>6. s + k = g
    <3>1. s + k \in 0 .. MaxBytes + 2 /\ g \in 0 .. MaxBytes + 2
      BY <1>5, <2>4, SocketFacts
    <3>. QED
      BY <2>5, <3>1, PeerWaits
  <2>7. s = g
    BY <1>5, <2>4, <2>6, SocketFacts
  <2>8. g = p
    <3>1. Now.sock.frameSend = <<>>
      BY <1>2, <2>4 DEF Outgoing
    <3>2. Len(Now.sock.frameSend) = 0
      BY <3>1
    <3>. QED
      BY <1>5, <2>7, <3>2
  <2>9. SocketInv'
    <3>1. Len(peer'.got) = g
      BY <2>1 DEF g
    <3>2. g <= g /\ g <= s
      BY <1>5
    <3>. HIDE DEF p
    <3>. QED
      BY <1>4, <1>11, <2>1, <2>2, <2>4, <2>8, <3>1, <3>2
  <2>. QED
    BY <1>10, <2>1, <2>9
<1>15. CASE /\ f.flag = "data" /\ peer.connected /\ f.seq = PeerNext /\ ~peer.fin
            /\ peer' = [peer EXCEPT !.got = @ \o f.data, !.count = @ + Len(f.data)]
  <2>. DEFINE d == Len(f.data)
  <2>1. syn = 1 /\ peer.count = g /\ f.data \in Seq(Nat)
    BY <1>4, <1>8, <1>13, <1>15 DEF PacketType
  <2>2. d \in Nat
    BY <2>1
  <2>3. PICK a \in 0 .. s :
          f.seq = (Isn + 1 + a) % M /\ a + d <= s /\ f.data = Stream(a, d)
    BY <1>8, <1>15 DEF Numbered
  <2>. HIDE DEF s, d, p
  <2>4. a = g
    <3>. HIDE DEF g
    <3>1. (Isn + 1 + a) % M = (Isn + 1 + g) % M
      BY <1>15, <2>1, <2>3 DEF PeerNext
    <3>2. a \in 0 .. MaxBytes + 2 /\ g \in 0 .. MaxBytes + 2
      BY <1>5, SocketFacts
    <3>. QED
      BY <3>1, <3>2, PeerWaits
  <2>5. peer.got \o f.data = Stream(0, g + d)
    <3>1. g \in Nat /\ 0 \in Nat /\ 0 + g = g
      BY <1>5
    <3>. HIDE DEF g
    <3>2. Stream(0, g) \o Stream(0 + g, d) = Stream(0, g + d)
      BY <2>2, <3>1, StreamConcat
    <3>. QED
      BY <1>4, <2>3, <2>4, <3>1, <3>2
  <2>6. g + d \in Nat /\ g <= g + d /\ g + d <= s /\ g + d <= p /\ g \in Nat
    <3>. HIDE DEF g
    <3>. QED
      BY <1>5, <1>7, <2>2, <2>3, <2>4, SocketFacts
  <2>7. Stream(0, g + d) \in Seq(Nat) /\ Len(Stream(0, g + d)) = g + d
    <3>1. 0 \in Nat /\ g + d \in Nat
      BY <2>6
    <3>. HIDE DEF g
    <3>. QED
      BY <3>1, StreamType
  <2>8. /\ peer' \in PeerType /\ peer'.connected /\ peer'.length = peer.length
        /\ peer'.got = Stream(0, g + d) /\ peer'.count = g + d /\ ~peer'.fin
        /\ Len(peer'.got) = g + d
    <3>1. peer' = [peer EXCEPT !.got = Stream(0, g + d), !.count = g + d]
      BY <1>15, <2>1, <2>5 DEF d
    <3>. HIDE DEF g
    <3>. QED
      BY <1>1, <1>15, <2>6, <2>7, <3>1 DEF PeerType
  <2>9. SocketInv'
    <3>. HIDE DEF g
    <3>1. Len(peer'.got) + 0 = Len(peer'.got)
      BY <2>6, <2>8
    <3>. QED
      BY <1>11, <2>1, <2>6, <2>8, <3>1 DEF g
  <2>10. Grows(peer.got, peer'.got, p)
    <3>1. peer.got = Stream(0, g)
      BY <1>4
    <3>. HIDE DEF g
    <3>. QED
      BY <2>6, <2>8, <3>1 DEF Grows
  <2>. QED
    BY <2>9, <2>10 DEF p
<1>. QED
  BY <1>3, <1>12, <1>14, <1>15

LEMMA InitEstablishes ==
    ASSUME SocketInit
    PROVE  SocketInv
<1>1. /\ sock = [state |-> "none", seq |-> 0, ack |-> 0, ackProcessed |-> 0, seqReceived |-> 0,
                 resentDone |-> FALSE, timed |-> FALSE, frameSend |-> <<>>, read |-> <<>>,
                 readOffset |-> 0, fins |-> 0, gaveUp |-> FALSE]
      /\ sending = {} /\ resend = {} /\ wire = {}
  BY DEF SocketInit
<1>2. PICK l \in 0 .. MaxBytes :
        app = [opened |-> FALSE, closed |-> FALSE, put |-> <<>>, got |-> <<>>, length |-> l]
  BY DEF SocketInit
<1>3. PICK role \in {"client", "server"}, m \in {0, MaxBytes - app.length} :
        peer = [role |-> role, connected |-> FALSE, closing |-> FALSE, fin |-> FALSE,
                count |-> 0, got |-> <<>>,
                length |-> IF app.length = 0 THEN m ELSE MaxBytes - app.length]
  BY DEF SocketInit
<1>. DEFINE x == IF app.length = 0 THEN m ELSE MaxBytes - app.length
<1>4. app.length = l /\ app.put = <<>> /\ app.got = <<>> /\ ~app.opened /\ ~app.closed
  BY <1>2
<1>5. x \in 0 .. MaxBytes
  BY <1>4, SocketFacts
<1>6. /\ peer.role \in {"client", "server"} /\ peer.length = x /\ ~peer.connected /\ ~peer.fin
      /\ peer.count = 0 /\ peer.got = <<>>
  BY <1>3
<1>7. <<>> \in Seq(Nat) /\ <<>> \in Seq(Seq(Nat)) /\ Len(<<>>) = 0 /\ <<>> = Stream(0, 0)
  <2>1. Stream(0, 0) \in Seq(Nat) /\ Len(Stream(0, 0)) = 0
    BY StreamType
  <2>. QED
    BY <2>1
<1>8. SocketTypeOK
  <2>1. app \in AppType
    BY <1>2, <1>7 DEF AppType
  <2>2. peer \in PeerType
    <3>. HIDE DEF x
    <3>. QED
      BY <1>3, <1>5, <1>7 DEF PeerType, x
  <2>3. Now \in NowType /\ wire \in SUBSET PacketType
    BY <1>1, <1>7 DEF Now, NowType, SockType
  <2>. QED
    BY <2>1, <2>2, <2>3 DEF SocketTypeOK
<1>9. AppInv
  BY <1>1, <1>4, <1>5, <1>6, <1>7 DEF AppInv
<1>10. Sent(Now, app.put) = 0
  BY <1>1, <1>4, <1>7, NowFields DEF Sent
<1>11. Outgoing(Now, app.put, 1, 0)
  BY <1>1, <1>4, <1>6, <1>7, <1>10, NowFields DEF Outgoing
<1>12. SendInv
  BY <1>11 DEF SendInv
<1>13. Kept(Now, app.put)
  BY <1>6, <1>7, <1>10 DEF Kept
<1>14. Incoming(Now, app.got)
  BY <1>1, <1>4, NowFields DEF Incoming
<1>. QED
  BY <1>8, <1>9, <1>12, <1>13, <1>14 DEF SocketInv

\* What grows as part of a stream delivers a part of it.
LEMMA GrowsDelivers ==
    ASSUME NEW out, NEW next, NEW length \in Nat, Grows(out, next, length)
    PROVE  IsPrefix(out, next) /\ IsPrefix(next, Stream(0, length))
<1>1. PICK x \in Nat, y \in Nat :
        x <= y /\ y <= length /\ out = Stream(0, x) /\ next = Stream(0, y)
  BY DEF Grows
<1>. QED
  BY <1>1, StreamPrefix

\* Every step keeps the invariant, and is a step of both streams or of none.
LEMMA SocketStep ==
    ASSUME SocketInv, [Next]_vars
    PROVE  /\ SocketInv'
           /\ [ToPeer!Write \/ ToPeer!Deliver]_<<app.put, peer.got>>
           /\ Orderly => [FromPeer!Write \/ FromPeer!Deliver]_<<PeerData, app.got>>
<1>1. /\ app \in AppType /\ peer \in PeerType /\ app.put \in Seq(Nat)
      /\ app.put = Stream(0, Len(app.put)) /\ peer.length \in Nat
      /\ PeerData = Stream(0, peer.length)
  <2>1. app \in AppType /\ peer \in PeerType /\ app.put = Stream(0, Len(app.put))
    BY DEF SocketInv, SocketTypeOK, AppInv
  <2>2. app.put \in Seq(Nat) /\ peer.length \in Nat
    BY <2>1, SocketFacts DEF AppType, PeerType
  <2>3. PeerData = Stream(0, peer.length)
    <3>1. \A i \in 1 .. peer.length : 0 + i = i
      BY <2>2
    <3>. QED
      BY <3>1 DEF PeerData, Stream
  <2>. QED
    BY <2>1, <2>2, <2>3
<1>2. ASSUME app'.put = app.put, peer'.got = peer.got
      PROVE  [ToPeer!Write \/ ToPeer!Deliver]_<<app.put, peer.got>>
  BY <1>2
<1>3. ASSUME app'.got = app.got, peer'.length = peer.length
      PROVE  [FromPeer!Write \/ FromPeer!Deliver]_<<PeerData, app.got>>
  BY <1>3 DEF PeerData
<1>4. CASE UNCHANGED vars
  <2>1. /\ sock' = sock /\ sending' = sending /\ resend' = resend /\ wire' = wire
        /\ app' = app /\ peer' = peer
    BY <1>4 DEF vars
  <2>2. Now' = Now
    BY <2>1 DEF Now
  <2>3. SocketInv'
    <3>1. SocketTypeOK' /\ AppInv'
      BY <2>1, <2>2 DEF SocketInv, SocketTypeOK, AppInv
    <3>2. SendInv'
      BY <2>1, <2>2 DEF SocketInv, SendInv, Outgoing
    <3>3. (Kept(Now, app.put))' /\ (Orderly => Incoming(Now, app.got))'
      BY <2>1, <2>2 DEF SocketInv, Kept, Incoming, Dropped
    <3>. QED
      BY <3>1, <3>2, <3>3 DEF SocketInv
  <2>. QED
    BY <1>2, <1>3, <2>1, <2>3
<1>5. ASSUME app' = app, peer' = peer, SocketInv'
      PROVE  /\ [ToPeer!Write \/ ToPeer!Deliver]_<<app.put, peer.got>>
             /\ [FromPeer!Write \/ FromPeer!Deliver]_<<PeerData, app.got>>
  BY <1>2, <1>3, <1>5
<1>6. CASE Next
  <2>0. sock.gaveUp => app.length + peer.length = 0
    BY <1>6 DEF Next
  <2>1. CASE Transmit
    BY <1>5, <2>0, <2>1, TransmitStep DEF Transmit
  <2>2. CASE Retransmit
    BY <1>5, <2>0, <2>2, RetransmitStep DEF Retransmit
  <2>3. CASE SocketTimeout
    BY <1>5, <2>0, <2>3, TimeoutStep DEF SocketTimeout
  <2>4. CASE AcceptSyn
    <3>1. app' = [app EXCEPT !.opened = TRUE] /\ peer' = peer
      BY <2>4 DEF AcceptSyn
    <3>2. app'.put = app.put /\ app'.got = app.got
      BY <1>1, <3>1 DEF AppType
    <3>. QED
      BY <1>2, <1>3, <2>4, <3>1, <3>2, AcceptStep
  <2>5. CASE ReceiveData
    <3>1. app' = app /\ peer' = peer
      BY <2>5 DEF ReceiveData, ReceiveSegment
    <3>. QED
      BY <1>5, <2>0, <2>5, <3>1, DataStep
  <2>6. CASE ReceiveSynAck
    BY <1>5, <2>6, SynAckStep DEF ReceiveSynAck
  <2>7. CASE ReceiveReset
    BY <1>5, <2>7, ResetStep DEF ReceiveReset
  <2>8. CASE IPOpen
    <3>1. app' = [app EXCEPT !.opened = TRUE] /\ peer' = peer
      BY <2>8 DEF IPOpen
    <3>2. app'.put = app.put /\ app'.got = app.got
      BY <1>1, <3>1 DEF AppType
    <3>. QED
      BY <1>2, <1>3, <2>8, <3>1, <3>2, OpenStep
  <2>9. CASE IPWrite
    <3>1. PICK d : app' = [app EXCEPT !.put = app.put \o d] /\ peer' = peer
      BY <2>9 DEF IPWrite
    <3>2. app'.got = app.got
      BY <1>1, <3>1 DEF AppType
    <3>3. SocketInv' /\ IsPrefix(app.put, app'.put) /\ app'.put \in Seq(Nat)
      BY <2>9, WriteStep
    <3>4. ToPeer!Write
      BY <3>1, <3>3 DEF ToPeer!Write, ToPeer!IsPrefix, IsPrefix
    <3>. QED
      BY <1>3, <3>1, <3>2, <3>3, <3>4
  <2>10. CASE Flush
    BY <1>5, <2>10, FlushStep DEF Flush
  <2>11. CASE IPRead
    <3>1. PICK d : app' = [app EXCEPT !.got = app.got \o d] /\ peer' = peer
      BY <2>11 DEF IPRead
    <3>2. app'.put = app.put
      BY <1>1, <3>1 DEF AppType
    <3>3. SocketInv' /\ (Orderly => Grows(app.got, app'.got, peer.length))
      BY <2>0, <2>11, ReadStep
    <3>4. Orderly => FromPeer!Deliver
      <4>1. UNCHANGED PeerData
        BY <3>1 DEF PeerData
      <4>2. Orderly => IsPrefix(app.got, app'.got) /\ IsPrefix(app'.got, PeerData)
        BY <1>1, <3>3, GrowsDelivers
      <4>. QED
        BY <4>1, <4>2 DEF FromPeer!Deliver, FromPeer!IsPrefix, IsPrefix
    <3>. QED
      BY <1>2, <3>1, <3>2, <3>3, <3>4
  <2>12. CASE CloseSocket
    <3>1. app' = [app EXCEPT !.closed = TRUE] /\ peer' = peer
      BY <2>12 DEF CloseSocket
    <3>2. app'.put = app.put /\ app'.got = app.got
      BY <1>1, <3>1 DEF AppType
    <3>. QED
      BY <1>2, <1>3, <2>12, <3>1, <3>2, CloseStep
  <2>13. CASE PeerReceive
    <3>1. app' = app /\ peer'.length = peer.length
      BY <1>1, <2>13 DEF PeerReceive, PeerType
    <3>2. SocketInv' /\ Grows(peer.got, peer'.got, Len(app.put))
      BY <2>13, PeerReceiveStep
    <3>3. Len(app.put) \in Nat
      BY <1>1
    <3>4. ToPeer!Deliver
      <4>1. IsPrefix(peer.got, peer'.got) /\ IsPrefix(peer'.got, Stream(0, Len(app.put)))
        BY <3>2, <3>3, GrowsDelivers
      <4>2. IsPrefix(peer.got, peer'.got) /\ IsPrefix(peer'.got, app.put)
        BY <1>1, <4>1
      <4>. QED
        BY <3>1, <4>2 DEF ToPeer!Deliver, ToPeer!IsPrefix, IsPrefix
    <3>. QED
      BY <1>3, <3>1, <3>2, <3>4
  <2>14. CASE PeerClose
    <3>1. app' = app /\ peer' = [peer EXCEPT !.closing = TRUE]
      BY <2>14 DEF PeerClose
    <3>2. peer'.got = peer.got /\ peer'.length = peer.length
      BY <1>1, <3>1 DEF PeerType
    <3>. QED
      BY <1>2, <1>3, <2>14, <3>1, <3>2, PeerCloseStep
  <2>. QED
    BY <1>6, <2>1, <2>2, <2>3, <2>4, <2>5, <2>6, <2>7, <2>8, <2>9, <2>10, <2>11, <2>12,
       <2>13, <2>14 DEF Next
<1>. QED
  BY <1>4, <1>6

(***************************************************************************)
(* Theorems.                                                               *)
(***************************************************************************)

\* In every reachable state the frames of a connection carry what their numbers say, and what
\* the peer has not received is kept.
THEOREM SocketInvariant == Spec => []SocketInv
<1>1. SocketInit => SocketInv
  BY InitEstablishes
<1>2. SocketInv /\ [Next]_vars => SocketInv'
  BY SocketStep
<1>. QED
  BY <1>1, <1>2, PTL DEF Spec

\* Until a connection is given up, a byte the peer has not received is in a frame that will be
\* sent, or in one that was transmitted for the last time, which IPFrameReschedule has freed:
\* late acknowledgements and retransmissions free no other.
THEOREM BytesAreKept == Spec => []NothingForgotten
<1>1. SocketInv => NothingForgotten
  <2>. SUFFICES ASSUME SocketInv, ~sock.gaveUp, NEW i \in Len(peer.got) + 1 .. Len(app.put)
                PROVE  \/ i \in ToSet(sock.frameSend)
                       \/ \E f \in sending \cup resend : i \in ToSet(f.data)
                       \/ Dropped(i)
    BY DEF NothingForgotten, Dropped
  <2>1. /\ SocketTypeOK /\ Kept(Now, app.put) /\ Now \in NowType
        /\ app.put \in Seq(Nat) /\ Len(app.put) <= MaxBytes
    BY Before
  <2>2. PICK syn \in 0 .. 1, fins \in 0 .. 2 : Outgoing(Now, app.put, syn, fins)
    BY Before
  <2>. DEFINE s == Sent(Now, app.put)
              w == Len(sock.frameSend)
              p == Len(app.put)
              g == Len(peer.got)
  <2>3. /\ s \in 0 .. MaxBytes /\ w \in Nat /\ s + w = p /\ p \in Nat /\ g \in Nat
    <3>1. /\ s \in 0 .. MaxBytes /\ Len(Now.sock.frameSend) \in Nat
          /\ s + Len(Now.sock.frameSend) = p /\ p \in 0 .. MaxBytes /\ g \in 0 .. s
      BY <2>1, <2>2, Lengths
    <3>. HIDE DEF s, p, g
    <3>. QED
      BY <3>1, NowFields, SocketFacts
  <2>4. sock.frameSend = Stream(s, w)
    BY <2>2, NowFields DEF Outgoing
  <2>5. CASE i <= s
    <3>1. i \in g + 1 .. s
      <4>. HIDE DEF s, p, g
      <4>. QED
        BY <2>3, <2>5, SocketFacts DEF g, p
    <3>. QED
      BY <2>1, <3>1, NowFields DEF Kept
  <2>6. CASE i > s
    <3>1. i - s \in 1 .. w /\ s + (i - s) = i
      <4>1. i \in g + 1 .. p
        OBVIOUS
      <4>. HIDE DEF s, p, g, w
      <4>. QED
        BY <2>3, <2>6, <4>1, SocketFacts
    <3>2. i - s \in DOMAIN sock.frameSend /\ sock.frameSend[i - s] = i
      <4>. HIDE DEF s, w
      <4>. QED
        BY <2>4, <3>1 DEF Stream
    <3>. QED
      BY <3>2 DEF ToSet
  <2>7. i <= s \/ i > s
    <3>1. i \in g + 1 .. p
      OBVIOUS
    <3>. HIDE DEF s, p, g, w
    <3>. QED
      BY <2>3, <3>1, SocketFacts
  <2>. QED
    BY <2>5, <2>6, <2>7
<1>. QED
  BY <1>1, SocketInvariant, PTL

\* The peer gets the bytes the application wrote, in their order and each once, whatever the
\* network loses, repeats and reorders: the socket implements one direction of ByteStream.
THEOREM PeerStream == Spec => PeerGetsStream
<1>1. SocketInit => ToPeer!Init
  <2>. SUFFICES ASSUME SocketInit
                PROVE  ToPeer!Init
    OBVIOUS
  <2>1. app.put = <<>> /\ peer.got = <<>>
    BY DEF SocketInit
  <2>. QED
    BY <2>1 DEF ToPeer!Init
<1>2. SocketInv /\ [Next]_vars => [ToPeer!Write \/ ToPeer!Deliver]_<<app.put, peer.got>>
  BY SocketStep
<1>. QED
  BY <1>1, <1>2, SocketInvariant, PTL DEF Spec, PeerGetsStream, ToPeer!Spec, ToPeer!vars

\* The application reads the bytes the peer wrote, in their order and each once, if the
\* connection is Orderly: no SYN/ACK comes when data has, the peer repeats data that came in part
\* only in segments without its FIN, and its numbers do not wrap.
THEOREM ApplicationStream == ASSUME Orderly PROVE Spec => ApplicationGetsStream
<1>1. SocketInit => FromPeer!Init
  <2>. SUFFICES ASSUME SocketInit
                PROVE  FromPeer!Init
    OBVIOUS
  <2>0. SocketInv
    BY InitEstablishes
  <2>1. app.got = <<>>
    BY DEF SocketInit
  <2>2. peer.length \in Nat
    BY <2>0, SocketFacts DEF SocketInv, SocketTypeOK, PeerType
  <2>3. PeerData \in Seq(Nat)
    <3>1. ASSUME NEW l \in Nat
          PROVE  [i \in 1 .. l |-> i] \in Seq(Nat)
      OBVIOUS
    <3>. QED
      BY <2>2, <3>1 DEF PeerData
  <2>. QED
    BY <2>1, <2>3 DEF FromPeer!Init
<1>2. SocketInv /\ [Next]_vars => [FromPeer!Write \/ FromPeer!Deliver]_<<PeerData, app.got>>
  BY SocketStep
<1>. QED
  BY <1>1, <1>2, SocketInvariant, PTL DEF Spec, ApplicationGetsStream, FromPeer!Spec, FromPeer!vars

\* The numbers up to which has been read and acknowledged are places of the stream.
LEMMA ReadPlaces ==
    ASSUME Orderly, SocketInv, ~sock.gaveUp, sock.ack # 0
    PROVE  /\ PeerAt(sock.ack) = Place(sock.ack)
           /\ PeerAt(sock.ackProcessed) = Place(sock.ackProcessed)
<1>1. /\ sock.ack \in Nat /\ sock.ackProcessed \in Nat /\ sock.fins \in Nat
      /\ peer.length \in 0 .. MaxBytes
  BY Before DEF SockType, SocketTypeOK, PeerType
<1>2. /\ Place(sock.ackProcessed) >= 0
      /\ Place(sock.ackProcessed) <= Place(sock.ack) - sock.fins
      /\ Place(sock.ack) - sock.fins <= peer.length /\ sock.fins <= MaxFin
  BY NowFields DEF SocketInv, Incoming
<1>3. Place(sock.ack) \in Int /\ Place(sock.ackProcessed) \in Int
  BY <1>1, SocketFacts DEF Place
<1>4. /\ Place(sock.ack) \in 0 .. MaxBytes + MaxFin
      /\ Place(sock.ackProcessed) \in 0 .. MaxBytes + MaxFin
  BY <1>1, <1>2, <1>3, SocketFacts
<1>. QED
  BY <1>1, <1>4, PlaceOfNumber

\* The window is honest: what is acknowledged is what the application has read, the frames
\* that wait for it and a byte for each FIN (TCPSendPacket, IPRead), on an Orderly connection.
THEOREM AcksAreHonest == ASSUME Orderly PROVE Spec => []AckHonest
<1>1. SocketInv => AckHonest
  <2>. SUFFICES ASSUME SocketInv, ~sock.gaveUp, sock.ack # 0
                PROVE  /\ PeerAt(sock.ackProcessed) = Len(app.got) - sock.readOffset
                       /\ \E at \in [1 .. Len(sock.read) + 1 -> 0 .. peer.length] :
                            /\ at[1] = PeerAt(sock.ackProcessed)
                            /\ \A i \in DOMAIN sock.read : at[i + 1] = at[i] + Len(sock.read[i])
                            /\ at[Len(sock.read) + 1] = PeerAt(sock.ack) - sock.fins
    BY DEF AckHonest
  <2>. DEFINE r == sock.read
              L == Len(r)
              first == Place(sock.ackProcessed)
              end == Place(sock.ack) - sock.fins
              at == [i \in 1 .. L + 1 |-> IF i = L + 1 THEN end ELSE r[i][1] - 1]
  <2>1. /\ r \in Seq(Seq(Nat)) /\ sock.readOffset \in Nat /\ peer.length \in Nat
        /\ first \in Int /\ end \in Int
    <3>1. sock \in SockType /\ peer \in PeerType
      BY DEF SocketInv, SocketTypeOK, Now, NowType
    <3>2. \A z \in Nat : Place(z) \in Int
      BY SocketFacts DEF Place
    <3>3. /\ sock.read \in Seq(Seq(Nat)) /\ sock.readOffset \in Nat /\ sock.fins \in Nat
          /\ sock.ack \in Nat /\ sock.ackProcessed \in Nat
      BY <3>1 DEF SockType
    <3>4. peer.length \in Nat
      BY <3>1, SocketFacts DEF PeerType
    <3>5. Place(sock.ack) \in Int /\ Place(sock.ackProcessed) \in Int
      BY <3>2, <3>3
    <3>. QED
      BY <3>3, <3>4, <3>5
  <2>2. Incoming(Now, app.got)
    BY DEF SocketInv
  <2>3. /\ first >= 0 /\ first <= end /\ end <= peer.length
        /\ app.got = Stream(0, first + sock.readOffset)
        /\ r = <<>> => first = end
        /\ r # <<>> => Head(r)[1] = first + 1 /\ Last(r)[Len(Last(r))] = end
        /\ \A j \in DOMAIN r :
             /\ r[j] # <<>> /\ Last(r[j]) <= end
             /\ r[j] = Stream(r[j][1] - 1, Len(r[j]))
             /\ j > 1 => r[j][1] = Last(r[j - 1]) + 1
    BY <2>2, NowFields DEF Incoming
  <2>. HIDE DEF first, end
  <2>4. first = Len(app.got) - sock.readOffset
    <3>1. Len(Stream(0, first + sock.readOffset)) = first + sock.readOffset
      <4>1. first + sock.readOffset \in Nat
        BY <2>1, <2>3
      <4>. HIDE DEF first
      <4>. QED
        BY <4>1 DEF Stream
    <3>. QED
      BY <2>1, <2>3, <3>1
  <2>5. L \in Nat /\ DOMAIN r = 1 .. L /\ \A i \in 1 .. L : r[i] \in Seq(Nat)
    <3>. HIDE DEF r
    <3>. QED
      BY <2>1
  \* A frame's last byte is its first one and its length away.
  <2>6. ASSUME NEW i \in 1 .. L
        PROVE  /\ r[i][1] \in Nat /\ Len(r[i]) \in Nat \ {0}
               /\ Last(r[i]) = r[i][1] - 1 + Len(r[i])
    <3>. DEFINE d == r[i]
    <3>1. d \in Seq(Nat) /\ d # <<>> /\ d = Stream(d[1] - 1, Len(d))
      BY <2>3, <2>5
    <3>. HIDE DEF d
    <3>2. Len(d) \in Nat \ {0} /\ DOMAIN d = 1 .. Len(d)
      BY <3>1
    <3>3. d[1] \in Nat /\ 1 \in 1 .. Len(d) /\ Len(d) \in 1 .. Len(d)
      BY <3>1, <3>2
    <3>4. d[Len(d)] = d[1] - 1 + Len(d)
      BY <3>1, <3>2, <3>3 DEF Stream
    <3>5. Last(d) = d[Len(d)]
      BY DEF Last
    <3>. QED
      BY <3>2, <3>3, <3>4, <3>5 DEF d
  <2>7. L > 0 => r[1][1] = first + 1 /\ Last(r[L]) = end
    <3>. SUFFICES ASSUME L > 0
                  PROVE  r[1][1] = first + 1 /\ Last(r[L]) = end
      OBVIOUS
    <3>. HIDE DEF r
    <3>1. r # <<>> /\ Head(r) = r[1] /\ Last(r) = r[L]
      BY <2>1 DEF Last
    <3>2. Last(r[L]) = r[L][Len(r[L])]
      BY DEF Last
    <3>. QED
      BY <2>3, <3>1, <3>2
  <2>. HIDE DEF r, L
  \* Between the first frame and the last, each begins where the one before ends.
  <2>8. ASSUME NEW i \in 1 .. L
        PROVE  at[i] = r[i][1] - 1 /\ at[i + 1] = at[i] + Len(r[i]) /\ at[i + 1] <= end
    <3>1. i \in 1 .. L + 1 /\ i + 1 \in 1 .. L + 1 /\ i # L + 1
      BY <2>5
    <3>2. at[i] = r[i][1] - 1
      BY <3>1
    <3>3. Last(r[i]) = at[i] + Len(r[i]) /\ Last(r[i]) <= end
      BY <2>3, <2>5, <2>6, <3>2
    <3>4. CASE i = L
      <4>1. at[i + 1] = end
        BY <3>1, <3>4
      <4>2. Last(r[i]) = end
        BY <2>5, <2>7, <3>4
      <4>. QED
        BY <2>1, <3>2, <3>3, <4>1, <4>2
    <3>5. CASE i # L
      <4>1. i + 1 \in 1 .. L /\ i + 1 # L + 1 /\ i + 1 > 1 /\ (i + 1) - 1 = i
        BY <2>5, <3>5
      <4>2. at[i + 1] = r[i + 1][1] - 1
        BY <3>1, <4>1
      <4>3. r[i + 1][1] = Last(r[i]) + 1
        BY <2>3, <2>5, <4>1
      <4>4. Last(r[i]) \in Int
        BY <2>6
      <4>. QED
        BY <3>2, <3>3, <4>2, <4>3, <4>4
    <3>. QED
      BY <3>4, <3>5
  <2>9. at[1] = first /\ at[L + 1] = end
    <3>1. CASE L = 0
      <4>1. r = <<>>
        BY <2>1, <3>1 DEF L
      <4>. QED
        BY <2>3, <3>1, <4>1
    <3>2. CASE L # 0
      <4>1. L > 0 /\ 1 \in 1 .. L + 1 /\ L + 1 \in 1 .. L + 1 /\ L + 1 # 1
        BY <2>5, <3>2
      <4>2. at[1] = r[1][1] - 1 /\ at[L + 1] = end
        BY <4>1
      <4>3. r[1][1] = first + 1
        BY <2>7, <4>1
      <4>4. first \in Int
        BY <2>1
      <4>5. r[1][1] - 1 = first
        BY <4>3, <4>4
      <4>. QED
        BY <4>2, <4>5
    <3>. QED
      BY <3>1, <3>2
  <2>12. first \in Nat /\ end \in Nat /\ peer.length \in Nat /\ end <= peer.length
    BY <2>1, <2>3
  <2>10. at \in [1 .. L + 1 -> 0 .. peer.length]
    <3>1. ASSUME NEW i \in 1 .. L + 1
          PROVE  at[i] \in 0 .. peer.length
      <4>1. CASE i = L + 1
        BY <2>9, <2>12, <4>1
      <4>2. CASE i # L + 1
        <5>1. i \in 1 .. L
          BY <2>5, <4>2
        <5>2. /\ r[i][1] \in Nat /\ Len(r[i]) \in Nat \ {0}
              /\ r[i] \in Seq(Nat) /\ at[i] = r[i][1] - 1
          BY <2>5, <2>6, <2>8, <5>1
        <5>3. at[i] + Len(r[i]) <= end
          BY <2>8, <5>1
        <5>4. r[i][1] >= 1
          <6>1. CASE i = 1
            <7>1. r[i][1] = first + 1
              BY <2>5, <2>7, <5>1, <6>1
            <7>. QED
              BY <2>12, <7>1
          <6>2. CASE i # 1
            <7>1. i - 1 \in 1 .. L /\ i > 1
              BY <2>5, <5>1, <6>2
            <7>2. Last(r[i - 1]) \in Nat
              BY <2>6, <7>1
            <7>3. r[i][1] = Last(r[i - 1]) + 1
              BY <2>3, <2>5, <5>1, <7>1
            <7>. QED
              BY <7>2, <7>3
          <6>. QED
            BY <6>1, <6>2
        <5>. DEFINE b == r[i][1]
                    l == Len(r[i])
        <5>5. b \in Nat /\ l \in Nat \ {0} /\ b >= 1 /\ b - 1 + l <= end /\ at[i] = b - 1
          BY <5>2, <5>3, <5>4
        <5>. HIDE DEF at, b, l
        <5>. QED
          BY <2>12, <5>5
      <4>. QED
        BY <4>1, <4>2
    <3>. QED
      BY <3>1
  <2>11. \A i \in DOMAIN r : at[i + 1] = at[i] + Len(r[i])
    BY <2>5, <2>8
  <2>. HIDE DEF at
  <2>. QED
    BY <2>4, <2>9, <2>10, <2>11, ReadPlaces DEF r, L, first, end
<1>. QED
  BY <1>1, SocketInvariant, PTL

\* A FIN is counted and acknowledged only when all data before it was taken (IPProcessTCPPacket),
\* if the connection is Orderly; it need not if one comes with data that begins before ack and
\* ends behind it, or if the peer's numbers wrap.
THEOREM FinComesAfterData == ASSUME Orderly PROVE Spec => []FinAfterData
<1>1. SocketInv => FinAfterData
  <2>1. SUFFICES ASSUME SocketInv, ~sock.gaveUp, sock.fins > 0
                 PROVE  PeerAt(sock.ack) - sock.fins = peer.length
    BY DEF FinAfterData
  <2>2. Incoming(Now, app.got)
    BY <2>1 DEF SocketInv
  <2>3. sock.ack # 0
    BY <2>1, <2>2, NowFields DEF Incoming
  <2>4. PeerAt(sock.ack) = Place(sock.ack)
    BY <2>1, <2>3, ReadPlaces
  <2>. QED
    BY <2>1, <2>2, <2>3, <2>4, NowFields DEF Incoming
<1>. QED
  BY <1>1, SocketInvariant, PTL
=============================================================================
