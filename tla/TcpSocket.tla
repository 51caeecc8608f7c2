----------------------------- MODULE TcpSocket -----------------------------
(* One TCP connection of the IP stack and its peer, across a network that       *)
(* loses, repeats and reorders.  The peer is a correct TCP: at any time a       *)
(* segment may arrive that it could have sent until now, so no packet on the    *)
(* way to the stack needs a place.  Frames the stack has transmitted stay in    *)
(* wire and may arrive at any time.  How frames are listed is IpFrames' matter;  *)
(* here sending are this socket's frames in the list to send, and resend those  *)
(* whose acknowledgement is awaited, both in no order, which the network does   *)
(* not keep either.                                                             *)
EXTENDS Integers, Sequences, FiniteSets, SequencesExt

CONSTANTS M,                \* sequence numbers are counted modulo M; 2^32 in the code
          Isn, PeerIsn,     \* initial sequence numbers
          MaxBytes,         \* bytes that are written, by the application and the peer
          Mss,              \* bytes in a frame; 512 in the code
          RECEIVE_WINDOW,
          MaxRetry,         \* 4 in the code
          MaxFin,           \* FIN segments that are looked at, of each side
          FinMerges,        \* the peer may repeat data that came in part with its FIN in one segment
          LateSynAck        \* the network may deliver a SYN/ACK again when data has come

\* The numbers of a connection are less than half the circle apart
ASSUME SocketAssumption ==
    /\ {M, Isn, PeerIsn, MaxBytes, Mss, RECEIVE_WINDOW, MaxRetry, MaxFin}
         \subseteq Nat
    /\ {FinMerges, LateSynAck} \subseteq BOOLEAN /\ Isn < M /\ PeerIsn < M
    /\ 2 * (MaxBytes + 5) < M

\* What the checks of IPProcessTCPPacket rely on: neither of these, and a peer whose numbers do
\* not wrap.  Otherwise a FIN is counted before the data it ends, or the stream begins anew.
Orderly ==
    ~FinMerges /\ ~LateSynAck /\ PeerIsn + MaxBytes + MaxFin + 2 < M

VARIABLES sock,             \* the socket
          sending, resend,  \* its frames
          wire,             \* frames that were transmitted, and whether data was for the last time
          app,              \* what the application has written and read, and whether it closed
          peer              \* what the peer has received, and whether it has closed

vars == <<sock, sending, resend, wire, app, peer>>

\* The socket and its frames, as one value: the handlers change several parts one after another
Now == [sock |-> sock, sending |-> sending, resend |-> resend]
Becomes(n) == sock' = n.sock /\ sending' = n.sending /\ resend' = n.resend

\* The application writes the bytes 1..app.length, the peer the bytes 1..peer.length
PeerData == [i \in 1..peer.length |-> i]

\* (int)(a - b) >= 0
NotBefore(a, b) == (a - b) % M < M \div 2

\* The number of the peer's first byte, and the positions in its stream
First == (PeerIsn + 1) % M
PeerAt(number) == (number - First) % M

-----------------------------------------------------------------------------
(* Sending *)

\* The socket's numbers go into the frame; data, SYN and FIN wait for an acknowledgement
TCPSendPacket(n, flag, data) ==
    [n EXCEPT !.sending = @ \cup
        {[seq |-> n.sock.seq, flag |-> flag, data |-> data, retry |-> 0,
          seqEnd |-> (n.sock.seq + IF flag = "data" THEN Len(data) ELSE 1) % M]}]

\* Broken variant: the sequence number stays
BrokenFlush(n) ==
    IF n.sock.frameSend = <<>> THEN n
    ELSE [TCPSendPacket(n, "data", n.sock.frameSend) EXCEPT
            !.sock.frameSend = <<>>]

IPWriteFlush(n) ==
    IF n.sock.frameSend = <<>> THEN n
    ELSE [TCPSendPacket(n, "data", n.sock.frameSend) EXCEPT
            !.sock.seq = (@ + Len(n.sock.frameSend)) % M, !.sock.frameSend = <<>>]

\* Broken variant: nothing measures the time a closed socket is still used
BrokenClose2(n) ==
    [sock    |-> [n.sock EXCEPT !.read = <<>>, !.gaveUp = TRUE, !.timed = FALSE, !.state = "closed"],
     sending |-> {},
     resend  |-> {}]

IPClose2(n) ==
    [sock    |-> [n.sock EXCEPT !.read = <<>>, !.gaveUp = TRUE, !.timed = TRUE, !.state = "closed"],
     sending |-> {},
     resend  |-> {}]

\* Without a frame for the FIN the socket is left as it is
IPClose(n, frame) ==
    LET flushed == IPWriteFlush(n) IN
    IF ~frame THEN flushed
    ELSE [TCPSendPacket(flushed, "fin", <<>>) EXCEPT
            !.sock.seq = (@ + 1) % M, !.sock.timed = TRUE, !.sock.state = "finServer"]

\* The frame is transmitted for the last time: the duplicate acknowledgement that has it sent
\* again does not count how often it was
LastTime(f) == f.retry + 1 > MaxRetry

\* The network thread has transmitted a frame: IPFrameReschedule.  After the last time it is
\* freed, whether it was acknowledged or not, and the connection goes on.
Transmit ==
    \E f \in sending :
       LET n == [Now EXCEPT !.sending = @ \ {f}] IN
       /\ Becomes(IF LastTime(f) THEN n
                  ELSE [n EXCEPT !.resend = @ \cup {[f EXCEPT !.retry = @ + 1]}])
       /\ wire' = wire \cup {[seq |-> f.seq, flag |-> f.flag, data |-> f.data,
                               last |-> f.flag = "data" /\ LastTime(f)]}
       /\ UNCHANGED <<app, peer>>

\* IPTick: the time of a frame is over
Retransmit ==
    \E f \in resend, frame \in BOOLEAN :
       LET n == [Now EXCEPT !.resend = @ \ {f}] IN
       /\ Becomes(IF f.retry < MaxRetry /\ sock.state # "closed"
                  THEN [n EXCEPT !.sending = @ \cup {f}]
                  ELSE [IF sock.state = "tcp" THEN IPClose(n, frame) ELSE n EXCEPT
                          !.sock.gaveUp = TRUE])
       /\ UNCHANGED <<wire, app, peer>>

\* IPTick: the socket's time is over.  A frame for the FIN may be missing; each try is as good.
SocketTimeout ==
    /\ sock.timed
    /\ IF sock.state \in {"tcp", "finClient"} THEN Becomes(IPClose(Now, TRUE))
       ELSE IF sock.state # "closed" THEN Becomes(IPClose2(Now))
       ELSE /\ sending = {} /\ resend = {} /\ app.closed
            /\ sock' = [sock EXCEPT !.state = "none", !.timed = FALSE, !.frameSend = <<>>,
                                    !.read = <<>>]
            /\ UNCHANGED <<sending, resend>>
    /\ UNCHANGED <<wire, app, peer>>

-----------------------------------------------------------------------------
(* Received segments *)

\* A SYN for the listening port, which no socket has answered yet
AcceptSyn ==
    /\ peer.role = "client" /\ sock.state = "none" /\ ~app.opened
    /\ LET accepted == [sock EXCEPT !.state = "tcp", !.timed = TRUE, !.seq = Isn,
                                    !.seqReceived = Isn, !.ack = First,
                                    !.ackProcessed = First]
           sent     == TCPSendPacket([Now EXCEPT !.sock = accepted], "syn", <<>>)
       IN Becomes([sent EXCEPT !.sock.seq = (Isn + 1) % M])
    /\ app' = [app EXCEPT !.opened = TRUE]
    /\ UNCHANGED <<wire, peer>>

\* Broken variant: a frame whose last byte is not acknowledged is given up too
BrokenUnacked(n, ack) == {f \in n.resend : ~NotBefore(ack + 1, f.seqEnd)}

\* What of resend an acknowledgement leaves
Unacked(n, ack) == {f \in n.resend : ~NotBefore(ack, f.seqEnd)}

\* A new acknowledgement, old ones among them, or, once, a sign that a packet was lost
Acknowledge(n, ack, pure) ==
    IF ack # n.sock.seqReceived
    THEN [n EXCEPT !.resend = Unacked(n, ack), !.sock.seqReceived = ack,
                   !.sock.resentDone = FALSE]
    ELSE IF pure /\ ~n.sock.resentDone
    THEN [n EXCEPT !.sending = @ \cup n.resend, !.resend = {}, !.sock.resentDone = TRUE]
    ELSE n

\* Broken variant: data that came already is taken again
BrokenTakeData(n, seq, data) ==
    IF data = <<>> \/ ~(n.sock.ack >= seq) THEN n
    ELSE [n EXCEPT !.sock.read = Append(@, data), !.sock.ack = (@ + Len(data)) % M]

TakeData(n, seq, data) ==
    IF data = <<>> \/ n.sock.ack # seq THEN n
    ELSE [n EXCEPT !.sock.read = Append(@, data), !.sock.ack = (@ + Len(data)) % M]

\* A FIN that came already is counted again; one that gets no frame for its answer is not
TakeFin(n, seq, fin, frame) ==
    IF ~fin \/ ~(n.sock.ack >= seq) THEN n
    ELSE IF ~frame THEN [n EXCEPT !.sock.timed = TRUE]
    ELSE [n EXCEPT !.sock.timed = TRUE, !.sock.ack = (@ + 1) % M, !.sock.fins = @ + 1,
                   !.sock.state = IF @ = "tcp" THEN "finClient" ELSE @]

\* Acknowledgements of the peer may be late ones
PeerAcks == {(Isn + 1 + i) % M : i \in 0..peer.count}

\* The positions up to which the window has ever let the peer send, from its first on
Offered == RECEIVE_WINDOW + IF sock.ackProcessed = 0 THEN 0 ELSE PeerAt(sock.ackProcessed)

\* A segment without SYN: data from position at on, or none, and the peer's FIN
ReceiveSegment(at, data, fin, frame) ==
    /\ sock.state # "none" /\ peer.connected
    /\ ~fin => frame
    /\ fin => peer.closing /\ at + Len(data) = peer.length /\ sock.fins < MaxFin
    /\ fin => FinMerges \/ PeerAt(sock.ack) \notin at + 1 .. peer.length - 1
    /\ data # <<>> /\ fin => frame        \* or the data is lost: IpFrames, defect "fin"
    /\ \E ack \in PeerAcks :
          LET seq == (First + at) % M IN
          Becomes(TakeFin(TakeData(Acknowledge(Now, ack, data = <<>> /\ ~fin), seq, data),
                          seq, fin, frame))
    /\ UNCHANGED <<wire, app, peer>>

ReceiveData ==
    \E at \in 0..peer.length, n \in 0..Mss, fin, frame \in BOOLEAN :
       /\ at + n <= peer.length /\ at + n <= Offered
       /\ ReceiveSegment(at, SubSeq(PeerData, at + 1, at + n), fin, frame)

\* SYN/ACK: the peer's numbers begin, in any state of the socket, so a late one begins them anew
ReceiveSynAck ==
    /\ peer.role = "server" /\ peer.connected /\ sock.state # "none"
    /\ LateSynAck \/ (sock.ack \in {0, First} /\ app.got = <<>> /\ sock.read = <<>>)
    /\ \E pure \in BOOLEAN :
          LET n == Acknowledge(Now, (Isn + 1) % M, pure) IN
          Becomes([n EXCEPT !.sock.ack = First, !.sock.ackProcessed = First])
    /\ UNCHANGED <<wire, app, peer>>

ReceiveReset ==
    /\ sock.state # "none" /\ peer.connected
    /\ \E ack \in PeerAcks : Becomes(IPClose2(Acknowledge(Now, ack, FALSE)))
    /\ UNCHANGED <<wire, app, peer>>

-----------------------------------------------------------------------------
(* The application *)

IPOpen ==
    /\ peer.role = "server" /\ ~app.opened
    /\ LET opened == [sock EXCEPT !.state = "tcp", !.seq = Isn, !.seqReceived = 0] IN
       \E frame \in BOOLEAN :
          Becomes(IF frame
                  THEN [TCPSendPacket([Now EXCEPT !.sock = opened], "syn", <<>>) EXCEPT
                          !.sock.seq = (@ + 1) % M]
                  ELSE [Now EXCEPT !.sock = opened])
    /\ app' = [app EXCEPT !.opened = TRUE]
    /\ UNCHANGED <<wire, peer>>

\* IPWrite puts bytes into the frame that waits, and sends it when it is full.  The
\* applications write when they are called back: for a SYN that was accepted at once, for a
\* SYN of their own when it is acknowledged.
IPWrite ==
    \E n \in 1..Mss :
       LET from == Len(app.put)
           data == [i \in 1..n |-> from + i]
           m    == [Now EXCEPT !.sock.frameSend = @ \o data]
       IN /\ sock.state = "tcp" /\ ~app.closed
          /\ peer.role = "client" \/ sock.seqReceived # 0
          /\ Len(sock.frameSend) + n <= Mss /\ from + n <= app.length
          /\ Becomes(IF Len(sock.frameSend) + n = Mss THEN IPWriteFlush(m) ELSE m)
          /\ app' = [app EXCEPT !.put = @ \o data]
          /\ UNCHANGED <<wire, peer>>

Flush ==
    /\ sock.frameSend # <<>> /\ ~app.closed
    /\ Becomes(IPWriteFlush(Now))
    /\ UNCHANGED <<wire, app, peer>>

\* Broken variant: only the bytes of the last call are counted
BrokenFrameRead ==
    [sock EXCEPT !.readOffset = 0, !.read = Tail(@),
                 !.ackProcessed = (@ + Len(Head(sock.read)) - sock.readOffset) % M]

FrameRead ==
    [sock EXCEPT !.readOffset = 0, !.read = Tail(@),
                 !.ackProcessed = (@ + Len(Head(sock.read))) % M]

\* IPRead, one frame of its loop: the oldest frame is freed when all of it has been read
IPRead ==
    \E n \in 1..Mss :
       LET frame == Head(sock.read)
           rest  == Len(frame) - sock.readOffset
           bytes == IF n < rest THEN n ELSE rest
       IN /\ sock.state # "none" /\ sock.read # <<>> /\ ~app.closed
          /\ app' = [app EXCEPT !.got =
                       @ \o SubSeq(frame, sock.readOffset + 1, sock.readOffset + bytes)]
          /\ sock' = IF bytes < rest THEN [sock EXCEPT !.readOffset = @ + bytes]
                     ELSE FrameRead
          /\ UNCHANGED <<sending, resend, wire, peer>>

\* The application does not know whether the socket was closed for it
CloseSocket ==
    /\ app.opened /\ ~app.closed /\ sock.state # "none"
    /\ Becomes(IPClose(Now, TRUE))
    /\ app' = [app EXCEPT !.closed = TRUE]
    /\ UNCHANGED <<wire, peer>>

-----------------------------------------------------------------------------
(* The peer *)

\* The next number the peer waits for
PeerNext == (Isn + 1 + peer.count) % M

PeerReceive ==
    \E f \in wire :
       /\ \/ /\ f.flag = "syn" /\ ~peer.connected
             /\ peer' = [peer EXCEPT !.connected = TRUE]
          \/ /\ f.flag = "fin" /\ peer.connected /\ f.seq = PeerNext /\ ~peer.fin
             /\ peer' = [peer EXCEPT !.fin = TRUE, !.count = @ + 1]
          \/ /\ f.flag = "data" /\ peer.connected /\ f.seq = PeerNext /\ ~peer.fin
             /\ peer' = [peer EXCEPT !.got = @ \o f.data, !.count = @ + Len(f.data)]
       /\ UNCHANGED <<sock, sending, resend, wire, app>>

\* Bound: a peer to which only the application writes does not close
PeerClose ==
    /\ peer.length = 0 => app.length = 0
    /\ peer.connected /\ ~peer.closing
    /\ peer' = [peer EXCEPT !.closing = TRUE]
    /\ UNCHANGED <<sock, sending, resend, wire, app>>

-----------------------------------------------------------------------------
SocketInit ==
    /\ sock = [state |-> "none", seq |-> 0, ack |-> 0, ackProcessed |-> 0, seqReceived |-> 0,
               resentDone |-> FALSE, timed |-> FALSE, frameSend |-> <<>>, read |-> <<>>,
               readOffset |-> 0, fins |-> 0, gaveUp |-> FALSE]
    /\ sending = {} /\ resend = {} /\ wire = {}
    /\ app \in {[opened |-> FALSE, closed |-> FALSE, put |-> <<>>, got |-> <<>>,
                length |-> n] : n \in 0..MaxBytes}
    /\ \E role \in {"client", "server"}, m \in {0, MaxBytes - app.length} :
          peer = [role |-> role, connected |-> FALSE, closing |-> FALSE, fin |-> FALSE,
                  count |-> 0, got |-> <<>>, length |-> IF app.length = 0 THEN m ELSE MaxBytes - app.length]

\* A connection that carries bytes is followed until it is given up
Next ==
  /\ sock.gaveUp => app.length + peer.length = 0
  /\ \/ Transmit \/ Retransmit \/ SocketTimeout
     \/ AcceptSyn \/ ReceiveData \/ ReceiveSynAck \/ ReceiveReset
     \/ IPOpen \/ IPWrite \/ Flush \/ IPRead \/ CloseSocket
     \/ PeerReceive \/ PeerClose

\* The network thread transmits and looks at the clock again and again
Spec == SocketInit /\ [][Next]_vars
        /\ WF_vars(Transmit) /\ WF_vars(Retransmit) /\ WF_vars(SocketTimeout)
        /\ WF_vars(CloseSocket)

-----------------------------------------------------------------------------
(* Properties *)

\* Whatever the network loses, repeats and reorders, the peer gets the bytes the application wrote,
\* in their order (the numbers TCPSendPacket, IPWriteFlush and IPClose give the frames) ...
ToPeer == INSTANCE ByteStream WITH Byte <- Nat, in <- app.put, out <- peer.got
PeerGetsStream == ToPeer!Spec

\* ... and, if it is Orderly, the application reads the bytes the peer wrote (the checks of
\* IPProcessTCPPacket and the offsets of IPRead).  It need not after a late SYN/ACK, nor if a FIN
\* is counted too early: FinAfterData.
FromPeer == INSTANCE ByteStream WITH Byte <- Nat, in <- PeerData, out <- app.got
ApplicationGetsStream == FromPeer!Spec

\* Until the connection is given up, a byte the peer has not received is in a frame that will
\* be sent (again), or its frame has been transmitted as often as it may be: acknowledgements, late
\* ones too, free no other (tcpip.c 790-801).  Such a frame IPFrameReschedule frees without closing
\* the connection (tcpip.c 355-358), which waits in vain for its acknowledgement.
NothingForgotten ==
    ~sock.gaveUp =>
      \A i \in Len(peer.got) + 1 .. Len(app.put) :
         \/ i \in ToSet(sock.frameSend)
         \/ \E f \in sending \cup resend : i \in ToSet(f.data)
         \/ \E f \in wire : f.last /\ i \in ToSet(f.data)

\* If it is Orderly, the stack acknowledges what it has, a byte for each FIN it saw, and its
\* window counts what the application has read: the frames that wait follow each other from
\* ackProcessed, whatever the application has read of the first, to ack
AckHonest ==
    ~sock.gaveUp /\ sock.ack # 0 =>
      /\ PeerAt(sock.ackProcessed) = Len(app.got) - sock.readOffset
      /\ \E at \in [1 .. Len(sock.read) + 1 -> 0 .. peer.length] :
            /\ at[1] = PeerAt(sock.ackProcessed)
            /\ \A i \in DOMAIN sock.read : at[i + 1] = at[i] + Len(sock.read[i])
            /\ at[Len(sock.read) + 1] = PeerAt(sock.ack) - sock.fins

\* A FIN is acknowledged only when all data before it was taken (IPProcessTCPPacket compares
\* only, and as numbers that do not wrap, where the segment with the FIN begins)
FinAfterData ==
    ~sock.gaveUp /\ sock.fins > 0 => PeerAt(sock.ack) - sock.fins = peer.length

\* A connection that is being closed is freed in the end, if frames for its FIN are there and
\* its peer falls silent (IPTick)
ClosedIsFreed ==
    sock.state \in {"finServer", "closed"} /\ app.length + peer.length = 0 ~>
      sock.state = "none"
=============================================================================
