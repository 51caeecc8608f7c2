------------------------------ MODULE IpFrames ------------------------------
(* The frames of the IP stack: a pool of buffers that move between the device,  *)
(* the network thread, the lists of frames to send and to resend, the sockets   *)
(* and the threads that use the sockets.  What is in a packet is left to        *)
(* TcpSocket and IpConfig: here a packet only decides where frames go.        *)
(*                                                                              *)
(* ip.sendFunc says how IPInit was called.  FALSE: packets pass the UART, its   *)
(* interrupt fills and empties frames, IPMainThread works on messages.  TRUE:   *)
(* the thread of the Ethernet driver does all, and who sends a frame transmits  *)
(* it himself.  The network thread has the highest priority, so each of its     *)
(* sections is one step; the steps of a socket's user can be torn apart by it.  *)
EXTENDS Integers, Sequences, FiniteSets, SequencesExt

CONSTANTS Frames,           \* the FRAME_COUNT frames of the pool
          Sockets,          \* the memory of sockets
          NULL,
          FRAME_COUNT_SYNC, FRAME_COUNT_SEND, FRAME_COUNT_RCV,
          RETRANSMIT_TIME, SOCKET_TIMEOUT,
          MaxRetry          \* 4 in the code

ASSUME FramesAssumption ==
    /\ IsFiniteSet(Frames) /\ Frames # {} /\ IsFiniteSet(Sockets)
    /\ NULL \notin Frames \cup Sockets
    /\ {"send", "resend"} \cap Sockets = {}
    /\ {FRAME_COUNT_SYNC, FRAME_COUNT_SEND, FRAME_COUNT_RCV, RETRANSMIT_TIME,
        SOCKET_TIMEOUT, MaxRetry} \subseteq Nat

VARIABLES ip,               \* frames, lists, message queue and sockets
          packetCurrent,    \* the frame a device fills: PacketCurrent or ethFrame
          packetOut,        \* UartPacketOut
          frameOut,         \* frameOut of IPMainThread
          main              \* where the network thread is in its loop

vars == <<ip, packetCurrent, packetOut, frameOut, main>>

Lists == {"send", "resend"} \cup Sockets

\* Broken variant: a queue with room for one message about each frame
BrokenQueueSize == Cardinality(Frames)

QueueSize == 2 * Cardinality(Frames)

\* IPState_e, in its order
StateRank == [none |-> 0, udp |-> 2, tcp |-> 4, finClient |-> 5, finServer |-> 6,
              closed |-> 7]

\* The user of a socket is in none of the calls that take several steps
Done == [call |-> "none", at |-> "idle"]
Idle(s) == ip.user[s] = Done

\* The frames of a list, from h along next
Chain(m, h) ==
    LET upto[n \in 0..Cardinality(Frames)] ==
            IF n = 0 THEN <<>>
            ELSE LET q == upto[n - 1]
                     f == IF q = <<>> THEN h ELSE m.next[Last(q)]
                 IN IF f = NULL THEN q ELSE Append(q, f)
    IN upto[Cardinality(Frames)]

ListFrames(m, l) == Chain(m, m.head[l])

\* The memory after a step for each member of q, unless one finds a defect
Walk(Step(_, _), m, q) ==
    LET after[i \in 0..Len(q)] ==
            IF i = 0 THEN m
            ELSE IF after[i - 1].defect # "none" THEN after[i - 1]
            ELSE Step(after[i - 1], q[i])
    IN after[Len(q)]

-----------------------------------------------------------------------------
(* Pool and lists *)

\* A frame, or NULL when no more than freeCount are left: [m |-> memory, f |-> frame]
IPFrameGet(m, freeCount) ==
    IF m.freeCount > freeCount /\ m.freeHead # NULL
    THEN [f |-> m.freeHead,
          m |-> [m EXCEPT !.freeHead = m.next[m.freeHead], !.freeCount = @ - 1,
                          !.state[m.freeHead] = 1]]
    ELSE [f |-> NULL, m |-> m]

\* assert(): the code goes on after it, the model does not
Expect(m, frame, s) ==
    IF m.state[frame] = s \/ m.defect # "none" THEN m ELSE [m EXCEPT !.defect = "assert"]

FrameFree(m, frame) ==
    [Expect(m, frame, 1) EXCEPT
        !.state[frame] = 0, !.next[frame] = m.freeHead,
        !.freeHead = frame, !.freeCount = @ + 1]

FrameInsert(m, l, frame) ==
    LET first == m.head[l]
        put   == [Expect(m, frame, 1) EXCEPT
                    !.state[frame] = 2, !.prev[frame] = NULL, !.next[frame] = first,
                    !.head[l] = frame, !.tail[l] = IF @ = NULL THEN frame ELSE @]
    IN IF first = NULL THEN put ELSE [put EXCEPT !.prev[first] = frame]

\* l only says whose head and tail are corrected
FrameRemove(m, l, frame) ==
    LET p  == m.prev[frame]
        n  == m.next[frame]
        m1 == IF p = NULL THEN [m EXCEPT !.head[l] = n] ELSE [m EXCEPT !.next[p] = n]
        m2 == IF n = NULL THEN [m1 EXCEPT !.tail[l] = p] ELSE [m1 EXCEPT !.prev[n] = p]
    IN IF m.state[frame] # 2 THEN Expect(m, frame, 2)
       ELSE [m2 EXCEPT !.state[frame] = 1, !.prev[frame] = NULL, !.next[frame] = NULL]

\* OS_MQueueSend, whose result nobody looks at
MQueueSend(m, kind, frame) ==
    IF Len(m.queue) < QueueSize
    THEN [m EXCEPT !.queue = Append(@, [kind |-> kind, frame |-> frame])]
    ELSE [m EXCEPT !.lost = IF kind = 0 THEN @ \cup {frame} ELSE @]

-----------------------------------------------------------------------------
(* Sending *)

\* Broken variant: a frame that will not be sent again is left alone
BrokenReschedule(m, frame) ==
    IF m.counted[frame] /\ m.retry[frame] < MaxRetry /\ m.sstate[m.sock[frame]] # "udp"
    THEN FrameInsert([m EXCEPT !.retry[frame] = @ + 1,
                               !.timeout[frame] = RETRANSMIT_TIME * (m.retry[frame] + 1)],
                     "resend", frame)
    ELSE m

IPFrameReschedule(m, frame) ==
    LET s == m.sock[frame] IN
    IF s = NULL \/ ~m.counted[frame] \/ m.sstate[s] = "udp"
    THEN FrameFree(m, frame)
    ELSE IF m.retry[frame] + 1 > MaxRetry
    THEN FrameFree([m EXCEPT !.retry[frame] = @ + 1], frame)
    ELSE FrameInsert([m EXCEPT !.retry[frame] = @ + 1,
                               !.timeout[frame] = RETRANSMIT_TIME * (m.retry[frame] + 1)],
                     "resend", frame)

\* The frame is sent, or left to the network thread to send
Transmit(m, frame) ==
    IF m.sendFunc THEN IPFrameReschedule(m, frame)
    ELSE MQueueSend(FrameInsert(m, "send", frame), 2, NULL)

\* A frame whose acknowledgement is awaited only if it is counted
IPSendPacket(m, s, frame, counted) ==
    [m EXCEPT !.sock[frame] = s, !.counted[frame] = counted,
              !.timeout[frame] = 0, !.retry[frame] = 0]

\* IPArp: a request that belongs to no socket
IPArp(m) ==
    LET g == IPFrameGet(m, 0) IN
    IF g.f = NULL THEN m ELSE Transmit(IPSendPacket(g.m, NULL, g.f, FALSE), g.f)

\* The MAC address is looked up, and asked for when the ARP cache has it not
ArpLookup(m, frame) ==
    LET s == m.sock[frame] IN
    IF s = NULL \/ m.macKnown[s] THEN m ELSE IPArp(m)

IPSendFrame(m, frame) == Transmit(ArpLookup(m, frame), frame)

TCPSendPacket(m, s, frame, counted) ==
    IPSendFrame(IPSendPacket(m, s, frame, counted), frame)

\* A frame is taken and sent, unless the pool is too low
Reply(m, s, freeCount, counted) ==
    LET g == IPFrameGet(m, freeCount) IN
    IF g.f = NULL THEN m ELSE TCPSendPacket(g.m, s, g.f, counted)

\* Called by the network thread while the user is in it too, the frame is sent twice
IPWriteFlush(m, s) ==
    IF m.frameSend[s] = NULL \/ m.sstate[s] = "udp" THEN m
    ELSE [TCPSendPacket([m EXCEPT !.frameSend[s] = NULL], s, m.frameSend[s], TRUE) EXCEPT
            !.defect = IF m.user[s] = Done THEN @ ELSE "flush"]

-----------------------------------------------------------------------------
(* Closing *)

Discard(m, l, frame) == FrameFree(FrameRemove(m, l, frame), frame)

\* The loops read the next frame before they free one
DiscardAll(m, l, ends, S) ==
    Walk(LAMBDA a, f: IF f \in S THEN Discard(a, ends, f) ELSE a, m, ListFrames(m, l))

OfSocket(m, l, s) == {f \in ToSet(ListFrames(m, l)) : m.sock[f] = s}

\* The first loop walks the send list and corrects the ends of the resend list
IPClose2(m, s) ==
    LET waiting == OfSocket(m, "send", s)
        m1 == DiscardAll(m, "send", "resend", waiting)
        m2 == DiscardAll(m1, "resend", "resend", OfSocket(m1, "resend", s))
        m3 == DiscardAll(m2, s, s, Frames)
    IN [m3 EXCEPT !.stimeout[s] = SOCKET_TIMEOUT, !.sstate[s] = "closed",
                  !.defect = IF waiting = {} THEN @ ELSE "close"]

\* After the flush: a FIN, unless there is no frame for it
CloseRest(m, s) ==
    LET g == IPFrameGet(m, 0) IN
    IF StateRank[m.sstate[s]] <= StateRank["udp"] THEN IPClose2(m, s)
    ELSE IF g.f = NULL THEN m
    ELSE [TCPSendPacket(g.m, s, g.f, TRUE) EXCEPT
            !.stimeout[s] = SOCKET_TIMEOUT, !.sstate[s] = "finServer"]

IPClose(m, s) == CloseRest(IPWriteFlush(m, s), s)

-----------------------------------------------------------------------------
(* The clock *)

\* OS ticks between two calls of IPTick
TickTime(m) == IF m.sendFunc THEN 50 ELSE 101

\* One frame of the resend list, ticks after the last look at it
Resend(m, frame) ==
    LET t  == m.timeout[frame] - TickTime(m) - 1
        s  == m.sock[frame]
        m1 == FrameRemove([m EXCEPT !.timeout[frame] = t], "resend", frame)
    IN IF t > 0 THEN [m EXCEPT !.timeout[frame] = t]
       ELSE IF m.retry[frame] < MaxRetry /\ StateRank[m.sstate[s]] < StateRank["closed"]
       THEN IPSendFrame(m1, frame)
       ELSE FrameFree(IF m.sstate[s] = "tcp" THEN IPClose(m1, s) ELSE m1, frame)

\* One socket, each second.  A closed one is freed, and with it the frame it was filling
\* and those that came for it since it was closed.
SocketTick(m, s) ==
    LET t  == m.stimeout[s] - 1
        m1 == [m EXCEPT !.stimeout[s] = SOCKET_TIMEOUT]
    IN IF m.stimeout[s] = 0 THEN m
       ELSE IF t > 0 THEN [m EXCEPT !.stimeout[s] = t]
       ELSE IF m.sstate[s] \in {"udp", "tcp", "finClient"} THEN IPClose(m1, s)
       ELSE IF m.sstate[s] # "closed" THEN IPClose2(m1, s)
       ELSE [m EXCEPT !.stimeout[s] = 0, !.sstate[s] = "none", !.macKnown[s] = FALSE, !.frameSend[s] = NULL,
                      !.head[s] = NULL, !.tail[s] = NULL,
                      !.lost = @ \cup ({m.frameSend[s]} \ {NULL})
                                 \cup ToSet(ListFrames(m, s))]

\* "Give application time to stop using socket": the SOCKET_TIMEOUT of a closed socket is
\* longer than a user's call and than all times a frame sent meanwhile is sent again
CloseSettled ==
    \A s \in Sockets :
       ip.sstate[s] = "closed" /\ ip.stimeout[s] = 1 =>
          /\ Idle(s)
          /\ \A f \in ToSet(ListFrames(ip, "send")) \cup ToSet(ListFrames(ip, "resend"))
                      \cup ({frameOut} \ {NULL}) : ip.sock[f] # s

IPTick(m, second) ==
    LET m1 == Walk(Resend, m, ListFrames(m, "resend"))
    IN IF second THEN Walk(SocketTick, m1, SetToSeq(Sockets)) ELSE m1

-----------------------------------------------------------------------------
(* Received packets.  Each operator gives the possible memories after a part of *)
(* the work, whatever the packet's addresses and numbers are.                   *)

\* ARP and PING replies and resets answer the packet itself
Answered(m) == {Reply(m, NULL, freeCount, FALSE) : freeCount \in {0, FRAME_COUNT_SEND}}

\* A SYN to an open port: a socket, or, without memory for it, a frame nobody returns
Accepted(m, s) ==
    LET g == IPFrameGet(m, FRAME_COUNT_SYNC) IN
    IF m.sstate[s] # "none" \/ g.f = NULL THEN {}
    ELSE {[g.m EXCEPT !.lost = @ \cup {g.f}],
          TCPSendPacket([g.m EXCEPT !.sstate[s] = "tcp", !.stimeout[s] = SOCKET_TIMEOUT,
                                    !.macKnown[s] = TRUE], s, g.f, TRUE)}

Touch(m, s) == [m EXCEPT !.stimeout[s] = IF @ = 0 THEN 0 ELSE SOCKET_TIMEOUT]

\* An acknowledgement takes frames off the resend list, which is not in the order of the stream
Acknowledged(m, s) ==
    {IF S = {} THEN m ELSE Touch(DiscardAll(m, "resend", "resend", S), s) :
       S \in SUBSET OfSocket(m, "resend", s)}

\* A repeated acknowledgement has all sent again
ResentAll(m, s) ==
    Walk(LAMBDA a, f: IF a.sock[f] = s THEN IPSendFrame(FrameRemove(a, "resend", f), f) ELSE a,
         m, ListFrames(m, "resend"))

\* Data in order goes to the reader, with an acknowledgement
DataKept(m, s, frame) ==
    Reply(FrameInsert(Touch(m, s), s, frame), s, FRAME_COUNT_SEND, FALSE)

\* A FIN is not answered without a frame; rc is then 0 though the reader may have frame
FinOutcome(m, s, rc) ==
    LET m1 == [m EXCEPT !.stimeout[s] = SOCKET_TIMEOUT] IN
    IF IPFrameGet(m, 0).f = NULL
    THEN [rc |-> 0, m |-> IF rc = 1 THEN [m1 EXCEPT !.defect = "fin"] ELSE m1]
    ELSE [rc |-> rc, m |-> [Reply(m1, s, 0, FALSE) EXCEPT
                              !.sstate[s] = IF @ = "tcp" THEN "finClient" ELSE @]]

\* A segment of an open connection
SegmentOutcomes(m0, s, frame) ==
    UNION {LET kept   == [rc |-> 1, m |-> DataKept(m, s, frame)]
               unused == {[rc |-> 0, m |-> m],
                          [rc |-> 0, m |-> Reply(m, s, FRAME_COUNT_SEND, FALSE)]}
           IN {[rc |-> 0, m |-> IPClose2(m, s)], kept} \cup unused
              \cup {FinOutcome(o.m, s, o.rc) : o \in unused \cup {kept}}
             : m \in Acknowledged(m0, s) \cup {ResentAll(m0, s)}}

\* IPProcessEthernetPacket: rc 1 when a socket has taken the frame
Outcomes(m, frame) ==
    {[rc |-> 0, m |-> n] :
        n \in {m} \cup Answered(m)
                  \cup (UNION {Accepted(m, s) : s \in Sockets})
                  \cup {[m EXCEPT !.macKnown[s] = TRUE] : s \in Sockets}}
    \cup (UNION {SegmentOutcomes(m, s, frame) :
                    s \in {t \in Sockets : StateRank[m.sstate[t]] >= StateRank["tcp"]}})
    \cup {[rc |-> 1, m |-> FrameInsert(m, s, frame)] :
            s \in {t \in Sockets : m.sstate[t] = "udp"}}

-----------------------------------------------------------------------------
(* The UART's interrupt *)

\* The length of a packet has come: UartPacketRead wants a frame, unless it has one
UartPacketStart ==
    LET g == IPFrameGet(ip, FRAME_COUNT_RCV) IN
    /\ ~ip.sendFunc /\ packetCurrent = NULL
    /\ packetCurrent' = g.f
    /\ ip' = g.m
    /\ UNCHANGED <<packetOut, frameOut, main>>

\* The last byte of a packet with a good checksum; a bad one keeps the frame
UartPacketEnd ==
    /\ ~ip.sendFunc /\ packetCurrent # NULL
    /\ ip' = MQueueSend(ip, 0, packetCurrent)
    /\ packetCurrent' = NULL
    /\ UNCHANGED <<packetOut, frameOut, main>>

\* The last byte of a frame is out
UartPacketSent ==
    /\ packetOut # NULL
    /\ packetOut' = NULL
    /\ ip' = MQueueSend(ip, 1, packetOut)
    /\ UNCHANGED <<packetCurrent, frameOut, main>>

-----------------------------------------------------------------------------
(* The network thread *)

\* What IPMainThread does next: it starts to send the oldest frame
StartSend(m, out) ==
    LET frame == m.tail["send"] IN
    IF out # NULL \/ frame = NULL
    THEN /\ ip' = m
         /\ frameOut' = out
         /\ UNCHANGED packetOut
    ELSE /\ ip' = FrameRemove(m, "send", frame)
         /\ frameOut' = frame
         /\ packetOut' = frame

\* IPMainThread takes a message, which may tell the end of a transmission ...
MainMessage ==
    /\ ~ip.sendFunc /\ main = "get" /\ ip.queue # <<>>
    /\ main' = "tick"
    /\ LET message == Head(ip.queue)
           m       == [ip EXCEPT !.queue = Tail(@)]
           sent    == IF message.frame = frameOut THEN m ELSE [m EXCEPT !.defect = "assert"]
       IN \/ /\ message.kind = 0
             /\ \E o \in Outcomes(m, message.frame) :
                   StartSend(IF o.rc = 0 THEN FrameFree(o.m, message.frame) ELSE o.m, frameOut)
          \/ /\ message.kind = 1
             /\ StartSend(IPFrameReschedule(sent, message.frame), NULL)
          \/ /\ message.kind = 2
             /\ StartSend(m, frameOut)
    /\ UNCHANGED packetCurrent

\* ... or waits for one in vain ...
MainTimeout ==
    /\ ~ip.sendFunc /\ main = "get" /\ ip.queue = <<>>
    /\ main' = "tick"
    /\ StartSend(ip, frameOut)
    /\ UNCHANGED packetCurrent

\* ... and looks at the clock
MainTick ==
    /\ main = "tick"
    /\ main' = "get"
    /\ \/ UNCHANGED ip
       \/ CloseSettled /\ ip' = IPTick(ip, TRUE)
    /\ UNCHANGED <<packetCurrent, packetOut, frameOut>>

\* EthernetThread keeps its frame until a packet is taken
EthernetGet ==
    LET g == IPFrameGet(ip, FRAME_COUNT_RCV) IN
    /\ ip.sendFunc /\ packetCurrent = NULL
    /\ packetCurrent' = g.f
    /\ ip' = g.m
    /\ UNCHANGED <<packetOut, frameOut, main>>

EthernetPacket ==
    /\ ip.sendFunc /\ packetCurrent # NULL
    /\ \E o \in Outcomes(ip, packetCurrent) :
          /\ ip' = o.m
          /\ packetCurrent' = IF o.rc = 1 THEN NULL ELSE packetCurrent
    /\ UNCHANGED <<packetOut, frameOut, main>>

\* It calls IPTick twice a second
EthernetTick ==
    /\ ip.sendFunc /\ CloseSettled
    /\ ip' = IPTick(ip, main = "half")
    /\ main' = IF main = "half" THEN "get" ELSE "half"
    /\ UNCHANGED <<packetCurrent, packetOut, frameOut>>

-----------------------------------------------------------------------------
(* The user of a socket *)

IPOpen(s) ==
    /\ Idle(s) /\ ip.sstate[s] = "none"
    /\ \/ ip' = [ip EXCEPT !.sstate[s] = "udp"]
       \/ ip' = Reply([ip EXCEPT !.sstate[s] = "tcp"], s, 0, TRUE)
    /\ UNCHANGED <<packetCurrent, packetOut, frameOut, main>>

\* IPWrite on a connection: a frame to fill; when full, or flushed, it is sent
IPWriteFill(s) ==
    LET g == IPFrameGet(ip, FRAME_COUNT_SEND) IN
    /\ Idle(s) /\ ip.sstate[s] = "tcp" /\ ip.frameSend[s] = NULL
    /\ ip' = [g.m EXCEPT !.frameSend[s] = g.f]
    /\ UNCHANGED <<packetCurrent, packetOut, frameOut, main>>

IPWriteUdp(s) ==
    /\ Idle(s) /\ ip.sstate[s] = "udp"
    /\ ip' = Reply(ip, s, FRAME_COUNT_SEND, TRUE)
    /\ UNCHANGED <<packetCurrent, packetOut, frameOut, main>>

\* IPWriteFlush by the user, alone or from IPClose: the frame is given to IPSendFrame ...
FlushStart(s) ==
    LET frame == ip.frameSend[s] IN
    /\ Idle(s) /\ frame # NULL
    /\ ip.sstate[s] \in {"tcp", "finClient"}
    /\ \E to \in {"flush", "close"} :
          ip' = [ArpLookup(IPSendPacket(ip, s, frame, TRUE), frame) EXCEPT
                   !.user[s] = [call |-> to, at |-> "send"]]
    /\ UNCHANGED <<packetCurrent, packetOut, frameOut, main>>

\* ... which sends it or lists it (EthernetTransmit may wait for the device before) ...
FlushSend(s) ==
    /\ ~Idle(s) /\ ip.user[s].at = "send"
    /\ ip' = Transmit([ip EXCEPT !.user[s].at = "sent"], ip.frameSend[s])
    /\ UNCHANGED <<packetCurrent, packetOut, frameOut, main>>

\* ... and only then is it no longer the socket's
FlushEnd(s) ==
    LET m == [ip EXCEPT !.frameSend[s] = NULL, !.user[s] = Done] IN
    /\ ~Idle(s) /\ ip.user[s].at = "sent"
    /\ ip' = IF ip.user[s].call = "close" THEN CloseRest(m, s) ELSE m
    /\ UNCHANGED <<packetCurrent, packetOut, frameOut, main>>

\* IPRead takes the oldest frame: it is freed, or tells the peer of the larger window
IPRead(s) ==
    LET frame == ip.tail[s]
        m     == FrameRemove(ip, s, frame)
    IN /\ Idle(s) /\ ip.sstate[s] # "none" /\ frame # NULL
       /\ \/ ip' = FrameFree(m, frame)
          \/ ip.sstate[s] = "tcp" /\ ip' = TCPSendPacket(m, s, frame, FALSE)
       /\ UNCHANGED <<packetCurrent, packetOut, frameOut, main>>

\* IPClose with nothing to flush
CloseSocket(s) ==
    /\ Idle(s) /\ ip.frameSend[s] = NULL
    /\ ip.sstate[s] \in {"udp", "tcp", "finClient"}
    /\ ip' = CloseRest(ip, s)
    /\ UNCHANGED <<packetCurrent, packetOut, frameOut, main>>

-----------------------------------------------------------------------------
IPInit ==
    /\ \E pool \in SetToSeqs(Frames), sendFunc \in BOOLEAN :
          ip = [sendFunc  |-> sendFunc,
                state     |-> [f \in Frames |-> 0],
                next      |-> [f \in Frames |->
                                 LET i == CHOOSE j \in DOMAIN pool : pool[j] = f
                                 IN IF i = Len(pool) THEN NULL ELSE pool[i + 1]],
                prev      |-> [f \in Frames |-> NULL],
                sock      |-> [f \in Frames |-> NULL],
                counted   |-> [f \in Frames |-> FALSE],
                timeout   |-> [f \in Frames |-> 0],
                retry     |-> [f \in Frames |-> 0],
                head      |-> [l \in Lists |-> NULL],
                tail      |-> [l \in Lists |-> NULL],
                freeHead  |-> pool[1],
                freeCount |-> Len(pool),
                queue     |-> <<>>,
                sstate    |-> [s \in Sockets |-> "none"],
                stimeout  |-> [s \in Sockets |-> 0],
                macKnown  |-> [s \in Sockets |-> FALSE],
                frameSend |-> [s \in Sockets |-> NULL],
                user      |-> [s \in Sockets |-> Done],
                lost      |-> {},
                defect    |-> "none"]
    /\ packetCurrent = NULL
    /\ packetOut = NULL
    /\ frameOut = NULL
    /\ main = "get"

Network ==
    \/ UartPacketStart \/ UartPacketEnd \/ UartPacketSent
    \/ MainMessage \/ MainTimeout \/ MainTick
    \/ EthernetGet \/ EthernetPacket \/ EthernetTick

User(s) ==
    \/ IPOpen(s) \/ IPWriteFill(s) \/ IPWriteUdp(s)
    \/ FlushStart(s) \/ FlushSend(s) \/ FlushEnd(s)
    \/ IPRead(s) \/ CloseSocket(s)

\* ip.defect says how the code has lost its way, and nothing is said of what comes then: an
\* assertion failed ("assert"), a user and the network thread have sent the same frame ("flush"),
\* IPClose2 has corrected the ends of the wrong list ("close"), or a frame that was given to a
\* reader is freed too, for want of another to acknowledge its FIN ("fin")
Next == ip.defect = "none" /\ (Network \/ \E s \in Sockets : User(s))

Spec == IPInit /\ [][Next]_vars

-----------------------------------------------------------------------------
(* Properties *)

Placed(S) == S \ {NULL}

FreeFrames == ToSet(Chain(ip, ip.freeHead))

\* Frames that a thread, a device or a message has, and no list
Held ==
    Placed({packetCurrent, frameOut})
    \cup {msg.frame : msg \in {n \in ToSet(ip.queue) : n.kind = 0}}
    \cup Placed({ip.frameSend[s] : s \in {t \in Sockets : ip.user[t].at # "sent"}}) \cup ip.lost

\* Every frame is in one place, and its state says in which kind: the pool, a list, or the
\* hands of one holder; the links of the lists agree in both directions (the asserts of
\* FrameFree, FrameInsert and FrameRemove).  A frame is lost only where MQueueSend,
\* Accepted and SocketTick say so.
FramesSound ==
    /\ ip.defect # "assert"
    /\ ip.defect = "none" =>
      /\ ip.freeCount = Cardinality(FreeFrames)
      /\ \A f \in Frames :
            LET at == {l \in Lists : f \in ToSet(ListFrames(ip, l))} IN
            \/ ip.state[f] = 0 /\ f \in FreeFrames /\ at = {} /\ f \notin Held
            \/ ip.state[f] = 1 /\ f \notin FreeFrames /\ at = {} /\ f \in Held
            \/ ip.state[f] = 2 /\ f \notin FreeFrames /\ Cardinality(at) = 1 /\ f \notin Held
            \/ f \in ip.lost /\ f \notin FreeFrames /\ at = {}
      /\ \A l \in Lists :
            LET q == ListFrames(ip, l) IN
            /\ ip.tail[l] = IF q = <<>> THEN NULL ELSE Last(q)
            /\ \A i \in DOMAIN q : ip.prev[q[i]] = IF i = 1 THEN NULL ELSE q[i - 1]

\* The network thread waits for the end of a transmission only if that will be told
TransmitterAlive ==
    frameOut # NULL =>
      packetOut = frameOut \/ [kind |-> 1, frame |-> frameOut] \in ToSet(ip.queue)

\* The message queue never fills up: its senders do not look whether a message was taken, and
\* a frame in a lost one would be gone (UartPacketRead), or the transmitter never told that it
\* may go on (UartPacketWrite)
MessagesTaken == ip.defect = "none" => Len(ip.queue) < QueueSize /\ TransmitterAlive

\* IPClose2 "removes pending packets": none that is free is left in the list to send
PendingRemoved ==
    \A f \in ToSet(ListFrames(ip, "send")) : ip.state[f] = 2
=============================================================================
