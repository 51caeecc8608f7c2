--------------------------- MODULE IpFramesProofs ---------------------------
(***************************************************************************)
(* Proofs about the frames of the IP stack, for any number of frames and   *)
(* sockets: each frame is in one place, the links of the lists agree, and  *)
(* the queue of messages refuses none.                                     *)
(***************************************************************************)
EXTENDS IpFrames, ListLemmas, FiniteSetTheorems

-----------------------------------------------------------------------------
(* The memory *)

Link == Frames \cup {NULL}

Message == [kind : 0 .. 2, frame : Link]

Defects == {"none", "assert", "close", "flush", "fin"}

SocketState == {"none", "udp", "tcp", "finClient", "finServer", "closed"}

UserState == [call : {"none", "flush", "close"}, at : {"idle", "send", "sent"}]

Mem ==
    [sendFunc  : BOOLEAN,
     state     : [Frames -> 0 .. 2],
     next      : [Frames -> Link],
     prev      : [Frames -> Link],
     sock      : [Frames -> Sockets \cup {NULL}],
     counted   : [Frames -> BOOLEAN],
     timeout   : [Frames -> Int],
     retry     : [Frames -> Nat],
     head      : [Lists -> Link],
     tail      : [Lists -> Link],
     freeHead  : Link,
     freeCount : Int,
     queue     : Seq(Message),
     sstate    : [Sockets -> SocketState],
     stimeout  : [Sockets -> Nat],
     macKnown  : [Sockets -> BOOLEAN],
     frameSend : [Sockets -> Link],
     user      : [Sockets -> UserState],
     lost      : SUBSET Frames,
     defect    : Defects]

\* The defects the code has, after which nothing is said of the frames
Bad(m) == m \in Mem /\ m.defect \in {"close", "flush", "fin"}

\* The fields that say where frames are, the marks on them, and those about sockets
SameLists(m, n) == n.head = m.head /\ n.tail = m.tail /\ n.prev = m.prev

SamePool(m, n) == n.freeHead = m.freeHead /\ n.freeCount = m.freeCount

SamePlaces(m, n) ==
    /\ SameLists(m, n) /\ SamePool(m, n)
    /\ n.state = m.state /\ n.next = m.next /\ n.lost = m.lost

SameMarks(m, n) ==
    /\ n.sock = m.sock /\ n.counted = m.counted /\ n.timeout = m.timeout /\ n.retry = m.retry

SameUsers(m, n) == n.sendFunc = m.sendFunc /\ n.frameSend = m.frameSend /\ n.user = m.user

SameSockets(m, n) ==
    /\ n.sstate = m.sstate /\ n.stimeout = m.stimeout /\ n.macKnown = m.macKnown
    /\ SameUsers(m, n)

LEMMA FieldTypes ==
    ASSUME NEW m \in Mem
    PROVE  /\ m.state \in [Frames -> 0 .. 2]
           /\ m.next \in [Frames -> Link] /\ m.prev \in [Frames -> Link]
           /\ m.head \in [Lists -> Link] /\ m.tail \in [Lists -> Link]
           /\ m.freeHead \in Link /\ m.freeCount \in Int
           /\ m.sock \in [Frames -> Sockets \cup {NULL}]
           /\ m.counted \in [Frames -> BOOLEAN]
           /\ m.timeout \in [Frames -> Int] /\ m.retry \in [Frames -> Nat]
           /\ m.queue \in Seq(Message) /\ m.lost \in SUBSET Frames /\ m.defect \in Defects
           /\ m.sstate \in [Sockets -> SocketState] /\ m.stimeout \in [Sockets -> Nat]
           /\ m.macKnown \in [Sockets -> BOOLEAN] /\ m.frameSend \in [Sockets -> Link]
           /\ m.user \in [Sockets -> UserState]
           /\ m.sendFunc \in BOOLEAN
  BY DEF Mem

\* Links that are written
LEMMA WriteFrames ==
    ASSUME NEW m \in Mem, NEW st \in [Frames -> 0 .. 2], NEW nx \in [Frames -> Link],
           NEW pv \in [Frames -> Link], NEW hd \in [Lists -> Link], NEW tl \in [Lists -> Link]
    PROVE  [m EXCEPT !.state = st, !.prev = pv, !.next = nx, !.head = hd, !.tail = tl] \in Mem
  BY DEF Mem

\* assert()
LEMMA ExpectFields ==
    ASSUME NEW m \in Mem, NEW f, NEW s, NEW n, n = Expect(m, f, s)
    PROVE  /\ n \in Mem
           /\ SamePlaces(m, n) /\ SameMarks(m, n) /\ SameSockets(m, n) /\ n.queue = m.queue
           /\ m.state[f] = s \/ m.defect # "none" => n = m
<1>1. CASE n = m
  BY <1>1 DEF SamePlaces, SameLists, SamePool, SameMarks, SameSockets, SameUsers
<1>2. CASE n = [m EXCEPT !.defect = "assert"] /\ ~ (m.state[f] = s \/ m.defect # "none")
  <2>1. n \in Mem
    BY <1>2, ZenonT(60) DEF Mem, Defects
  <2>. QED
    BY <1>2, <2>1 DEF Mem, SamePlaces, SameLists, SamePool, SameMarks, SameSockets, SameUsers
<1>. QED
  BY <1>1, <1>2 DEF Expect

\* FrameFree
Frees(m, n, f) ==
    /\ n \in Mem
    /\ n.state = [m.state EXCEPT ![f] = 0]
    /\ n.next = [m.next EXCEPT ![f] = m.freeHead]
    /\ n.freeHead = f /\ n.freeCount = m.freeCount + 1
    /\ SameLists(m, n) /\ SameMarks(m, n) /\ SameSockets(m, n)
    /\ n.queue = m.queue /\ n.lost = m.lost
    /\ m.state[f] = 1 \/ m.defect # "none" => n.defect = m.defect

LEMMA FreeFields ==
    ASSUME NEW m \in Mem, NEW f \in Frames, NEW n, n = FrameFree(m, f)
    PROVE  Frees(m, n, f)
<1>. DEFINE e == Expect(m, f, 1)
<1>0. /\ e \in Mem /\ SamePlaces(m, e) /\ SameMarks(m, e) /\ SameSockets(m, e)
      /\ e.queue = m.queue
      /\ m.state[f] = 1 \/ m.defect # "none" => e = m
  BY ExpectFields
<1>. DEFINE st == [m.state EXCEPT ![f] = 0]
            nx == [m.next EXCEPT ![f] = m.freeHead]
            fc == m.freeCount + 1
<1>1. n = [e EXCEPT !.state[f] = 0, !.next[f] = m.freeHead, !.freeHead = f, !.freeCount = @ + 1]
  BY DEF FrameFree
<1>. HIDE DEF e
<1>2. st \in [Frames -> 0 .. 2] /\ nx \in [Frames -> Link] /\ fc \in Int /\ f \in Link
  BY FieldTypes DEF Link
<1>3. n = [e EXCEPT !.state = st, !.next = nx, !.freeHead = f, !.freeCount = fc]
  BY <1>0, <1>1 DEF SamePlaces, SamePool
<1>. HIDE DEF st, nx, fc
<1>4. n \in Mem
  BY <1>0, <1>2, <1>3, ZenonT(60) DEF Mem
<1>5. /\ n.state = st /\ n.next = nx /\ n.freeHead = f /\ n.freeCount = fc
      /\ SameLists(e, n) /\ SameMarks(e, n) /\ SameSockets(e, n)
      /\ n.queue = e.queue /\ n.lost = e.lost /\ n.defect = e.defect
  BY <1>0, <1>3 DEF Mem, SameLists, SameMarks, SameSockets, SameUsers
<1>6. SameLists(m, n) /\ SameMarks(m, n) /\ SameSockets(m, n) /\ n.queue = m.queue /\ n.lost = m.lost
  BY <1>0, <1>5 DEF SamePlaces, SameLists, SameMarks, SameSockets, SameUsers
<1>. QED
  BY <1>0, <1>4, <1>5, <1>6 DEF Frees, st, nx, fc

\* FrameInsert
Inserted(m, n, l, f) ==
    /\ n.state = [m.state EXCEPT ![f] = 2]
    /\ n.next = [m.next EXCEPT ![f] = m.head[l]]
    /\ n.prev = IF m.head[l] = NULL THEN [m.prev EXCEPT ![f] = NULL]
                ELSE [[m.prev EXCEPT ![f] = NULL] EXCEPT ![m.head[l]] = f]
    /\ n.head = [m.head EXCEPT ![l] = f]
    /\ n.tail = [m.tail EXCEPT ![l] = IF m.tail[l] = NULL THEN f ELSE m.tail[l]]
    /\ SamePool(m, n) /\ SameMarks(m, n) /\ SameSockets(m, n)
    /\ n.queue = m.queue /\ n.lost = m.lost

LEMMA InsertFields ==
    ASSUME NEW m \in Mem, NEW l \in Lists, NEW f \in Frames, NEW n, n = FrameInsert(m, l, f)
    PROVE  /\ n \in Mem /\ Inserted(m, n, l, f)
           /\ m.state[f] = 1 \/ m.defect # "none" => n.defect = m.defect
<1>. DEFINE e == Expect(m, f, 1)
<1>0. /\ e \in Mem /\ SamePlaces(m, e) /\ SameMarks(m, e) /\ SameSockets(m, e)
      /\ e.queue = m.queue
      /\ m.state[f] = 1 \/ m.defect # "none" => e = m
  BY ExpectFields
<1>. DEFINE first == m.head[l]
            st == [m.state EXCEPT ![f] = 2]
            nx == [m.next EXCEPT ![f] = first]
            pf == [m.prev EXCEPT ![f] = NULL]
            pv == IF first = NULL THEN pf ELSE [pf EXCEPT ![first] = f]
            hd == [m.head EXCEPT ![l] = f]
            tl == [m.tail EXCEPT ![l] = IF @ = NULL THEN f ELSE @]
            put == [e EXCEPT !.state[f] = 2, !.prev[f] = NULL, !.next[f] = first,
                             !.head[l] = f, !.tail[l] = IF @ = NULL THEN f ELSE @]
<1>1. n = IF first = NULL THEN put ELSE [put EXCEPT !.prev[first] = f]
  BY DEF FrameInsert
<1>2. /\ st \in [Frames -> 0 .. 2] /\ nx \in [Frames -> Link] /\ pv \in [Frames -> Link]
      /\ hd \in [Lists -> Link] /\ tl \in [Lists -> Link]
  <2>0. f \in Link /\ NULL \in Link /\ first \in Link /\ (first # NULL => first \in Frames)
    BY FieldTypes DEF Link
  <2>. HIDE DEF e, first
  <2>1. st \in [Frames -> 0 .. 2] /\ nx \in [Frames -> Link]
    BY <2>0, FieldTypes
  <2>2. pf \in [Frames -> Link]
    BY <2>0, FieldTypes
  <2>3. pv \in [Frames -> Link]
    <3>. HIDE DEF pf
    <3>. QED BY <2>0, <2>2
  <2>4. hd \in [Lists -> Link]
    BY <2>0, FieldTypes
  <2>5. tl \in [Lists -> Link]
    <3>. DEFINE t == IF m.tail[l] = NULL THEN f ELSE m.tail[l]
    <3>1. t \in Link /\ m.tail \in [Lists -> Link]
      BY <2>0, FieldTypes
    <3>. HIDE DEF t
    <3>2. [m.tail EXCEPT ![l] = t] \in [Lists -> Link]
      BY <3>1
    <3>. QED BY <3>2 DEF t
  <2>. QED
    BY <2>1, <2>3, <2>4, <2>5
<1>3. put = [e EXCEPT !.state = st, !.prev = pf, !.next = nx, !.head = hd, !.tail = tl]
  BY <1>0 DEF SamePlaces, SameLists
<1>. HIDE DEF e, st, nx, pf, hd, tl, first
<1>4. n = [e EXCEPT !.state = st, !.prev = pv, !.next = nx, !.head = hd, !.tail = tl]
  <2>1. CASE first = NULL
    BY <1>1, <1>3, <2>1
  <2>2. CASE first # NULL
    <3>1. n = [[e EXCEPT !.state = st, !.prev = pf, !.next = nx, !.head = hd, !.tail = tl]
                 EXCEPT !.prev[first] = f]
      BY <1>1, <1>3, <2>2
    <3>. QED
      BY <3>1, <2>2, <1>0 DEF Mem
  <2>. QED
    BY <2>1, <2>2
<1>. HIDE DEF pv
<1>5. n \in Mem
  <2>1. e \in Mem
    BY <1>0
  <2>2. [e EXCEPT !.state = st, !.prev = pv, !.next = nx, !.head = hd, !.tail = tl] \in Mem
    BY <1>2, <2>1, WriteFrames, Zenon
  <2>. QED
    BY <1>4, <2>2
<1>6. /\ n.state = st /\ n.next = nx /\ n.prev = pv /\ n.head = hd /\ n.tail = tl
      /\ SamePool(e, n) /\ SameMarks(e, n) /\ SameSockets(e, n)
      /\ n.queue = e.queue /\ n.lost = e.lost /\ n.defect = e.defect
  BY <1>0, <1>4 DEF Mem, SamePool, SameMarks, SameSockets, SameUsers
<1>7. SamePool(m, n) /\ SameMarks(m, n) /\ SameSockets(m, n) /\ n.queue = m.queue /\ n.lost = m.lost
  BY <1>0, <1>6 DEF SamePlaces, SamePool, SameMarks, SameSockets, SameUsers
<1>. QED
  BY <1>0, <1>5, <1>6, <1>7 DEF st, nx, pv, pf, hd, tl, first, Inserted

\* FrameRemove
Removed(m, n, l, f, p, x) ==
    /\ n.state = [m.state EXCEPT ![f] = 1]
    /\ n.next = IF p = NULL THEN [m.next EXCEPT ![f] = NULL]
                ELSE [[m.next EXCEPT ![p] = x] EXCEPT ![f] = NULL]
    /\ n.prev = IF x = NULL THEN [m.prev EXCEPT ![f] = NULL]
                ELSE [[m.prev EXCEPT ![x] = p] EXCEPT ![f] = NULL]
    /\ n.head = IF p = NULL THEN [m.head EXCEPT ![l] = x] ELSE m.head
    /\ n.tail = IF x = NULL THEN [m.tail EXCEPT ![l] = p] ELSE m.tail

LEMMA RemoveFields ==
    ASSUME NEW m \in Mem, NEW l \in Lists, NEW f \in Frames, NEW n, n = FrameRemove(m, l, f),
           NEW p, p = m.prev[f], NEW x, x = m.next[f]
    PROVE  /\ n \in Mem
           /\ SamePool(m, n) /\ SameMarks(m, n) /\ SameSockets(m, n)
           /\ n.queue = m.queue /\ n.lost = m.lost
           /\ m.state[f] = 2 => Removed(m, n, l, f, p, x)
           /\ m.state[f] = 2 \/ m.defect # "none" => n.defect = m.defect
<1>. DEFINE nx0 == IF p = NULL THEN m.next ELSE [m.next EXCEPT ![p] = x]
            pv0 == IF x = NULL THEN m.prev ELSE [m.prev EXCEPT ![x] = p]
            nx  == [nx0 EXCEPT ![f] = NULL]
            pv  == [pv0 EXCEPT ![f] = NULL]
            hd  == IF p = NULL THEN [m.head EXCEPT ![l] = x] ELSE m.head
            tl  == IF x = NULL THEN [m.tail EXCEPT ![l] = p] ELSE m.tail
            st  == [m.state EXCEPT ![f] = 1]
            m1  == IF p = NULL THEN [m EXCEPT !.head[l] = x] ELSE [m EXCEPT !.next[p] = x]
            m2  == IF x = NULL THEN [m1 EXCEPT !.tail[l] = p] ELSE [m1 EXCEPT !.prev[x] = p]
            k   == [m EXCEPT !.state = st, !.prev = pv, !.next = nx, !.head = hd, !.tail = tl]
<1>1. CASE m.state[f] # 2
  <2>1. n = Expect(m, f, 2)
    BY <1>1 DEF FrameRemove
  <2>2. /\ n \in Mem
        /\ SamePlaces(m, n) /\ SameMarks(m, n) /\ SameSockets(m, n) /\ n.queue = m.queue
        /\ m.state[f] = 2 \/ m.defect # "none" => n = m
    BY <2>1, ExpectFields
  <2>. QED
    BY <1>1, <2>2 DEF SamePlaces
<1>2. CASE m.state[f] = 2
  <2>1. n = [m2 EXCEPT !.state[f] = 1, !.prev[f] = NULL, !.next[f] = NULL]
    BY <1>2 DEF FrameRemove
  <2>2. m1 = [m EXCEPT !.head = hd, !.next = nx0]
    BY DEF Mem
  <2>. HIDE DEF m1
  <2>3. m2 = [m EXCEPT !.head = hd, !.next = nx0, !.tail = tl, !.prev = pv0]
    <3>. HIDE DEF hd, nx0
    <3>1. m1.tail = m.tail /\ m1.prev = m.prev
      BY <2>2 DEF Mem
    <3>2. CASE x = NULL
      <4>1. m2 = [m1 EXCEPT !.tail = tl] /\ pv0 = m.prev
        BY <3>1, <3>2
      <4>. HIDE DEF m2, tl, pv0
      <4>. QED BY <2>2, <4>1 DEF Mem
    <3>3. CASE x # NULL
      <4>1. m2 = [m1 EXCEPT !.prev = pv0] /\ tl = m.tail
        BY <3>1, <3>3
      <4>. HIDE DEF m2, tl, pv0
      <4>. QED BY <2>2, <4>1 DEF Mem
    <3>. QED
      BY <3>2, <3>3
  <2>. HIDE DEF hd, nx0, tl, pv0, m2
  <2>4. m2.state = m.state /\ m2.prev = pv0 /\ m2.next = nx0
    BY <2>3 DEF Mem
  <2>5. n = [m2 EXCEPT !.state = st, !.prev = pv, !.next = nx]
    BY <2>1, <2>4
  <2>. HIDE DEF st, pv, nx
  <2>6. n = k
    BY <2>3, <2>5 DEF Mem
  <2>7. st \in [Frames -> 0 .. 2] /\ nx \in [Frames -> Link] /\ pv \in [Frames -> Link]
        /\ hd \in [Lists -> Link] /\ tl \in [Lists -> Link]
    <3>1. NULL \in Link /\ p \in Link /\ x \in Link
      BY FieldTypes DEF Link
    <3>2. nx0 \in [Frames -> Link] /\ pv0 \in [Frames -> Link]
      BY <3>1, FieldTypes DEF nx0, pv0
    <3>3. nx \in [Frames -> Link] /\ pv \in [Frames -> Link]
      BY <3>1, <3>2 DEF nx, pv
    <3>4. hd \in [Lists -> Link] /\ tl \in [Lists -> Link]
      BY <3>1, FieldTypes DEF hd, tl
    <3>5. st \in [Frames -> 0 .. 2]
      BY FieldTypes DEF st
    <3>. QED
      BY <3>3, <3>4, <3>5
  <2>8. n \in Mem
    <3>1. k \in Mem
      BY <2>7, WriteFrames, Zenon
    <3>. QED
      BY <2>6, <3>1
  <2>9. /\ n.state = st /\ n.next = nx /\ n.prev = pv /\ n.head = hd /\ n.tail = tl
        /\ SamePool(m, n) /\ SameMarks(m, n) /\ SameSockets(m, n)
        /\ n.queue = m.queue /\ n.lost = m.lost /\ n.defect = m.defect
    BY <2>6 DEF Mem, SamePool, SameMarks, SameSockets, SameUsers
  <2>. QED
    BY <2>8, <2>9 DEF st, nx, pv, hd, tl, nx0, pv0, Removed
<1>. QED
  BY <1>1, <1>2

\* IPFrameGet
Gets(m, g) ==
    /\ g.f = m.freeHead /\ m.freeHead \in Frames
    /\ g.m \in Mem
    /\ g.m.state = [m.state EXCEPT ![g.f] = 1]
    /\ g.m.freeHead = m.next[g.f] /\ g.m.freeCount = m.freeCount - 1
    /\ g.m.next = m.next
    /\ SameLists(m, g.m) /\ SameMarks(m, g.m) /\ SameSockets(m, g.m)
    /\ g.m.queue = m.queue /\ g.m.lost = m.lost /\ g.m.defect = m.defect

LEMMA GetFields ==
    ASSUME NEW m \in Mem, NEW c \in Nat, NEW g, g = IPFrameGet(m, c)
    PROVE  (g.f = NULL /\ g.m = m) \/ Gets(m, g)
<1>1. CASE ~ (m.freeCount > c /\ m.freeHead # NULL)
  BY <1>1 DEF IPFrameGet
<1>2. CASE m.freeCount > c /\ m.freeHead # NULL
  <2>. DEFINE f == m.freeHead
              n == [m EXCEPT !.freeHead = m.next[m.freeHead], !.freeCount = @ - 1,
                             !.state[m.freeHead] = 1]
              st == [m.state EXCEPT ![f] = 1]
              fh == m.next[f]
              fc == m.freeCount - 1
  <2>1. g.f = f /\ g.m = n /\ f \in Frames
    BY <1>2, FieldTypes DEF IPFrameGet, Link
  <2>2. n = [m EXCEPT !.freeHead = fh, !.freeCount = fc, !.state = st]
    OBVIOUS
  <2>3. st \in [Frames -> 0 .. 2] /\ fh \in Link /\ fc \in Int
    BY <2>1, FieldTypes
  <2>. HIDE DEF st, fh, fc, n, f
  <2>4. n \in Mem
    BY <2>2, <2>3 DEF Mem
  <2>5. /\ n.state = st /\ n.freeHead = fh /\ n.freeCount = fc /\ n.next = m.next
        /\ SameLists(m, n) /\ SameMarks(m, n) /\ SameSockets(m, n)
        /\ n.queue = m.queue /\ n.lost = m.lost /\ n.defect = m.defect
    BY <2>2 DEF Mem, SameLists, SameMarks, SameSockets, SameUsers
  <2>. QED
    BY <2>1, <2>4, <2>5 DEF Gets, st, fh, fc, f
<1>. QED
  BY <1>1, <1>2

\* IPSendPacket
LEMMA PacketFields ==
    ASSUME NEW m \in Mem, NEW s \in Sockets \cup {NULL}, NEW f \in Frames, NEW c \in BOOLEAN,
           NEW n, n = IPSendPacket(m, s, f, c)
    PROVE  /\ n \in Mem
           /\ n.sock = [m.sock EXCEPT ![f] = s]
           /\ SamePlaces(m, n) /\ SameSockets(m, n) /\ n.queue = m.queue /\ n.defect = m.defect
<1>. DEFINE sk == [m.sock EXCEPT ![f] = s]
            ct == [m.counted EXCEPT ![f] = c]
            tm == [m.timeout EXCEPT ![f] = 0]
            rt == [m.retry EXCEPT ![f] = 0]
<1>1. n = [m EXCEPT !.sock = sk, !.counted = ct, !.timeout = tm, !.retry = rt]
  BY DEF IPSendPacket
<1>2. /\ sk \in [Frames -> Sockets \cup {NULL}] /\ ct \in [Frames -> BOOLEAN]
      /\ tm \in [Frames -> Int] /\ rt \in [Frames -> Nat]
  BY FieldTypes
<1>. HIDE DEF sk, ct, tm, rt
<1>3. n \in Mem
  BY <1>1, <1>2, ZenonT(60) DEF Mem
<1>4. /\ n.sock = sk
      /\ SamePlaces(m, n) /\ SameSockets(m, n) /\ n.queue = m.queue /\ n.defect = m.defect
  BY <1>1 DEF Mem, SamePlaces, SameLists, SamePool, SameSockets, SameUsers
<1>. QED
  BY <1>3, <1>4 DEF sk

\* The messages of the queue, and after them some that only wake the network thread
More(q, r) ==
    /\ Len(q) <= Len(r)
    /\ \A i \in 1 .. Len(q) : r[i] = q[i]
    /\ \A i \in Len(q) + 1 .. Len(r) : r[i].kind = 2

LEMMA MoreSame == ASSUME NEW q \in Seq(Message) PROVE More(q, q)
  BY DEF More

LEMMA MoreMore ==
    ASSUME NEW q \in Seq(Message), NEW r \in Seq(Message), NEW t \in Seq(Message),
           More(q, r), More(r, t)
    PROVE  More(q, t)
<1>1. Len(q) \in Nat /\ Len(r) \in Nat /\ Len(t) \in Nat
  OBVIOUS
<1>2. \A i \in Len(q) + 1 .. Len(t) : i \in Len(q) + 1 .. Len(r) \/ i \in Len(r) + 1 .. Len(t)
  BY <1>1
<1>3. \A i \in Len(q) + 1 .. Len(r) : i \in 1 .. Len(r)
  BY <1>1
<1>4. \A i \in 1 .. Len(q) : i \in 1 .. Len(r)
  BY <1>1 DEF More
<1>5. Len(q) <= Len(t)
  BY <1>1 DEF More
<1>6. \A i \in 1 .. Len(q) : t[i] = q[i]
  BY <1>4 DEF More
<1>7. \A i \in Len(q) + 1 .. Len(r) : t[i].kind = 2
  BY <1>3 DEF More
<1>8. \A i \in Len(r) + 1 .. Len(t) : t[i].kind = 2
  BY DEF More
<1>. QED
  BY <1>2, <1>5, <1>6, <1>7, <1>8 DEF More

\* OS_MQueueSend
LEMMA SendFields ==
    ASSUME NEW m \in Mem, NEW kind \in 0 .. 2, NEW f \in Frames \cup {NULL}, kind = 0 => f \in Frames,
           NEW n, n = MQueueSend(m, kind, f)
    PROVE  /\ n \in Mem
           /\ SameLists(m, n) /\ SamePool(m, n) /\ SameMarks(m, n) /\ SameSockets(m, n)
           /\ n.state = m.state /\ n.next = m.next /\ n.defect = m.defect
           /\ \/ n.queue = Append(m.queue, [kind |-> kind, frame |-> f]) /\ n.lost = m.lost
              \/ n.queue = m.queue /\ n.lost = IF kind = 0 THEN m.lost \cup {f} ELSE m.lost
<1>. DEFINE qu == Append(m.queue, [kind |-> kind, frame |-> f])
            ls == IF kind = 0 THEN m.lost \cup {f} ELSE m.lost
<1>1. qu \in Seq(Message) /\ ls \in SUBSET Frames
  <2>1. [kind |-> kind, frame |-> f] \in Message
    BY DEF Message, Link
  <2>. QED
    BY <2>1, FieldTypes
<1>2. n = [m EXCEPT !.queue = qu] \/ n = [m EXCEPT !.lost = ls]
  BY DEF MQueueSend
<1>. HIDE DEF qu, ls
<1>3. CASE n = [m EXCEPT !.queue = qu]
  <2>1. n \in Mem
    BY <1>1, <1>3 DEF Mem
  <2>2. /\ SameLists(m, n) /\ SamePool(m, n) /\ SameMarks(m, n) /\ SameSockets(m, n)
        /\ n.state = m.state /\ n.next = m.next /\ n.defect = m.defect
        /\ n.queue = qu /\ n.lost = m.lost
    BY <1>3 DEF Mem, SameLists, SamePool, SameMarks, SameSockets, SameUsers
  <2>. QED
    BY <2>1, <2>2 DEF qu
<1>4. CASE n = [m EXCEPT !.lost = ls]
  <2>1. n \in Mem
    BY <1>1, <1>4 DEF Mem
  <2>2. /\ SameLists(m, n) /\ SamePool(m, n) /\ SameMarks(m, n) /\ SameSockets(m, n)
        /\ n.state = m.state /\ n.next = m.next /\ n.defect = m.defect
        /\ n.queue = m.queue /\ n.lost = ls
    BY <1>4 DEF Mem, SameLists, SamePool, SameMarks, SameSockets, SameUsers
  <2>. QED
    BY <2>1, <2>2 DEF ls
<1>. QED
  BY <1>2, <1>3, <1>4

-----------------------------------------------------------------------------
(* Where frames are *)

\* Each frame of q points to the next, and to the one before
Chained(next, q) ==
    \A i \in 1 .. Len(q) : next[q[i]] = IF i = Len(q) THEN NULL ELSE q[i + 1]

Back(prev, q) ==
    \A i \in 1 .. Len(q) : prev[q[i]] = IF i = 1 THEN NULL ELSE q[i - 1]

First(q) == IF q = <<>> THEN NULL ELSE q[1]
Final(q) == IF q = <<>> THEN NULL ELSE q[Len(q)]

\* The frames of list l are q, from the head to the tail and back
Links(m, l, q) ==
    /\ q \in Seq(Frames) /\ IsInjective(q)
    /\ m.head[l] = First(q) /\ m.tail[l] = Final(q)
    /\ Chained(m.next, q) /\ Back(m.prev, q)

\* Those of the pool are q
PoolLinks(m, q) ==
    /\ q \in Seq(Frames) /\ IsInjective(q)
    /\ m.freeCount = Len(q) /\ m.freeHead = First(q)
    /\ Chained(m.next, q)

\* Places of a frame
Pool == <<"pool", "pool">>
Hand == <<"hand", "hand">>
Gone == <<"gone", "gone">>
InList(l) == <<"list", l>>
OwnedBy(s) == <<"own", s>>

LEMMA PlacesDiffer ==
    /\ Pool # Hand /\ Pool # Gone /\ Hand # Gone
    /\ \A l : InList(l) \notin {Pool, Hand, Gone} /\ OwnedBy(l) \notin {Pool, Hand, Gone}
    /\ \A l, s : InList(l) # OwnedBy(s)
    /\ \A l, k : (InList(l) = InList(k) \/ OwnedBy(l) = OwnedBy(k)) => l = k
  BY DEF Pool, Hand, Gone, InList, OwnedBy

\* The frame that the user of a socket fills, or has given to IPSendFrame and not yet sent
Owns(m, s, f) == m.frameSend[s] = f /\ m.user[s].at # "sent"

\* Where says where each frame is: in the pool, in a list, in the hands E of the network
\* thread, the device or a message, in those of a socket's user, or gone for ever.
Located(m, L, P, Where, E) ==
    \A f \in Frames :
        /\ Where[f] \in {Pool, Hand, Gone} \cup {InList(l) : l \in Lists} \cup {OwnedBy(s) : s \in Sockets}
        /\ Where[f] = Pool <=> f \in Range(P)
        /\ Where[f] = Hand <=> f \in E
        /\ Where[f] = Gone <=> f \in m.lost
        /\ \A l \in Lists : Where[f] = InList(l) <=> f \in Range(L[l])
        /\ \A s \in Sockets : Where[f] = OwnedBy(s) <=> Owns(m, s, f)

\* The state of a frame tells in which kind of place it is, unless it is gone
StatesRight(m, Where) ==
    \A f \in Frames :
        /\ Where[f] = Pool <=> m.state[f] = 0
        /\ \A l \in Lists : Where[f] = InList(l) => m.state[f] = 2
        /\ Where[f] = Hand => m.state[f] = 1
        /\ \A s \in Sockets : Where[f] = OwnedBy(s) => m.state[f] = 1

\* What waits to be sent again is a socket's, and who sends has a frame to send
SocketsRight(m, L) ==
    /\ \A f \in Range(L["resend"]) : m.sock[f] \in Sockets
    /\ \A s \in Sockets : m.user[s].at = "send" => m.frameSend[s] # NULL

Sound(m, L, P, Where, E) ==
    /\ L \in [Lists -> Seq(Frames)]
    /\ \A l \in Lists : Links(m, l, L[l])
    /\ PoolLinks(m, P)
    /\ Located(m, L, P, Where, E)
    /\ StatesRight(m, Where)
    /\ SocketsRight(m, L)

Good(m, E) ==
    /\ m \in Mem /\ m.defect = "none" /\ E \subseteq Frames
    /\ \E L, P, Where : Sound(m, L, P, Where, E)

In(m, l) == {f \in Frames : f \in Range(ListFrames(m, l))}

-----------------------------------------------------------------------------
(* Reading a list *)

FrameCount == Cardinality(Frames)

LEMMA FrameCountNat == FrameCount \in Nat /\ FrameCount # 0
  BY FramesAssumption, FS_CardinalityType, FS_EmptySet DEF FrameCount

\* One frame more of the chain from h
Longer(m, h, q) ==
    LET f == IF q = <<>> THEN h ELSE m.next[Last(q)]
    IN IF f = NULL THEN q ELSE Append(q, f)

LEMMA LongerType ==
    ASSUME NEW m \in Mem, NEW h \in Link, NEW q \in Seq(Frames)
    PROVE  Longer(m, h, q) \in Seq(Frames)
<1>. DEFINE f == IF q = <<>> THEN h ELSE m.next[Last(q)]
<1>1. f \in Link
  <2>1. CASE q = <<>>
    BY <2>1
  <2>2. CASE q # <<>>
    <3>1. Last(q) \in Frames
      BY <2>2 DEF Last
    <3>. QED
      BY <2>2, <3>1, FieldTypes
  <2>. QED BY <2>1, <2>2
<1>2. f # NULL => f \in Frames
  BY <1>1 DEF Link
<1>. HIDE DEF f
<1>3. (IF f = NULL THEN q ELSE Append(q, f)) \in Seq(Frames)
  BY <1>2
<1>. QED
  BY <1>3 DEF f, Longer

\* What the first steps along a chain may have found
LEMMA ChainRule ==
    ASSUME NEW m \in Mem, NEW h \in Link,
           NEW I \in [0 .. FrameCount -> SUBSET Seq(Frames)], <<>> \in I[0],
           \A i \in 1 .. FrameCount : \A q \in I[i - 1] : Longer(m, h, q) \in I[i]
    PROVE  Chain(m, h) \in I[FrameCount]
<1>. DEFINE n == FrameCount
            T == Seq(Frames)
            step == [i \in 1 .. n |-> [q \in T |-> Longer(m, h, q)]]
            Is(g) == g = [i \in 0 .. n |-> IF i = 0 THEN <<>> ELSE Longer(m, h, g[i - 1])]
            upto == CHOOSE g : Is(g)
<1>1. Chain(m, h) = upto[n]
  BY DEF Chain, Longer, FrameCount
<1>2. n \in Nat /\ step \in [1 .. n -> [T -> T]]
  <2>. HIDE DEF n
  <2>. QED
    BY FrameCountNat, LongerType DEF n
<1>3. \A i \in 1 .. n : \A q \in I[i - 1] : step[i][q] \in I[i]
  <2>. SUFFICES ASSUME NEW i \in 1 .. n, NEW q \in I[i - 1]
                PROVE  step[i][q] \in I[i]
    OBVIOUS
  <2>1. q \in T
    <3>1. i - 1 \in 0 .. n
      BY <1>2
    <3>. QED
      BY <3>1
  <2>. QED
    BY <2>1
<1>4. PICK g : Solves(g, n, T, I, <<>>, step)
  <2>1. I \in [0 .. n -> SUBSET T]
    OBVIOUS
  <2>2. Closed(n, I, step)
    BY <1>3 DEF Closed
  <2>. HIDE DEF step, T, n
  <2>. QED
    BY <1>2, <2>1, <2>2, FiniteRecursion
<1>4a. /\ g \in [0 .. n -> T]
       /\ g[0] = <<>>
       /\ \A i \in 1 .. n : g[i] = step[i][g[i - 1]]
       /\ \A i \in 0 .. n : g[i] \in I[i]
  BY <1>4 DEF Solves
<1>5. Is(g)
  <2>1. \A i \in 0 .. n : g[i] = IF i = 0 THEN <<>> ELSE Longer(m, h, g[i - 1])
    <3>. SUFFICES ASSUME NEW i \in 0 .. n, i # 0
                  PROVE  g[i] = Longer(m, h, g[i - 1])
      BY <1>4a
    <3>1. i \in 1 .. n /\ i - 1 \in 0 .. n
      BY <1>2
    <3>2. g[i - 1] \in T
      BY <1>4a, <3>1
    <3>. HIDE DEF n, T
    <3>. QED
      BY <1>4a, <3>1, <3>2
  <2>. HIDE DEF n, T
  <2>. QED
    BY <1>4a, <2>1
<1>6. Is(upto)
  BY <1>5, Zenon
<1>7. \A i \in 0 .. n : upto[i] = g[i]
  <2>. DEFINE S == {i \in 0 .. n : upto[i] = g[i]}
  <2>. HIDE DEF upto, n
  <2>1. 0 \in S
    BY <1>2, <1>5, <1>6
  <2>2. ASSUME NEW i \in 1 .. n, i - 1 \in S
        PROVE  i \in S
    <3>1. i \in 0 .. n /\ i - 1 \in 0 .. n /\ i # 0
      BY <1>2
    <3>. QED
      BY <1>5, <1>6, <2>2, <3>1
  <2>. HIDE DEF S
  <2>3. \A i \in 0 .. n : i \in S
    BY <1>2, <2>1, <2>2, CountUp
  <2>. QED
    BY <2>3 DEF S
<1>8. n \in 0 .. n
  BY <1>2
<1>. HIDE DEF n, upto
<1>9. Chain(m, h) = g[n] /\ g[n] \in I[n]
  BY <1>1, <1>4a, <1>7, <1>8
<1>. QED
  BY <1>9 DEF n

LEMMA ChainType ==
    ASSUME NEW m \in Mem, NEW h \in Link
    PROVE  Chain(m, h) \in Seq(Frames)
<1>. DEFINE I == [i \in 0 .. FrameCount |-> Seq(Frames)]
<1>1. \A i \in 1 .. FrameCount : i \in 0 .. FrameCount /\ i - 1 \in 0 .. FrameCount
  BY FrameCountNat
<1>2. 0 \in 0 .. FrameCount /\ FrameCount \in 0 .. FrameCount
  BY FrameCountNat
<1>3. \A i \in 1 .. FrameCount : \A q \in I[i - 1] : Longer(m, h, q) \in I[i]
  BY <1>1, LongerType
<1>4. I \in [0 .. FrameCount -> SUBSET Seq(Frames)] /\ <<>> \in I[0]
  BY <1>2
<1>5. I[FrameCount] = Seq(Frames)
  BY <1>2
<1>. HIDE DEF I
<1>. QED
  BY <1>3, <1>4, <1>5, ChainRule

LEMMA ListType ==
    ASSUME NEW m \in Mem, NEW l \in Lists
    PROVE  ListFrames(m, l) \in Seq(Frames)
  BY ChainType, FieldTypes DEF ListFrames

\* A chain that names its frames in order
LEMMA ChainIs ==
    ASSUME NEW m \in Mem, NEW q \in Seq(Frames), IsInjective(q),
           NEW h, h = IF q = <<>> THEN NULL ELSE q[1],
           \A i \in 1 .. Len(q) : m.next[q[i]] = IF i = Len(q) THEN NULL ELSE q[i + 1]
    PROVE  Chain(m, h) = q
<1>. DEFINE n == FrameCount
            N == Len(q)
            Part(k) == SubSeq(q, 1, k)
            I == [i \in 0 .. n |-> {Part(IF i < N THEN i ELSE N)}]
<1>0. n \in Nat /\ N \in Nat /\ q \in [1 .. N -> Frames]
  BY FrameCountNat
<1>1. N <= n
  <2>1. q \in Injection(1 .. N, Frames)
    BY <1>0 DEF Injection
  <2>2. Cardinality(1 .. N) <= Cardinality(Frames)
    BY <2>1, FramesAssumption, FS_Injection
  <2>3. Cardinality(1 .. N) = N
    <3>0. N \in Nat
      BY <1>0
    <3>. HIDE DEF N
    <3>1. 1 \in Int /\ N \in Int /\ (IF 1 > N THEN 0 ELSE N - 1 + 1) = N
      BY <3>0
    <3>. QED
      BY <3>1, FS_Interval
  <2>. QED
    BY <2>2, <2>3 DEF FrameCount
<1>2. h \in Link
  BY DEF Link
<1>3. \A k \in 0 .. N : Part(k) \in Seq(Frames) /\ Len(Part(k)) = k /\ \A i \in 1 .. k : Part(k)[i] = q[i]
  <2>. TAKE k \in 0 .. N
  <2>. QED OBVIOUS
<1>. HIDE DEF Part, n, N
<1>4. Part(N) = q
  <2>1. Part(N) \in Seq(Frames) /\ Len(Part(N)) = N /\ \A i \in 1 .. N : Part(N)[i] = q[i]
    BY <1>0, <1>3
  <2>. QED
    BY <2>1 DEF N
<1>5. Part(0) = <<>>
  <2>1. Part(0) \in Seq(Frames) /\ Len(Part(0)) = 0
    BY <1>0, <1>3
  <2>. QED
    BY <2>1
<1>6. ASSUME NEW k \in 0 .. N, k < N
      PROVE  Longer(m, h, Part(k)) = Part(k + 1)
  <2>1. k + 1 \in 0 .. N /\ k + 1 \in 1 .. N
    BY <1>0, <1>6
  <2>2. Append(Part(k), q[k + 1]) = Part(k + 1)
    <3>1. /\ Part(k) \in Seq(Frames) /\ Len(Part(k)) = k /\ \A i \in 1 .. k : Part(k)[i] = q[i]
          /\ Part(k + 1) \in Seq(Frames) /\ Len(Part(k + 1)) = k + 1
          /\ \A i \in 1 .. k + 1 : Part(k + 1)[i] = q[i]
      BY <1>3, <2>1
    <3>2. q[k + 1] \in Frames
      BY <1>0, <2>1
    <3>. DEFINE a == Append(Part(k), q[k + 1])
    <3>3. a \in Seq(Frames) /\ Len(a) = k + 1 /\ (\A i \in 1 .. k : a[i] = q[i]) /\ a[k + 1] = q[k + 1]
      BY <3>1, <3>2, AppendProperties
    <3>. HIDE DEF a
    <3>4. \A i \in 1 .. k + 1 : a[i] = Part(k + 1)[i]
      BY <3>1, <3>3
    <3>5. a = Part(k + 1)
      <4>. DEFINE b == Part(k + 1)
      <4>1. b \in Seq(Frames) /\ Len(b) = k + 1 /\ \A i \in 1 .. k + 1 : a[i] = b[i]
        BY <3>1, <3>4
      <4>. HIDE DEF b
      <4>2. a = b
        BY <3>3, <4>1, SeqEqual
      <4>. QED
        BY <4>2 DEF b
    <3>. QED
      BY <3>5 DEF a
  <2>3. (IF Part(k) = <<>> THEN h ELSE m.next[Last(Part(k))]) = q[k + 1]
    <3>1. CASE k = 0
      <4>1. q # <<>>
        BY <2>1 DEF N
      <4>. QED
        BY <3>1, <1>5, <4>1
    <3>2. CASE k # 0
      <4>1. k \in 1 .. N /\ k # N
        BY <3>2, <1>0, <1>6
      <4>2. Len(Part(k)) = k /\ Part(k)[k] = q[k]
        BY <1>3, <4>1
      <4>3. Part(k) # <<>> /\ Last(Part(k)) = q[k]
        BY <3>2, <4>2 DEF Last
      <4>4. m.next[q[k]] = q[k + 1]
        BY <4>1 DEF N
      <4>. QED
        BY <4>3, <4>4
    <3>. QED
      BY <3>1, <3>2
  <2>4. q[k + 1] # NULL
    BY <1>0, <2>1, FramesAssumption
  <2>. QED
    BY <2>2, <2>3, <2>4 DEF Longer
<1>7. Longer(m, h, Part(N)) = Part(N)
  <2>1. CASE q = <<>>
    BY <1>4, <2>1 DEF Longer
  <2>2. CASE q # <<>>
    <3>0. N = Len(q) /\ N # 0
      BY <2>2, EmptySeq DEF N
    <3>a. N \in Nat \ {0}
      BY <1>0, <3>0
    <3>1. N \in 1 .. N /\ N = Len(q)
      BY <3>0, <3>a
    <3>2. m.next[q[N]] = NULL
      BY <3>1
    <3>. QED
      BY <1>4, <2>2, <3>1, <3>2 DEF Longer, Last
  <2>. QED
    BY <2>1, <2>2
<1>8. \A i \in 1 .. n : \A a \in I[i - 1] : Longer(m, h, a) \in I[i]
  <2>. SUFFICES ASSUME NEW i \in 1 .. n
                PROVE  Longer(m, h, Part(IF i - 1 < N THEN i - 1 ELSE N)) = Part(IF i < N THEN i ELSE N)
    <3>1. \A i \in 1 .. n : i \in 0 .. n /\ i - 1 \in 0 .. n
      BY <1>0
    <3>2. \A i \in 1 .. n : /\ I[i] = {Part(IF i < N THEN i ELSE N)}
                            /\ I[i - 1] = {Part(IF i - 1 < N THEN i - 1 ELSE N)}
      BY <3>1
    <3>. HIDE DEF I
    <3>. QED
      BY <3>2
  <2>1. CASE i - 1 < N
    <3>1. i - 1 \in 0 .. N /\ (i - 1) + 1 = i
      BY <2>1, <1>0
    <3>2. Longer(m, h, Part(i - 1)) = Part(i)
      BY <1>6, <2>1, <3>1
    <3>3. (IF i < N THEN i ELSE N) = i
      BY <2>1, <1>0
    <3>. QED
      BY <2>1, <3>2, <3>3
  <2>2. CASE ~ (i - 1 < N)
    <3>1. ~ (i < N)
      BY <2>2, <1>0
    <3>. QED
      BY <2>2, <3>1, <1>7
  <2>. QED
    BY <2>1, <2>2
<1>9. I \in [0 .. n -> SUBSET Seq(Frames)] /\ <<>> \in I[0] /\ I[n] = {q}
  <2>1. \A i \in 0 .. n : (IF i < N THEN i ELSE N) \in 0 .. N
    BY <1>0
  <2>2. I \in [0 .. n -> SUBSET Seq(Frames)]
    BY <1>3, <2>1
  <2>3. 0 \in 0 .. n /\ n \in 0 .. n /\ (IF 0 < N THEN 0 ELSE N) = 0 /\ (IF n < N THEN n ELSE N) = N
    BY <1>0, <1>1
  <2>4. I[0] = {Part(0)} /\ I[n] = {Part(N)}
    BY <2>3
  <2>. QED
    BY <1>4, <1>5, <2>2, <2>4
<1>. HIDE DEF I
<1>10. Chain(m, h) \in I[n]
  BY <1>2, <1>8, <1>9, ChainRule DEF n
<1>. QED
  BY <1>9, <1>10

\* A frame put before the first
LEMMA PushChained ==
    ASSUME NEW q \in Seq(Frames), NEW f \in Frames, f \notin Range(q), IsInjective(q),
           NEW nx \in [Frames -> Link], Chained(nx, q),
           NEW r, r = InsertAt(q, 1, f)
    PROVE  /\ r \in Seq(Frames) /\ IsInjective(r) /\ Range(r) = Range(q) \cup {f}
           /\ Len(r) = Len(q) + 1 /\ First(r) = f
           /\ Final(r) = IF q = <<>> THEN f ELSE Final(q)
           /\ Chained([nx EXCEPT ![f] = First(q)], r)
<1>0. Len(q) \in Nat /\ 1 \in 1 .. Len(q) + 1
  OBVIOUS
<1>1. /\ r \in Seq(Frames) /\ Len(r) = Len(q) + 1
      /\ \A i \in 1 .. Len(q) + 1 : r[i] = IF i < 1 THEN q[i] ELSE IF i = 1 THEN f ELSE q[i - 1]
  BY <1>0, InsertAtProperties, SMTT(30)
<1>2. Range(r) = Range(q) \cup {f} /\ IsInjective(r)
  BY <1>0, InsertAtRange
<1>3. r[1] = f /\ \A i \in 2 .. Len(q) + 1 : r[i] = q[i - 1]
  BY <1>0, <1>1
<1>4. r # <<>>
  BY <1>0, <1>1
<1>5. First(r) = f
  BY <1>3, <1>4 DEF First
<1>6. q = <<>> => Len(q) = 0
  OBVIOUS
<1>7. q # <<>> => Len(q) \in Nat \ {0}
  BY EmptySeq
<1>8. Final(r) = IF q = <<>> THEN f ELSE Final(q)
  <2>1. CASE q = <<>>
    BY <1>1, <1>3, <1>4, <1>6, <2>1 DEF Final
  <2>2. CASE q # <<>>
    <3>1. Len(q) + 1 \in 2 .. Len(q) + 1 /\ Len(q) + 1 - 1 = Len(q)
      BY <1>7, <2>2
    <3>2. r[Len(q) + 1] = q[Len(q)]
      BY <1>3, <3>1
    <3>. QED
      BY <1>1, <1>4, <2>2, <3>2 DEF Final
  <2>. QED
    BY <2>1, <2>2
<1>9. Chained([nx EXCEPT ![f] = First(q)], r)
  <2>. DEFINE ny == [nx EXCEPT ![f] = First(q)]
  <2>1. \A g \in Frames : ny[g] = IF g = f THEN First(q) ELSE nx[g]
    OBVIOUS
  <2>. HIDE DEF ny
  <2>2. ASSUME NEW i \in 1 .. Len(r)
        PROVE  ny[r[i]] = IF i = Len(r) THEN NULL ELSE r[i + 1]
    <3>1. CASE i = 1
      <4>1. ny[r[i]] = First(q)
        BY <1>3, <2>1, <3>1
      <4>2. CASE q = <<>>
        BY <1>1, <1>6, <3>1, <4>1, <4>2 DEF First
      <4>3. CASE q # <<>>
        <5>1. 2 \in 2 .. Len(q) + 1 /\ 1 # Len(r)
          BY <1>1, <1>7, <4>3
        <5>2. r[2] = q[1]
          BY <1>3, <5>1
        <5>. QED
          BY <3>1, <4>1, <4>3, <5>1, <5>2 DEF First
      <4>. QED
        BY <4>2, <4>3
    <3>2. CASE i # 1
      <4>1. i - 1 \in 1 .. Len(q) /\ i \in 2 .. Len(q) + 1 /\ (i = Len(r) <=> i - 1 = Len(q))
        BY <1>0, <1>1, <3>2
      <4>2. r[i] = q[i - 1] /\ q[i - 1] \in Frames /\ q[i - 1] # f
        BY <1>3, <4>1 DEF Range
      <4>3. ny[r[i]] = nx[q[i - 1]]
        BY <2>1, <4>2
      <4>4. nx[q[i - 1]] = IF i - 1 = Len(q) THEN NULL ELSE q[(i - 1) + 1]
        BY <4>1 DEF Chained
      <4>5. i # Len(r) => r[i + 1] = q[(i - 1) + 1]
        <5>1. i # Len(r) => i + 1 \in 2 .. Len(q) + 1 /\ (i + 1) - 1 = (i - 1) + 1
          BY <1>0, <1>1, <4>1
        <5>. QED
          BY <1>3, <5>1
      <4>. QED
        BY <4>1, <4>3, <4>4, <4>5
    <3>. QED
      BY <3>1, <3>2
  <2>. QED
    BY <2>2 DEF Chained, ny
<1>. QED
  BY <1>1, <1>2, <1>5, <1>8, <1>9

LEMMA PushBack ==
    ASSUME NEW q \in Seq(Frames), NEW f \in Frames, f \notin Range(q), IsInjective(q),
           NEW pv \in [Frames -> Link], Back(pv, q),
           NEW r, r = InsertAt(q, 1, f),
           NEW pw, pw = IF First(q) = NULL THEN [pv EXCEPT ![f] = NULL]
                        ELSE [[pv EXCEPT ![f] = NULL] EXCEPT ![First(q)] = f]
    PROVE  Back(pw, r)
<1>0. Len(q) \in Nat /\ 1 \in 1 .. Len(q) + 1
  OBVIOUS
<1>1. /\ Len(r) = Len(q) + 1
      /\ \A i \in 1 .. Len(q) + 1 : r[i] = IF i < 1 THEN q[i] ELSE IF i = 1 THEN f ELSE q[i - 1]
  BY <1>0, InsertAtProperties
<1>2. r[1] = f /\ \A i \in 2 .. Len(q) + 1 : r[i] = q[i - 1]
  BY <1>0, <1>1
<1>3. q # <<>> => First(q) = q[1] /\ q[1] \in Frames /\ q[1] # NULL /\ q[1] # f /\ Len(q) \in Nat \ {0}
  <2>. SUFFICES ASSUME q # <<>>
                PROVE  First(q) = q[1] /\ q[1] \in Frames /\ q[1] # NULL /\ q[1] # f /\ Len(q) \in Nat \ {0}
    OBVIOUS
  <2>1. Len(q) \in Nat \ {0} /\ 1 \in 1 .. Len(q)
    BY EmptySeq
  <2>2. q[1] \in Frames /\ q[1] # f
    BY <2>1 DEF Range
  <2>. QED
    BY <2>1, <2>2, FramesAssumption DEF First
<1>4. \A g \in Frames : pw[g] = IF q # <<>> /\ g = q[1] THEN f ELSE IF g = f THEN NULL ELSE pv[g]
  <2>1. CASE q = <<>>
    BY <2>1 DEF First
  <2>2. CASE q # <<>>
    BY <1>3, <2>2
  <2>. QED
    BY <2>1, <2>2
<1>5. ASSUME NEW i \in 1 .. Len(r)
      PROVE  pw[r[i]] = IF i = 1 THEN NULL ELSE r[i - 1]
  <2>1. CASE i = 1
    <3>1. r[i] = f /\ (q # <<>> => q[1] # f)
      BY <1>2, <1>3, <2>1
    <3>. QED
      BY <1>4, <2>1, <3>1
  <2>2. CASE i # 1
    <3>1. i - 1 \in 1 .. Len(q) /\ i \in 2 .. Len(q) + 1
      BY <1>0, <1>1, <2>2
    <3>2. r[i] = q[i - 1] /\ q[i - 1] \in Frames /\ q[i - 1] # f
      BY <1>2, <3>1 DEF Range
    <3>3. q # <<>>
      BY <3>1
    <3>4. CASE i = 2
      <4>1. r[i] = q[1] /\ r[i - 1] = f
        BY <1>2, <3>2, <3>4
      <4>. QED
        BY <1>3, <1>4, <2>2, <3>3, <4>1
    <3>5. CASE i # 2
      <4>1. i - 1 # 1 /\ 1 \in 1 .. Len(q) /\ i - 1 \in 2 .. Len(q) + 1
        BY <3>1, <3>5
      <4>2. q[i - 1] # q[1]
        BY <3>1, <4>1 DEF IsInjective
      <4>3. pw[r[i]] = pv[q[i - 1]]
        BY <1>4, <3>2, <4>2
      <4>4. pv[q[i - 1]] = q[(i - 1) - 1]
        BY <3>1, <4>1 DEF Back
      <4>5. r[i - 1] = q[(i - 1) - 1]
        BY <1>2, <4>1
      <4>. QED
        BY <2>2, <4>3, <4>4, <4>5
    <3>. QED
      BY <3>4, <3>5
  <2>. QED
    BY <2>1, <2>2
<1>. QED
  BY <1>5 DEF Back

\* What is written to take the frame at place k out, and what is then left
CutOut(q, k, nx, pv, ny, pw) ==
    LET f == q[k]
        p == pv[f]
        x == nx[f]
    IN /\ ny = IF p = NULL THEN [nx EXCEPT ![f] = NULL]
               ELSE [[nx EXCEPT ![p] = x] EXCEPT ![f] = NULL]
       /\ pw = IF x = NULL THEN [pv EXCEPT ![f] = NULL]
               ELSE [[pv EXCEPT ![x] = p] EXCEPT ![f] = NULL]

LeftOver(q, k, nx, pv, ny, pw) ==
    LET f == q[k]
        p == pv[f]
        x == nx[f]
        r == RemoveAt(q, k)
    IN /\ r \in Seq(Frames) /\ IsInjective(r) /\ Range(r) = Range(q) \ {f}
       /\ First(r) = IF p = NULL THEN x ELSE First(q)
       /\ Final(r) = IF x = NULL THEN p ELSE Final(q)
       /\ Chained(ny, r) /\ Back(pw, r)
       /\ p # NULL => p \in Range(q)
       /\ x # NULL => x \in Range(q)

LEMMA CutLinks ==
    ASSUME NEW q \in Seq(Frames), IsInjective(q), NEW k \in 1 .. Len(q),
           NEW nx \in [Frames -> Link], Chained(nx, q),
           NEW pv \in [Frames -> Link], Back(pv, q),
           NEW ny, NEW pw, CutOut(q, k, nx, pv, ny, pw)
    PROVE  LeftOver(q, k, nx, pv, ny, pw)
<1>. DEFINE f == q[k]
            p == pv[f]
            x == nx[f]
            r == RemoveAt(q, k)
<1>a. /\ f = q[k] /\ p = pv[f] /\ x = nx[f] /\ r = RemoveAt(q, k)
      /\ ny = IF p = NULL THEN [nx EXCEPT ![f] = NULL]
              ELSE [[nx EXCEPT ![p] = x] EXCEPT ![f] = NULL]
      /\ pw = IF x = NULL THEN [pv EXCEPT ![f] = NULL]
              ELSE [[pv EXCEPT ![x] = p] EXCEPT ![f] = NULL]
  BY DEF CutOut
<1>. HIDE DEF f, p, x, r
<1>. USE <1>a
<1>. DEFINE n == Len(q)
<1>0. n \in Nat /\ k \in 1 .. n /\ q # <<>>
  OBVIOUS
<1>1. /\ r \in Seq(Frames) /\ Len(r) = n - 1
      /\ \A i \in 1 .. n - 1 : r[i] = IF i < k THEN q[i] ELSE q[i + 1]
  BY <1>0, RemoveAtProperties
<1>2. Range(r) = Range(q) \ {f} /\ IsInjective(r)
  BY <1>0, RemoveAtRange
<1>3. \A i \in 1 .. n : q[i] \in Frames /\ q[i] # NULL /\ q[i] \in Range(q)
  BY FramesAssumption DEF Range
<1>4. \A i, j \in 1 .. n : q[i] = q[j] => i = j
  BY DEF IsInjective
<1>5. p = IF k = 1 THEN NULL ELSE q[k - 1]
  BY <1>0 DEF Back
<1>6. x = IF k = n THEN NULL ELSE q[k + 1]
  BY <1>0 DEF Chained
<1>. HIDE DEF n
<1>7. /\ p = NULL <=> k = 1
      /\ x = NULL <=> k = n
      /\ k # 1 => k - 1 \in 1 .. n
      /\ k # n => k + 1 \in 1 .. n
  <2>1. k # 1 => k - 1 \in 1 .. n
    BY <1>0
  <2>2. k # n => k + 1 \in 1 .. n
    BY <1>0
  <2>. QED
    BY <1>3, <1>5, <1>6, <2>1, <2>2
<1>8. (p # NULL => p \in Range(q) /\ p \in Frames /\ p # f) /\ (x # NULL => x \in Range(q) /\ x \in Frames /\ x # f)
  <2>1. k # 1 => q[k - 1] # q[k]
    BY <1>0, <1>4, <1>7
  <2>2. k # n => q[k + 1] # q[k]
    BY <1>0, <1>4, <1>7
  <2>. QED
    BY <1>3, <1>5, <1>6, <1>7, <2>1, <2>2
<1>9. \A g \in Frames : g # f => ny[g] = IF p # NULL /\ g = p THEN x ELSE nx[g]
  <2>1. CASE p = NULL
    BY <2>1
  <2>2. CASE p # NULL
    BY <2>2, <1>8
  <2>. QED
    BY <2>1, <2>2
<1>10. \A g \in Frames : g # f => pw[g] = IF x # NULL /\ g = x THEN p ELSE pv[g]
  <2>1. CASE x = NULL
    BY <2>1
  <2>2. CASE x # NULL
    BY <2>2, <1>8
  <2>. QED
    BY <2>1, <2>2
<1>11. \A i \in 1 .. n - 1 : i < k => r[i] = q[i] /\ i \in 1 .. n
  BY <1>0, <1>1
<1>12. \A i \in 1 .. n - 1 : i >= k => r[i] = q[i + 1] /\ i + 1 \in 1 .. n
  <2>. TAKE i \in 1 .. n - 1
  <2>. HAVE i >= k
  <2>1. ~ (i < k) /\ i + 1 \in 1 .. n
    BY <1>0
  <2>. QED
    BY <1>1, <2>1
<1>13. ASSUME NEW i \in 1 .. n - 1
       PROVE  ny[r[i]] = IF i = n - 1 THEN NULL ELSE r[i + 1]
  <2>1. CASE i < k - 1
    <3>1. /\ i < k /\ i + 1 \in 1 .. n - 1 /\ i + 1 < k /\ i # n - 1 /\ i # n
          /\ i # k /\ i # k - 1
      BY <1>0, <2>1
    <3>2. r[i] = q[i] /\ r[i + 1] = q[i + 1] /\ i \in 1 .. n
      BY <1>11, <3>1
    <3>3. q[i] # f /\ (p # NULL => q[i] # p)
      BY <1>0, <1>4, <1>5, <1>7, <3>1, <3>2
    <3>4. nx[q[i]] = q[i + 1]
      BY <3>1, <3>2 DEF Chained, n
    <3>. QED
      BY <1>3, <1>9, <3>1, <3>2, <3>3, <3>4
  <2>2. CASE i = k - 1
    <3>1. i < k /\ k # 1 /\ (i = n - 1 <=> k = n)
      BY <1>0, <2>2
    <3>2. r[i] = q[k - 1] /\ q[k - 1] = p /\ p # NULL /\ p # f
      BY <1>5, <1>7, <1>8, <1>11, <2>2, <3>1
    <3>3. ny[r[i]] = x
      BY <1>8, <1>9, <3>2
    <3>4. CASE k = n
      BY <1>6, <3>1, <3>3, <3>4
    <3>5. CASE k # n
      <4>1. i + 1 = k /\ k \in 1 .. n - 1 /\ k >= k
        BY <1>0, <2>2, <3>5
      <4>2. r[i + 1] = q[k + 1]
        BY <1>12, <4>1
      <4>. QED
        BY <1>6, <3>1, <3>3, <3>5, <4>2
    <3>. QED
      BY <3>4, <3>5
  <2>3. CASE i >= k
    <3>1. /\ i + 1 \in 1 .. n /\ i + 1 # k /\ i + 1 # k - 1 /\ (i = n - 1 <=> i + 1 = n)
          /\ i # n - 1 => i + 1 \in 1 .. n - 1 /\ i + 1 >= k
      BY <1>0, <2>3
    <3>2. r[i] = q[i + 1]
      BY <1>12, <2>3
    <3>3. q[i + 1] # f /\ (p # NULL => q[i + 1] # p)
      BY <1>0, <1>4, <1>5, <1>7, <3>1
    <3>4. nx[q[i + 1]] = IF i + 1 = n THEN NULL ELSE q[(i + 1) + 1]
      BY <3>1 DEF Chained, n
    <3>5. i # n - 1 => r[i + 1] = q[(i + 1) + 1]
      BY <1>12, <3>1
    <3>. QED
      BY <1>3, <1>9, <3>1, <3>2, <3>3, <3>4, <3>5
  <2>. QED
    BY <1>0, <2>1, <2>2, <2>3
<1>14. ASSUME NEW i \in 1 .. n - 1
       PROVE  pw[r[i]] = IF i = 1 THEN NULL ELSE r[i - 1]
  <2>1. CASE i < k
    <3>1. /\ i \in 1 .. n /\ i # k /\ i # k + 1
          /\ i # 1 => i - 1 \in 1 .. n - 1 /\ i - 1 < k
      BY <1>0, <2>1
    <3>2. r[i] = q[i] /\ (i # 1 => r[i - 1] = q[i - 1])
      BY <1>11, <2>1, <3>1
    <3>3. q[i] # f /\ (x # NULL => q[i] # x)
      BY <1>0, <1>4, <1>6, <1>7, <3>1
    <3>4. pv[q[i]] = IF i = 1 THEN NULL ELSE q[i - 1]
      BY <3>1 DEF Back, n
    <3>. QED
      BY <1>3, <1>10, <3>1, <3>2, <3>3, <3>4
  <2>2. CASE i = k
    <3>1. i >= k /\ k # n
      BY <1>0, <2>2
    <3>2. r[i] = q[k + 1] /\ q[k + 1] = x /\ x # NULL /\ x # f
      BY <1>6, <1>7, <1>8, <1>12, <2>2, <3>1
    <3>3. pw[r[i]] = p
      BY <1>8, <1>10, <3>2
    <3>4. CASE k = 1
      BY <1>5, <2>2, <3>3, <3>4
    <3>5. CASE k # 1
      <4>1. i - 1 = k - 1 /\ k - 1 \in 1 .. n - 1 /\ k - 1 < k
        BY <1>0, <2>2, <3>5
      <4>2. r[i - 1] = q[k - 1]
        BY <1>11, <4>1
      <4>. QED
        BY <1>5, <2>2, <3>3, <3>5, <4>2
    <3>. QED
      BY <3>4, <3>5
  <2>3. CASE i > k
    <3>1. /\ i + 1 \in 1 .. n /\ i + 1 # k /\ i + 1 # k + 1 /\ i # 1 /\ i + 1 # 1 /\ i >= k
          /\ i - 1 \in 1 .. n - 1 /\ i - 1 >= k /\ (i - 1) + 1 = (i + 1) - 1
      BY <1>0, <2>3
    <3>2. r[i] = q[i + 1] /\ r[i - 1] = q[(i - 1) + 1]
      BY <1>12, <3>1
    <3>3. q[i + 1] # f /\ (x # NULL => q[i + 1] # x)
      BY <1>0, <1>4, <1>6, <1>7, <3>1
    <3>4. pv[q[i + 1]] = q[(i + 1) - 1]
      BY <3>1 DEF Back, n
    <3>. QED
      BY <1>3, <1>10, <3>1, <3>2, <3>3, <3>4
  <2>. QED
    BY <1>0, <2>1, <2>2, <2>3
<1>15. n = 1 <=> r = <<>>
  <2>1. n = 1 => Len(r) = 0
    BY <1>1
  <2>2. n # 1 => Len(r) # 0
    BY <1>0, <1>1
  <2>. QED
    BY <1>1, <2>1, <2>2, EmptySeq
<1>16. First(r) = IF p = NULL THEN x ELSE First(q)
  <2>1. CASE n = 1
    <3>1. k = 1 /\ k = n
      BY <1>0, <2>1
    <3>. QED
      BY <1>6, <1>7, <1>15, <2>1, <3>1 DEF First
  <2>2. CASE n # 1
    <3>1. 1 \in 1 .. n - 1 /\ (1 < k <=> k # 1) /\ (~ (1 < k) => 1 >= k)
      BY <1>0, <2>2
    <3>2. First(r) = r[1]
      BY <1>15, <2>2 DEF First
    <3>3. CASE k = 1
      <4>1. r[1] = q[1 + 1]
        BY <1>12, <3>1, <3>3
      <4>2. x = q[1 + 1]
        BY <1>6, <2>2, <3>3
      <4>. QED
        BY <1>7, <3>2, <3>3, <4>1, <4>2
    <3>4. CASE k # 1
      <4>1. r[1] = q[1]
        BY <1>11, <3>1, <3>4
      <4>. QED
        BY <1>0, <1>7, <3>2, <3>4, <4>1 DEF First
    <3>. QED
      BY <3>3, <3>4
  <2>. QED
    BY <2>1, <2>2
<1>17. Final(r) = IF x = NULL THEN p ELSE Final(q)
  <2>1. CASE n = 1
    <3>1. k = 1 /\ k = n
      BY <1>0, <2>1
    <3>. QED
      BY <1>5, <1>7, <1>15, <2>1, <3>1 DEF Final
  <2>2. CASE n # 1
    <3>1. n - 1 \in 1 .. n - 1 /\ (n - 1 < k <=> k = n) /\ (~ (n - 1 < k) => n - 1 >= k) /\ (n - 1) + 1 = n
      BY <1>0, <2>2
    <3>2. Final(r) = r[n - 1]
      BY <1>1, <1>15, <2>2 DEF Final
    <3>3. Final(q) = q[n]
      BY <1>0 DEF Final, n
    <3>4. CASE k = n
      <4>1. r[n - 1] = q[n - 1]
        BY <1>11, <3>1, <3>4
      <4>2. p = q[n - 1]
        BY <1>5, <2>2, <3>4
      <4>. QED
        BY <1>7, <3>2, <3>4, <4>1, <4>2
    <3>5. CASE k # n
      <4>1. r[n - 1] = q[(n - 1) + 1]
        BY <1>12, <3>1, <3>5
      <4>. QED
        BY <1>7, <3>1, <3>2, <3>3, <3>5, <4>1
    <3>. QED
      BY <3>4, <3>5
  <2>. QED
    BY <2>1, <2>2
<1>18. Chained(ny, r) /\ Back(pw, r)
  <2>1. Len(r) = n - 1
    BY <1>1
  <2>2. Chained(ny, r)
    BY <1>13, <2>1 DEF Chained
  <2>3. Back(pw, r)
    BY <1>14, <2>1 DEF Back
  <2>. QED
    BY <2>2, <2>3
<1>. QED
  BY <1>1, <1>2, <1>8, <1>16, <1>17, <1>18 DEF LeftOver, f, p, x, r

\* The first frame taken from the pool
LEMMA PopChained ==
    ASSUME NEW q \in Seq(Frames), IsInjective(q), q # <<>>,
           NEW nx \in [Frames -> Link], Chained(nx, q),
           NEW r, r = RemoveAt(q, 1)
    PROVE  /\ r \in Seq(Frames) /\ IsInjective(r) /\ Range(r) = Range(q) \ {q[1]}
           /\ Len(r) = Len(q) - 1
           /\ First(r) = nx[q[1]] /\ Chained(nx, r)
<1>. DEFINE n == Len(q)
<1>0. n \in Nat \ {0} /\ 1 \in 1 .. n
  BY EmptySeq
<1>1. /\ r \in Seq(Frames) /\ Len(r) = n - 1
      /\ \A i \in 1 .. n - 1 : r[i] = IF i < 1 THEN q[i] ELSE q[i + 1]
  BY <1>0, RemoveAtProperties
<1>2. Range(r) = Range(q) \ {q[1]} /\ IsInjective(r)
  BY <1>0, RemoveAtRange
<1>. HIDE DEF n
<1>3. \A i \in 1 .. n - 1 : r[i] = q[i + 1] /\ i + 1 \in 1 .. n /\ (i = n - 1 <=> i + 1 = n)
  BY <1>0, <1>1
<1>4. ASSUME NEW i \in 1 .. n - 1
      PROVE  nx[r[i]] = IF i = n - 1 THEN NULL ELSE r[i + 1]
  <2>1. nx[q[i + 1]] = IF i + 1 = n THEN NULL ELSE q[(i + 1) + 1]
    BY <1>3 DEF Chained, n
  <2>2. i # n - 1 => i + 1 \in 1 .. n - 1
    BY <1>0
  <2>. QED
    BY <1>3, <2>1, <2>2
<1>5. First(r) = nx[q[1]]
  <2>1. nx[q[1]] = IF 1 = n THEN NULL ELSE q[1 + 1]
    BY <1>0 DEF Chained, n
  <2>2. CASE n = 1
    <3>1. r = <<>>
      BY <1>1, <2>2, EmptySeq
    <3>. QED
      BY <2>1, <2>2, <3>1 DEF First
  <2>3. CASE n # 1
    <3>1. 1 \in 1 .. n - 1 /\ Len(r) # 0
      BY <1>0, <1>1, <2>3
    <3>2. r # <<>>
      BY <3>1, EmptySeq
    <3>. QED
      BY <1>3, <2>1, <2>3, <3>1, <3>2 DEF First
  <2>. QED
    BY <2>2, <2>3
<1>. QED
  BY <1>1, <1>2, <1>4, <1>5 DEF Chained, n

-----------------------------------------------------------------------------
(* What the operations on the pool and the lists do to the places *)

\* What the code reads along a list is the list
LEMMA SoundLists ==
    ASSUME NEW m \in Mem, NEW L, NEW P, NEW Where, NEW E, Sound(m, L, P, Where, E)
    PROVE  /\ \A l \in Lists : ListFrames(m, l) = L[l]
           /\ \A l \in Lists : In(m, l) = {f \in Frames : Where[f] = InList(l)}
           /\ Chain(m, m.freeHead) = P
<1>1. ASSUME NEW l \in Lists
      PROVE  ListFrames(m, l) = L[l]
  <2>1. Links(m, l, L[l])
    BY DEF Sound
  <2>. QED
    BY <2>1, ChainIs DEF Links, Chained, First, ListFrames
<1>2. \A l \in Lists : In(m, l) = {f \in Frames : Where[f] = InList(l)}
  BY <1>1 DEF Sound, Located, In
<1>3. Chain(m, m.freeHead) = P
  BY ChainIs DEF Sound, PoolLinks, Chained, First
<1>. QED
  BY <1>1, <1>2, <1>3

\* The links of a list of frames that are left alone
LEMMA LinksKept ==
    ASSUME NEW m, NEW n, NEW l, NEW q, Links(m, l, q),
           n.head[l] = m.head[l], n.tail[l] = m.tail[l],
           \A f \in Range(q) : n.next[f] = m.next[f] /\ n.prev[f] = m.prev[f]
    PROVE  Links(n, l, q)
<1>1. \A i \in 1 .. Len(q) : q[i] \in Range(q)
  BY DEF Links, Range
<1>. QED
  BY <1>1 DEF Links, Chained, Back

Moved(Where, f, place) == [g \in Frames |-> IF g = f THEN place ELSE Where[g]]

LEMMA SoundFree ==
    ASSUME NEW m \in Mem, NEW L, NEW P, NEW Where, NEW E, Sound(m, L, P, Where, E),
           NEW f \in E, f \in Frames, NEW n, n = FrameFree(m, f)
    PROVE  /\ n \in Mem /\ n.defect = m.defect
           /\ Sound(n, L, InsertAt(P, 1, f), Moved(Where, f, Pool), E \ {f})
<1>. DEFINE Q == InsertAt(P, 1, f)
            Then == Moved(Where, f, Pool)
<1>0. /\ Where[f] = Hand /\ m.state[f] = 1
      /\ f \notin Range(P) /\ \A l \in Lists : f \notin Range(L[l])
      /\ f \notin m.lost /\ \A s \in Sockets : ~ Owns(m, s, f)
  BY PlacesDiffer DEF Sound, Located, StatesRight
<1>1. /\ n \in Mem /\ n.defect = m.defect
      /\ n.state = [m.state EXCEPT ![f] = 0]
      /\ n.next = [m.next EXCEPT ![f] = m.freeHead]
      /\ n.freeHead = f /\ n.freeCount = m.freeCount + 1
      /\ SameLists(m, n) /\ SameMarks(m, n) /\ SameSockets(m, n)
      /\ n.lost = m.lost
  BY <1>0, FreeFields DEF Frees
<1>2. /\ P \in Seq(Frames) /\ IsInjective(P) /\ m.freeCount = Len(P) /\ m.freeHead = First(P)
      /\ Chained(m.next, P)
  BY DEF Sound, PoolLinks
<1>3. /\ Q \in Seq(Frames) /\ IsInjective(Q) /\ Range(Q) = Range(P) \cup {f}
      /\ Len(Q) = Len(P) + 1 /\ First(Q) = f
      /\ Chained([m.next EXCEPT ![f] = First(P)], Q)
  <2>1. m.next \in [Frames -> Link] /\ f \notin Range(P)
    BY <1>0, FieldTypes
  <2>2. Q = InsertAt(P, 1, f)
    OBVIOUS
  <2>. HIDE DEF Q
  <2>. QED
    BY <1>2, <2>1, <2>2, PushChained
<1>. HIDE DEF Q
<1>4. PoolLinks(n, Q)
  BY <1>1, <1>2, <1>3 DEF PoolLinks
<1>5. ASSUME NEW l \in Lists
      PROVE  Links(n, l, L[l])
  <2>1. Links(m, l, L[l]) /\ f \notin Range(L[l])
    BY <1>0 DEF Sound
  <2>2. \A g \in Range(L[l]) : g \in Frames /\ n.next[g] = m.next[g] /\ n.prev[g] = m.prev[g]
    <3>1. \A g \in Range(L[l]) : g \in Frames /\ g # f
      BY <2>1 DEF Links, Range
    <3>. QED
      BY <1>1, <3>1, FieldTypes DEF SameLists
  <2>. QED
    BY <1>1, <2>1, <2>2, LinksKept, ZenonT(60) DEF SameLists
<1>6. \A g \in Frames : Then[g] = IF g = f THEN Pool ELSE Where[g]
  BY DEF Moved
<1>7. \A g \in Frames, s \in Sockets : Owns(n, s, g) <=> Owns(m, s, g)
  BY <1>1 DEF Owns, SameSockets, SameUsers
<1>. HIDE DEF Then
<1>8. Located(n, L, Q, Then, E \ {f})
  <2>1. ASSUME NEW g \in Frames, g # f
        PROVE  Then[g] = Where[g] /\ (g \in Range(Q) <=> g \in Range(P)) /\ (g \in E \ {f} <=> g \in E)
    BY <1>3, <1>6, <2>1
  <2>2. \A g \in Frames : g # f =>
          /\ Then[g] \in {Pool, Hand, Gone} \cup {InList(l) : l \in Lists} \cup {OwnedBy(s) : s \in Sockets}
          /\ Then[g] = Pool <=> g \in Range(Q)
          /\ Then[g] = Hand <=> g \in E \ {f}
          /\ Then[g] = Gone <=> g \in n.lost
          /\ \A l \in Lists : Then[g] = InList(l) <=> g \in Range(L[l])
          /\ \A s \in Sockets : Then[g] = OwnedBy(s) <=> Owns(n, s, g)
    BY <1>1, <1>7, <2>1 DEF Sound, Located
  <2>3. /\ Then[f] = Pool /\ f \in Range(Q) /\ f \notin E \ {f} /\ f \notin n.lost
        /\ \A s \in Sockets : ~ Owns(n, s, f)
    BY <1>0, <1>1, <1>3, <1>6, <1>7
  <2>. QED
    BY <1>0, <2>2, <2>3, PlacesDiffer DEF Located
<1>9. StatesRight(n, Then)
  BY <1>1, <1>6, FieldTypes, PlacesDiffer DEF Sound, StatesRight
<1>10. SocketsRight(n, L)
  BY <1>1 DEF Sound, SocketsRight, SameMarks, SameSockets, SameUsers
<1>. QED
  BY <1>1, <1>4, <1>5, <1>8, <1>9, <1>10 DEF Sound, Q, Then

LEMMA SoundInsert ==
    ASSUME NEW m \in Mem, NEW L, NEW P, NEW Where, NEW E, Sound(m, L, P, Where, E),
           NEW f \in E, f \in Frames, NEW l \in Lists, l = "resend" => m.sock[f] \in Sockets,
           NEW n, n = FrameInsert(m, l, f)
    PROVE  /\ n \in Mem /\ n.defect = m.defect
           /\ Sound(n, [L EXCEPT ![l] = InsertAt(L[l], 1, f)], P, Moved(Where, f, InList(l)), E \ {f})
<1>. DEFINE q == InsertAt(L[l], 1, f)
            M == [L EXCEPT ![l] = q]
            Then == Moved(Where, f, InList(l))
<1>0. /\ Where[f] = Hand /\ m.state[f] = 1
      /\ f \notin Range(P) /\ \A k \in Lists : f \notin Range(L[k])
      /\ f \notin m.lost /\ \A s \in Sockets : ~ Owns(m, s, f)
  BY PlacesDiffer DEF Sound, Located, StatesRight
<1>1. /\ n \in Mem /\ n.defect = m.defect
      /\ n.state = [m.state EXCEPT ![f] = 2]
      /\ n.next = [m.next EXCEPT ![f] = m.head[l]]
      /\ n.prev = IF m.head[l] = NULL THEN [m.prev EXCEPT ![f] = NULL]
                  ELSE [[m.prev EXCEPT ![f] = NULL] EXCEPT ![m.head[l]] = f]
      /\ n.head = [m.head EXCEPT ![l] = f]
      /\ n.tail = [m.tail EXCEPT ![l] = IF m.tail[l] = NULL THEN f ELSE m.tail[l]]
      /\ SamePool(m, n) /\ SameMarks(m, n) /\ SameSockets(m, n)
      /\ n.lost = m.lost
  <2>1. n \in Mem /\ n.defect = m.defect /\ Inserted(m, n, l, f)
    BY <1>0, InsertFields
  <2>. QED
    BY <2>1 DEF Inserted
<1>2. /\ L[l] \in Seq(Frames) /\ IsInjective(L[l])
      /\ m.head[l] = First(L[l]) /\ m.tail[l] = Final(L[l])
      /\ Chained(m.next, L[l]) /\ Back(m.prev, L[l]) /\ f \notin Range(L[l])
      /\ L \in [Lists -> Seq(Frames)]
  BY <1>0 DEF Sound, Links
<1>3. /\ q \in Seq(Frames) /\ IsInjective(q) /\ Range(q) = Range(L[l]) \cup {f}
      /\ First(q) = f /\ Final(q) = IF L[l] = <<>> THEN f ELSE Final(L[l])
      /\ Chained([m.next EXCEPT ![f] = First(L[l])], q)
  <2>1. m.next \in [Frames -> Link]
    BY FieldTypes
  <2>. DEFINE ll == L[l]
  <2>2. q = InsertAt(ll, 1, f)
    OBVIOUS
  <2>3. ll \in Seq(Frames) /\ IsInjective(ll) /\ Chained(m.next, ll) /\ f \notin Range(ll)
    BY <1>2
  <2>. HIDE DEF q, ll
  <2>4. /\ q \in Seq(Frames) /\ IsInjective(q) /\ Range(q) = Range(ll) \cup {f}
        /\ First(q) = f /\ Final(q) = IF ll = <<>> THEN f ELSE Final(ll)
        /\ Chained([m.next EXCEPT ![f] = First(ll)], q)
    BY <2>1, <2>2, <2>3, PushChained
  <2>. QED
    BY <2>4 DEF ll
<1>4. Back(n.prev, q)
  <2>1. m.prev \in [Frames -> Link]
    BY FieldTypes
  <2>2. q = InsertAt(L[l], 1, f)
    OBVIOUS
  <2>. DEFINE pw == n.prev
  <2>3. pw = IF First(L[l]) = NULL THEN [m.prev EXCEPT ![f] = NULL]
             ELSE [[m.prev EXCEPT ![f] = NULL] EXCEPT ![First(L[l])] = f]
    BY <1>1, <1>2
  <2>. HIDE DEF q, pw
  <2>4. Back(pw, q)
    BY <1>2, <2>1, <2>2, <2>3, PushBack
  <2>. QED
    BY <2>4 DEF pw
<1>. HIDE DEF q
<1>5. Final(L[l]) = NULL <=> L[l] = <<>>
  <2>1. L[l] # <<>> => Len(L[l]) \in 1 .. Len(L[l])
    BY <1>2, EmptySeq
  <2>2. \A i \in 1 .. Len(L[l]) : L[l][i] # NULL
    BY <1>2, FramesAssumption
  <2>. QED
    BY <2>1, <2>2 DEF Final
<1>6. Links(n, l, q)
  <2>1. n.head[l] = f
    BY <1>1, FieldTypes
  <2>2. n.tail[l] = IF m.tail[l] = NULL THEN f ELSE m.tail[l]
    <3>1. m.tail \in [Lists -> Link] /\ n.tail = [m.tail EXCEPT ![l] = IF m.tail[l] = NULL THEN f ELSE m.tail[l]]
      BY <1>1, FieldTypes
    <3>. QED
      BY <3>1
  <2>3. Chained(n.next, q)
    BY <1>1, <1>2, <1>3
  <2>. QED
    BY <1>2, <1>3, <1>4, <1>5, <2>1, <2>2, <2>3 DEF Links
<1>7. M \in [Lists -> Seq(Frames)] /\ M[l] = q /\ \A k \in Lists : k # l => M[k] = L[k]
  BY <1>2, <1>3
<1>. HIDE DEF M
<1>8. ASSUME NEW k \in Lists, k # l
      PROVE  Links(n, k, L[k])
  <2>1. Links(m, k, L[k]) /\ f \notin Range(L[k])
    BY <1>0 DEF Sound
  <2>2. \A g \in Range(L[k]) : g \in Frames /\ g # f /\ (m.head[l] # NULL => g # m.head[l])
    <3>1. \A g \in Range(L[k]) : g \in Frames /\ g # f
      BY <2>1 DEF Links, Range
    <3>2. \A g \in Range(L[k]) : Where[g] = InList(k)
      BY <3>1 DEF Sound, Located
    <3>3. m.head[l] # NULL => m.head[l] \in Range(L[l])
      <4>1. L[l] # <<>> => 1 \in 1 .. Len(L[l])
        BY <1>2, EmptySeq
      <4>. QED
        BY <1>2, <4>1 DEF First, Range
    <3>4. m.head[l] # NULL => Where[m.head[l]] = InList(l)
      <4>1. m.head[l] # NULL => m.head[l] \in Frames
        BY FieldTypes DEF Link
      <4>. QED
        BY <3>3, <4>1 DEF Sound, Located
    <3>. QED
      BY <1>8, <3>1, <3>2, <3>4, PlacesDiffer
  <2>3. \A g \in Range(L[k]) : n.next[g] = m.next[g]
    BY <1>1, <2>2, FieldTypes
  <2>4. \A g \in Range(L[k]) : n.prev[g] = m.prev[g]
    <3>1. m.prev \in [Frames -> Link]
      BY FieldTypes
    <3>2. CASE m.head[l] = NULL
      BY <1>1, <2>2, <3>1, <3>2
    <3>3. CASE m.head[l] # NULL
      BY <1>1, <2>2, <3>1, <3>3
    <3>. QED
      BY <3>2, <3>3
  <2>5. n.head[k] = m.head[k] /\ n.tail[k] = m.tail[k]
    <3>1. m.head \in [Lists -> Link] /\ m.tail \in [Lists -> Link]
      BY FieldTypes
    <3>. QED
      BY <1>1, <1>8, <3>1
  <2>. QED
    BY <2>1, <2>3, <2>4, <2>5, LinksKept
<1>9. \A k \in Lists : Links(n, k, M[k])
  BY <1>6, <1>7, <1>8
<1>10. PoolLinks(n, P)
  <2>1. PoolLinks(m, P)
    BY DEF Sound
  <2>2. \A i \in 1 .. Len(P) : P[i] \in Frames /\ P[i] # f
    BY <1>0, <2>1 DEF PoolLinks, Range
  <2>3. \A i \in 1 .. Len(P) : n.next[P[i]] = m.next[P[i]]
    BY <1>1, <2>2, FieldTypes
  <2>. QED
    BY <1>1, <2>1, <2>3 DEF PoolLinks, Chained, SamePool
<1>11. \A g \in Frames : Then[g] = IF g = f THEN InList(l) ELSE Where[g]
  BY DEF Moved
<1>12. \A g \in Frames, s \in Sockets : Owns(n, s, g) <=> Owns(m, s, g)
  BY <1>1 DEF Owns, SameSockets, SameUsers
<1>. HIDE DEF Then
<1>13. \A g \in Frames, k \in Lists : g # f => (g \in Range(M[k]) <=> g \in Range(L[k]))
  BY <1>3, <1>7
<1>14. \A k \in Lists : f \in Range(M[k]) <=> k = l
  BY <1>0, <1>3, <1>7
<1>15. Located(n, M, P, Then, E \ {f})
  <2>1. ASSUME NEW g \in Frames, g # f
        PROVE  Then[g] = Where[g] /\ (g \in E \ {f} <=> g \in E)
    BY <1>11, <2>1
  <2>2. \A g \in Frames : g # f =>
          /\ Then[g] \in {Pool, Hand, Gone} \cup {InList(k) : k \in Lists} \cup {OwnedBy(s) : s \in Sockets}
          /\ Then[g] = Pool <=> g \in Range(P)
          /\ Then[g] = Hand <=> g \in E \ {f}
          /\ Then[g] = Gone <=> g \in n.lost
          /\ \A k \in Lists : Then[g] = InList(k) <=> g \in Range(M[k])
          /\ \A s \in Sockets : Then[g] = OwnedBy(s) <=> Owns(n, s, g)
    BY <1>1, <1>12, <1>13, <2>1 DEF Sound, Located
  <2>3. /\ Then[f] = InList(l) /\ f \notin Range(P) /\ f \notin E \ {f} /\ f \notin n.lost
        /\ \A s \in Sockets : ~ Owns(n, s, f)
    BY <1>0, <1>1, <1>11, <1>12
  <2>. QED
    BY <1>14, <2>2, <2>3, PlacesDiffer DEF Located
<1>16. StatesRight(n, Then)
  <2>1. \A g \in Frames : n.state[g] = IF g = f THEN 2 ELSE m.state[g]
    BY <1>1, FieldTypes
  <2>2. StatesRight(m, Where)
    BY DEF Sound
  <2>3. Then[f] = InList(l) /\ n.state[f] = 2 /\ \A g \in Frames : g # f => Then[g] = Where[g] /\ n.state[g] = m.state[g]
    BY <1>11, <2>1
  <2>. QED
    BY <2>2, <2>3, PlacesDiffer DEF StatesRight
<1>17. SocketsRight(n, M)
  <2>1. \A g \in Range(M["resend"]) : n.sock[g] \in Sockets
    <3>. SUFFICES ASSUME NEW g \in Range(M["resend"])
                  PROVE  m.sock[g] \in Sockets
      BY <1>1 DEF SameMarks
    <3>0. "resend" \in Lists
      BY DEF Lists
    <3>1. CASE l = "resend"
      BY <1>3, <1>7, <3>1 DEF Sound, SocketsRight
    <3>2. CASE l # "resend"
      BY <1>7, <3>0, <3>2 DEF Sound, SocketsRight
    <3>. QED
      BY <3>1, <3>2
  <2>. QED
    BY <1>1, <2>1 DEF Sound, SocketsRight, SameSockets, SameUsers
<1>. QED
  BY <1>1, <1>7, <1>9, <1>10, <1>15, <1>16, <1>17 DEF Sound, M, Then, q

TakenOut(m, n, L, P, Where, E, l, j, f) ==
    /\ n \in Mem /\ n.defect = m.defect
    /\ Sound(n, [L EXCEPT ![l] = RemoveAt(L[l], j)], P, Moved(Where, f, Hand), E \cup {f})

LEMMA SoundRemove ==
    ASSUME NEW m \in Mem, NEW L, NEW P, NEW Where, NEW E, Sound(m, L, P, Where, E),
           NEW l \in Lists, NEW j \in 1 .. Len(L[l]), NEW f, f = L[l][j],
           NEW n, n = FrameRemove(m, l, f)
    PROVE  TakenOut(m, n, L, P, Where, E, l, j, f)
<1>. DEFINE ll == L[l]
            q == RemoveAt(ll, j)
            M == [L EXCEPT ![l] = q]
            Then == Moved(Where, f, Hand)
            p == m.prev[f]
            x == m.next[f]
<1>0. /\ f \in Frames /\ f \in Range(ll) /\ Where[f] = InList(l) /\ m.state[f] = 2
      /\ f \notin Range(P) /\ \A k \in Lists : k # l => f \notin Range(L[k])
      /\ f \notin m.lost /\ f \notin E /\ \A s \in Sockets : ~ Owns(m, s, f)
  <2>1. f \in Frames /\ f \in Range(L[l])
    BY DEF Sound, Links, Range
  <2>2. Where[f] = InList(l)
    BY <2>1 DEF Sound, Located
  <2>. QED
    BY <2>1, <2>2, PlacesDiffer DEF Sound, Located, StatesRight
<1>1. /\ n \in Mem /\ n.defect = m.defect /\ Removed(m, n, l, f, p, x)
      /\ SamePool(m, n) /\ SameMarks(m, n) /\ SameSockets(m, n)
      /\ n.lost = m.lost
  BY <1>0, RemoveFields
<1>2. /\ ll \in Seq(Frames) /\ IsInjective(ll)
      /\ m.head[l] = First(ll) /\ m.tail[l] = Final(ll)
      /\ Chained(m.next, ll) /\ Back(m.prev, ll)
      /\ L \in [Lists -> Seq(Frames)]
  BY <1>0 DEF Sound, Links
<1>3. /\ q \in Seq(Frames) /\ IsInjective(q) /\ Range(q) = Range(ll) \ {f}
      /\ First(q) = IF p = NULL THEN x ELSE First(ll)
      /\ Final(q) = IF x = NULL THEN p ELSE Final(ll)
      /\ Chained(n.next, q) /\ Back(n.prev, q)
      /\ p # NULL => p \in Range(ll)
      /\ x # NULL => x \in Range(ll)
  <2>. DEFINE nx == m.next
              pv == m.prev
              ny == n.next
              pw == n.prev
  <2>1. nx \in [Frames -> Link] /\ pv \in [Frames -> Link]
    BY FieldTypes
  <2>2. j \in 1 .. Len(ll) /\ f = ll[j]
    OBVIOUS
  <2>3. CutOut(ll, j, nx, pv, ny, pw)
    BY <1>1 DEF Removed, CutOut
  <2>5. ll \in Seq(Frames) /\ IsInjective(ll) /\ Chained(nx, ll) /\ Back(pv, ll)
    BY <1>2
  <2>6. LeftOver(ll, j, nx, pv, ny, pw)
    <3>. HIDE DEF ll, nx, pv, ny, pw
    <3>. QED BY <2>1, <2>2, <2>3, <2>5, CutLinks
  <2>. QED
    BY <2>2, <2>6 DEF LeftOver
<1>. HIDE DEF q
<1>4. p \in Link /\ x \in Link
  BY <1>0, FieldTypes
<1>. HIDE DEF p, x
<1>5. Links(n, l, q)
  <2>0. m.head \in [Lists -> Link] /\ m.tail \in [Lists -> Link]
    BY FieldTypes
  <2>1. n.head[l] = IF p = NULL THEN x ELSE m.head[l]
    BY <1>1, <2>0 DEF Removed
  <2>2. n.tail[l] = IF x = NULL THEN p ELSE m.tail[l]
    BY <1>1, <2>0 DEF Removed
  <2>. QED
    BY <1>2, <1>3, <2>1, <2>2 DEF Links
<1>6. M \in [Lists -> Seq(Frames)] /\ M[l] = q /\ \A k \in Lists : k # l => M[k] = L[k]
  BY <1>2, <1>3
<1>. HIDE DEF M
<1>7. \A g \in Frames : g # f /\ (p # NULL => g # p) => n.next[g] = m.next[g]
  <2>1. m.next \in [Frames -> Link]
    BY FieldTypes
  <2>2. CASE p = NULL
    BY <1>1, <2>1, <2>2 DEF Removed
  <2>3. CASE p # NULL
    BY <1>1, <2>1, <2>3 DEF Removed
  <2>. QED
    BY <2>2, <2>3
<1>8. \A g \in Frames : g # f /\ (x # NULL => g # x) => n.prev[g] = m.prev[g]
  <2>1. m.prev \in [Frames -> Link]
    BY FieldTypes
  <2>2. CASE x = NULL
    BY <1>1, <2>1, <2>2 DEF Removed
  <2>3. CASE x # NULL
    BY <1>1, <2>1, <2>3 DEF Removed
  <2>. QED
    BY <2>2, <2>3
<1>9. \A g \in Frames : Where[g] # InList(l) => n.next[g] = m.next[g] /\ n.prev[g] = m.prev[g]
  <2>1. p # NULL => p \in Frames /\ Where[p] = InList(l)
    BY <1>3, <1>4 DEF Sound, Located, Link
  <2>2. x # NULL => x \in Frames /\ Where[x] = InList(l)
    BY <1>3, <1>4 DEF Sound, Located, Link
  <2>. QED
    BY <1>0, <1>7, <1>8, <2>1, <2>2
<1>10. ASSUME NEW k \in Lists, k # l
       PROVE  Links(n, k, L[k])
  <2>1. Links(m, k, L[k])
    BY <1>0 DEF Sound
  <2>2. \A g \in Range(L[k]) : n.next[g] = m.next[g] /\ n.prev[g] = m.prev[g]
    <3>1. \A g \in Range(L[k]) : g \in Frames
      BY <2>1 DEF Links, Range
    <3>2. \A g \in Range(L[k]) : Where[g] = InList(k)
      BY <3>1 DEF Sound, Located
    <3>. QED
      BY <1>9, <1>10, <3>1, <3>2, PlacesDiffer
  <2>3. n.head[k] = m.head[k] /\ n.tail[k] = m.tail[k]
    <3>1. m.head \in [Lists -> Link] /\ m.tail \in [Lists -> Link]
      BY FieldTypes
    <3>2. n.head[k] = m.head[k]
      BY <1>1, <1>10, <3>1 DEF Removed
    <3>3. n.tail[k] = m.tail[k]
      BY <1>1, <1>10, <3>1 DEF Removed
    <3>. QED
      BY <3>2, <3>3
  <2>. QED
    BY <2>1, <2>2, <2>3, LinksKept
<1>11. \A k \in Lists : Links(n, k, M[k])
  BY <1>5, <1>6, <1>10
<1>12. PoolLinks(n, P)
  <2>1. PoolLinks(m, P)
    BY DEF Sound
  <2>2. \A i \in 1 .. Len(P) : P[i] \in Frames /\ P[i] \in Range(P)
    BY <2>1 DEF PoolLinks, Range
  <2>3. \A i \in 1 .. Len(P) : Where[P[i]] # InList(l)
    BY <2>2, PlacesDiffer DEF Sound, Located
  <2>4. \A i \in 1 .. Len(P) : n.next[P[i]] = m.next[P[i]]
    BY <1>9, <2>2, <2>3
  <2>. QED
    BY <1>1, <2>1, <2>4 DEF PoolLinks, Chained, SamePool
<1>13. \A g \in Frames : Then[g] = IF g = f THEN Hand ELSE Where[g]
  BY DEF Moved
<1>14. \A g \in Frames, s \in Sockets : Owns(n, s, g) <=> Owns(m, s, g)
  BY <1>1 DEF Owns, SameSockets, SameUsers
<1>. HIDE DEF Then
<1>15. \A g \in Frames, k \in Lists : g # f => (g \in Range(M[k]) <=> g \in Range(L[k]))
  BY <1>3, <1>6
<1>16. \A k \in Lists : f \notin Range(M[k])
  BY <1>0, <1>3, <1>6
<1>17. Located(n, M, P, Then, E \cup {f})
  <2>1. ASSUME NEW g \in Frames, g # f
        PROVE  Then[g] = Where[g] /\ (g \in E \cup {f} <=> g \in E)
    BY <1>13, <2>1
  <2>2. \A g \in Frames : g # f =>
          /\ Then[g] \in {Pool, Hand, Gone} \cup {InList(k) : k \in Lists} \cup {OwnedBy(s) : s \in Sockets}
          /\ Then[g] = Pool <=> g \in Range(P)
          /\ Then[g] = Hand <=> g \in E \cup {f}
          /\ Then[g] = Gone <=> g \in n.lost
          /\ \A k \in Lists : Then[g] = InList(k) <=> g \in Range(M[k])
          /\ \A s \in Sockets : Then[g] = OwnedBy(s) <=> Owns(n, s, g)
    BY <1>1, <1>14, <1>15, <2>1 DEF Sound, Located
  <2>3. /\ Then[f] = Hand /\ f \notin Range(P) /\ f \in E \cup {f} /\ f \notin n.lost
        /\ \A s \in Sockets : ~ Owns(n, s, f)
    BY <1>0, <1>1, <1>13, <1>14
  <2>. QED
    BY <1>16, <2>2, <2>3, PlacesDiffer DEF Located
<1>18. StatesRight(n, Then)
  <2>1. \A g \in Frames : n.state[g] = IF g = f THEN 1 ELSE m.state[g]
    BY <1>1, FieldTypes DEF Removed
  <2>2. StatesRight(m, Where)
    BY DEF Sound
  <2>3. Then[f] = Hand /\ n.state[f] = 1 /\ \A g \in Frames : g # f => Then[g] = Where[g] /\ n.state[g] = m.state[g]
    BY <1>0, <1>13, <2>1
  <2>. QED
    BY <2>2, <2>3, PlacesDiffer DEF StatesRight
<1>19. SocketsRight(n, M)
  <2>1. \A g \in Range(M["resend"]) : n.sock[g] \in Sockets
    <3>. SUFFICES ASSUME NEW g \in Range(M["resend"])
                  PROVE  m.sock[g] \in Sockets
      BY <1>1 DEF SameMarks
    <3>0. "resend" \in Lists
      BY DEF Lists
    <3>1. g \in Range(L["resend"])
      BY <1>3, <1>6, <3>0
    <3>. QED
      BY <3>1 DEF Sound, SocketsRight
  <2>. QED
    BY <1>1, <2>1 DEF Sound, SocketsRight, SameSockets, SameUsers
<1>20. Sound(n, M, P, Then, E \cup {f})
  BY <1>6, <1>11, <1>12, <1>17, <1>18, <1>19 DEF Sound
<1>. QED
  BY <1>1, <1>20 DEF M, Then, q, TakenOut

LEMMA SoundGet ==
    ASSUME NEW m \in Mem, NEW L, NEW P, NEW Where, NEW E, Sound(m, L, P, Where, E),
           NEW c \in Nat, NEW g, g = IPFrameGet(m, c), ~ (g.f = NULL /\ g.m = m)
    PROVE  /\ g.f \in Frames /\ g.f \notin E /\ g.m \in Mem /\ g.m.defect = m.defect
           /\ SameMarks(m, g.m) /\ SameSockets(m, g.m) /\ g.m.queue = m.queue
           /\ Sound(g.m, L, RemoveAt(P, 1), Moved(Where, g.f, Hand), E \cup {g.f})
<1>. DEFINE f == g.f
            n == g.m
            Q == RemoveAt(P, 1)
            Then == Moved(Where, f, Hand)
<1>1. /\ f = m.freeHead /\ f \in Frames /\ n \in Mem
      /\ n.state = [m.state EXCEPT ![f] = 1]
      /\ n.freeHead = m.next[f] /\ n.freeCount = m.freeCount - 1
      /\ n.next = m.next
      /\ SameLists(m, n) /\ SameMarks(m, n) /\ SameSockets(m, n)
      /\ n.queue = m.queue /\ n.lost = m.lost /\ n.defect = m.defect
  BY GetFields DEF Gets
<1>. HIDE DEF f, n
<1>2. /\ P \in Seq(Frames) /\ IsInjective(P) /\ m.freeCount = Len(P) /\ m.freeHead = First(P)
      /\ Chained(m.next, P)
  BY DEF Sound, PoolLinks
<1>3. P # <<>> /\ f = P[1] /\ f \in Range(P)
  <2>1. P # <<>> /\ f = P[1]
    BY <1>1, <1>2, FramesAssumption DEF First
  <2>2. 1 \in 1 .. Len(P)
    BY <1>2, <2>1, EmptySeq
  <2>. QED
    BY <1>2, <2>1, <2>2 DEF Range
<1>4. /\ Where[f] = Pool /\ f \notin E /\ f \notin m.lost
      /\ \A l \in Lists : f \notin Range(L[l])
      /\ \A s \in Sockets : ~ Owns(m, s, f)
  BY <1>1, <1>3, PlacesDiffer DEF Sound, Located
<1>5. /\ Q \in Seq(Frames) /\ IsInjective(Q) /\ Range(Q) = Range(P) \ {f}
      /\ Len(Q) = Len(P) - 1 /\ First(Q) = m.next[f] /\ Chained(m.next, Q)
  <2>1. m.next \in [Frames -> Link]
    BY FieldTypes
  <2>. QED
    BY <1>2, <1>3, <2>1, PopChained
<1>. HIDE DEF Q
<1>6. PoolLinks(n, Q)
  BY <1>1, <1>2, <1>5 DEF PoolLinks
<1>7. ASSUME NEW l \in Lists
      PROVE  Links(n, l, L[l])
  <2>1. Links(m, l, L[l])
    BY DEF Sound
  <2>. QED
    BY <1>1, <2>1, LinksKept DEF SameLists
<1>8. \A h \in Frames : Then[h] = IF h = f THEN Hand ELSE Where[h]
  BY DEF Moved
<1>9. \A h \in Frames, s \in Sockets : Owns(n, s, h) <=> Owns(m, s, h)
  BY <1>1 DEF Owns, SameSockets, SameUsers
<1>. HIDE DEF Then
<1>10. Located(n, L, Q, Then, E \cup {f})
  <2>1. ASSUME NEW h \in Frames, h # f
        PROVE  Then[h] = Where[h] /\ (h \in Range(Q) <=> h \in Range(P)) /\ (h \in E \cup {f} <=> h \in E)
    BY <1>5, <1>8, <2>1
  <2>2. \A h \in Frames : h # f =>
          /\ Then[h] \in {Pool, Hand, Gone} \cup {InList(l) : l \in Lists} \cup {OwnedBy(s) : s \in Sockets}
          /\ Then[h] = Pool <=> h \in Range(Q)
          /\ Then[h] = Hand <=> h \in E \cup {f}
          /\ Then[h] = Gone <=> h \in n.lost
          /\ \A l \in Lists : Then[h] = InList(l) <=> h \in Range(L[l])
          /\ \A s \in Sockets : Then[h] = OwnedBy(s) <=> Owns(n, s, h)
    BY <1>1, <1>9, <2>1 DEF Sound, Located
  <2>3. /\ Then[f] = Hand /\ f \notin Range(Q) /\ f \in E \cup {f} /\ f \notin n.lost
        /\ \A s \in Sockets : ~ Owns(n, s, f)
    BY <1>1, <1>4, <1>5, <1>8, <1>9
  <2>. QED
    BY <1>4, <2>2, <2>3, PlacesDiffer DEF Located
<1>11. StatesRight(n, Then)
  <2>1. \A h \in Frames : n.state[h] = IF h = f THEN 1 ELSE m.state[h]
    BY <1>1, FieldTypes
  <2>2. StatesRight(m, Where)
    BY DEF Sound
  <2>3. Then[f] = Hand /\ n.state[f] = 1 /\ \A h \in Frames : h # f => Then[h] = Where[h] /\ n.state[h] = m.state[h]
    BY <1>1, <1>8, <2>1
  <2>. QED
    BY <2>2, <2>3, PlacesDiffer DEF StatesRight
<1>12. SocketsRight(n, L)
  BY <1>1 DEF Sound, SocketsRight, SameMarks, SameSockets, SameUsers
<1>13. Sound(n, L, Q, Then, E \cup {f})
  BY <1>6, <1>7, <1>10, <1>11, <1>12 DEF Sound
<1>. QED
  BY <1>1, <1>4, <1>13 DEF Q, Then, f, n

\* The memory is changed where nothing says where frames are, and who owns which
SameOwners(m, n) ==
    /\ \A s \in Sockets : \A f \in Frames : Owns(n, s, f) <=> Owns(m, s, f)
    /\ \A s \in Sockets : n.user[s].at = "send" => n.frameSend[s] # NULL

LEMMA SoundSame ==
    ASSUME NEW m \in Mem, NEW L, NEW P, NEW Where, NEW E, Sound(m, L, P, Where, E),
           NEW n, SamePlaces(m, n), SameOwners(m, n),
           \A f \in Range(L["resend"]) : n.sock[f] = m.sock[f]
    PROVE  Sound(n, L, P, Where, E)
<1>1. \A l \in Lists : Links(n, l, L[l])
  BY DEF Sound, Links, SamePlaces, SameLists
<1>2. PoolLinks(n, P)
  BY DEF Sound, PoolLinks, SamePlaces, SamePool
<1>3. Located(n, L, P, Where, E)
  BY DEF Sound, Located, SamePlaces, SameOwners
<1>4. StatesRight(n, Where)
  BY DEF Sound, StatesRight, SamePlaces
<1>5. SocketsRight(n, L)
  BY DEF Sound, SocketsRight, SameOwners
<1>. QED
  BY <1>1, <1>2, <1>3, <1>4, <1>5 DEF Sound

-----------------------------------------------------------------------------
(* The same, with the places left unsaid *)

\* As many frames wait to be sent
Waiting(m) == Cardinality(In(m, "send"))

\* Messages that wake the network thread have been added, no more than frames to send
Ahead(m, n) ==
    /\ More(m.queue, n.queue)
    /\ Len(n.queue) - Len(m.queue) <= Waiting(n) - Waiting(m)

LEMMA WaitingNat ==
    ASSUME NEW m
    PROVE  /\ Waiting(m) \in Nat /\ IsFiniteSet(In(m, "send"))
           /\ \A S : S \subseteq In(m, "send") => IsFiniteSet(S) /\ Cardinality(S) <= Waiting(m)
<1>1. IsFiniteSet(Frames) /\ In(m, "send") \subseteq Frames
  BY FramesAssumption DEF In
<1>2. IsFiniteSet(In(m, "send"))
  BY <1>1, FS_Subset
<1>. QED
  BY <1>2, FS_Subset, FS_CardinalityType DEF Waiting

LEMMA QueueLength ==
    ASSUME NEW m \in Mem
    PROVE  m.queue \in Seq(Message) /\ Len(m.queue) \in Nat
  BY FieldTypes

LEMMA AheadKept ==
    ASSUME NEW m \in Mem, NEW n \in Mem, n.queue = m.queue, In(m, "send") \subseteq In(n, "send")
    PROVE  Ahead(m, n)
<1>1. More(m.queue, n.queue)
  BY QueueLength, MoreSame
<1>2. Waiting(m) <= Waiting(n) /\ Waiting(m) \in Nat /\ Waiting(n) \in Nat
  BY WaitingNat DEF Waiting
<1>. QED
  BY <1>1, <1>2, QueueLength DEF Ahead

LEMMA AheadAhead ==
    ASSUME NEW m \in Mem, NEW n \in Mem, NEW k \in Mem, Ahead(m, n), Ahead(n, k)
    PROVE  Ahead(m, k)
<1>1. More(m.queue, k.queue)
  BY QueueLength, MoreMore DEF Ahead
<1>2. Waiting(m) \in Nat /\ Waiting(n) \in Nat /\ Waiting(k) \in Nat
  BY WaitingNat
<1>3. Len(m.queue) \in Nat /\ Len(n.queue) \in Nat /\ Len(k.queue) \in Nat
  BY QueueLength
<1>4. /\ Len(n.queue) - Len(m.queue) <= Waiting(n) - Waiting(m)
      /\ Len(k.queue) - Len(n.queue) <= Waiting(k) - Waiting(n)
  BY DEF Ahead
<1>6. \A a, b, c, x, y, z \in Nat : b - a <= y - x /\ c - b <= z - y => c - a <= z - x
  OBVIOUS
<1>5. Len(k.queue) - Len(m.queue) <= Waiting(k) - Waiting(m)
  BY <1>2, <1>3, <1>4, <1>6, ZenonT(60)
<1>. QED
  BY <1>1, <1>5 DEF Ahead

\* Only frames, and messages that wake the network thread, have been touched
FramesOnly(m, n) == SameSockets(m, n) /\ Ahead(m, n)

\* The lists hold the same frames
SameIn(m, n) == \A l \in Lists : In(n, l) = In(m, l)

\* And no frame that waits to be sent again has been taken
Sent(m, n) == FramesOnly(m, n) /\ In(m, "resend") \subseteq In(n, "resend")

LEMMA SentSame == ASSUME NEW m \in Mem PROVE Sent(m, m)
  BY AheadKept DEF Sent, FramesOnly, SameSockets, SameUsers

LEMMA SentSent ==
    ASSUME NEW m \in Mem, NEW n \in Mem, NEW k \in Mem, Sent(m, n), Sent(n, k)
    PROVE  Sent(m, k)
<1>1. Ahead(m, k)
  BY AheadAhead DEF Sent, FramesOnly
<1>. QED
  BY <1>1 DEF Sent, FramesOnly, SameSockets, SameUsers

LEMMA GoodType == ASSUME NEW m, NEW E, Good(m, E)
                  PROVE  m \in Mem /\ m.defect = "none" /\ E \subseteq Frames
  BY DEF Good

LEMMA ListNames ==
    /\ "send" \in Lists /\ "resend" \in Lists /\ Sockets \subseteq Lists
    /\ "send" # "resend" /\ "send" \notin Sockets /\ "resend" \notin Sockets
  BY FramesAssumption DEF Lists

LEMMA AheadIn ==
    ASSUME NEW m \in Mem, NEW n \in Mem, n.queue = m.queue, SameIn(m, n)
    PROVE  Ahead(m, n)
<1>1. In(m, "send") \subseteq In(n, "send")
  BY ListNames DEF SameIn
<1>. QED
  BY <1>1, AheadKept

\* Frames in hand or with a user are in no list
LEMMA HandOutside ==
    ASSUME NEW m, NEW E, Good(m, E), NEW f \in Frames
    PROVE  /\ f \in E => \A l \in Lists : f \notin In(m, l)
           /\ \A s \in Sockets : Owns(m, s, f) => f \notin E /\ \A l \in Lists : f \notin In(m, l)
<1>1. m \in Mem /\ m.defect = "none" /\ E \subseteq Frames
  BY GoodType
<1>2. PICK L, P, Where : Sound(m, L, P, Where, E)
  BY DEF Good
<1>3. \A l \in Lists : In(m, l) = {h \in Frames : Where[h] = InList(l)}
  BY <1>1, <1>2, SoundLists
<1>. QED
  BY <1>2, <1>3, PlacesDiffer DEF Sound, Located

\* Marks, sockets and messages are changed
LEMMA SameGood ==
    ASSUME NEW m, NEW E, Good(m, E), NEW n \in Mem, n.defect = "none",
           SamePlaces(m, n), SameOwners(m, n),
           \A f \in In(m, "resend") : n.sock[f] = m.sock[f]
    PROVE  Good(n, E) /\ SameIn(m, n)
<1>1. m \in Mem /\ m.defect = "none" /\ E \subseteq Frames
  BY GoodType
<1>2. PICK L, P, Where : Sound(m, L, P, Where, E)
  BY DEF Good
<1>3. \A l \in Lists : ListFrames(m, l) = L[l]
  BY <1>1, <1>2, SoundLists
<1>4. \A f \in Range(L["resend"]) : f \in In(m, "resend")
  BY <1>2, <1>3, ListNames DEF In, Sound, Links, Range
<1>5. Sound(n, L, P, Where, E)
  BY <1>1, <1>2, <1>4, SoundSame
<1>6. \A l \in Lists : ListFrames(n, l) = L[l]
  BY <1>5, SoundLists
<1>. QED
  BY <1>1, <1>3, <1>5, <1>6 DEF Good, SameIn, In

LEMMA OwnersSame ==
    ASSUME NEW m, NEW E, Good(m, E), NEW n, SameUsers(m, n)
    PROVE  SameOwners(m, n)
<1>1. PICK L, P, Where : Sound(m, L, P, Where, E)
  BY DEF Good
<1>2. \A s \in Sockets : m.user[s].at = "send" => m.frameSend[s] # NULL
  BY <1>1 DEF Sound, SocketsRight
<1>. QED
  BY <1>2 DEF SameOwners, SameUsers, Owns

\* IPFrameGet
Taken(m, E, g) ==
    /\ g.f \in Frames /\ g.f \notin E /\ Good(g.m, E \cup {g.f}) /\ Sent(m, g.m)
    /\ SameMarks(m, g.m) /\ SameSockets(m, g.m) /\ g.m.queue = m.queue /\ g.m.lost = m.lost
    /\ SameIn(m, g.m)

LEMMA GetGood ==
    ASSUME NEW m, NEW E, Good(m, E), NEW c \in Nat, NEW g, g = IPFrameGet(m, c)
    PROVE  (g.f = NULL /\ g.m = m) \/ Taken(m, E, g)
<1>. SUFFICES ASSUME ~ (g.f = NULL /\ g.m = m)
              PROVE  Taken(m, E, g)
  OBVIOUS
<1>1. m \in Mem /\ m.defect = "none" /\ E \subseteq Frames
  BY GoodType
<1>2. PICK L, P, Where : Sound(m, L, P, Where, E)
  BY DEF Good
<1>3. /\ g.f \in Frames /\ g.f \notin E /\ g.m \in Mem /\ g.m.defect = m.defect
      /\ SameMarks(m, g.m) /\ SameSockets(m, g.m) /\ g.m.queue = m.queue
      /\ Sound(g.m, L, RemoveAt(P, 1), Moved(Where, g.f, Hand), E \cup {g.f})
  BY <1>1, <1>2, SoundGet
<1>4. Good(g.m, E \cup {g.f})
  BY <1>1, <1>3 DEF Good
<1>5. SameIn(m, g.m)
  <2>1. \A l \in Lists : ListFrames(m, l) = L[l]
    BY <1>1, <1>2, SoundLists
  <2>2. \A l \in Lists : ListFrames(g.m, l) = L[l]
    BY <1>3, SoundLists
  <2>. QED
    BY <2>1, <2>2 DEF In, SameIn
<1>6. Sent(m, g.m)
  BY <1>1, <1>3, <1>5, ListNames, AheadIn, GoodType DEF Sent, FramesOnly, SameIn
<1>7. g.m.lost = m.lost
  <2>1. (g.f = NULL /\ g.m = m) \/ Gets(m, g)
    BY <1>1, GetFields
  <2>. QED
    BY <2>1 DEF Gets
<1>. QED
  BY <1>3, <1>4, <1>5, <1>6, <1>7 DEF Taken

\* FrameFree
Freed(m, n, E, f) ==
    /\ Good(n, E \ {f}) /\ Sent(m, n) /\ SameMarks(m, n) /\ n.queue = m.queue
    /\ SameIn(m, n)

LEMMA FreeGood ==
    ASSUME NEW m, NEW E, Good(m, E), NEW f \in E, NEW n, n = FrameFree(m, f)
    PROVE  Freed(m, n, E, f)
<1>1. m \in Mem /\ m.defect = "none" /\ E \subseteq Frames /\ f \in Frames
  BY GoodType
<1>2. PICK L, P, Where : Sound(m, L, P, Where, E)
  BY DEF Good
<1>3. /\ n \in Mem /\ n.defect = m.defect
      /\ Sound(n, L, InsertAt(P, 1, f), Moved(Where, f, Pool), E \ {f})
  BY <1>1, <1>2, SoundFree
<1>4. SameMarks(m, n) /\ SameSockets(m, n) /\ n.queue = m.queue
  <2>1. f \in Frames /\ m \in Mem
    BY <1>1
  <2>2. Frees(m, n, f)
    BY <2>1, FreeFields
  <2>. QED
    BY <2>2 DEF Frees
<1>5. Good(n, E \ {f})
  BY <1>1, <1>3 DEF Good
<1>6. SameIn(m, n)
  <2>1. \A l \in Lists : ListFrames(m, l) = L[l]
    BY <1>1, <1>2, SoundLists
  <2>2. \A l \in Lists : ListFrames(n, l) = L[l]
    BY <1>3, SoundLists
  <2>. QED
    BY <2>1, <2>2 DEF In, SameIn
<1>7. Sent(m, n)
  BY <1>1, <1>3, <1>4, <1>6, ListNames, AheadIn DEF Sent, FramesOnly, SameIn
<1>. QED
  BY <1>4, <1>5, <1>6, <1>7 DEF Freed

\* FrameInsert
Put(m, n, E, l, f) ==
    /\ Good(n, E \ {f}) /\ Sent(m, n) /\ SameMarks(m, n) /\ n.queue = m.queue
    /\ In(n, l) = In(m, l) \cup {f} /\ \A k \in Lists : k # l => In(n, k) = In(m, k)

LEMMA InsertGood ==
    ASSUME NEW m, NEW E, Good(m, E), NEW f \in E, NEW l \in Lists,
           l = "resend" => m.sock[f] \in Sockets, NEW n, n = FrameInsert(m, l, f)
    PROVE  Put(m, n, E, l, f)
<1>1. m \in Mem /\ m.defect = "none" /\ E \subseteq Frames /\ f \in Frames
  BY GoodType
<1>2. PICK L, P, Where : Sound(m, L, P, Where, E)
  BY DEF Good
<1>. DEFINE M == [L EXCEPT ![l] = InsertAt(L[l], 1, f)]
            Then == Moved(Where, f, InList(l))
<1>3. n \in Mem /\ n.defect = m.defect /\ Sound(n, M, P, Then, E \ {f})
  BY <1>1, <1>2, SoundInsert
<1>4. SameMarks(m, n) /\ SameSockets(m, n) /\ n.queue = m.queue
  <2>1. Inserted(m, n, l, f)
    BY <1>1, InsertFields
  <2>. QED
    BY <2>1 DEF Inserted
<1>5. Good(n, E \ {f})
  BY <1>1, <1>3 DEF Good
<1>6. In(n, l) = In(m, l) \cup {f} /\ \A k \in Lists : k # l => In(n, k) = In(m, k)
  <2>1. \A k \in Lists : In(m, k) = {h \in Frames : Where[h] = InList(k)}
    BY <1>1, <1>2, SoundLists
  <2>2. \A k \in Lists : In(n, k) = {h \in Frames : Then[h] = InList(k)}
    <3>. HIDE DEF M, Then
    <3>. QED BY <1>3, SoundLists
  <2>3. \A h \in Frames : Then[h] = IF h = f THEN InList(l) ELSE Where[h]
    BY DEF Moved
  <2>4. Where[f] = Hand
    BY <1>1, <1>2 DEF Sound, Located
  <2>. HIDE DEF Then
  <2>5. \A h \in Frames : h \in In(n, l) <=> h \in In(m, l) \cup {f}
    BY <2>1, <2>2, <2>3
  <2>6. \A k \in Lists : k # l => \A h \in Frames : h \in In(n, k) <=> h \in In(m, k)
    BY <2>1, <2>2, <2>3, <2>4, PlacesDiffer
  <2>. QED
    BY <1>1, <2>5, <2>6 DEF In
<1>7. Sent(m, n)
  <2>1. In(m, "resend") \subseteq In(n, "resend") /\ In(m, "send") \subseteq In(n, "send")
    BY <1>6, ListNames
  <2>2. Ahead(m, n)
    BY <1>1, <1>3, <1>4, <2>1, AheadKept
  <2>. QED
    BY <1>4, <2>1, <2>2 DEF Sent, FramesOnly
<1>. QED
  BY <1>4, <1>5, <1>6, <1>7 DEF Put

\* FrameRemove
Cut(m, n, E, l, f) ==
    /\ f \in Frames /\ f \notin E
    /\ Good(n, E \cup {f}) /\ SameSockets(m, n) /\ SameMarks(m, n) /\ n.queue = m.queue
    /\ l # "send" => FramesOnly(m, n)
    /\ In(n, l) = In(m, l) \ {f} /\ \A k \in Lists : k # l => In(n, k) = In(m, k)

LEMMA RemoveGood ==
    ASSUME NEW m, NEW E, Good(m, E), NEW l \in Lists, NEW f \in In(m, l),
           NEW n, n = FrameRemove(m, l, f)
    PROVE  Cut(m, n, E, l, f)
<1>1. m \in Mem /\ m.defect = "none" /\ E \subseteq Frames /\ f \in Frames
  BY DEF Good, In
<1>2. PICK L, P, Where : Sound(m, L, P, Where, E)
  BY DEF Good
<1>. DEFINE ll == L[l]
<1>3. PICK j \in 1 .. Len(ll) : f = ll[j]
  <2>1. f \in Range(ll)
    BY <1>1, <1>2, SoundLists DEF In
  <2>2. ll \in Seq(Frames)
    BY <1>2 DEF Sound
  <2>. QED
    BY <2>1, <2>2 DEF Range
<1>. DEFINE M == [L EXCEPT ![l] = RemoveAt(L[l], j)]
            Then == Moved(Where, f, Hand)
<1>4. n \in Mem /\ n.defect = m.defect /\ Sound(n, M, P, Then, E \cup {f})
  <2>1. m \in Mem /\ j \in 1 .. Len(L[l]) /\ f = L[l][j]
    BY <1>1, <1>3
  <2>2. TakenOut(m, n, L, P, Where, E, l, j, f)
    BY <1>2, <2>1, SoundRemove
  <2>. QED
    BY <2>2 DEF TakenOut
<1>5. SameMarks(m, n) /\ SameSockets(m, n) /\ n.queue = m.queue
  <2>1. f \in Frames /\ m \in Mem
    BY <1>1
  <2>. QED
    BY <2>1, RemoveFields
<1>6. Good(n, E \cup {f})
  BY <1>1, <1>4 DEF Good
<1>7. \A k \in Lists : In(m, k) = {h \in Frames : Where[h] = InList(k)}
  BY <1>1, <1>2, SoundLists
<1>8. \A k \in Lists : In(n, k) = {h \in Frames : Then[h] = InList(k)}
  <2>. HIDE DEF M, Then
  <2>. QED BY <1>4, SoundLists
<1>9. Where[f] = InList(l) /\ f \notin E
  BY <1>1, <1>2, <1>7, PlacesDiffer DEF Sound, Located
<1>10. In(n, l) = In(m, l) \ {f} /\ \A k \in Lists : k # l => In(n, k) = In(m, k)
  <2>1. \A h \in Frames : Then[h] = IF h = f THEN Hand ELSE Where[h]
    BY DEF Moved
  <2>. HIDE DEF Then
  <2>2. \A h \in Frames : h \in In(n, l) <=> h \in In(m, l) \ {f}
    BY <1>7, <1>8, <2>1, PlacesDiffer
  <2>3. \A k \in Lists : k # l => \A h \in Frames : h \in In(n, k) <=> h \in In(m, k)
    BY <1>7, <1>8, <1>9, <2>1, PlacesDiffer
  <2>. QED
    BY <1>1, <2>2, <2>3 DEF In
<1>11. ASSUME l # "send" PROVE Ahead(m, n)
  <2>1. In(m, "send") \subseteq In(n, "send")
    BY <1>10, <1>11, ListNames
  <2>. QED
    BY <1>1, <1>4, <1>5, <2>1, AheadKept
<1>. QED
  BY <1>1, <1>5, <1>6, <1>9, <1>10, <1>11 DEF FramesOnly, Cut

\* Everything is in its place, and in hand is E
Fine(m, n, E) == Good(n, E) /\ Sent(m, n)

LEMMA FineFine ==
    ASSUME NEW m \in Mem, NEW n, NEW k, NEW D, NEW E, Fine(m, n, D), Fine(n, k, E)
    PROVE  Fine(m, k, E)
  BY SentSent, GoodType DEF Fine

LEMMA FineSame ==
    ASSUME NEW m, NEW E, Good(m, E)
    PROVE  Fine(m, m, E)
  BY SentSame, GoodType DEF Fine

\* IPSendPacket
Addressed(m, n, E, s, f) ==
    /\ Fine(m, n, E) /\ SameIn(m, n)
    /\ n.sock = [m.sock EXCEPT ![f] = s]

LEMMA PacketGood ==
    ASSUME NEW m, NEW E, Good(m, E), NEW f \in Frames, f \notin In(m, "resend"),
           NEW s \in Sockets \cup {NULL}, NEW c \in BOOLEAN, NEW n, n = IPSendPacket(m, s, f, c)
    PROVE  Addressed(m, n, E, s, f)
<1>1. m \in Mem /\ m.defect = "none" /\ E \subseteq Frames
  BY GoodType
<1>2. /\ n \in Mem
      /\ n.sock = [m.sock EXCEPT ![f] = s]
      /\ SamePlaces(m, n) /\ SameSockets(m, n) /\ n.queue = m.queue /\ n.defect = m.defect
  BY <1>1, PacketFields
<1>3. \A g \in In(m, "resend") : n.sock[g] = m.sock[g]
  BY <1>1, <1>2, FieldTypes DEF In
<1>4. SameOwners(m, n)
  BY <1>2, OwnersSame DEF SameSockets
<1>5. Good(n, E) /\ SameIn(m, n)
  BY <1>1, <1>2, <1>3, <1>4, SameGood
<1>6. Sent(m, n)
  BY <1>1, <1>2, <1>5, ListNames, AheadIn, GoodType DEF Sent, FramesOnly, SameIn
<1>. QED
  BY <1>2, <1>5, <1>6 DEF Addressed, Fine

\* Other marks on frames
Marked(m, n, E) == Fine(m, n, E) /\ SameIn(m, n) /\ n.sock = m.sock

LEMMA MarkGood ==
    ASSUME NEW m, NEW E, Good(m, E), NEW rt \in [Frames -> Nat], NEW tm \in [Frames -> Int],
           NEW n, n = [m EXCEPT !.retry = rt, !.timeout = tm]
    PROVE  Marked(m, n, E)
<1>1. m \in Mem /\ m.defect = "none" /\ E \subseteq Frames
  BY GoodType
<1>2. n \in Mem
  BY <1>1 DEF Mem
<1>3. /\ n.sock = m.sock
      /\ SamePlaces(m, n) /\ SameSockets(m, n) /\ n.queue = m.queue /\ n.defect = m.defect
  BY <1>1 DEF Mem, SamePlaces, SameLists, SamePool, SameSockets, SameUsers
<1>4. SameOwners(m, n)
  BY <1>3, OwnersSame DEF SameSockets
<1>5. Good(n, E) /\ SameIn(m, n)
  BY <1>1, <1>2, <1>3, <1>4, SameGood
<1>6. Sent(m, n)
  BY <1>1, <1>3, <1>5, ListNames, AheadIn, GoodType DEF Sent, FramesOnly, SameIn
<1>. QED
  BY <1>3, <1>5, <1>6 DEF Fine, Marked

\* A message that wakes the network thread
Woken(m, n, E) ==
    /\ Good(n, E) /\ SameIn(m, n) /\ SameSockets(m, n)
    /\ More(m.queue, n.queue) /\ Len(n.queue) <= Len(m.queue) + 1

LEMMA WakeGood ==
    ASSUME NEW m, NEW E, Good(m, E), NEW n, n = MQueueSend(m, 2, NULL)
    PROVE  Woken(m, n, E)
<1>1. m \in Mem /\ m.defect = "none" /\ E \subseteq Frames
  BY GoodType
<1>2. /\ n \in Mem
      /\ SameLists(m, n) /\ SamePool(m, n) /\ SameMarks(m, n) /\ SameSockets(m, n)
      /\ n.state = m.state /\ n.next = m.next /\ n.defect = m.defect
      /\ \/ n.queue = Append(m.queue, [kind |-> 2, frame |-> NULL]) /\ n.lost = m.lost
         \/ n.queue = m.queue /\ n.lost = m.lost
  BY <1>1, SendFields
<1>3. More(m.queue, n.queue) /\ Len(n.queue) <= Len(m.queue) + 1
  <2>1. CASE n.queue = m.queue
    BY <1>1, <2>1, MoreSame, QueueLength
  <2>2. CASE n.queue = Append(m.queue, [kind |-> 2, frame |-> NULL])
    <3>. DEFINE q == m.queue
                e == [kind |-> 2, frame |-> NULL]
    <3>1. e \in Message /\ e.kind = 2
      BY DEF Message, Link
    <3>2. q \in Seq(Message)
      BY <1>1, FieldTypes
    <3>. HIDE DEF q, e
    <3>3. More(q, Append(q, e)) /\ Len(Append(q, e)) <= Len(q) + 1
      BY <3>1, <3>2 DEF More
    <3>. QED
      BY <2>2, <3>3 DEF q, e
  <2>. QED
    BY <1>2, <2>1, <2>2
<1>4. SamePlaces(m, n) /\ n.sock = m.sock
  BY <1>2 DEF SamePlaces, SameMarks
<1>5. SameOwners(m, n)
  BY <1>2, OwnersSame DEF SameSockets
<1>6. Good(n, E) /\ SameIn(m, n)
  BY <1>1, <1>2, <1>4, <1>5, SameGood
<1>. QED
  BY <1>2, <1>3, <1>6 DEF Woken

\* A frame to send and a message that says so
LEMMA WakeSent ==
    ASSUME NEW m \in Mem, NEW k, NEW n, NEW E, NEW f \in Frames, f \notin In(m, "send"),
           Put(m, k, E, "send", f), Woken(k, n, E \ {f})
    PROVE  Fine(m, n, E \ {f})
<1>1. In(n, "send") = In(m, "send") \cup {f} /\ In(m, "resend") \subseteq In(n, "resend")
  BY ListNames DEF Put, Woken, SameIn
<1>2. Waiting(n) = Waiting(m) + 1 /\ Waiting(m) \in Nat
  BY <1>1, WaitingNat, FS_AddElement DEF Waiting
<1>3. k.queue = m.queue /\ n \in Mem
  BY GoodType DEF Put, Woken
<1>4. Ahead(m, n)
  <2>1. Len(m.queue) \in Nat /\ Len(n.queue) \in Nat
    BY <1>3, QueueLength
  <2>2. More(m.queue, n.queue) /\ Len(n.queue) <= Len(m.queue) + 1
    BY <1>3 DEF Woken
  <2>4. \A a, b, x \in Nat : b <= a + 1 => b - a <= (x + 1) - x
    OBVIOUS
  <2>3. Len(n.queue) - Len(m.queue) <= Waiting(n) - Waiting(m)
    BY <1>2, <2>1, <2>2, <2>4
  <2>. QED
    BY <2>2, <2>3 DEF Ahead
<1>5. SameSockets(m, n)
  BY DEF Put, Woken, Sent, FramesOnly, SameSockets, SameUsers
<1>. QED
  BY <1>1, <1>4, <1>5 DEF Woken, Fine, Sent, FramesOnly

\* IPFrameReschedule
LEMMA RescheduleGood ==
    ASSUME NEW m, NEW E, Good(m, E), NEW f \in E, NEW n, n = IPFrameReschedule(m, f)
    PROVE  Fine(m, n, E \ {f})
<1>1. m \in Mem /\ m.defect = "none" /\ E \subseteq Frames /\ f \in Frames
  BY GoodType
<1>. DEFINE s == m.sock[f]
            again == [m.retry EXCEPT ![f] = @ + 1]
            later == [m.timeout EXCEPT ![f] = RETRANSMIT_TIME * (m.retry[f] + 1)]
            old == m.timeout
            k1 == [m EXCEPT !.retry = again, !.timeout = old]
            k2 == [m EXCEPT !.retry = again, !.timeout = later]
<1>2. again \in [Frames -> Nat] /\ later \in [Frames -> Int] /\ old \in [Frames -> Int]
  <2>1. RETRANSMIT_TIME \in Nat /\ m.retry[f] + 1 \in Nat
    BY <1>1, FramesAssumption, FieldTypes
  <2>2. \A a, b \in Nat : a * b \in Int
    OBVIOUS
  <2>3. RETRANSMIT_TIME * (m.retry[f] + 1) \in Int
    BY <2>1, <2>2
  <2>. QED
    BY <1>1, <2>3, FieldTypes
<1>3. \/ n = FrameFree(m, f)
      \/ n = FrameFree(k1, f)
      \/ s \in Sockets /\ n = FrameInsert(k2, "resend", f)
  <2>1. k1 = [m EXCEPT !.retry[f] = @ + 1]
    BY <1>1 DEF Mem
  <2>2. k2 = [m EXCEPT !.retry[f] = @ + 1, !.timeout[f] = RETRANSMIT_TIME * (m.retry[f] + 1)]
    OBVIOUS
  <2>3. s \in Sockets \cup {NULL}
    BY <1>1, FieldTypes
  <2>. HIDE DEF k1, k2, again, later
  <2>. QED
    BY <2>1, <2>2, <2>3 DEF IPFrameReschedule
<1>. HIDE DEF again, later, old
<1>4. Marked(m, k1, E)
  BY <1>2, MarkGood
<1>5. Marked(m, k2, E)
  BY <1>2, MarkGood
<1>. HIDE DEF k1, k2
<1>6. CASE n = FrameFree(m, f)
  <2>1. Freed(m, n, E, f)
    BY <1>6, FreeGood
  <2>. QED
    BY <2>1 DEF Freed, Fine
<1>7. CASE n = FrameFree(k1, f)
  <2>1. Freed(k1, n, E, f)
    BY <1>4, <1>7, FreeGood DEF Fine, Marked
  <2>2. Fine(k1, n, E \ {f})
    BY <2>1 DEF Freed, Fine
  <2>. QED
    BY <1>1, <1>4, <2>2, FineFine DEF Marked
<1>8. CASE s \in Sockets /\ n = FrameInsert(k2, "resend", f)
  <2>1. Put(k2, n, E, "resend", f)
    BY <1>5, <1>8, InsertGood, ListNames DEF Fine, Marked
  <2>2. Fine(k2, n, E \ {f})
    BY <2>1 DEF Put, Fine
  <2>. QED
    BY <1>1, <1>5, <2>2, FineFine DEF Marked
<1>. QED
  BY <1>3, <1>6, <1>7, <1>8

LEMMA TransmitGood ==
    ASSUME NEW m, NEW E, Good(m, E), NEW f \in E, NEW n, n = Transmit(m, f)
    PROVE  Fine(m, n, E \ {f})
<1>1. CASE m.sendFunc
  BY <1>1, RescheduleGood DEF Transmit
<1>2. CASE ~ m.sendFunc
  <2>. DEFINE k == FrameInsert(m, "send", f)
  <2>1. Put(m, k, E, "send", f)
    <3>1. "send" \in Lists /\ "send" # "resend"
      BY ListNames
    <3>. QED
      BY <3>1, InsertGood
  <2>2. n = MQueueSend(k, 2, NULL)
    BY <1>2 DEF Transmit
  <2>. HIDE DEF k
  <2>3. Woken(k, n, E \ {f})
    BY <2>1, <2>2, WakeGood DEF Put
  <2>4. m \in Mem /\ f \in Frames /\ f \notin In(m, "send")
    BY GoodType, HandOutside, ListNames
  <2>. QED
    BY <2>1, <2>3, <2>4, WakeSent
<1>. QED
  BY <1>1, <1>2

LEMMA ArpGood ==
    ASSUME NEW m, NEW E, Good(m, E), NEW n, n = IPArp(m)
    PROVE  Fine(m, n, E)
<1>. DEFINE g == IPFrameGet(m, 0)
            k == IPSendPacket(g.m, NULL, g.f, FALSE)
<1>0. m \in Mem /\ m.defect = "none" /\ E \subseteq Frames
  BY GoodType
<1>1. n = IF g.f = NULL THEN m ELSE Transmit(k, g.f)
  BY DEF IPArp
<1>2. (g.f = NULL /\ g.m = m) \/ Taken(m, E, g)
  BY GetGood
<1>3. CASE g.f = NULL
  BY <1>1, <1>3, FineSame
<1>4. CASE g.f # NULL
  <2>1. Taken(m, E, g)
    BY <1>2, <1>4
  <2>. HIDE DEF g
  <2>. DEFINE f == g.f
              h == g.m
              D == E \cup {f}
  <2>2. Good(h, D) /\ f \in D /\ f \in Frames /\ f \notin E /\ Fine(m, h, D)
    BY <2>1 DEF Taken, Fine
  <2>. HIDE DEF f, h
  <2>3. f \notin In(h, "resend")
    BY <2>2, HandOutside, ListNames
  <2>4. Addressed(h, k, D, NULL, f)
    <3>1. k = IPSendPacket(h, NULL, f, FALSE)
      BY DEF f, h
    <3>. HIDE DEF k, D
    <3>. QED
      BY <2>2, <2>3, <3>1, PacketGood
  <2>. HIDE DEF k
  <2>5. Fine(h, k, D)
    BY <2>4 DEF Addressed
  <2>6. Fine(k, n, D \ {f})
    <3>1. n = Transmit(k, f)
      BY <1>1, <1>4 DEF f
    <3>. HIDE DEF D
    <3>. QED
      BY <2>2, <2>5, <3>1, TransmitGood DEF Fine
  <2>7. D \ {f} = E
    BY <2>2
  <2>. HIDE DEF D
  <2>8. Fine(h, n, D \ {f})
    BY <2>2, <2>5, <2>6, FineFine, GoodType
  <2>. QED
    BY <1>0, <2>2, <2>7, <2>8, FineFine
<1>. QED
  BY <1>3, <1>4

LEMMA LookupGood ==
    ASSUME NEW m, NEW E, Good(m, E), NEW f, NEW n, n = ArpLookup(m, f)
    PROVE  Fine(m, n, E)
<1>1. n = m \/ n = IPArp(m)
  BY DEF ArpLookup
<1>. QED
  BY <1>1, ArpGood, FineSame

LEMMA SendFrameGood ==
    ASSUME NEW m, NEW E, Good(m, E), NEW f \in E, NEW n, n = IPSendFrame(m, f)
    PROVE  Fine(m, n, E \ {f})
<1>. DEFINE k == ArpLookup(m, f)
<1>1. Fine(m, k, E)
  BY LookupGood
<1>2. n = Transmit(k, f)
  BY DEF IPSendFrame
<1>. HIDE DEF k
<1>3. Fine(k, n, E \ {f})
  BY <1>1, <1>2, TransmitGood DEF Fine
<1>. QED
  BY <1>1, <1>3, FineFine, GoodType

LEMMA TcpSendGood ==
    ASSUME NEW m, NEW E, Good(m, E), NEW f \in E, NEW s \in Sockets \cup {NULL}, NEW c \in BOOLEAN,
           NEW n, n = TCPSendPacket(m, s, f, c)
    PROVE  Fine(m, n, E \ {f})
<1>. DEFINE k == IPSendPacket(m, s, f, c)
<1>0. f \in Frames /\ f \notin In(m, "resend")
  BY GoodType, HandOutside, ListNames
<1>1. Addressed(m, k, E, s, f)
  BY <1>0, PacketGood
<1>2. n = IPSendFrame(k, f)
  BY DEF TCPSendPacket
<1>. HIDE DEF k
<1>3. Fine(m, k, E)
  BY <1>1 DEF Addressed
<1>4. Fine(k, n, E \ {f})
  BY <1>2, <1>3, SendFrameGood DEF Fine
<1>. QED
  BY <1>3, <1>4, FineFine, GoodType

LEMMA ReplyGood ==
    ASSUME NEW m, NEW E, Good(m, E), NEW s \in Sockets \cup {NULL}, NEW b \in Nat, NEW c \in BOOLEAN,
           NEW n, n = Reply(m, s, b, c)
    PROVE  Fine(m, n, E)
<1>. DEFINE g == IPFrameGet(m, b)
<1>1. n = IF g.f = NULL THEN m ELSE TCPSendPacket(g.m, s, g.f, c)
  BY DEF Reply
<1>2. (g.f = NULL /\ g.m = m) \/ Taken(m, E, g)
  BY GetGood
<1>. HIDE DEF g
<1>3. CASE g.f = NULL
  BY <1>1, <1>3, FineSame
<1>4. CASE g.f # NULL
  <2>. DEFINE D == E \cup {g.f}
  <2>1. Good(g.m, D) /\ g.f \in D /\ D \ {g.f} = E /\ Fine(m, g.m, D)
    BY <1>2, <1>4 DEF Taken, Fine
  <2>2. n = TCPSendPacket(g.m, s, g.f, c)
    BY <1>1, <1>4
  <2>. HIDE DEF D
  <2>3. Fine(g.m, n, D \ {g.f})
    BY <2>1, <2>2, TcpSendGood
  <2>4. Fine(g.m, n, E)
    BY <2>1, <2>3
  <2>. QED
    BY <2>1, <2>4, FineFine, GoodType
<1>. QED
  BY <1>3, <1>4

-----------------------------------------------------------------------------
(* Memory of any kind stays memory, and keeps its defect *)

Steady(m, n) == n \in Mem /\ (m.defect # "none" => n.defect = m.defect)

LEMMA SteadySteady ==
    ASSUME NEW m, NEW n, NEW k, Steady(m, n), Steady(n, k)
    PROVE  Steady(m, k)
  BY DEF Steady

LEMMA SteadyBad ==
    ASSUME NEW m, NEW n, Bad(m), Steady(m, n)
    PROVE  Bad(n)
  BY DEF Steady, Bad

LEMMA FreeSteady ==
    ASSUME NEW m \in Mem, NEW f \in Frames, NEW n, n = FrameFree(m, f)
    PROVE  Steady(m, n)
<1>1. Frees(m, n, f)
  BY FreeFields
<1>. QED
  BY <1>1 DEF Frees, Steady

LEMMA InsertSteady ==
    ASSUME NEW m \in Mem, NEW f \in Frames, NEW l \in Lists, NEW n, n = FrameInsert(m, l, f)
    PROVE  Steady(m, n)
<1>1. n \in Mem /\ (m.defect # "none" => n.defect = m.defect)
  BY InsertFields
<1>. QED
  BY <1>1 DEF Steady

LEMMA RemoveSteady ==
    ASSUME NEW m \in Mem, NEW f \in Frames, NEW l \in Lists, NEW n, n = FrameRemove(m, l, f)
    PROVE  Steady(m, n)
<1>1. n \in Mem /\ (m.defect # "none" => n.defect = m.defect)
  BY RemoveFields
<1>. QED
  BY <1>1 DEF Steady

LEMMA GetSteady ==
    ASSUME NEW m \in Mem, NEW c \in Nat, NEW g, g = IPFrameGet(m, c)
    PROVE  Steady(m, g.m) /\ (g.f = NULL \/ g.f \in Frames)
<1>1. (g.f = NULL /\ g.m = m) \/ Gets(m, g)
  BY GetFields
<1>. QED
  BY <1>1 DEF Gets, Steady

LEMMA WakeSteady ==
    ASSUME NEW m \in Mem, NEW n, n = MQueueSend(m, 2, NULL)
    PROVE  Steady(m, n)
<1>1. /\ n \in Mem
      /\ SameLists(m, n) /\ SamePool(m, n) /\ SameMarks(m, n) /\ SameSockets(m, n)
      /\ n.state = m.state /\ n.next = m.next /\ n.defect = m.defect
      /\ \/ n.queue = Append(m.queue, [kind |-> 2, frame |-> NULL]) /\ n.lost = m.lost
         \/ n.queue = m.queue /\ n.lost = m.lost
  BY SendFields
<1>. QED
  BY <1>1 DEF Steady

LEMMA PacketSteady ==
    ASSUME NEW m \in Mem, NEW f \in Frames, NEW s \in Sockets \cup {NULL}, NEW c \in BOOLEAN,
           NEW n, n = IPSendPacket(m, s, f, c)
    PROVE  Steady(m, n)
<1>1. /\ n \in Mem
      /\ n.sock = [m.sock EXCEPT ![f] = s]
      /\ SamePlaces(m, n) /\ SameSockets(m, n) /\ n.queue = m.queue /\ n.defect = m.defect
  BY PacketFields
<1>. QED
  BY <1>1 DEF Steady

LEMMA RescheduleSteady ==
    ASSUME NEW m \in Mem, NEW f \in Frames, NEW n, n = IPFrameReschedule(m, f)
    PROVE  Steady(m, n)
<1>. DEFINE again == [m.retry EXCEPT ![f] = @ + 1]
            later == [m.timeout EXCEPT ![f] = RETRANSMIT_TIME * (m.retry[f] + 1)]
            k1 == [m EXCEPT !.retry = again]
            k2 == [m EXCEPT !.retry = again, !.timeout = later]
<1>2. again \in [Frames -> Nat] /\ later \in [Frames -> Int]
  <2>1. RETRANSMIT_TIME \in Nat /\ m.retry[f] + 1 \in Nat
    BY FramesAssumption, FieldTypes
  <2>2. \A a, b \in Nat : a * b \in Int
    OBVIOUS
  <2>3. RETRANSMIT_TIME * (m.retry[f] + 1) \in Int
    BY <2>1, <2>2
  <2>. QED
    BY <2>3, FieldTypes
<1>3. n = FrameFree(m, f) \/ n = FrameFree(k1, f) \/ n = FrameInsert(k2, "resend", f)
  <2>1. k1 = [m EXCEPT !.retry[f] = @ + 1]
    OBVIOUS
  <2>2. k2 = [m EXCEPT !.retry[f] = @ + 1, !.timeout[f] = RETRANSMIT_TIME * (m.retry[f] + 1)]
    OBVIOUS
  <2>. HIDE DEF k1, k2, again, later
  <2>. QED
    BY <2>1, <2>2 DEF IPFrameReschedule
<1>. HIDE DEF again, later
<1>4. Steady(m, k1) /\ Steady(m, k2)
  <2>1. k1 \in Mem /\ k1.defect = m.defect
    BY <1>2 DEF Mem
  <2>2. k2 \in Mem /\ k2.defect = m.defect
    BY <1>2 DEF Mem
  <2>. QED
    BY <2>1, <2>2 DEF Steady
<1>. HIDE DEF k1, k2
<1>5. CASE n = FrameFree(m, f)
  BY <1>5, FreeSteady
<1>6. CASE n = FrameFree(k1, f)
  <2>1. k1 \in Mem
    BY <1>4 DEF Steady
  <2>2. Steady(k1, n)
    BY <1>6, <2>1, FreeSteady
  <2>. QED
    BY <1>4, <2>2, SteadySteady
<1>7. CASE n = FrameInsert(k2, "resend", f)
  <2>1. k2 \in Mem
    BY <1>4 DEF Steady
  <2>2. Steady(k2, n)
    BY <1>7, <2>1, InsertSteady, ListNames
  <2>. QED
    BY <1>4, <2>2, SteadySteady
<1>. QED
  BY <1>3, <1>5, <1>6, <1>7

LEMMA TransmitSteady ==
    ASSUME NEW m \in Mem, NEW f \in Frames, NEW n, n = Transmit(m, f)
    PROVE  Steady(m, n)
<1>1. CASE m.sendFunc
  BY <1>1, RescheduleSteady DEF Transmit
<1>2. CASE ~ m.sendFunc
  <2>. DEFINE k == FrameInsert(m, "send", f)
  <2>1. Steady(m, k)
    BY InsertSteady, ListNames
  <2>2. n = MQueueSend(k, 2, NULL)
    BY <1>2 DEF Transmit
  <2>. HIDE DEF k
  <2>3. Steady(k, n)
    BY <2>1, <2>2, WakeSteady DEF Steady
  <2>. QED
    BY <2>1, <2>3, SteadySteady
<1>. QED
  BY <1>1, <1>2

LEMMA ArpSteady ==
    ASSUME NEW m \in Mem, NEW n, n = IPArp(m)
    PROVE  Steady(m, n)
<1>. DEFINE g == IPFrameGet(m, 0)
            k == IPSendPacket(g.m, NULL, g.f, FALSE)
<1>1. n = IF g.f = NULL THEN m ELSE Transmit(k, g.f)
  BY DEF IPArp
<1>2. Steady(m, g.m) /\ (g.f = NULL \/ g.f \in Frames)
  BY GetSteady
<1>. HIDE DEF g
<1>3. CASE g.f = NULL
  BY <1>1, <1>3 DEF Steady
<1>4. CASE g.f \in Frames
  <2>1. Steady(g.m, k)
    <3>1. g.m \in Mem /\ g.f \in Frames
      BY <1>2, <1>4 DEF Steady
    <3>. QED
      BY <3>1, PacketSteady
  <2>2. n = Transmit(k, g.f)
    BY <1>1, <1>4, FramesAssumption
  <2>. HIDE DEF k
  <2>3. Steady(k, n)
    <3>1. k \in Mem
      BY <2>1 DEF Steady
    <3>. QED
      BY <1>4, <2>2, <3>1, TransmitSteady
  <2>. QED
    BY <1>2, <2>1, <2>3, SteadySteady
<1>. QED
  BY <1>2, <1>3, <1>4

LEMMA SendFrameSteady ==
    ASSUME NEW m \in Mem, NEW f \in Frames, NEW n, n = IPSendFrame(m, f)
    PROVE  Steady(m, n)
<1>. DEFINE k == ArpLookup(m, f)
<1>1. k = m \/ k = IPArp(m)
  BY DEF ArpLookup
<1>2. n = Transmit(k, f)
  BY DEF IPSendFrame
<1>. HIDE DEF k
<1>3. Steady(m, k)
  BY <1>1, ArpSteady DEF Steady
<1>4. k \in Mem
  BY <1>3 DEF Steady
<1>5. Steady(k, n)
  BY <1>2, <1>4, TransmitSteady
<1>. QED
  BY <1>3, <1>5, SteadySteady

LEMMA TcpSendSteady ==
    ASSUME NEW m \in Mem, NEW f \in Frames, NEW s \in Sockets \cup {NULL}, NEW c \in BOOLEAN,
           NEW n, n = TCPSendPacket(m, s, f, c)
    PROVE  Steady(m, n)
<1>. DEFINE k == IPSendPacket(m, s, f, c)
<1>1. Steady(m, k)
  BY PacketSteady
<1>2. n = IPSendFrame(k, f)
  BY DEF TCPSendPacket
<1>. HIDE DEF k
<1>3. k \in Mem
  BY <1>1 DEF Steady
<1>4. Steady(k, n)
  BY <1>2, <1>3, SendFrameSteady
<1>. QED
  BY <1>1, <1>4, SteadySteady

-----------------------------------------------------------------------------
(* Steps along a list *)

\* I is closed under the steps of DiscardAll along q
DiscardClosed(q, ends, S, I) ==
    \A i \in 1 .. Len(q) : \A a \in I[i - 1] :
        (IF a.defect # "none" THEN a
         ELSE IF q[i] \in S THEN Discard(a, ends, q[i]) ELSE a) \in I[i]

LEMMA DiscardRule ==
    ASSUME NEW m \in Mem, NEW l, NEW ends, NEW S, NEW q \in Seq(Frames), q = ListFrames(m, l),
           NEW I \in [0 .. Len(q) -> SUBSET Mem], m \in I[0], DiscardClosed(q, ends, S, I)
    PROVE  DiscardAll(m, l, ends, S) \in I[Len(q)]
<1>. DEFINE n == Len(q)
            Then(a, i) == IF a.defect # "none" THEN a ELSE IF q[i] \in S THEN Discard(a, ends, q[i]) ELSE a
            step == [i \in 1 .. n |-> [a \in Mem |-> IF a \in I[i - 1] THEN Then(a, i) ELSE a]]
            Is(g) == g = [i \in 0 .. n |-> IF i = 0 THEN m ELSE Then(g[i - 1], i)]
            after == CHOOSE g : Is(g)
<1>1. DiscardAll(m, l, ends, S) = after[n]
  BY DEF DiscardAll, Walk
<1>2. n \in Nat /\ \A i \in 1 .. n : i \in 0 .. n /\ i - 1 \in 0 .. n
  OBVIOUS
<1>3. \A i \in 1 .. n : \A a \in I[i - 1] : Then(a, i) \in I[i]
  BY DEF DiscardClosed
<1>. HIDE DEF Then, n
<1>4. step \in [1 .. n -> [Mem -> Mem]]
  <2>1. \A i \in 1 .. n : \A a \in Mem : a \in I[i - 1] => Then(a, i) \in Mem
    BY <1>2, <1>3 DEF n
  <2>. QED
    BY <2>1
<1>5. \A i \in 1 .. n : \A a \in I[i - 1] : a \in Mem /\ step[i][a] = Then(a, i)
  <2>1. \A i \in 1 .. n : \A a \in I[i - 1] : a \in Mem
    BY <1>2 DEF n
  <2>. QED
    BY <2>1
<1>. HIDE DEF step
<1>6. Closed(n, I, step)
  BY <1>3, <1>5 DEF Closed
<1>7. PICK g : Solves(g, n, Mem, I, m, step)
  <2>1. I \in [0 .. n -> SUBSET Mem] /\ m \in I[0]
    BY DEF n
  <2>. QED
    BY <1>2, <1>4, <1>6, <2>1, FiniteRecursion
<1>8. /\ g \in [0 .. n -> Mem] /\ g[0] = m
      /\ \A i \in 1 .. n : g[i] = step[i][g[i - 1]]
      /\ \A i \in 0 .. n : g[i] \in I[i]
  BY <1>7 DEF Solves
<1>9. Is(g)
  <2>1. \A i \in 0 .. n : i # 0 => i \in 1 .. n
    BY <1>2
  <2>2. \A i \in 1 .. n : g[i] = Then(g[i - 1], i)
    BY <1>2, <1>5, <1>8
  <2>3. \A i \in 0 .. n : g[i] = IF i = 0 THEN m ELSE Then(g[i - 1], i)
    BY <1>8, <2>1, <2>2
  <2>. QED
    BY <1>8, <2>3
<1>10. Is(after)
  BY <1>9, Zenon
<1>11. \A i \in 0 .. n : after[i] = g[i]
  <2>. DEFINE Same == {i \in 0 .. n : after[i] = g[i]}
  <2>. HIDE DEF after
  <2>1. 0 \in Same
    BY <1>2, <1>9, <1>10
  <2>2. ASSUME NEW i \in 1 .. n, i - 1 \in Same
        PROVE  i \in Same
    <3>1. i \in 0 .. n /\ i # 0
      BY <1>2
    <3>. QED
      BY <1>9, <1>10, <2>2, <3>1
  <2>. HIDE DEF Same
  <2>3. \A i \in 0 .. n : i \in Same
    BY <1>2, <2>1, <2>2, CountUp
  <2>. QED
    BY <2>3 DEF Same
<1>. HIDE DEF after
<1>12. n \in 0 .. n
  BY <1>2
<1>13. DiscardAll(m, l, ends, S) = g[n] /\ g[n] \in I[n]
  BY <1>1, <1>8, <1>11, <1>12
<1>. QED
  BY <1>13 DEF n

\* Those of ResentAll
ResentClosed(q, s, I) ==
    \A i \in 1 .. Len(q) : \A a \in I[i - 1] :
        (IF a.defect # "none" THEN a
         ELSE IF a.sock[q[i]] = s THEN IPSendFrame(FrameRemove(a, "resend", q[i]), q[i]) ELSE a) \in I[i]

LEMMA ResentRule ==
    ASSUME NEW m \in Mem, NEW s, NEW q \in Seq(Frames), q = ListFrames(m, "resend"),
           NEW I \in [0 .. Len(q) -> SUBSET Mem], m \in I[0], ResentClosed(q, s, I)
    PROVE  ResentAll(m, s) \in I[Len(q)]
<1>. DEFINE n == Len(q)
            Then(a, i) == IF a.defect # "none" THEN a ELSE IF a.sock[q[i]] = s THEN IPSendFrame(FrameRemove(a, "resend", q[i]), q[i]) ELSE a
            step == [i \in 1 .. n |-> [a \in Mem |-> IF a \in I[i - 1] THEN Then(a, i) ELSE a]]
            Is(g) == g = [i \in 0 .. n |-> IF i = 0 THEN m ELSE Then(g[i - 1], i)]
            after == CHOOSE g : Is(g)
<1>1. ResentAll(m, s) = after[n]
  BY DEF ResentAll, Walk
<1>2. n \in Nat /\ \A i \in 1 .. n : i \in 0 .. n /\ i - 1 \in 0 .. n
  OBVIOUS
<1>3. \A i \in 1 .. n : \A a \in I[i - 1] : Then(a, i) \in I[i]
  BY DEF ResentClosed
<1>. HIDE DEF Then, n
<1>4. step \in [1 .. n -> [Mem -> Mem]]
  <2>1. \A i \in 1 .. n : \A a \in Mem : a \in I[i - 1] => Then(a, i) \in Mem
    BY <1>2, <1>3 DEF n
  <2>. QED
    BY <2>1
<1>5. \A i \in 1 .. n : \A a \in I[i - 1] : a \in Mem /\ step[i][a] = Then(a, i)
  <2>1. \A i \in 1 .. n : \A a \in I[i - 1] : a \in Mem
    BY <1>2 DEF n
  <2>. QED
    BY <2>1
<1>. HIDE DEF step
<1>6. Closed(n, I, step)
  BY <1>3, <1>5 DEF Closed
<1>7. PICK g : Solves(g, n, Mem, I, m, step)
  <2>1. I \in [0 .. n -> SUBSET Mem] /\ m \in I[0]
    BY DEF n
  <2>. QED
    BY <1>2, <1>4, <1>6, <2>1, FiniteRecursion
<1>8. /\ g \in [0 .. n -> Mem] /\ g[0] = m
      /\ \A i \in 1 .. n : g[i] = step[i][g[i - 1]]
      /\ \A i \in 0 .. n : g[i] \in I[i]
  BY <1>7 DEF Solves
<1>9. Is(g)
  <2>1. \A i \in 0 .. n : i # 0 => i \in 1 .. n
    BY <1>2
  <2>2. \A i \in 1 .. n : g[i] = Then(g[i - 1], i)
    BY <1>2, <1>5, <1>8
  <2>3. \A i \in 0 .. n : g[i] = IF i = 0 THEN m ELSE Then(g[i - 1], i)
    BY <1>8, <2>1, <2>2
  <2>. QED
    BY <1>8, <2>3
<1>10. Is(after)
  BY <1>9, Zenon
<1>11. \A i \in 0 .. n : after[i] = g[i]
  <2>. DEFINE Same == {i \in 0 .. n : after[i] = g[i]}
  <2>. HIDE DEF after
  <2>1. 0 \in Same
    BY <1>2, <1>9, <1>10
  <2>2. ASSUME NEW i \in 1 .. n, i - 1 \in Same
        PROVE  i \in Same
    <3>1. i \in 0 .. n /\ i # 0
      BY <1>2
    <3>. QED
      BY <1>9, <1>10, <2>2, <3>1
  <2>. HIDE DEF Same
  <2>3. \A i \in 0 .. n : i \in Same
    BY <1>2, <2>1, <2>2, CountUp
  <2>. QED
    BY <2>3 DEF Same
<1>. HIDE DEF after
<1>12. n \in 0 .. n
  BY <1>2
<1>13. ResentAll(m, s) = g[n] /\ g[n] \in I[n]
  BY <1>1, <1>8, <1>11, <1>12
<1>. QED
  BY <1>13 DEF n

\* Those of IPTick over the frames
ClockClosed(q, I) ==
    \A i \in 1 .. Len(q) : \A a \in I[i - 1] :
        (IF a.defect # "none" THEN a ELSE Resend(a, q[i])) \in I[i]

LEMMA ClockRule ==
    ASSUME NEW m \in Mem, NEW q \in Seq(Frames), q = ListFrames(m, "resend"),
           NEW I \in [0 .. Len(q) -> SUBSET Mem], m \in I[0], ClockClosed(q, I)
    PROVE  Walk(Resend, m, q) \in I[Len(q)]
<1>. DEFINE n == Len(q)
            Then(a, i) == IF a.defect # "none" THEN a ELSE Resend(a, q[i])
            step == [i \in 1 .. n |-> [a \in Mem |-> IF a \in I[i - 1] THEN Then(a, i) ELSE a]]
            Is(g) == g = [i \in 0 .. n |-> IF i = 0 THEN m ELSE Then(g[i - 1], i)]
            after == CHOOSE g : Is(g)
<1>1. Walk(Resend, m, q) = after[n]
  BY DEF Walk
<1>2. n \in Nat /\ \A i \in 1 .. n : i \in 0 .. n /\ i - 1 \in 0 .. n
  OBVIOUS
<1>3. \A i \in 1 .. n : \A a \in I[i - 1] : Then(a, i) \in I[i]
  BY DEF ClockClosed
<1>. HIDE DEF Then, n
<1>4. step \in [1 .. n -> [Mem -> Mem]]
  <2>1. \A i \in 1 .. n : \A a \in Mem : a \in I[i - 1] => Then(a, i) \in Mem
    BY <1>2, <1>3 DEF n
  <2>. QED
    BY <2>1
<1>5. \A i \in 1 .. n : \A a \in I[i - 1] : a \in Mem /\ step[i][a] = Then(a, i)
  <2>1. \A i \in 1 .. n : \A a \in I[i - 1] : a \in Mem
    BY <1>2 DEF n
  <2>. QED
    BY <2>1
<1>. HIDE DEF step
<1>6. Closed(n, I, step)
  BY <1>3, <1>5 DEF Closed
<1>7. PICK g : Solves(g, n, Mem, I, m, step)
  <2>1. I \in [0 .. n -> SUBSET Mem] /\ m \in I[0]
    BY DEF n
  <2>. QED
    BY <1>2, <1>4, <1>6, <2>1, FiniteRecursion
<1>8. /\ g \in [0 .. n -> Mem] /\ g[0] = m
      /\ \A i \in 1 .. n : g[i] = step[i][g[i - 1]]
      /\ \A i \in 0 .. n : g[i] \in I[i]
  BY <1>7 DEF Solves
<1>9. Is(g)
  <2>1. \A i \in 0 .. n : i # 0 => i \in 1 .. n
    BY <1>2
  <2>2. \A i \in 1 .. n : g[i] = Then(g[i - 1], i)
    BY <1>2, <1>5, <1>8
  <2>3. \A i \in 0 .. n : g[i] = IF i = 0 THEN m ELSE Then(g[i - 1], i)
    BY <1>8, <2>1, <2>2
  <2>. QED
    BY <1>8, <2>3
<1>10. Is(after)
  BY <1>9, Zenon
<1>11. \A i \in 0 .. n : after[i] = g[i]
  <2>. DEFINE Same == {i \in 0 .. n : after[i] = g[i]}
  <2>. HIDE DEF after
  <2>1. 0 \in Same
    BY <1>2, <1>9, <1>10
  <2>2. ASSUME NEW i \in 1 .. n, i - 1 \in Same
        PROVE  i \in Same
    <3>1. i \in 0 .. n /\ i # 0
      BY <1>2
    <3>. QED
      BY <1>9, <1>10, <2>2, <3>1
  <2>. HIDE DEF Same
  <2>3. \A i \in 0 .. n : i \in Same
    BY <1>2, <2>1, <2>2, CountUp
  <2>. QED
    BY <2>3 DEF Same
<1>. HIDE DEF after
<1>12. n \in 0 .. n
  BY <1>2
<1>13. Walk(Resend, m, q) = g[n] /\ g[n] \in I[n]
  BY <1>1, <1>8, <1>11, <1>12
<1>. QED
  BY <1>13 DEF n

\* Those of IPTick over the sockets
SecondClosed(q, I) ==
    \A i \in 1 .. Len(q) : \A a \in I[i - 1] :
        (IF a.defect # "none" THEN a ELSE SocketTick(a, q[i])) \in I[i]

LEMMA SecondRule ==
    ASSUME NEW m \in Mem, NEW q \in Seq(Sockets),
           NEW I \in [0 .. Len(q) -> SUBSET Mem], m \in I[0], SecondClosed(q, I)
    PROVE  Walk(SocketTick, m, q) \in I[Len(q)]
<1>. DEFINE n == Len(q)
            Then(a, i) == IF a.defect # "none" THEN a ELSE SocketTick(a, q[i])
            step == [i \in 1 .. n |-> [a \in Mem |-> IF a \in I[i - 1] THEN Then(a, i) ELSE a]]
            Is(g) == g = [i \in 0 .. n |-> IF i = 0 THEN m ELSE Then(g[i - 1], i)]
            after == CHOOSE g : Is(g)
<1>1. Walk(SocketTick, m, q) = after[n]
  BY DEF Walk
<1>2. n \in Nat /\ \A i \in 1 .. n : i \in 0 .. n /\ i - 1 \in 0 .. n
  OBVIOUS
<1>3. \A i \in 1 .. n : \A a \in I[i - 1] : Then(a, i) \in I[i]
  BY DEF SecondClosed
<1>. HIDE DEF Then, n
<1>4. step \in [1 .. n -> [Mem -> Mem]]
  <2>1. \A i \in 1 .. n : \A a \in Mem : a \in I[i - 1] => Then(a, i) \in Mem
    BY <1>2, <1>3 DEF n
  <2>. QED
    BY <2>1
<1>5. \A i \in 1 .. n : \A a \in I[i - 1] : a \in Mem /\ step[i][a] = Then(a, i)
  <2>1. \A i \in 1 .. n : \A a \in I[i - 1] : a \in Mem
    BY <1>2 DEF n
  <2>. QED
    BY <2>1
<1>. HIDE DEF step
<1>6. Closed(n, I, step)
  BY <1>3, <1>5 DEF Closed
<1>7. PICK g : Solves(g, n, Mem, I, m, step)
  <2>1. I \in [0 .. n -> SUBSET Mem] /\ m \in I[0]
    BY DEF n
  <2>. QED
    BY <1>2, <1>4, <1>6, <2>1, FiniteRecursion
<1>8. /\ g \in [0 .. n -> Mem] /\ g[0] = m
      /\ \A i \in 1 .. n : g[i] = step[i][g[i - 1]]
      /\ \A i \in 0 .. n : g[i] \in I[i]
  BY <1>7 DEF Solves
<1>9. Is(g)
  <2>1. \A i \in 0 .. n : i # 0 => i \in 1 .. n
    BY <1>2
  <2>2. \A i \in 1 .. n : g[i] = Then(g[i - 1], i)
    BY <1>2, <1>5, <1>8
  <2>3. \A i \in 0 .. n : g[i] = IF i = 0 THEN m ELSE Then(g[i - 1], i)
    BY <1>8, <2>1, <2>2
  <2>. QED
    BY <1>8, <2>3
<1>10. Is(after)
  BY <1>9, Zenon
<1>11. \A i \in 0 .. n : after[i] = g[i]
  <2>. DEFINE Same == {i \in 0 .. n : after[i] = g[i]}
  <2>. HIDE DEF after
  <2>1. 0 \in Same
    BY <1>2, <1>9, <1>10
  <2>2. ASSUME NEW i \in 1 .. n, i - 1 \in Same
        PROVE  i \in Same
    <3>1. i \in 0 .. n /\ i # 0
      BY <1>2
    <3>. QED
      BY <1>9, <1>10, <2>2, <3>1
  <2>. HIDE DEF Same
  <2>3. \A i \in 0 .. n : i \in Same
    BY <1>2, <2>1, <2>2, CountUp
  <2>. QED
    BY <2>3 DEF Same
<1>. HIDE DEF after
<1>12. n \in 0 .. n
  BY <1>2
<1>13. Walk(SocketTick, m, q) = g[n] /\ g[n] \in I[n]
  BY <1>1, <1>8, <1>11, <1>12
<1>. QED
  BY <1>13 DEF n

-----------------------------------------------------------------------------
(* Closing *)

LEMMA OnlyOnly ==
    ASSUME NEW m \in Mem, NEW n \in Mem, NEW k \in Mem, FramesOnly(m, n), FramesOnly(n, k)
    PROVE  FramesOnly(m, k)
<1>1. Ahead(m, k)
  BY AheadAhead DEF FramesOnly
<1>. QED
  BY <1>1 DEF FramesOnly, SameSockets, SameUsers

\* A list that is read
LEMMA GoodList ==
    ASSUME NEW m, NEW E, Good(m, E), NEW l \in Lists, NEW q, q = ListFrames(m, l)
    PROVE  /\ q \in Seq(Frames) /\ IsInjective(q)
           /\ m.head[l] = First(q) /\ m.tail[l] = Final(q)
           /\ In(m, l) = Range(q) /\ \A i \in 1 .. Len(q) : q[i] \in In(m, l)
<1>1. m \in Mem /\ m.defect = "none" /\ E \subseteq Frames
  BY GoodType
<1>2. PICK L, P, Where : Sound(m, L, P, Where, E)
  BY DEF Good
<1>3. q = L[l]
  BY <1>1, <1>2, SoundLists
<1>. DEFINE ll == L[l]
<1>4. Links(m, l, ll)
  BY <1>2 DEF Sound
<1>. HIDE DEF ll
<1>5. /\ q \in Seq(Frames) /\ IsInjective(q)
      /\ m.head[l] = First(q) /\ m.tail[l] = Final(q)
  BY <1>3, <1>4 DEF Links, ll
<1>6. Range(q) \subseteq Frames /\ \A i \in 1 .. Len(q) : q[i] \in Range(q)
  BY <1>5 DEF Range
<1>. QED
  BY <1>5, <1>6 DEF In

LEMMA DiscardSteady ==
    ASSUME NEW m \in Mem, NEW l \in Lists, NEW ends \in Lists, NEW S, NEW n, n = DiscardAll(m, l, ends, S)
    PROVE  Steady(m, n)
<1>. DEFINE q == ListFrames(m, l)
            I == [i \in 0 .. Len(q) |-> {a \in Mem : Steady(m, a)}]
<1>1. q \in Seq(Frames)
  BY ListType
<1>2. \A i \in 0 .. Len(q) : I[i] = {a \in Mem : Steady(m, a)}
  OBVIOUS
<1>3. I \in [0 .. Len(q) -> SUBSET Mem] /\ m \in I[0]
  BY <1>1, <1>2 DEF Steady
<1>. HIDE DEF q, I
<1>4. DiscardClosed(q, ends, S, I)
  <2>. SUFFICES ASSUME NEW i \in 1 .. Len(q), NEW a \in I[i - 1]
                PROVE  (IF a.defect # "none" THEN a
                        ELSE IF q[i] \in S THEN Discard(a, ends, q[i]) ELSE a) \in I[i]
    BY DEF DiscardClosed
  <2>1. i \in 0 .. Len(q) /\ i - 1 \in 0 .. Len(q)
    BY <1>1
  <2>2. a \in Mem /\ Steady(m, a) /\ q[i] \in Frames
    BY <1>1, <1>2, <2>1
  <2>. DEFINE b == FrameRemove(a, ends, q[i])
              c == FrameFree(b, q[i])
  <2>3. Steady(a, b)
    BY <2>2, RemoveSteady
  <2>. HIDE DEF b
  <2>4. Steady(b, c)
    BY <2>2, <2>3, FreeSteady DEF Steady
  <2>5. Discard(a, ends, q[i]) = c
    BY DEF Discard, b
  <2>. HIDE DEF c
  <2>6. Steady(m, c)
    BY <2>2, <2>3, <2>4, SteadySteady
  <2>7. c \in Mem /\ a \in I[i] /\ c \in I[i]
    BY <1>2, <2>1, <2>2, <2>6 DEF Steady
  <2>. QED
    BY <2>5, <2>7
<1>5. n \in I[Len(q)]
  BY <1>1, <1>3, <1>4, DiscardRule DEF q
<1>6. Len(q) \in 0 .. Len(q)
  BY <1>1
<1>. QED
  BY <1>2, <1>5, <1>6

LEMMA DiscardNone ==
    ASSUME NEW m \in Mem, NEW l \in Lists, NEW ends \in Lists, NEW n, n = DiscardAll(m, l, ends, {})
    PROVE  n = m
<1>. DEFINE q == ListFrames(m, l)
            I == [i \in 0 .. Len(q) |-> {m}]
<1>1. q \in Seq(Frames)
  BY ListType
<1>2. \A i \in 0 .. Len(q) : I[i] = {m}
  OBVIOUS
<1>3. I \in [0 .. Len(q) -> SUBSET Mem] /\ m \in I[0]
  BY <1>1, <1>2
<1>. HIDE DEF q, I
<1>4. \A i \in 1 .. Len(q) : i \in 0 .. Len(q) /\ i - 1 \in 0 .. Len(q)
  BY <1>1
<1>5. DiscardClosed(q, ends, {}, I)
  BY <1>2, <1>4 DEF DiscardClosed
<1>6. n \in I[Len(q)]
  BY <1>1, <1>3, <1>5, DiscardRule DEF q
<1>7. Len(q) \in 0 .. Len(q)
  BY <1>1
<1>. QED
  BY <1>2, <1>6, <1>7

LEMMA DiscardGood ==
    ASSUME NEW m, NEW E, Good(m, E), NEW l \in Lists, l # "send", NEW S,
           NEW n, n = DiscardAll(m, l, l, S)
    PROVE  Good(n, E) /\ FramesOnly(m, n)
<1>. DEFINE q == ListFrames(m, l)
            Kept(a, i) == Good(a, E) /\ FramesOnly(m, a) /\ \A j \in i + 1 .. Len(q) : q[j] \in In(a, l)
            I == [i \in 0 .. Len(q) |-> {a \in Mem : Kept(a, i)}]
<1>0. m \in Mem /\ FramesOnly(m, m)
  BY GoodType, SentSame DEF Sent
<1>1. q \in Seq(Frames) /\ IsInjective(q) /\ \A i \in 1 .. Len(q) : q[i] \in In(m, l)
  BY GoodList
<1>. HIDE DEF q
<1>2. \A i \in 0 .. Len(q) : I[i] = {a \in Mem : Kept(a, i)}
  OBVIOUS
<1>3. I \in [0 .. Len(q) -> SUBSET Mem] /\ m \in I[0]
  <2>1. Kept(m, 0)
    BY <1>0, <1>1
  <2>2. 0 \in 0 .. Len(q)
    BY <1>1
  <2>. HIDE DEF Kept
  <2>. QED
    BY <1>0, <2>1, <2>2
<1>. HIDE DEF I
<1>4. DiscardClosed(q, l, S, I)
  <2>. SUFFICES ASSUME NEW i \in 1 .. Len(q), NEW a \in I[i - 1]
                PROVE  (IF a.defect # "none" THEN a
                        ELSE IF q[i] \in S THEN Discard(a, l, q[i]) ELSE a) \in I[i]
    BY DEF DiscardClosed
  <2>1. i \in 0 .. Len(q) /\ i - 1 \in 0 .. Len(q) /\ i \in (i - 1) + 1 .. Len(q)
        /\ \A j \in i + 1 .. Len(q) : j \in (i - 1) + 1 .. Len(q) /\ j \in 1 .. Len(q) /\ j # i
    BY <1>1
  <2>2. a \in Mem /\ Kept(a, i - 1) /\ q[i] \in Frames
    BY <1>1, <1>2, <2>1
  <2>3. a.defect = "none" /\ q[i] \in In(a, l) /\ \A j \in i + 1 .. Len(q) : q[j] \in In(a, l)
    BY <2>1, <2>2, GoodType
  <2>. DEFINE f == q[i]
              b == FrameRemove(a, l, f)
              c == FrameFree(b, f)
  <2>4. Cut(a, b, E, l, f)
    BY <2>2, <2>3, RemoveGood
  <2>. HIDE DEF b
  <2>5. Freed(b, c, E \cup {f}, f)
    BY <2>4, FreeGood DEF Cut
  <2>. HIDE DEF c
  <2>6. (E \cup {f}) \ {f} = E
    BY <2>4 DEF Cut
  <2>7. Good(c, E) /\ FramesOnly(a, b) /\ FramesOnly(b, c) /\ In(c, l) = In(a, l) \ {f}
    BY <2>4, <2>5, <2>6 DEF Cut, Freed, Sent, SameIn
  <2>8. b \in Mem /\ c \in Mem
    BY <2>4, <2>7, GoodType DEF Cut
  <2>9. FramesOnly(m, c)
    BY <1>0, <2>2, <2>7, <2>8, OnlyOnly
  <2>10. \A j \in i + 1 .. Len(q) : q[j] \in In(c, l)
    <3>1. \A j \in i + 1 .. Len(q) : q[j] # f
      BY <1>1, <2>1 DEF IsInjective
    <3>. QED
      BY <2>3, <2>7, <3>1
  <2>11. Kept(c, i) /\ Kept(a, i)
    BY <2>2, <2>3, <2>7, <2>9, <2>10
  <2>12. Discard(a, l, f) = c
    BY DEF Discard, b, c
  <2>. HIDE DEF Kept
  <2>13. a \in I[i] /\ c \in I[i]
    BY <1>2, <2>1, <2>2, <2>8, <2>11
  <2>. QED
    BY <2>3, <2>12, <2>13
<1>5. n \in I[Len(q)]
  <2>1. q = ListFrames(m, l)
    BY DEF q
  <2>. QED
    BY <1>0, <1>1, <1>3, <1>4, <2>1, DiscardRule
<1>6. Len(q) \in 0 .. Len(q)
  BY <1>1
<1>. QED
  BY <1>2, <1>5, <1>6

\* Of the sockets, the clock and the state of s alone are changed, or its frame sent
OnlySocket(m, n, s) ==
    /\ n.user = m.user
    /\ \A t \in Sockets \ {s} : n.sstate[t] = m.sstate[t] /\ n.stimeout[t] = m.stimeout[t]

Shut(m, n, E, s) == Good(n, E) /\ Ahead(m, n) /\ OnlySocket(m, n, s)

\* The state and clock of a socket are written
StateSet(m, n, E, ss, st) ==
    /\ Good(n, E) /\ SameIn(m, n) /\ n.queue = m.queue
    /\ n.sstate = ss /\ n.stimeout = st /\ SameUsers(m, n) /\ n.macKnown = m.macKnown
    /\ Ahead(m, n)

LEMMA StateGood ==
    ASSUME NEW m, NEW E, Good(m, E), NEW s \in Sockets, NEW ss \in [Sockets -> SocketState],
           NEW st \in [Sockets -> Nat], NEW n, n = [m EXCEPT !.stimeout = st, !.sstate = ss]
    PROVE  StateSet(m, n, E, ss, st)
<1>1. m \in Mem /\ m.defect = "none"
  BY GoodType
<1>2. n \in Mem
  BY <1>1 DEF Mem
<1>3. /\ SamePlaces(m, n) /\ SameUsers(m, n) /\ n.sock = m.sock
      /\ n.queue = m.queue /\ n.defect = "none" /\ n.sstate = ss /\ n.stimeout = st /\ n.macKnown = m.macKnown
  BY <1>1 DEF Mem, SamePlaces, SameLists, SamePool, SameUsers
<1>4. SameOwners(m, n)
  BY <1>3, OwnersSame
<1>5. Good(n, E) /\ SameIn(m, n)
  BY <1>2, <1>3, <1>4, SameGood
<1>. QED
  BY <1>1, <1>2, <1>3, <1>5, AheadIn DEF StateSet

\* A frame goes from the hands of one to those of another, or is lost
Handed(m, n, E, D, f, place) ==
    /\ SameLists(m, n) /\ SamePool(m, n)
    /\ n.state = m.state /\ n.next = m.next /\ n.sock = m.sock
    /\ place = Hand <=> f \in D
    /\ place = Gone <=> f \in n.lost
    /\ \A s \in Sockets : place = OwnedBy(s) <=> Owns(n, s, f)
    /\ \A g \in Frames \ {f} :
          /\ g \in D <=> g \in E
          /\ g \in n.lost <=> g \in m.lost
          /\ \A s \in Sockets : Owns(n, s, g) <=> Owns(m, s, g)
    /\ \A s \in Sockets : n.user[s].at = "send" => n.frameSend[s] # NULL

LEMMA HandGood ==
    ASSUME NEW m, NEW E, Good(m, E), NEW f \in Frames, f \in E \/ \E s \in Sockets : Owns(m, s, f),
           NEW n \in Mem, n.defect = "none", NEW D \in SUBSET Frames,
           NEW place \in {Hand, Gone} \cup {OwnedBy(s) : s \in Sockets}, Handed(m, n, E, D, f, place)
    PROVE  Good(n, D) /\ SameIn(m, n)
<1>1. m \in Mem /\ m.defect = "none" /\ E \subseteq Frames
  BY GoodType
<1>2. PICK L, P, Where : Sound(m, L, P, Where, E)
  BY DEF Good
<1>. DEFINE Then == Moved(Where, f, place)
<1>3. \A g \in Frames : Then[g] = IF g = f THEN place ELSE Where[g]
  BY DEF Moved
<1>. HIDE DEF Then
<1>4. /\ m.state[f] = 1 /\ f \notin Range(P) /\ \A l \in Lists : f \notin Range(L[l])
  <2>1. CASE f \in E
    <3>1. Where[f] = Hand
      BY <1>2, <2>1 DEF Sound, Located
    <3>. QED
      BY <1>2, <3>1, PlacesDiffer DEF Sound, Located, StatesRight
  <2>2. CASE \E s \in Sockets : Owns(m, s, f)
    <3>1. PICK s \in Sockets : Owns(m, s, f)
      BY <2>2
    <3>2. Where[f] = OwnedBy(s)
      BY <1>2, <3>1 DEF Sound, Located
    <3>. QED
      BY <1>2, <3>2, PlacesDiffer DEF Sound, Located, StatesRight
  <2>. QED
    BY <2>1, <2>2
<1>5. \A l \in Lists : Links(n, l, L[l])
  BY <1>2 DEF Sound, Links, Handed, SameLists
<1>6. PoolLinks(n, P)
  BY <1>2 DEF Sound, PoolLinks, Handed, SamePool
<1>7. Located(n, L, P, Then, D)
  <2>1. \A g \in Frames : g # f =>
          /\ Then[g] \in {Pool, Hand, Gone} \cup {InList(k) : k \in Lists} \cup {OwnedBy(s) : s \in Sockets}
          /\ Then[g] = Pool <=> g \in Range(P)
          /\ Then[g] = Hand <=> g \in D
          /\ Then[g] = Gone <=> g \in n.lost
          /\ \A k \in Lists : Then[g] = InList(k) <=> g \in Range(L[k])
          /\ \A s \in Sockets : Then[g] = OwnedBy(s) <=> Owns(n, s, g)
    BY <1>2, <1>3 DEF Sound, Located, Handed
  <2>2. /\ Then[f] \in {Pool, Hand, Gone} \cup {InList(k) : k \in Lists} \cup {OwnedBy(s) : s \in Sockets}
        /\ Then[f] # Pool /\ \A l \in Lists : Then[f] # InList(l)
    BY <1>3, PlacesDiffer
  <2>3. /\ Then[f] = Hand <=> f \in D
        /\ Then[f] = Gone <=> f \in n.lost
        /\ \A s \in Sockets : Then[f] = OwnedBy(s) <=> Owns(n, s, f)
    BY <1>3 DEF Handed
  <2>. QED
    BY <1>4, <2>1, <2>2, <2>3 DEF Located
<1>8. StatesRight(n, Then)
  <2>1. n.state = m.state /\ StatesRight(m, Where)
    BY <1>2 DEF Sound, Handed
  <2>2. /\ Then[f] # Pool /\ \A l \in Lists : Then[f] # InList(l)
    BY <1>3, PlacesDiffer
  <2>. QED
    BY <1>3, <1>4, <2>1, <2>2 DEF StatesRight
<1>9. SocketsRight(n, L)
  BY <1>2 DEF Sound, SocketsRight, Handed
<1>10. Sound(n, L, P, Then, D)
  BY <1>2, <1>5, <1>6, <1>7, <1>8, <1>9 DEF Sound
<1>11. \A l \in Lists : ListFrames(m, l) = L[l] /\ ListFrames(n, l) = L[l]
  BY <1>1, <1>2, <1>10, SoundLists
<1>. QED
  BY <1>1, <1>10, <1>11 DEF Good, SameIn, In

-----------------------------------------------------------------------------

\* IPClose2
LEMMA Close2Outcome ==
    ASSUME NEW m \in Mem, NEW s \in Sockets, NEW n, n = IPClose2(m, s)
    PROVE  /\ Bad(m) => Bad(n)
           /\ \A E : Good(m, E) => Bad(n) \/ Shut(m, n, E, s)
<1>. DEFINE waiting == OfSocket(m, "send", s)
            m1 == DiscardAll(m, "send", "resend", waiting)
            W2 == OfSocket(m1, "resend", s)
            m2 == DiscardAll(m1, "resend", "resend", W2)
            m3 == DiscardAll(m2, s, s, Frames)
            ss == [m3.sstate EXCEPT ![s] = "closed"]
            st == [m3.stimeout EXCEPT ![s] = SOCKET_TIMEOUT]
            df == IF waiting = {} THEN m3.defect ELSE "close"
            k  == [m3 EXCEPT !.stimeout = st, !.sstate = ss]
<1>1. n = [k EXCEPT !.defect = df]
  BY DEF IPClose2
<1>2. Steady(m, m1) /\ m1 \in Mem
  BY DiscardSteady, ListNames DEF Steady
<1>. HIDE DEF waiting
<1>3. m1 = DiscardAll(m, "send", "resend", waiting)
  OBVIOUS
<1>. HIDE DEF m1, W2
<1>4. Steady(m1, m2) /\ m2 \in Mem
  BY <1>2, DiscardSteady, ListNames DEF Steady
<1>5. m2 = DiscardAll(m1, "resend", "resend", W2)
  OBVIOUS
<1>. HIDE DEF m2
<1>6. Steady(m2, m3) /\ m3 \in Mem
  BY <1>4, DiscardSteady, ListNames DEF Steady
<1>7. m3 = DiscardAll(m2, s, s, Frames)
  OBVIOUS
<1>. HIDE DEF m3
<1>8. Steady(m, m3)
  BY <1>2, <1>4, <1>6, SteadySteady
<1>9. ss \in [Sockets -> SocketState] /\ st \in [Sockets -> Nat]
  <2>1. SOCKET_TIMEOUT \in Nat /\ "closed" \in SocketState
    BY FramesAssumption DEF SocketState
  <2>. QED
    BY <1>6, <2>1, FieldTypes
<1>. HIDE DEF ss, st
<1>10. k \in Mem /\ k.defect = m3.defect
  BY <1>6, <1>9 DEF Mem
<1>11. k = [m3 EXCEPT !.stimeout = st, !.sstate = ss]
  OBVIOUS
<1>. HIDE DEF k
<1>12. CASE Bad(m)
  <2>1. m3.defect = m.defect /\ m.defect \in {"close", "flush", "fin"}
    BY <1>8, <1>12 DEF Steady, Bad
  <2>2. df \in {"close", "flush", "fin"}
    BY <2>1
  <2>. HIDE DEF df
  <2>3. n \in Mem /\ n.defect = df
    BY <1>1, <1>10, <2>2 DEF Mem, Defects
  <2>. QED
    BY <1>12, <2>2, <2>3, GoodType DEF Bad
<1>13. CASE waiting # {}
  <2>1. df = "close"
    BY <1>13
  <2>. HIDE DEF df
  <2>2. n \in Mem /\ n.defect = "close"
    BY <1>1, <1>10, <2>1 DEF Mem, Defects
  <2>. QED
    BY <2>2 DEF Bad
<1>14. CASE waiting = {} /\ ~ Bad(m)
  <2>. SUFFICES ASSUME NEW E, Good(m, E)
                PROVE  Shut(m, n, E, s)
    BY <1>14
  <2>1. m1 = m
    <3>1. m1 = DiscardAll(m, "send", "resend", {})
      BY <1>3, <1>14
    <3>. QED
      BY <3>1, DiscardNone, ListNames
  <2>2. Good(m2, E) /\ FramesOnly(m, m2)
    BY <1>5, <2>1, DiscardGood, ListNames
  <2>3. Good(m3, E) /\ FramesOnly(m2, m3)
    BY <1>7, <2>2, DiscardGood, ListNames
  <2>4. StateSet(m3, k, E, ss, st)
    BY <1>9, <1>11, <2>3, StateGood
  <2>5. n = k
    <3>1. df = k.defect
      BY <1>10, <1>14
    <3>. HIDE DEF df
    <3>. QED
      BY <1>1, <1>10, <3>1 DEF Mem
  <2>6. FramesOnly(m, m3)
    BY <1>4, <1>6, <2>2, <2>3, OnlyOnly
  <2>7. m3.sstate = m.sstate /\ m3.stimeout = m.stimeout /\ m3.user = m.user /\ Ahead(m, m3)
    BY <2>6 DEF FramesOnly, SameSockets, SameUsers
  <2>8. \A t \in Sockets \ {s} : ss[t] = m3.sstate[t] /\ st[t] = m3.stimeout[t]
    BY <1>6, FieldTypes DEF ss, st
  <2>9. m3 \in Mem /\ k \in Mem
    BY <2>3, <2>4, GoodType DEF StateSet
  <2>10. Ahead(m, k)
    BY <1>1, <2>4, <2>7, <2>9, AheadAhead DEF StateSet
  <2>. QED
    BY <2>4, <2>5, <2>7, <2>8, <2>10 DEF StateSet, Shut, OnlySocket, SameUsers
<1>. QED
  BY <1>12, <1>13, <1>14

\* IPWriteFlush
Flushed(m, n, E) ==
    /\ Good(n, E) /\ Ahead(m, n)
    /\ n.user = m.user /\ n.sstate = m.sstate /\ n.stimeout = m.stimeout
    /\ In(m, "resend") \subseteq In(n, "resend")

LEMMA FlushOutcome ==
    ASSUME NEW m, NEW E, Good(m, E), NEW s \in Sockets, NEW n, n = IPWriteFlush(m, s)
    PROVE  Bad(n) \/ Flushed(m, n, E)
<1>1. m \in Mem /\ m.defect = "none" /\ E \subseteq Frames
  BY GoodType
<1>. DEFINE f == m.frameSend[s]
            fs == [m.frameSend EXCEPT ![s] = NULL]
            k == [m EXCEPT !.frameSend = fs]
            t == TCPSendPacket(k, s, f, TRUE)
            df == IF m.user[s] = Done THEN t.defect ELSE "flush"
<1>2. CASE m.frameSend[s] = NULL \/ m.sstate[s] = "udp"
  <2>1. n = m
    BY <1>2 DEF IPWriteFlush
  <2>2. Fine(m, m, E)
    BY FineSame
  <2>. QED
    BY <2>1, <2>2 DEF Fine, Sent, FramesOnly, SameSockets, SameUsers, Flushed
<1>3. CASE ~ (m.frameSend[s] = NULL \/ m.sstate[s] = "udp")
  <2>1. n = [t EXCEPT !.defect = df]
    BY <1>3 DEF IPWriteFlush
  <2>2. f \in Frames /\ fs \in [Sockets -> Link]
    BY <1>1, <1>3, FieldTypes DEF Link
  <2>3. \A r \in Sockets : fs[r] = IF r = s THEN NULL ELSE m.frameSend[r]
    BY <1>1, FieldTypes
  <2>. HIDE DEF fs
  <2>4. k \in Mem
    BY <1>1, <2>2 DEF Mem
  <2>5. /\ SameLists(m, k) /\ SamePool(m, k)
        /\ k.state = m.state /\ k.next = m.next /\ k.sock = m.sock /\ k.lost = m.lost /\ k.defect = m.defect
        /\ k.user = m.user /\ k.sstate = m.sstate /\ k.stimeout = m.stimeout /\ k.queue = m.queue
        /\ k.frameSend = fs
    BY <1>1 DEF Mem, SameLists, SamePool
  <2>. HIDE DEF k
  <2>6. t \in Mem
    BY <2>2, <2>4, TcpSendSteady DEF Steady
  <2>7. CASE m.user[s] # Done
    <3>1. df = "flush"
      BY <2>7
    <3>. HIDE DEF df, t
    <3>2. n \in Mem /\ n.defect = "flush"
      BY <2>1, <2>6, <3>1 DEF Mem, Defects
    <3>. QED
      BY <3>2 DEF Bad
  <2>8. CASE m.user[s] = Done
    <3>1. Owns(m, s, f)
      BY <2>8 DEF Owns, Done
    <3>2. f \notin E /\ f \notin m.lost /\ \A r \in Sockets : Owns(m, r, f) => r = s
      <4>1. PICK L, P, Where : Sound(m, L, P, Where, E)
        BY DEF Good
      <4>2. Where[f] = OwnedBy(s)
        BY <2>2, <3>1, <4>1 DEF Sound, Located
      <4>. QED
        BY <2>2, <4>1, <4>2, PlacesDiffer DEF Sound, Located
    <3>3. \A r \in Sockets : m.user[r].at = "send" => m.frameSend[r] # NULL
      BY DEF Good, Sound, SocketsRight
    <3>4. \A r \in Sockets : ~ Owns(k, r, f)
      BY <2>2, <2>3, <2>5, <3>2, FramesAssumption DEF Owns
    <3>5. \A g \in Frames \ {f} : \A r \in Sockets : Owns(k, r, g) <=> Owns(m, r, g)
      BY <2>3, <2>5, FramesAssumption DEF Owns
    <3>6. Handed(m, k, E, E \cup {f}, f, Hand)
      <4>1. \A r \in Sockets : k.user[r].at = "send" => k.frameSend[r] # NULL
        BY <2>3, <2>5, <2>8, <3>3 DEF Done
      <4>. QED
        BY <2>5, <3>2, <3>4, <3>5, <4>1, PlacesDiffer DEF Handed
    <3>7. Good(k, E \cup {f}) /\ SameIn(m, k)
      <4>. DEFINE D == E \cup {f}
      <4>1. D \in SUBSET Frames /\ k.defect = "none" /\ Handed(m, k, E, D, f, Hand)
        BY <1>1, <2>2, <2>5, <3>6
      <4>. HIDE DEF D
      <4>2. Good(k, D) /\ SameIn(m, k)
        BY <2>2, <2>4, <3>1, <4>1, HandGood
      <4>. QED
        BY <4>2 DEF D
    <3>8. Fine(k, t, E)
      <4>. DEFINE D == E \cup {f}
      <4>1. Good(k, D) /\ f \in D /\ D \ {f} = E
        BY <3>2, <3>7
      <4>. HIDE DEF D
      <4>2. Fine(k, t, D \ {f})
        BY <4>1, TcpSendGood
      <4>. QED
        BY <4>1, <4>2
    <3>9. n = t
      <4>1. df = t.defect
        BY <2>8
      <4>. HIDE DEF df, t
      <4>. QED
        BY <2>1, <2>6, <4>1 DEF Mem
    <3>. HIDE DEF t
    <3>10. Ahead(m, n)
      <4>1. Ahead(m, k)
        BY <1>1, <2>4, <2>5, <3>7, AheadIn
      <4>2. Ahead(k, n)
        BY <3>8, <3>9 DEF Fine, Sent, FramesOnly
      <4>. QED
        BY <1>1, <2>4, <2>6, <3>9, <4>1, <4>2, AheadAhead
    <3>. QED
      BY <2>5, <3>7, <3>8, <3>9, <3>10, ListNames
         DEF Fine, Sent, FramesOnly, SameSockets, SameUsers, Flushed, SameIn
  <2>. QED
    BY <2>7, <2>8
<1>. QED
  BY <1>2, <1>3

\* CloseRest, and IPClose: a connection with data that waits is not closed at once
Finished(m, n, E, s) ==
    /\ Shut(m, n, E, s)
    /\ m.sstate[s] = "tcp" => In(m, "resend") \subseteq In(n, "resend") /\ n.sstate[s] # "closed"

\* A FIN has been sent
LEMMA FinOutcomeGood ==
    ASSUME NEW m, NEW E, Good(m, E), NEW s \in Sockets, NEW t, Fine(m, t, E),
           NEW n, n = [t EXCEPT !.stimeout[s] = SOCKET_TIMEOUT, !.sstate[s] = "finServer"]
    PROVE  Finished(m, n, E, s)
<1>. DEFINE ss == [t.sstate EXCEPT ![s] = "finServer"]
            st == [t.stimeout EXCEPT ![s] = SOCKET_TIMEOUT]
<1>1. m \in Mem /\ t \in Mem
  BY GoodType DEF Fine
<1>2. ss \in [Sockets -> SocketState] /\ st \in [Sockets -> Nat]
  <2>1. SOCKET_TIMEOUT \in Nat /\ "finServer" \in SocketState
    BY FramesAssumption DEF SocketState
  <2>. QED
    BY <1>1, <2>1, FieldTypes
<1>3. n = [t EXCEPT !.stimeout = st, !.sstate = ss]
  OBVIOUS
<1>4. ss[s] = "finServer" /\ \A r \in Sockets \ {s} : ss[r] = t.sstate[r] /\ st[r] = t.stimeout[r]
  BY <1>1, FieldTypes
<1>. HIDE DEF ss, st
<1>5. StateSet(t, n, E, ss, st)
  BY <1>2, <1>3, StateGood DEF Fine
<1>6. Ahead(m, n)
  <2>1. Ahead(m, t) /\ Ahead(t, n) /\ n \in Mem
    BY <1>5, GoodType DEF StateSet, Fine, Sent, FramesOnly
  <2>. QED
    BY <1>1, <2>1, AheadAhead
<1>. QED
  BY <1>4, <1>5, <1>6, ListNames
     DEF StateSet, Fine, Sent, FramesOnly, SameSockets, SameUsers, SameIn, Finished, Shut, OnlySocket

LEMMA RestOutcome ==
    ASSUME NEW m \in Mem, NEW s \in Sockets, NEW n, n = CloseRest(m, s)
    PROVE  /\ Bad(m) => Bad(n)
           /\ \A E : Good(m, E) => Bad(n) \/ Finished(m, n, E, s)
<1>. DEFINE g == IPFrameGet(m, 0)
            t == TCPSendPacket(g.m, s, g.f, TRUE)
            low == StateRank[m.sstate[s]] <= StateRank["udp"]
<1>1. CASE low
  <2>1. n = IPClose2(m, s)
    BY <1>1 DEF CloseRest
  <2>2. m.sstate[s] # "tcp"
    BY <1>1 DEF StateRank
  <2>3. /\ Bad(m) => Bad(n)
        /\ \A E : Good(m, E) => Bad(n) \/ Shut(m, n, E, s)
    BY <2>1, Close2Outcome
  <2>. QED
    BY <2>2, <2>3 DEF Finished
<1>2. CASE ~ low /\ g.f = NULL
  <2>1. n = m
    BY <1>2 DEF CloseRest
  <2>2. \A E : Good(m, E) => Fine(m, m, E)
    BY FineSame
  <2>3. ASSUME NEW E, Good(m, E)
        PROVE  Finished(m, n, E, s)
    BY <2>1, <2>2, <2>3 DEF Fine, Sent, FramesOnly, Finished, Shut, OnlySocket
  <2>. QED
    BY <2>1, <2>3
<1>3. CASE ~ low /\ g.f # NULL
  <2>1. n = [t EXCEPT !.stimeout[s] = SOCKET_TIMEOUT, !.sstate[s] = "finServer"]
    BY <1>3 DEF CloseRest
  <2>2. Steady(m, g.m) /\ g.f \in Frames
    BY <1>3, GetSteady
  <2>3. \A E : Good(m, E) => Taken(m, E, g)
    BY <1>3, GetGood
  <2>. HIDE DEF g
  <2>4. g.m \in Mem
    BY <2>2 DEF Steady
  <2>5. Steady(g.m, t)
    BY <2>2, <2>4, TcpSendSteady
  <2>6. Steady(m, t)
    BY <2>2, <2>5, SteadySteady
  <2>7. t = TCPSendPacket(g.m, s, g.f, TRUE)
    OBVIOUS
  <2>. HIDE DEF t
  <2>8. ASSUME Bad(m)
        PROVE  Bad(n)
    <3>1. Bad(t)
      BY <2>6, <2>8, SteadyBad
    <3>. DEFINE ss == [t.sstate EXCEPT ![s] = "finServer"]
                st == [t.stimeout EXCEPT ![s] = SOCKET_TIMEOUT]
    <3>2. ss \in [Sockets -> SocketState] /\ st \in [Sockets -> Nat]
      <4>1. SOCKET_TIMEOUT \in Nat /\ "finServer" \in SocketState
        BY FramesAssumption DEF SocketState
      <4>. QED
        BY <3>1, <4>1, FieldTypes DEF Bad
    <3>3. n = [t EXCEPT !.stimeout = st, !.sstate = ss]
      BY <2>1
    <3>. HIDE DEF ss, st
    <3>4. n \in Mem /\ n.defect = t.defect
      BY <3>1, <3>2, <3>3, ZenonT(60) DEF Bad, Mem
    <3>. QED
      BY <3>1, <3>4 DEF Bad
  <2>9. ASSUME NEW E, Good(m, E)
        PROVE  Finished(m, n, E, s)
    <3>1. Taken(m, E, g)
      BY <2>3, <2>9
    <3>. DEFINE D == E \cup {g.f}
    <3>2. Good(g.m, D) /\ g.f \in D /\ D \ {g.f} = E /\ Fine(m, g.m, D)
      BY <3>1 DEF Taken, Fine
    <3>. HIDE DEF D
    <3>3. Fine(g.m, t, D \ {g.f})
      BY <2>7, <3>2, TcpSendGood
    <3>4. Fine(m, t, E)
      <4>1. Fine(g.m, t, E)
        BY <3>2, <3>3
      <4>. QED
        BY <3>2, <4>1, FineFine
    <3>. QED
      BY <2>1, <2>9, <3>4, FinOutcomeGood
  <2>. QED
    BY <2>8, <2>9
<1>. QED
  BY <1>1, <1>2, <1>3

LEMMA CloseOutcome ==
    ASSUME NEW m, NEW E, Good(m, E), NEW s \in Sockets, NEW n, n = IPClose(m, s)
    PROVE  Bad(n) \/ Finished(m, n, E, s)
<1>. DEFINE k == IPWriteFlush(m, s)
<1>1. Bad(k) \/ Flushed(m, k, E)
  BY FlushOutcome
<1>2. n = CloseRest(k, s)
  BY DEF IPClose
<1>. HIDE DEF k
<1>3. k \in Mem /\ m \in Mem
  BY <1>1, GoodType DEF Bad, Flushed
<1>4. /\ Bad(k) => Bad(n)
      /\ \A D : Good(k, D) => Bad(n) \/ Finished(k, n, D, s)
  BY <1>2, <1>3, RestOutcome
<1>5. CASE Flushed(m, k, E) /\ Finished(k, n, E, s)
  <2>1. Ahead(m, n)
    <3>1. n \in Mem
      BY <1>5, GoodType DEF Finished, Shut
    <3>2. Ahead(m, k) /\ Ahead(k, n)
      BY <1>5 DEF Flushed, Finished, Shut
    <3>. QED
      BY <1>3, <3>1, <3>2, AheadAhead
  <2>. QED
    BY <1>5, <2>1 DEF Flushed, Finished, Shut, OnlySocket
<1>. QED
  BY <1>1, <1>4, <1>5 DEF Flushed

-----------------------------------------------------------------------------
(* The clock *)

\* A closed socket whose time is up has no user that is in it
SettledAt(m, s) == m.sstate[s] = "closed" /\ m.stimeout[s] = 1 => m.user[s] = Done

Settled(m) == \A s \in Sockets : SettledAt(m, s)

LEMMA ResendSocket ==
    ASSUME NEW m, NEW E, Good(m, E), NEW f \in In(m, "resend")
    PROVE  f \in Frames /\ m.sock[f] \in Sockets
<1>1. PICK L, P, Where : Sound(m, L, P, Where, E)
  BY DEF Good
<1>2. ListFrames(m, "resend") = L["resend"]
  BY <1>1, SoundLists, ListNames, GoodType
<1>. QED
  BY <1>1, <1>2 DEF In, Sound, SocketsRight

\* One frame of the resend list
Ticked(m, n, E, f) ==
    /\ Good(n, E) /\ Ahead(m, n) /\ Settled(n)
    /\ In(m, "resend") \ {f} \subseteq In(n, "resend")

LEMMA ResendOutcome ==
    ASSUME NEW m, NEW E, Good(m, E), NEW f \in In(m, "resend"), Settled(m), NEW n, n = Resend(m, f)
    PROVE  Bad(n) \/ Ticked(m, n, E, f)
<1>. DEFINE t == m.timeout[f] - TickTime(m) - 1
            tm == [m.timeout EXCEPT ![f] = t]
            rt == m.retry
            k  == [m EXCEPT !.retry = rt, !.timeout = tm]
            m1 == FrameRemove(k, "resend", f)
            s  == m.sock[f]
            c  == IPClose(m1, s)
            D  == E \cup {f}
<1>1. m \in Mem /\ E \subseteq Frames
  BY GoodType
<1>2. f \in Frames /\ s \in Sockets
  BY ResendSocket
<1>3. t \in Int
  <2>1. TickTime(m) \in Int
    BY DEF TickTime
  <2>2. m.timeout[f] \in Int
    BY <1>1, <1>2, FieldTypes
  <2>. QED
    BY <2>1, <2>2
<1>4. k = [m EXCEPT !.timeout[f] = t]
  BY <1>1 DEF Mem
<1>. HIDE DEF t
<1>5. tm \in [Frames -> Int] /\ rt \in [Frames -> Nat]
  BY <1>1, <1>2, <1>3, FieldTypes
<1>. HIDE DEF tm, rt
<1>6. Marked(m, k, E)
  BY <1>5, MarkGood
<1>. HIDE DEF k
<1>7. \/ n = k
      \/ n = IPSendFrame(m1, f)
      \/ n = FrameFree(m1, f)
      \/ m.sstate[s] = "tcp" /\ n = FrameFree(c, f)
  BY <1>4 DEF Resend, t
<1>8. f \in In(k, "resend") /\ Good(k, E) /\ k \in Mem
  BY <1>6, ListNames, GoodType DEF Marked, SameIn, Fine
<1>9. Cut(k, m1, E, "resend", f)
  BY <1>8, RemoveGood, ListNames
<1>. HIDE DEF m1, s
<1>10. Good(m1, D) /\ f \in D /\ D \ {f} = E
  BY <1>9 DEF Cut
<1>11. SameSockets(m, m1) /\ Ahead(m, m1) /\ In(m, "resend") \ {f} \subseteq In(m1, "resend")
  <2>1. Ahead(m, k) /\ Ahead(k, m1)
    BY <1>6, <1>9, ListNames DEF Cut, Marked, Fine, Sent, FramesOnly
  <2>2. Ahead(m, m1)
    BY <1>1, <1>8, <1>10, <2>1, AheadAhead, GoodType
  <2>. QED
    BY <1>6, <1>9, <2>2, ListNames DEF Cut, Marked, Fine, Sent, FramesOnly, SameIn, SameSockets, SameUsers
<1>. HIDE DEF D
<1>12. ASSUME Fine(m1, n, E)
       PROVE  Ticked(m, n, E, f)
  <2>1. Ahead(m, n)
    <3>1. m1 \in Mem /\ n \in Mem
      BY <1>10, <1>12, GoodType DEF Fine
    <3>2. Ahead(m1, n)
      BY <1>12 DEF Fine, Sent, FramesOnly
    <3>. QED
      BY <1>1, <1>11, <3>1, <3>2, AheadAhead
  <2>2. n.sstate = m.sstate /\ n.stimeout = m.stimeout /\ n.user = m.user
    BY <1>11, <1>12 DEF Fine, Sent, FramesOnly, SameSockets, SameUsers
  <2>3. Settled(n)
    BY <2>2 DEF Settled, SettledAt
  <2>4. In(m, "resend") \ {f} \subseteq In(n, "resend") /\ Good(n, E)
    BY <1>11, <1>12 DEF Fine, Sent
  <2>. QED
    BY <2>1, <2>3, <2>4 DEF Ticked
<1>13. CASE n = k
  <2>1. Fine(m, n, E)
    BY <1>6, <1>13 DEF Marked
  <2>. QED
    BY <2>1 DEF Fine, Sent, FramesOnly, SameSockets, SameUsers, Ticked, Settled, SettledAt
<1>14. CASE n = IPSendFrame(m1, f)
  <2>1. Fine(m1, n, D \ {f})
    BY <1>10, <1>14, SendFrameGood
  <2>. QED
    BY <1>10, <1>12, <2>1
<1>15. CASE n = FrameFree(m1, f)
  <2>1. Freed(m1, n, D, f)
    BY <1>10, <1>15, FreeGood
  <2>. QED
    BY <1>10, <1>12, <2>1 DEF Freed, Fine
<1>16. CASE m.sstate[s] = "tcp" /\ n = FrameFree(c, f)
  <2>1. Bad(c) \/ Finished(m1, c, D, s)
    BY <1>2, <1>10, CloseOutcome
  <2>. HIDE DEF c
  <2>2. CASE Bad(c)
    <3>1. Steady(c, n)
      BY <1>2, <1>16, <2>2, FreeSteady DEF Bad
    <3>. QED
      BY <2>2, <3>1, SteadyBad
  <2>3. CASE Finished(m1, c, D, s)
    <3>1. Good(c, D)
      BY <2>3 DEF Finished, Shut
    <3>2. Freed(c, n, D, f)
      BY <1>10, <1>16, <3>1, FreeGood
    <3>3. Good(n, E)
      BY <1>10, <3>2 DEF Freed
    <3>4. Ahead(m, n)
      <4>1. m1 \in Mem /\ c \in Mem /\ n.queue = c.queue
        BY <1>10, <3>1, <3>2, GoodType DEF Freed
      <4>2. Ahead(m1, c) /\ Ahead(c, n) /\ n \in Mem
        BY <2>3, <3>2, <3>3, GoodType DEF Finished, Shut, Freed, Sent, FramesOnly
      <4>3. Ahead(m1, n)
        BY <4>1, <4>2, AheadAhead
      <4>. QED
        BY <1>1, <1>11, <4>1, <4>2, <4>3, AheadAhead
    <3>5. In(m, "resend") \ {f} \subseteq In(n, "resend")
      BY <1>11, <1>16, <2>3, <3>2, ListNames DEF Finished, Freed, SameIn, SameSockets
    <3>6. c.user = m.user /\ c.sstate[s] # "closed"
          /\ \A r \in Sockets \ {s} : c.sstate[r] = m.sstate[r] /\ c.stimeout[r] = m.stimeout[r]
      BY <1>11, <1>16, <2>3 DEF Finished, Shut, OnlySocket, SameSockets, SameUsers
    <3>7. Settled(n)
      BY <1>2, <3>2, <3>6 DEF Settled, SettledAt, Freed, Sent, FramesOnly, SameSockets, SameUsers
    <3>. QED
      BY <3>3, <3>4, <3>5, <3>7 DEF Ticked
  <2>. QED
    BY <2>1, <2>2, <2>3
<1>. QED
  BY <1>7, <1>13, <1>14, <1>15, <1>16

\* All frames of the resend list
LEMMA ClockOutcome ==
    ASSUME NEW m, NEW E, Good(m, E), Settled(m),
           NEW n, n = Walk(Resend, m, ListFrames(m, "resend"))
    PROVE  Bad(n) \/ (Good(n, E) /\ Ahead(m, n) /\ Settled(n))
<1>. DEFINE q == ListFrames(m, "resend")
            Right(a) == Good(a, E) /\ Ahead(m, a) /\ Settled(a)
            Kept(a, i) == Bad(a) \/ (Right(a) /\ \A j \in i + 1 .. Len(q) : q[j] \in In(a, "resend"))
            I == [i \in 0 .. Len(q) |-> {a \in Mem : Kept(a, i)}]
<1>0. m \in Mem /\ Ahead(m, m)
  BY GoodType, AheadKept
<1>1. q \in Seq(Frames) /\ IsInjective(q) /\ \A i \in 1 .. Len(q) : q[i] \in In(m, "resend")
  BY GoodList, ListNames
<1>a. q = ListFrames(m, "resend")
  OBVIOUS
<1>. HIDE DEF q
<1>2. \A i \in 0 .. Len(q) : I[i] = {a \in Mem : Kept(a, i)}
  OBVIOUS
<1>3. I \in [0 .. Len(q) -> SUBSET Mem] /\ m \in I[0]
  <2>1. Kept(m, 0)
    BY <1>0, <1>1
  <2>2. 0 \in 0 .. Len(q)
    BY <1>1
  <2>. HIDE DEF Kept
  <2>. QED
    BY <1>0, <2>1, <2>2
<1>. HIDE DEF I
<1>4. ClockClosed(q, I)
  <2>. SUFFICES ASSUME NEW i \in 1 .. Len(q), NEW a \in I[i - 1]
                PROVE  (IF a.defect # "none" THEN a ELSE Resend(a, q[i])) \in I[i]
    BY DEF ClockClosed
  <2>1. i \in 0 .. Len(q) /\ i - 1 \in 0 .. Len(q) /\ i \in (i - 1) + 1 .. Len(q)
        /\ \A j \in i + 1 .. Len(q) : j \in (i - 1) + 1 .. Len(q) /\ j \in 1 .. Len(q) /\ j # i
    BY <1>1
  <2>2. a \in Mem /\ Kept(a, i - 1) /\ q[i] \in Frames
    BY <1>1, <1>2, <2>1
  <2>3. CASE Bad(a)
    <3>1. a \in I[i]
      BY <1>2, <2>1, <2>2, <2>3
    <3>. QED
      BY <2>3, <3>1 DEF Bad
  <2>4. CASE ~ Bad(a)
    <3>1. Right(a) /\ q[i] \in In(a, "resend") /\ \A j \in i + 1 .. Len(q) : q[j] \in In(a, "resend")
      BY <2>1, <2>2, <2>4
    <3>2. a.defect = "none"
      BY <3>1, GoodType
    <3>. DEFINE f == q[i]
                b == Resend(a, f)
    <3>3. Bad(b) \/ Ticked(a, b, E, f)
      BY <3>1, ResendOutcome
    <3>. HIDE DEF b
    <3>4. ASSUME Ticked(a, b, E, f)
          PROVE  b \in Mem /\ Kept(b, i)
      <4>1. \A j \in i + 1 .. Len(q) : q[j] # f
        BY <1>1, <2>1 DEF IsInjective
      <4>2. \A j \in i + 1 .. Len(q) : q[j] \in In(b, "resend")
        BY <3>1, <3>4, <4>1 DEF Ticked
      <4>3. b \in Mem /\ Ahead(a, b) /\ Good(b, E) /\ Settled(b)
        BY <3>4, GoodType DEF Ticked
      <4>4. Ahead(m, b)
        BY <1>0, <2>2, <3>1, <4>3, AheadAhead
      <4>5. Kept(b, i)
        BY <4>2, <4>3, <4>4
      <4>. QED
        BY <4>3, <4>5
    <3>5. b \in Mem /\ Kept(b, i)
      BY <3>3, <3>4 DEF Bad
    <3>. HIDE DEF Kept
    <3>6. b \in I[i]
      BY <1>2, <2>1, <3>5
    <3>. QED
      BY <3>2, <3>6 DEF b
  <2>. QED
    BY <2>3, <2>4
<1>5. n \in I[Len(q)]
  BY <1>0, <1>1, <1>3, <1>4, <1>a, ClockRule
<1>6. Len(q) \in 0 .. Len(q)
  BY <1>1
<1>. QED
  BY <1>2, <1>5, <1>6

\* A closed socket is freed: what it has is gone
SocketFreed(m, n, s) ==
    /\ SamePool(m, n) /\ n.state = m.state /\ n.next = m.next /\ n.prev = m.prev /\ n.sock = m.sock
    /\ n.head = [m.head EXCEPT ![s] = NULL] /\ n.tail = [m.tail EXCEPT ![s] = NULL]
    /\ n.frameSend = [m.frameSend EXCEPT ![s] = NULL] /\ n.user = m.user
    /\ n.lost = m.lost \cup ({m.frameSend[s]} \ {NULL}) \cup ToSet(ListFrames(m, s))

LEMMA SocketFreedGood ==
    ASSUME NEW m, NEW E, Good(m, E), NEW s \in Sockets, m.user[s] = Done,
           NEW n \in Mem, n.defect = "none", SocketFreed(m, n, s)
    PROVE  Good(n, E) /\ In(n, "send") = In(m, "send")
<1>1. m \in Mem /\ m.defect = "none" /\ E \subseteq Frames
  BY GoodType
<1>2. PICK L, P, Where : Sound(m, L, P, Where, E)
  BY DEF Good
<1>. DEFINE M == [L EXCEPT ![s] = <<>>]
            Then == [f \in Frames |-> IF Where[f] \in {InList(s), OwnedBy(s)} THEN Gone ELSE Where[f]]
<1>3. s \in Lists /\ s # "resend"
  BY ListNames
<1>4. L \in [Lists -> Seq(Frames)] /\ \A l \in Lists : Links(m, l, L[l])
  BY <1>2 DEF Sound
<1>5. M \in [Lists -> Seq(Frames)] /\ M[s] = <<>> /\ \A l \in Lists \ {s} : M[l] = L[l]
  BY <1>3, <1>4
<1>6. \A f \in Frames : Then[f] = IF Where[f] \in {InList(s), OwnedBy(s)} THEN Gone ELSE Where[f]
  OBVIOUS
<1>. HIDE DEF M, Then
<1>7. n.head[s] = NULL /\ n.tail[s] = NULL
      /\ \A l \in Lists \ {s} : n.head[l] = m.head[l] /\ n.tail[l] = m.tail[l]
  BY <1>1, <1>3, FieldTypes DEF SocketFreed
<1>8. ASSUME NEW l \in Lists
      PROVE  Links(n, l, M[l])
  <2>1. CASE l = s
    <3>. DEFINE e == <<>>
    <3>1. e \in Seq(Frames) /\ Len(e) = 0 /\ IsInjective(e)
      BY DEF IsInjective
    <3>2. M[l] = e
      BY <1>5, <2>1
    <3>3. First(e) = NULL /\ Final(e) = NULL
      BY DEF First, Final
    <3>. HIDE DEF e
    <3>. QED
      BY <1>7, <2>1, <3>1, <3>2, <3>3 DEF Links, Chained, Back
  <2>2. CASE l # s
    <3>1. Links(m, l, L[l]) /\ M[l] = L[l]
      BY <1>4, <1>5, <2>2
    <3>2. n.head[l] = m.head[l] /\ n.tail[l] = m.tail[l]
      BY <1>7, <2>2
    <3>. HIDE DEF M
    <3>3. Links(n, l, L[l])
      BY <3>1, <3>2 DEF Links, SocketFreed
    <3>. QED
      BY <3>1, <3>3
  <2>. QED
    BY <2>1, <2>2
<1>9. PoolLinks(n, P)
  BY <1>2 DEF Sound, PoolLinks, SocketFreed, SamePool
<1>10. \A f \in Frames : f \in n.lost <=> Where[f] = Gone \/ Where[f] = InList(s) \/ Where[f] = OwnedBy(s)
  <2>1. ToSet(ListFrames(m, s)) = Range(L[s])
    BY <1>1, <1>2, <1>3, SoundLists DEF ToSet, Range
  <2>2. \A f \in Frames : f \in {m.frameSend[s]} \ {NULL} <=> Owns(m, s, f)
    BY FramesAssumption DEF Owns, Done
  <2>3. \A f \in Frames : f \in n.lost <=> f \in m.lost \/ Owns(m, s, f) \/ f \in Range(L[s])
    BY <2>1, <2>2 DEF SocketFreed
  <2>4. \A f \in Frames :
          /\ Where[f] = Gone <=> f \in m.lost
          /\ Where[f] = InList(s) <=> f \in Range(L[s])
          /\ Where[f] = OwnedBy(s) <=> Owns(m, s, f)
    BY <1>2, <1>3 DEF Sound, Located
  <2>. QED
    BY <2>3, <2>4
<1>11. \A f \in Frames : \A r \in Sockets : Owns(n, r, f) <=> r # s /\ Owns(m, r, f)
  <2>1. \A r \in Sockets : n.frameSend[r] = IF r = s THEN NULL ELSE m.frameSend[r]
    BY <1>1, FieldTypes DEF SocketFreed
  <2>. QED
    BY <2>1, FramesAssumption DEF Owns, SocketFreed
<1>12. \A f \in Frames : \A l \in Lists : f \in Range(M[l]) <=> l # s /\ f \in Range(L[l])
  <2>1. \A f : f \notin Range(<<>>)
    BY DEF Range
  <2>. QED
    BY <1>5, <2>1
<1>13. Located(n, M, P, Then, E)
  <2>. SUFFICES ASSUME NEW f \in Frames
                PROVE
          /\ Then[f] \in {Pool, Hand, Gone} \cup {InList(k) : k \in Lists} \cup {OwnedBy(r) : r \in Sockets}
          /\ Then[f] = Pool <=> f \in Range(P)
          /\ Then[f] = Hand <=> f \in E
          /\ Then[f] = Gone <=> f \in n.lost
          /\ \A k \in Lists : Then[f] = InList(k) <=> f \in Range(M[k])
          /\ \A r \in Sockets : Then[f] = OwnedBy(r) <=> Owns(n, r, f)
    BY DEF Located
  <2>1. /\ Where[f] \in {Pool, Hand, Gone} \cup {InList(k) : k \in Lists} \cup {OwnedBy(r) : r \in Sockets}
        /\ Where[f] = Pool <=> f \in Range(P)
        /\ Where[f] = Hand <=> f \in E
        /\ \A k \in Lists : Where[f] = InList(k) <=> f \in Range(L[k])
        /\ \A r \in Sockets : Where[f] = OwnedBy(r) <=> Owns(m, r, f)
    BY <1>2 DEF Sound, Located
  <2>2. Then[f] = IF Where[f] \in {InList(s), OwnedBy(s)} THEN Gone ELSE Where[f]
    BY <1>6
  <2>3. CASE Where[f] \in {InList(s), OwnedBy(s)}
    <3>1. Then[f] = Gone /\ f \in n.lost
      BY <1>10, <2>2, <2>3
    <3>2. f \notin Range(P) /\ f \notin E
      BY <2>1, <2>3, PlacesDiffer
    <3>3. \A k \in Lists : f \notin Range(M[k])
      BY <1>12, <2>1, <2>3, PlacesDiffer
    <3>4. \A r \in Sockets : ~ Owns(n, r, f)
      BY <1>11, <2>1, <2>3, PlacesDiffer
    <3>. QED
      BY <3>1, <3>2, <3>3, <3>4, PlacesDiffer
  <2>4. CASE Where[f] \notin {InList(s), OwnedBy(s)}
    <3>1. Then[f] = Where[f]
      BY <2>2, <2>4
    <3>2. Where[f] = Gone <=> f \in n.lost
      BY <1>10, <2>4
    <3>3. \A k \in Lists : Where[f] = InList(k) <=> f \in Range(M[k])
      BY <1>12, <2>1, <2>4
    <3>4. \A r \in Sockets : Where[f] = OwnedBy(r) <=> Owns(n, r, f)
      BY <1>11, <2>1, <2>4
    <3>. QED
      BY <2>1, <3>1, <3>2, <3>3, <3>4
  <2>. QED
    BY <2>3, <2>4
<1>14. StatesRight(n, Then)
  <2>1. StatesRight(m, Where) /\ n.state = m.state
    BY <1>2 DEF Sound, SocketFreed
  <2>2. \A f \in Frames : /\ Then[f] # Gone => Then[f] = Where[f]
                          /\ Then[f] = Gone => Where[f] # Pool
    BY <1>6, PlacesDiffer
  <2>. QED
    BY <2>1, <2>2, PlacesDiffer DEF StatesRight
<1>15. SocketsRight(n, M)
  <2>1. M["resend"] = L["resend"]
    BY <1>3, <1>5, ListNames
  <2>2. \A r \in Sockets : n.frameSend[r] = IF r = s THEN NULL ELSE m.frameSend[r]
    BY <1>1, FieldTypes DEF SocketFreed
  <2>3. m.user[s].at # "send"
    BY DEF Done
  <2>. QED
    BY <1>2, <2>1, <2>2, <2>3 DEF Sound, SocketsRight, SocketFreed
<1>16. Sound(n, M, P, Then, E)
  BY <1>5, <1>8, <1>9, <1>13, <1>14, <1>15 DEF Sound
<1>17. In(n, "send") = In(m, "send")
  <2>1. "send" \in Lists /\ M["send"] = L["send"]
    BY <1>5, ListNames
  <2>2. ListFrames(m, "send") = L["send"]
    BY <1>1, <1>2, <2>1, SoundLists
  <2>3. ListFrames(n, "send") = M["send"]
    BY <1>16, <2>1, SoundLists
  <2>. QED
    BY <2>1, <2>2, <2>3 DEF In
<1>. QED
  BY <1>1, <1>16, <1>17 DEF Good

\* One socket, each second
LEMMA SocketOutcome ==
    ASSUME NEW m, NEW E, Good(m, E), NEW s \in Sockets, SettledAt(m, s), NEW n, n = SocketTick(m, s)
    PROVE  Bad(n) \/ Shut(m, n, E, s)
<1>. DEFINE t == m.stimeout[s] - 1
            st1 == [m.stimeout EXCEPT ![s] = SOCKET_TIMEOUT]
            st2 == [m.stimeout EXCEPT ![s] = t]
            ss == m.sstate
            m1 == [m EXCEPT !.stimeout = st1, !.sstate = ss]
            m2 == [m EXCEPT !.stimeout = st2, !.sstate = ss]
            hd == [m.head EXCEPT ![s] = NULL]
            tl == [m.tail EXCEPT ![s] = NULL]
            fs == [m.frameSend EXCEPT ![s] = NULL]
            st3 == [m.stimeout EXCEPT ![s] = 0]
            ss3 == [m.sstate EXCEPT ![s] = "none"]
            mk == [m.macKnown EXCEPT ![s] = FALSE]
            ls == m.lost \cup ({m.frameSend[s]} \ {NULL}) \cup ToSet(ListFrames(m, s))
            m3 == [m EXCEPT !.stimeout = st3, !.sstate = ss3, !.macKnown = mk, !.frameSend = fs,
                            !.head = hd, !.tail = tl, !.lost = ls]
<1>1. m \in Mem /\ m.defect = "none" /\ E \subseteq Frames /\ Ahead(m, m)
  BY GoodType, AheadKept
<1>2. \/ n = m
      \/ t > 0 /\ n = m2
      \/ n = IPClose(m1, s)
      \/ n = IPClose2(m1, s)
      \/ m.sstate[s] = "closed" /\ m.stimeout[s] # 0 /\ ~ (t > 0) /\ n = m3
  <2>1. m1 = [m EXCEPT !.stimeout[s] = SOCKET_TIMEOUT] /\ m2 = [m EXCEPT !.stimeout[s] = t]
    BY <1>1 DEF Mem
  <2>2. m3 = [m EXCEPT !.stimeout[s] = 0, !.sstate[s] = "none", !.macKnown[s] = FALSE, !.frameSend[s] = NULL,
                       !.head[s] = NULL, !.tail[s] = NULL,
                       !.lost = @ \cup ({m.frameSend[s]} \ {NULL}) \cup ToSet(ListFrames(m, s))]
    OBVIOUS
  <2>. HIDE DEF m1, m2, m3
  <2>. QED
    BY <2>1, <2>2 DEF SocketTick
<1>3. m.stimeout[s] \in Nat /\ t \in Int /\ (t > 0 => t \in Nat) /\ (m.stimeout[s] # 0 /\ ~ (t > 0) => m.stimeout[s] = 1)
  <2>1. m.stimeout[s] \in Nat
    BY <1>1, FieldTypes
  <2>. QED
    BY <2>1
<1>. HIDE DEF t
<1>4. ss \in [Sockets -> SocketState] /\ st1 \in [Sockets -> Nat]
  BY <1>1, FramesAssumption, FieldTypes
<1>5. /\ \A r \in Sockets \ {s} : st1[r] = m.stimeout[r] /\ st2[r] = m.stimeout[r]
      /\ \A r \in Sockets \ {s} : st3[r] = m.stimeout[r] /\ ss3[r] = m.sstate[r]
  BY <1>1, FieldTypes
<1>6. t > 0 => st2 \in [Sockets -> Nat]
  BY <1>1, <1>3, FieldTypes
<1>7. CASE n = m
  BY <1>1, <1>7, AheadKept DEF Shut, OnlySocket
<1>8. CASE t > 0 /\ n = m2
  <2>. HIDE DEF st2, ss
  <2>1. StateSet(m, n, E, ss, st2)
    BY <1>4, <1>6, <1>8, StateGood
  <2>. QED
    BY <1>1, <1>5, <2>1 DEF StateSet, Shut, OnlySocket, SameUsers, ss
<1>9. CASE n = IPClose(m1, s) \/ n = IPClose2(m1, s)
  <2>. HIDE DEF st1, ss
  <2>1. StateSet(m, m1, E, ss, st1)
    BY <1>4, StateGood
  <2>2. m1 \in Mem /\ Good(m1, E)
    BY <2>1, GoodType DEF StateSet
  <2>. HIDE DEF m1
  <2>3. Bad(n) \/ Shut(m1, n, E, s)
    <3>1. CASE n = IPClose(m1, s)
      BY <2>2, <3>1, CloseOutcome DEF Finished
    <3>2. CASE n = IPClose2(m1, s)
      BY <2>2, <3>2, Close2Outcome
    <3>. QED
      BY <1>9, <3>1, <3>2
  <2>4. ASSUME Shut(m1, n, E, s) PROVE Ahead(m, n)
    BY <1>1, <2>1, <2>2, <2>4, AheadAhead, GoodType DEF StateSet, Shut
  <2>. QED
    BY <1>5, <2>1, <2>3, <2>4 DEF StateSet, Shut, OnlySocket, SameUsers, ss
<1>10. CASE m.sstate[s] = "closed" /\ m.stimeout[s] # 0 /\ ~ (t > 0) /\ n = m3
  <2>1. m.user[s] = Done
    BY <1>3, <1>10 DEF SettledAt
  <2>2. /\ hd \in [Lists -> Link] /\ tl \in [Lists -> Link] /\ fs \in [Sockets -> Link]
        /\ st3 \in [Sockets -> Nat] /\ ss3 \in [Sockets -> SocketState] /\ mk \in [Sockets -> BOOLEAN]
    <3>1. NULL \in Link /\ "none" \in SocketState /\ FALSE \in BOOLEAN /\ 0 \in Nat
      BY DEF Link, SocketState
    <3>2. hd \in [Lists -> Link] /\ tl \in [Lists -> Link] /\ fs \in [Sockets -> Link]
      BY <1>1, <3>1, FieldTypes
    <3>3. st3 \in [Sockets -> Nat] /\ ss3 \in [Sockets -> SocketState]
      BY <1>1, <3>1, FieldTypes
    <3>4. mk \in [Sockets -> BOOLEAN]
      BY <1>1, <3>1, FieldTypes
    <3>. QED
      BY <3>2, <3>3, <3>4
  <2>3. ls \in SUBSET Frames
    <3>1. ListFrames(m, s) \in Seq(Frames)
      BY <1>1, ListNames, ListType
    <3>2. ToSet(ListFrames(m, s)) \subseteq Frames
      BY <3>1 DEF ToSet
    <3>. QED
      BY <1>1, <3>2, FieldTypes DEF Link
  <2>. HIDE DEF hd, tl, fs, st3, ss3, mk, ls
  <2>4. m3 \in Mem
    BY <1>1, <2>2, <2>3 DEF Mem
  <2>5. /\ SamePool(m, m3) /\ m3.state = m.state /\ m3.next = m.next /\ m3.prev = m.prev /\ m3.sock = m.sock
        /\ m3.head = hd /\ m3.tail = tl /\ m3.frameSend = fs /\ m3.user = m.user /\ m3.lost = ls
        /\ m3.defect = m.defect /\ m3.queue = m.queue /\ m3.stimeout = st3 /\ m3.sstate = ss3
    BY <1>1 DEF Mem, SamePool
  <2>. HIDE DEF m3
  <2>6. SocketFreed(m, m3, s)
    BY <2>5 DEF SocketFreed, hd, tl, fs, ls
  <2>7. Good(m3, E) /\ In(m3, "send") = In(m, "send")
    BY <1>1, <2>1, <2>4, <2>5, <2>6, SocketFreedGood
  <2>8. Ahead(m, m3)
    BY <1>1, <2>4, <2>5, <2>7, AheadKept
  <2>. QED
    BY <1>1, <1>5, <1>10, <2>5, <2>7, <2>8 DEF Shut, OnlySocket
<1>. QED
  BY <1>2, <1>7, <1>8, <1>9, <1>10

LEMMA SocketSeq ==
    ASSUME NEW q, q = SetToSeq(Sockets)
    PROVE  q \in Seq(Sockets) /\ IsInjective(q)
<1>. DEFINE c == Cardinality(Sockets)
            Lists1(f) == f \in [1 .. c -> Sockets] /\ IsInjective(f)
<1>1. c \in Nat /\ ExistsBijection(1 .. c, Sockets)
  BY FramesAssumption, FS_CardinalityType
<1>2. PICK f : f \in Bijection(1 .. c, Sockets)
  BY <1>1 DEF ExistsBijection
<1>3. f \in [1 .. c -> Sockets] /\ IsInjective(f)
  BY <1>2 DEF Bijection, Injection
<1>4. q = CHOOSE g \in [1 .. c -> Sockets] : IsInjective(g)
  BY DEF SetToSeq
<1>. HIDE DEF c
<1>5. q \in [1 .. c -> Sockets] /\ IsInjective(q)
  BY <1>3, <1>4, Zenon
<1>. QED
  BY <1>1, <1>5

\* All sockets
LEMMA SecondOutcome ==
    ASSUME NEW m, NEW E, Good(m, E), Settled(m), NEW n, n = Walk(SocketTick, m, SetToSeq(Sockets))
    PROVE  Bad(n) \/ (Good(n, E) /\ Ahead(m, n))
<1>. DEFINE q == SetToSeq(Sockets)
            Right(a) == Good(a, E) /\ Ahead(m, a)
            Kept(a, i) == Bad(a) \/ (Right(a) /\ \A j \in i + 1 .. Len(q) : SettledAt(a, q[j]))
            I == [i \in 0 .. Len(q) |-> {a \in Mem : Kept(a, i)}]
<1>0. m \in Mem /\ Ahead(m, m)
  BY GoodType, AheadKept
<1>1. q \in Seq(Sockets) /\ IsInjective(q)
  BY SocketSeq
<1>a. n = Walk(SocketTick, m, q)
  OBVIOUS
<1>. HIDE DEF q
<1>2. \A i \in 0 .. Len(q) : I[i] = {a \in Mem : Kept(a, i)}
  OBVIOUS
<1>3. I \in [0 .. Len(q) -> SUBSET Mem] /\ m \in I[0]
  <2>1. \A j \in 1 .. Len(q) : q[j] \in Sockets
    BY <1>1
  <2>2. Kept(m, 0)
    BY <1>0, <1>1, <2>1 DEF Settled
  <2>3. 0 \in 0 .. Len(q)
    BY <1>1
  <2>. HIDE DEF Kept
  <2>. QED
    BY <1>0, <2>2, <2>3
<1>. HIDE DEF I
<1>4. SecondClosed(q, I)
  <2>. SUFFICES ASSUME NEW i \in 1 .. Len(q), NEW a \in I[i - 1]
                PROVE  (IF a.defect # "none" THEN a ELSE SocketTick(a, q[i])) \in I[i]
    BY DEF SecondClosed
  <2>1. i \in 0 .. Len(q) /\ i - 1 \in 0 .. Len(q) /\ i \in (i - 1) + 1 .. Len(q)
        /\ \A j \in i + 1 .. Len(q) : j \in (i - 1) + 1 .. Len(q) /\ j \in 1 .. Len(q) /\ j # i
    BY <1>1
  <2>2. a \in Mem /\ Kept(a, i - 1) /\ q[i] \in Sockets
    BY <1>1, <1>2, <2>1
  <2>3. CASE Bad(a)
    <3>1. a \in I[i]
      BY <1>2, <2>1, <2>2, <2>3
    <3>. QED
      BY <2>3, <3>1 DEF Bad
  <2>4. CASE ~ Bad(a)
    <3>1. Right(a) /\ SettledAt(a, q[i]) /\ \A j \in i + 1 .. Len(q) : SettledAt(a, q[j])
      BY <2>1, <2>2, <2>4
    <3>2. a.defect = "none"
      BY <3>1, GoodType
    <3>. DEFINE s == q[i]
                b == SocketTick(a, s)
    <3>3. Bad(b) \/ Shut(a, b, E, s)
      BY <2>2, <3>1, SocketOutcome
    <3>. HIDE DEF b
    <3>4. ASSUME Shut(a, b, E, s)
          PROVE  b \in Mem /\ Kept(b, i)
      <4>1. \A j \in i + 1 .. Len(q) : q[j] \in Sockets \ {s}
        BY <1>1, <2>1 DEF IsInjective
      <4>2. \A j \in i + 1 .. Len(q) : SettledAt(b, q[j])
        BY <3>1, <3>4, <4>1 DEF Shut, OnlySocket, SettledAt
      <4>3. b \in Mem /\ Ahead(a, b) /\ Good(b, E)
        BY <3>4, GoodType DEF Shut
      <4>4. Ahead(m, b)
        BY <1>0, <2>2, <3>1, <4>3, AheadAhead
      <4>5. Kept(b, i)
        BY <4>2, <4>3, <4>4
      <4>. QED
        BY <4>3, <4>5
    <3>5. b \in Mem /\ Kept(b, i)
      BY <3>3, <3>4 DEF Bad
    <3>. HIDE DEF Kept
    <3>6. b \in I[i]
      BY <1>2, <2>1, <3>5
    <3>. QED
      BY <3>2, <3>6 DEF b
  <2>. QED
    BY <2>3, <2>4
<1>5. n \in I[Len(q)]
  BY <1>0, <1>1, <1>3, <1>4, <1>a, SecondRule
<1>6. Len(q) \in 0 .. Len(q)
  BY <1>1
<1>. QED
  BY <1>2, <1>5, <1>6

\* A walk of memory with a defect is no walk
LEMMA BadWalk ==
    ASSUME NEW m, Bad(m), NEW n, n = Walk(SocketTick, m, SetToSeq(Sockets))
    PROVE  n = m
<1>. DEFINE q == SetToSeq(Sockets)
            I == [i \in 0 .. Len(q) |-> {m}]
<1>1. q \in Seq(Sockets)
  BY SocketSeq
<1>a. n = Walk(SocketTick, m, q) /\ m \in Mem /\ m.defect # "none"
  BY DEF Bad
<1>. HIDE DEF q
<1>2. \A i \in 0 .. Len(q) : I[i] = {m}
  OBVIOUS
<1>3. I \in [0 .. Len(q) -> SUBSET Mem] /\ m \in I[0]
  BY <1>1, <1>2, <1>a
<1>. HIDE DEF I
<1>4. \A i \in 1 .. Len(q) : i \in 0 .. Len(q) /\ i - 1 \in 0 .. Len(q)
  BY <1>1
<1>5. SecondClosed(q, I)
  BY <1>2, <1>4, <1>a DEF SecondClosed
<1>6. n \in I[Len(q)]
  BY <1>1, <1>3, <1>5, <1>a, SecondRule
<1>7. Len(q) \in 0 .. Len(q)
  BY <1>1
<1>. QED
  BY <1>2, <1>6, <1>7

LEMMA TickOutcome ==
    ASSUME NEW m, NEW E, Good(m, E), Settled(m), NEW second, NEW n, n = IPTick(m, second)
    PROVE  Bad(n) \/ (Good(n, E) /\ Ahead(m, n))
<1>. DEFINE m1 == Walk(Resend, m, ListFrames(m, "resend"))
<1>1. Bad(m1) \/ (Good(m1, E) /\ Ahead(m, m1) /\ Settled(m1))
  BY ClockOutcome
<1>2. n = m1 \/ n = Walk(SocketTick, m1, SetToSeq(Sockets))
  BY DEF IPTick
<1>. HIDE DEF m1
<1>3. CASE n = m1
  BY <1>1, <1>3
<1>4. CASE n = Walk(SocketTick, m1, SetToSeq(Sockets)) /\ Bad(m1)
  BY <1>4, BadWalk
<1>5. CASE n = Walk(SocketTick, m1, SetToSeq(Sockets)) /\ ~ Bad(m1)
  <2>1. Bad(n) \/ (Good(n, E) /\ Ahead(m1, n))
    BY <1>1, <1>5, SecondOutcome
  <2>2. Good(n, E) => m \in Mem /\ m1 \in Mem /\ n \in Mem
    BY <1>1, <1>5, GoodType
  <2>. QED
    BY <1>1, <1>5, <2>1, <2>2, AheadAhead
<1>. QED
  BY <1>2, <1>3, <1>4, <1>5

-----------------------------------------------------------------------------
(* Packets *)

Works(m, n, E) == Good(n, E) /\ Ahead(m, n)

LEMMA WorksWorks ==
    ASSUME NEW m \in Mem, NEW n, NEW k, NEW D, NEW E, Works(m, n, D), Works(n, k, E)
    PROVE  Works(m, k, E)
  BY AheadAhead, GoodType DEF Works

LEMMA WorksFine ==
    ASSUME NEW m, NEW n, NEW E, Fine(m, n, E)
    PROVE  Works(m, n, E)
  BY DEF Works, Fine, Sent, FramesOnly

LEMMA WorksIn ==
    ASSUME NEW m \in Mem, NEW n, NEW E, Good(n, E), n.queue = m.queue, SameIn(m, n)
    PROVE  Works(m, n, E)
  BY GoodType, AheadIn DEF Works

\* A repeated acknowledgement
LEMMA ResentGood ==
    ASSUME NEW m, NEW E, Good(m, E), NEW s, NEW n, n = ResentAll(m, s)
    PROVE  Works(m, n, E)
<1>. DEFINE q == ListFrames(m, "resend")
            Kept(a, i) == Works(m, a, E) /\ \A j \in i + 1 .. Len(q) : q[j] \in In(a, "resend")
            I == [i \in 0 .. Len(q) |-> {a \in Mem : Kept(a, i)}]
<1>0. m \in Mem /\ Works(m, m, E)
  BY GoodType, AheadKept DEF Works
<1>1. q \in Seq(Frames) /\ IsInjective(q) /\ \A i \in 1 .. Len(q) : q[i] \in In(m, "resend")
  BY GoodList, ListNames
<1>a. q = ListFrames(m, "resend")
  OBVIOUS
<1>. HIDE DEF q
<1>2. \A i \in 0 .. Len(q) : I[i] = {a \in Mem : Kept(a, i)}
  OBVIOUS
<1>3. I \in [0 .. Len(q) -> SUBSET Mem] /\ m \in I[0]
  <2>1. Kept(m, 0)
    BY <1>0, <1>1
  <2>2. 0 \in 0 .. Len(q)
    BY <1>1
  <2>. HIDE DEF Kept
  <2>. QED
    BY <1>0, <2>1, <2>2
<1>. HIDE DEF I
<1>4. ResentClosed(q, s, I)
  <2>. SUFFICES ASSUME NEW i \in 1 .. Len(q), NEW a \in I[i - 1]
                PROVE  (IF a.defect # "none" THEN a
                        ELSE IF a.sock[q[i]] = s THEN IPSendFrame(FrameRemove(a, "resend", q[i]), q[i])
                        ELSE a) \in I[i]
    BY DEF ResentClosed
  <2>1. i \in 0 .. Len(q) /\ i - 1 \in 0 .. Len(q) /\ i \in (i - 1) + 1 .. Len(q)
        /\ \A j \in i + 1 .. Len(q) : j \in (i - 1) + 1 .. Len(q) /\ j \in 1 .. Len(q) /\ j # i
    BY <1>1
  <2>2. a \in Mem /\ Kept(a, i - 1) /\ q[i] \in Frames
    BY <1>1, <1>2, <2>1
  <2>3. Good(a, E) /\ q[i] \in In(a, "resend") /\ \A j \in i + 1 .. Len(q) : q[j] \in In(a, "resend")
    BY <2>1, <2>2 DEF Works
  <2>. DEFINE f == q[i]
              D == E \cup {f}
              b == FrameRemove(a, "resend", f)
              c == IPSendFrame(b, f)
  <2>4. Cut(a, b, E, "resend", f)
    BY <2>3, RemoveGood, ListNames
  <2>. HIDE DEF b
  <2>5. Good(b, D) /\ f \in D /\ D \ {f} = E
    BY <2>4 DEF Cut
  <2>. HIDE DEF D
  <2>6. Fine(b, c, E)
    <3>1. Fine(b, c, D \ {f})
      BY <2>5, SendFrameGood
    <3>. QED
      BY <2>5, <3>1
  <2>. HIDE DEF c
  <2>7. Works(a, b, D) /\ Works(b, c, E)
    BY <2>4, <2>5, <2>6, WorksFine DEF Cut, FramesOnly, Works
  <2>8. Works(m, c, E) /\ c \in Mem
    BY <1>0, <2>2, <2>7, WorksWorks, GoodType DEF Works
  <2>9. \A j \in i + 1 .. Len(q) : q[j] \in In(c, "resend")
    <3>1. \A j \in i + 1 .. Len(q) : q[j] # f
      BY <1>1, <2>1 DEF IsInjective
    <3>. QED
      BY <2>3, <2>4, <2>6, <3>1 DEF Cut, Fine, Sent
  <2>10. Kept(c, i) /\ Kept(a, i)
    BY <2>2, <2>3, <2>8, <2>9
  <2>. HIDE DEF Kept
  <2>11. a \in I[i] /\ c \in I[i] /\ a.defect = "none"
    BY <1>2, <2>1, <2>2, <2>3, <2>8, <2>10, GoodType
  <2>. QED
    BY <2>11 DEF c, b
<1>5. n \in I[Len(q)]
  BY <1>0, <1>1, <1>3, <1>4, <1>a, ResentRule
<1>6. Len(q) \in 0 .. Len(q)
  BY <1>1
<1>. QED
  BY <1>2, <1>5, <1>6

\* The clock of a socket is set, and perhaps its state
LEMMA TimeGood ==
    ASSUME NEW m, NEW E, Good(m, E), NEW s \in Sockets, NEW t \in Nat, NEW x \in SocketState,
           NEW n, n = [m EXCEPT !.stimeout[s] = t, !.sstate[s] = x] \/ n = [m EXCEPT !.stimeout[s] = t]
    PROVE  Works(m, n, E)
<1>. DEFINE ss == IF n = [m EXCEPT !.stimeout[s] = t] THEN m.sstate ELSE [m.sstate EXCEPT ![s] = x]
            st == [m.stimeout EXCEPT ![s] = t]
<1>1. m \in Mem
  BY GoodType
<1>2. ss \in [Sockets -> SocketState] /\ st \in [Sockets -> Nat]
  BY <1>1, FieldTypes
<1>3. n = [m EXCEPT !.stimeout = st, !.sstate = ss]
  BY <1>1 DEF Mem
<1>. HIDE DEF ss, st
<1>4. StateSet(m, n, E, ss, st)
  BY <1>2, <1>3, StateGood
<1>. QED
  BY <1>1, <1>4, GoodType DEF StateSet, Works

LEMMA TouchGood ==
    ASSUME NEW m, NEW E, Good(m, E), NEW s \in Sockets, NEW n, n = Touch(m, s)
    PROVE  Works(m, n, E)
<1>. DEFINE t == IF m.stimeout[s] = 0 THEN 0 ELSE SOCKET_TIMEOUT
<1>1. t \in Nat /\ "none" \in SocketState
  BY FramesAssumption DEF SocketState
<1>2. n = [m EXCEPT !.stimeout[s] = t]
  BY DEF Touch
<1>. HIDE DEF t
<1>. QED
  BY <1>1, <1>2, TimeGood

LEMMA AcknowledgedGood ==
    ASSUME NEW m, NEW E, Good(m, E), NEW s \in Sockets, NEW n \in Acknowledged(m, s)
    PROVE  Works(m, n, E)
<1>0. m \in Mem /\ Works(m, m, E)
  BY GoodType, AheadKept DEF Works
<1>1. PICK S : n = IF S = {} THEN m ELSE Touch(DiscardAll(m, "resend", "resend", S), s)
  BY DEF Acknowledged
<1>2. CASE S = {}
  BY <1>0, <1>1, <1>2
<1>3. CASE S # {}
  <2>. DEFINE a == DiscardAll(m, "resend", "resend", S)
  <2>1. Good(a, E) /\ FramesOnly(m, a)
    BY DiscardGood, ListNames
  <2>2. n = Touch(a, s)
    BY <1>1, <1>3
  <2>. HIDE DEF a
  <2>3. Works(a, n, E) /\ Works(m, a, E)
    BY <2>1, <2>2, TouchGood DEF Works, FramesOnly
  <2>. QED
    BY <1>0, <2>3, WorksWorks
<1>. QED
  BY <1>2, <1>3

\* Data for the reader
LEMMA DataKeptGood ==
    ASSUME NEW m, NEW E, Good(m, E), NEW f \in E, NEW s \in Sockets, NEW n, n = DataKept(m, s, f)
    PROVE  Works(m, n, E \ {f})
<1>. DEFINE a == Touch(m, s)
            b == FrameInsert(a, s, f)
            D == E \ {f}
<1>0. m \in Mem
  BY GoodType
<1>1. Works(m, a, E)
  BY TouchGood
<1>2. n = Reply(b, s, FRAME_COUNT_SEND, FALSE) /\ b = FrameInsert(a, s, f)
  BY DEF DataKept
<1>. HIDE DEF a, b
<1>3. Put(a, b, E, s, f)
  BY <1>1, <1>2, InsertGood, ListNames DEF Works
<1>4. Works(a, b, D)
  BY <1>3 DEF Put, Works, Sent, FramesOnly
<1>. HIDE DEF D
<1>5. Fine(b, n, D)
  <2>1. FRAME_COUNT_SEND \in Nat /\ FALSE \in BOOLEAN /\ s \in Sockets \cup {NULL}
    BY FramesAssumption
  <2>. QED
    BY <1>2, <1>4, <2>1, ReplyGood DEF Works
<1>6. Works(b, n, D)
  BY <1>5, WorksFine
<1>7. Works(m, n, D)
  BY <1>0, <1>1, <1>4, <1>6, WorksWorks
<1>. QED
  BY <1>7 DEF D

\* A reply with any frame
LEMMA ReplyWorks ==
    ASSUME NEW m, NEW E, Good(m, E), NEW s \in Sockets \cup {NULL}, NEW b \in Nat, NEW c \in BOOLEAN,
           NEW n, n = Reply(m, s, b, c)
    PROVE  Works(m, n, E)
  BY ReplyGood, WorksFine

\* A FIN
LEMMA FinWorks ==
    ASSUME NEW m, NEW E, Good(m, E), NEW s \in Sockets, NEW rc \in {0, 1},
           NEW o, o = FinOutcome(m, s, rc)
    PROVE  o.rc \in {0, 1} /\ (Bad(o.m) \/ (o.rc = rc /\ Works(m, o.m, E)))
<1>. DEFINE a == [m EXCEPT !.stimeout[s] = SOCKET_TIMEOUT]
            b == Reply(a, s, 0, FALSE)
            x == IF b.sstate[s] = "tcp" THEN "finClient" ELSE b.sstate[s]
            ss == [b.sstate EXCEPT ![s] = x]
<1>0. m \in Mem
  BY GoodType
<1>1. Works(m, a, E) /\ a \in Mem
  <2>1. SOCKET_TIMEOUT \in Nat /\ "none" \in SocketState /\ a = [m EXCEPT !.stimeout[s] = SOCKET_TIMEOUT]
    BY FramesAssumption DEF SocketState
  <2>. HIDE DEF a
  <2>2. Works(m, a, E)
    BY <2>1, TimeGood
  <2>. QED
    BY <2>2, GoodType DEF Works
<1>2. CASE IPFrameGet(m, 0).f = NULL
  <2>1. o = [rc |-> 0, m |-> IF rc = 1 THEN [a EXCEPT !.defect = "fin"] ELSE a]
    BY <1>2 DEF FinOutcome
  <2>. HIDE DEF a
  <2>2. [a EXCEPT !.defect = "fin"] \in Mem /\ [a EXCEPT !.defect = "fin"].defect = "fin"
    BY <1>1 DEF Mem, Defects
  <2>3. o.rc = 0 /\ (o.m = a \/ (rc = 1 /\ o.m = [a EXCEPT !.defect = "fin"])) /\ (o.m = a => rc = 0 \/ Bad(o.m))
    BY <2>1, <2>2 DEF Bad
  <2>4. Bad([a EXCEPT !.defect = "fin"])
    BY <2>2 DEF Bad
  <2>. QED
    BY <1>1, <2>3, <2>4
<1>3. CASE IPFrameGet(m, 0).f # NULL
  <2>1. o = [rc |-> rc, m |-> [b EXCEPT !.sstate[s] = IF @ = "tcp" THEN "finClient" ELSE @]]
    BY <1>3 DEF FinOutcome
  <2>2. o = [rc |-> rc, m |-> [b EXCEPT !.sstate = ss]]
    BY <2>1
  <2>3. Works(a, b, E)
    <3>1. 0 \in Nat /\ FALSE \in BOOLEAN /\ s \in Sockets \cup {NULL} /\ b = Reply(a, s, 0, FALSE)
      OBVIOUS
    <3>. HIDE DEF a, b
    <3>. QED
      BY <1>1, <3>1, ReplyWorks DEF Works
  <2>. HIDE DEF b
  <2>4. b \in Mem /\ b.stimeout \in [Sockets -> Nat]
    BY <2>3, GoodType, FieldTypes DEF Works
  <2>5. ss \in [Sockets -> SocketState]
    <3>1. x \in SocketState
      BY <2>4, FieldTypes DEF SocketState
    <3>. HIDE DEF x
    <3>. QED
      BY <2>4, <3>1, FieldTypes
  <2>. HIDE DEF ss
  <2>6. [b EXCEPT !.sstate = ss] = [b EXCEPT !.stimeout = b.stimeout, !.sstate = ss]
    BY <2>4 DEF Mem
  <2>7. StateSet(b, o.m, E, ss, b.stimeout) /\ o.rc = rc
    <3>1. o.m = [b EXCEPT !.stimeout = b.stimeout, !.sstate = ss] /\ o.rc = rc
      BY <2>2, <2>6
    <3>. QED
      BY <2>3, <2>4, <2>5, <3>1, StateGood DEF Works
  <2>8. Works(b, o.m, E)
    BY <2>4, <2>7, GoodType DEF StateSet, Works
  <2>9. Works(m, o.m, E)
    <3>. HIDE DEF a
    <3>. QED
      BY <1>0, <1>1, <2>3, <2>8, WorksWorks
  <2>. QED
    BY <2>7, <2>9
<1>. QED
  BY <1>2, <1>3

\* What may become of a packet in frame f: a socket has taken it, or it stays in hand
Rest(o, E, f) == IF o.rc = 1 THEN E \ {f} ELSE E

Outcome(m, o, E, f) == o.rc \in {0, 1} /\ (Bad(o.m) \/ Works(m, o.m, Rest(o, E, f)))

LEMMA OutcomeAfter ==
    ASSUME NEW m \in Mem, NEW n, NEW o, NEW E, NEW f, Works(m, n, E), Outcome(n, o, E, f)
    PROVE  Outcome(m, o, E, f)
<1>1. CASE Bad(o.m)
  BY <1>1 DEF Outcome
<1>2. CASE Works(n, o.m, Rest(o, E, f))
  <2>1. Works(m, o.m, Rest(o, E, f))
    BY <1>2, WorksWorks
  <2>. QED
    BY <2>1 DEF Outcome
<1>. QED
  BY <1>1, <1>2 DEF Outcome

LEMMA FinGood ==
    ASSUME NEW m \in Mem, NEW E, NEW s \in Sockets, NEW f, NEW k, Outcome(m, k, E, f), ~ Bad(k.m),
           NEW o, o = FinOutcome(k.m, s, k.rc)
    PROVE  Outcome(m, o, E, f)
<1>. DEFINE D == Rest(k, E, f)
<1>1. Works(m, k.m, D) /\ k.rc \in {0, 1}
  BY DEF Outcome
<1>. HIDE DEF D
<1>2. o.rc \in {0, 1} /\ (Bad(o.m) \/ (o.rc = k.rc /\ Works(k.m, o.m, D)))
  BY <1>1, FinWorks DEF Works
<1>3. CASE o.rc = k.rc /\ Works(k.m, o.m, D)
  <2>1. Works(m, o.m, D)
    BY <1>1, <1>3, WorksWorks
  <2>. QED
    BY <1>2, <1>3, <2>1 DEF Outcome, D, Rest
<1>. QED
  BY <1>2, <1>3 DEF Outcome

\* A segment, after what its acknowledgement says
LEMMA SegmentGood ==
    ASSUME NEW m, NEW E, Good(m, E), NEW f \in E, NEW s \in Sockets,
           NEW o \in SegmentOutcomes(m, s, f)
    PROVE  Outcome(m, o, E, f)
<1>0. m \in Mem
  BY GoodType
<1>1. PICK a \in Acknowledged(m, s) \cup {ResentAll(m, s)} :
        LET kept   == [rc |-> 1, m |-> DataKept(a, s, f)]
            unused == {[rc |-> 0, m |-> a],
                       [rc |-> 0, m |-> Reply(a, s, FRAME_COUNT_SEND, FALSE)]}
        IN o \in {[rc |-> 0, m |-> IPClose2(a, s)], kept} \cup unused
                 \cup {FinOutcome(k.m, s, k.rc) : k \in unused \cup {kept}}
  BY DEF SegmentOutcomes
<1>2. Works(m, a, E)
  BY AcknowledgedGood, ResentGood
<1>3. a \in Mem /\ Good(a, E)
  BY <1>2, GoodType DEF Works
<1>. DEFINE k1 == [rc |-> 1, m |-> DataKept(a, s, f)]
            k2 == [rc |-> 0, m |-> a]
            k3 == [rc |-> 0, m |-> Reply(a, s, FRAME_COUNT_SEND, FALSE)]
            k4 == [rc |-> 0, m |-> IPClose2(a, s)]
<1>4. o \in {k1, k2, k3, k4} \/ \E k \in {k1, k2, k3} : o = FinOutcome(k.m, s, k.rc)
  BY <1>1
<1>5. Outcome(a, k1, E, f) /\ ~ Bad(k1.m)
  <2>1. Works(a, DataKept(a, s, f), E \ {f})
    BY <1>3, DataKeptGood
  <2>2. k1.rc = 1 /\ k1.m = DataKept(a, s, f)
    OBVIOUS
  <2>. HIDE DEF k1
  <2>. QED
    BY <2>1, <2>2, GoodType DEF Works, Bad, Outcome, Rest
<1>6. Outcome(a, k2, E, f) /\ ~ Bad(k2.m)
  <2>1. Works(a, a, E)
    BY <1>3, AheadKept DEF Works
  <2>2. k2.rc = 0 /\ k2.m = a
    OBVIOUS
  <2>. HIDE DEF k2
  <2>. QED
    BY <2>1, <2>2, GoodType DEF Works, Bad, Outcome, Rest
<1>7. Outcome(a, k3, E, f) /\ ~ Bad(k3.m)
  <2>1. FRAME_COUNT_SEND \in Nat /\ FALSE \in BOOLEAN /\ s \in Sockets \cup {NULL}
    BY FramesAssumption
  <2>. DEFINE r == Reply(a, s, FRAME_COUNT_SEND, FALSE)
  <2>2. Works(a, r, E)
    BY <1>3, <2>1, ReplyWorks
  <2>3. k3.rc = 0 /\ k3.m = r
    OBVIOUS
  <2>. HIDE DEF k3, r
  <2>. QED
    BY <2>2, <2>3, GoodType DEF Works, Bad, Outcome, Rest
<1>8. Outcome(a, k4, E, f)
  <2>1. Bad(IPClose2(a, s)) \/ Shut(a, IPClose2(a, s), E, s)
    BY <1>3, Close2Outcome
  <2>2. k4.rc = 0 /\ k4.m = IPClose2(a, s)
    OBVIOUS
  <2>. HIDE DEF k4
  <2>. QED
    BY <2>1, <2>2 DEF Shut, Works, Outcome, Rest
<1>. HIDE DEF k1, k2, k3, k4
<1>9. Outcome(a, o, E, f)
  <2>1. CASE o \in {k1, k2, k3, k4}
    BY <1>5, <1>6, <1>7, <1>8, <2>1
  <2>2. CASE \E k \in {k1, k2, k3} : o = FinOutcome(k.m, s, k.rc)
    BY <1>3, <1>5, <1>6, <1>7, <2>2, FinGood
  <2>. QED
    BY <1>4, <2>1, <2>2
<1>. QED
  BY <1>0, <1>2, <1>9, OutcomeAfter

LEMMA AnsweredGood ==
    ASSUME NEW m, NEW E, Good(m, E), NEW n \in Answered(m)
    PROVE  Works(m, n, E)
<1>1. PICK c \in {0, FRAME_COUNT_SEND} : n = Reply(m, NULL, c, FALSE)
  BY DEF Answered
<1>2. c \in Nat /\ FALSE \in BOOLEAN /\ NULL \in Sockets \cup {NULL}
  BY FramesAssumption
<1>. QED
  BY <1>1, <1>2, ReplyWorks

\* A request for a connection
LEMMA AcceptedGood ==
    ASSUME NEW m, NEW E, Good(m, E), NEW s \in Sockets, NEW n \in Accepted(m, s)
    PROVE  Works(m, n, E)
<1>. DEFINE g == IPFrameGet(m, FRAME_COUNT_SYNC)
            D == E \cup {g.f}
            ss == [g.m.sstate EXCEPT ![s] = "tcp"]
            st == [g.m.stimeout EXCEPT ![s] = SOCKET_TIMEOUT]
            mk == [g.m.macKnown EXCEPT ![s] = TRUE]
            a == [g.m EXCEPT !.sstate = ss, !.stimeout = st]
            b == [a EXCEPT !.macKnown = mk]
            c == [g.m EXCEPT !.lost = @ \cup {g.f}]
<1>1. g.f # NULL /\ (n = c \/ n = TCPSendPacket([g.m EXCEPT !.sstate[s] = "tcp", !.stimeout[s] = SOCKET_TIMEOUT,
                                                            !.macKnown[s] = TRUE], s, g.f, TRUE))
  BY DEF Accepted
<1>2. Taken(m, E, g) /\ m \in Mem
  <2>1. FRAME_COUNT_SYNC \in Nat
    BY FramesAssumption
  <2>2. (g.f = NULL /\ g.m = m) \/ Taken(m, E, g)
    BY <2>1, GetGood
  <2>. QED
    BY <1>1, <2>2, GoodType
<1>. HIDE DEF g
<1>3. Good(g.m, D) /\ g.f \in D /\ g.f \in Frames /\ g.f \notin E /\ Works(m, g.m, D)
  BY <1>2 DEF Taken, Works, Sent, FramesOnly
<1>4. D \ {g.f} = E
  BY <1>3
<1>5. g.m \in Mem /\ g.m.defect = "none" /\ D \subseteq Frames
  BY <1>3, GoodType
<1>. HIDE DEF D
<1>6. CASE n = c
  <2>1. n \in Mem /\ n.defect = "none" /\ n.queue = g.m.queue
    BY <1>3, <1>5, <1>6 DEF Mem
  <2>2. Handed(g.m, n, D, E, g.f, Gone)
    <3>1. /\ SameLists(g.m, n) /\ SamePool(g.m, n) /\ n.state = g.m.state /\ n.next = g.m.next
          /\ n.sock = g.m.sock /\ SameUsers(g.m, n) /\ n.lost = g.m.lost \cup {g.f}
      BY <1>5, <1>6 DEF Mem, SameLists, SamePool, SameUsers
    <3>2. \A r \in Sockets : ~ Owns(n, r, g.f)
      BY <1>3, <3>1, HandOutside DEF Owns, SameUsers
    <3>3. \A r \in Sockets : n.user[r].at = "send" => n.frameSend[r] # NULL
      BY <1>3, <3>1 DEF Good, Sound, SocketsRight, SameUsers
    <3>4. \A h \in Frames \ {g.f} : h \in E <=> h \in D
      BY <1>4
    <3>5. g.f \notin E
      BY <1>3
    <3>. QED
      BY <3>1, <3>2, <3>3, <3>4, <3>5, PlacesDiffer DEF Handed, Owns, SameUsers
  <2>3. E \in SUBSET Frames /\ Gone \in {Hand, Gone} \cup {OwnedBy(r) : r \in Sockets}
    BY <1>4, <1>5
  <2>4. Good(n, E) /\ SameIn(g.m, n)
    BY <1>3, <2>1, <2>2, <2>3, HandGood
  <2>5. Works(g.m, n, E)
    BY <1>5, <2>1, <2>4, WorksIn
  <2>. QED
    BY <1>2, <1>3, <2>5, WorksWorks
<1>7. CASE n # c
  <2>1. n = TCPSendPacket(b, s, g.f, TRUE)
    <3>1. b = [g.m EXCEPT !.sstate[s] = "tcp", !.stimeout[s] = SOCKET_TIMEOUT, !.macKnown[s] = TRUE]
      BY <1>5 DEF Mem
    <3>. QED
      BY <1>1, <1>7, <3>1
  <2>2. ss \in [Sockets -> SocketState] /\ st \in [Sockets -> Nat] /\ mk \in [Sockets -> BOOLEAN]
    <3>1. SOCKET_TIMEOUT \in Nat /\ "tcp" \in SocketState
      BY FramesAssumption DEF SocketState
    <3>. QED
      BY <1>5, <3>1, FieldTypes
  <2>. HIDE DEF ss, st, mk
  <2>3. StateSet(g.m, a, D, ss, st)
    BY <1>3, <2>2, StateGood
  <2>. HIDE DEF a
  <2>4. a \in Mem /\ Good(a, D) /\ a.queue = g.m.queue /\ a.defect = "none"
    BY <2>3, GoodType DEF StateSet
  <2>5. /\ b \in Mem /\ b.defect = "none" /\ SamePlaces(a, b) /\ SameUsers(a, b) /\ b.sock = a.sock
        /\ b.queue = a.queue
    BY <2>2, <2>4 DEF Mem, SamePlaces, SameLists, SamePool, SameUsers
  <2>. HIDE DEF b
  <2>6. Good(b, D) /\ SameIn(a, b)
    BY <2>4, <2>5, OwnersSame, SameGood
  <2>7. Works(g.m, b, D)
    <3>1. Works(g.m, a, D)
      BY <2>3 DEF StateSet, Works
    <3>2. Works(a, b, D)
      BY <2>4, <2>5, <2>6, WorksIn
    <3>. QED
      BY <1>5, <3>1, <3>2, WorksWorks
  <2>8. Fine(b, n, E)
    <3>1. TRUE \in BOOLEAN /\ s \in Sockets \cup {NULL}
      OBVIOUS
    <3>2. Fine(b, n, D \ {g.f})
      BY <1>3, <2>1, <2>6, <3>1, TcpSendGood
    <3>. QED
      BY <1>4, <3>2
  <2>9. Works(m, b, D) /\ Works(b, n, E)
    BY <1>2, <1>3, <2>7, <2>8, WorksWorks, WorksFine
  <2>. QED
    BY <1>2, <2>9, WorksWorks
<1>. QED
  BY <1>6, <1>7

\* The MAC address of a socket's peer has come
LEMMA KnownGood ==
    ASSUME NEW m, NEW E, Good(m, E), NEW s \in Sockets, NEW n, n = [m EXCEPT !.macKnown[s] = TRUE]
    PROVE  Works(m, n, E)
<1>. DEFINE mk == [m.macKnown EXCEPT ![s] = TRUE]
<1>1. m \in Mem /\ m.defect = "none"
  BY GoodType
<1>2. mk \in [Sockets -> BOOLEAN]
  BY <1>1, FieldTypes
<1>3. n = [m EXCEPT !.macKnown = mk]
  OBVIOUS
<1>. HIDE DEF mk
<1>4. /\ n \in Mem /\ n.defect = "none" /\ SamePlaces(m, n) /\ SameUsers(m, n) /\ n.sock = m.sock
      /\ n.queue = m.queue
  BY <1>1, <1>2, <1>3, ZenonT(60) DEF Mem, SamePlaces, SameLists, SamePool, SameUsers
<1>5. Good(n, E) /\ SameIn(m, n)
  BY <1>1, <1>4, OwnersSame, SameGood
<1>. QED
  BY <1>1, <1>4, <1>5, WorksIn

\* IPProcessEthernetPacket
LEMMA OutcomesGood ==
    ASSUME NEW m, NEW E, Good(m, E), NEW f \in E, NEW o \in Outcomes(m, f)
    PROVE  Outcome(m, o, E, f)
<1>0. m \in Mem /\ Works(m, m, E)
  BY GoodType, AheadKept DEF Works
<1>. DEFINE N == {m} \cup Answered(m) \cup (UNION {Accepted(m, s) : s \in Sockets})
                 \cup {[m EXCEPT !.macKnown[s] = TRUE] : s \in Sockets}
            T == {t \in Sockets : StateRank[m.sstate[t]] >= StateRank["tcp"]}
            U == {t \in Sockets : m.sstate[t] = "udp"}
<1>1. \/ \E n \in N : o = [rc |-> 0, m |-> n]
      \/ \E s \in Sockets : o \in SegmentOutcomes(m, s, f)
      \/ \E s \in Sockets : o = [rc |-> 1, m |-> FrameInsert(m, s, f)]
  <2>1. o \in {[rc |-> 0, m |-> n] : n \in N} \cup (UNION {SegmentOutcomes(m, s, f) : s \in T})
              \cup {[rc |-> 1, m |-> FrameInsert(m, s, f)] : s \in U}
    BY DEF Outcomes
  <2>2. T \subseteq Sockets /\ U \subseteq Sockets
    OBVIOUS
  <2>. HIDE DEF N, T, U
  <2>3. \/ o \in {[rc |-> 0, m |-> n] : n \in N}
        \/ o \in UNION {SegmentOutcomes(m, s, f) : s \in T}
        \/ o \in {[rc |-> 1, m |-> FrameInsert(m, s, f)] : s \in U}
    <3>. DEFINE A == {[rc |-> 0, m |-> n] : n \in N}
                B == UNION {SegmentOutcomes(m, s, f) : s \in T}
                C == {[rc |-> 1, m |-> FrameInsert(m, s, f)] : s \in U}
    <3>1. o \in A \cup B \cup C
      BY <2>1, Zenon
    <3>. HIDE DEF A, B, C
    <3>2. o \in A \/ o \in B \/ o \in C
      BY <3>1
    <3>. QED
      BY <3>2 DEF A, B, C
  <2>4. o \in UNION {SegmentOutcomes(m, s, f) : s \in T} => \E s \in T : o \in SegmentOutcomes(m, s, f)
    BY Zenon
  <2>5. o \in {[rc |-> 1, m |-> FrameInsert(m, s, f)] : s \in U}
          => \E s \in U : o = [rc |-> 1, m |-> FrameInsert(m, s, f)]
    BY Zenon
  <2>6. o \in {[rc |-> 0, m |-> n] : n \in N} => \E n \in N : o = [rc |-> 0, m |-> n]
    BY Zenon
  <2>. QED
    BY <2>2, <2>3, <2>4, <2>5, <2>6
<1>2. ASSUME NEW n \in N, o = [rc |-> 0, m |-> n]
      PROVE  Outcome(m, o, E, f)
  <2>1. \/ n = m \/ n \in Answered(m) \/ \E s \in Sockets : n \in Accepted(m, s)
        \/ \E s \in Sockets : n = [m EXCEPT !.macKnown[s] = TRUE]
    <3>. DEFINE B == Answered(m)
                C == UNION {Accepted(m, s) : s \in Sockets}
                D == {[m EXCEPT !.macKnown[s] = TRUE] : s \in Sockets}
    <3>1. n \in {m} \cup B \cup C \cup D
      BY Zenon
    <3>2. n \in C => \E s \in Sockets : n \in Accepted(m, s)
      BY Zenon
    <3>3. n \in D => \E s \in Sockets : n = [m EXCEPT !.macKnown[s] = TRUE]
      BY Zenon
    <3>4. B = Answered(m)
      OBVIOUS
    <3>. HIDE DEF B, C, D
    <3>5. n = m \/ n \in B \/ n \in C \/ n \in D
      BY <3>1
    <3>. QED
      BY <3>2, <3>3, <3>4, <3>5
  <2>2. Works(m, n, E)
    BY <1>0, <2>1, AnsweredGood, AcceptedGood, KnownGood
  <2>. QED
    BY <1>2, <2>2 DEF Outcome, Rest
<1>. HIDE DEF N, T, U
<1>3. ASSUME NEW s \in Sockets, o \in SegmentOutcomes(m, s, f)
      PROVE  Outcome(m, o, E, f)
  BY <1>3, SegmentGood
<1>4. ASSUME NEW s \in Sockets, o = [rc |-> 1, m |-> FrameInsert(m, s, f)]
      PROVE  Outcome(m, o, E, f)
  <2>. DEFINE n == FrameInsert(m, s, f)
  <2>1. Put(m, n, E, s, f)
    BY InsertGood, ListNames
  <2>2. o.rc = 1 /\ o.m = n
    BY <1>4
  <2>. HIDE DEF n
  <2>3. Works(m, n, E \ {f})
    BY <2>1 DEF Put, Works, Sent, FramesOnly
  <2>. QED
    BY <2>2, <2>3 DEF Outcome, Rest
<1>. QED
  BY <1>1, <1>2, <1>3, <1>4

-----------------------------------------------------------------------------
(* Messages, and what is in hand *)

\* The frames in messages, and those that the device and the network thread have
MessageFrames(q) == {f \in Frames : \E i \in 1 .. Len(q) : q[i].kind = 0 /\ q[i].frame = f}

Handful(q, current, out) == MessageFrames(q) \cup ({current, out} \ {NULL})

\* A received packet is in one message, and only the frame that is sent now can be told sent
Messages(q, current, out, uart) ==
    /\ q \in Seq(Message) /\ current \in Link /\ out \in Link /\ uart \in Link
    /\ \A i \in 1 .. Len(q) : q[i].kind = 0 => /\ q[i].frame \in Frames
                                               /\ q[i].frame # current /\ q[i].frame # out
    /\ \A i, j \in 1 .. Len(q) : q[i].kind = 0 /\ q[j].kind = 0 /\ q[i].frame = q[j].frame => i = j
    /\ \A i \in 1 .. Len(q) : q[i].kind = 1 => q[i].frame = out /\ out # NULL /\ uart = NULL
    /\ \A i, j \in 1 .. Len(q) : q[i].kind = 1 /\ q[j].kind = 1 => i = j
    /\ current = out => current = NULL
    /\ uart # NULL => uart = out

\* The steps of the network thread only add messages that wake it
LEMMA MoreMessages ==
    ASSUME NEW q, NEW r \in Seq(Message), NEW current, NEW out, NEW uart, Messages(q, current, out, uart),
           More(q, r)
    PROVE  Messages(r, current, out, uart) /\ MessageFrames(r) = MessageFrames(q)
<1>0. Len(q) \in Nat /\ Len(r) \in Nat /\ q \in Seq(Message)
  BY DEF Messages
<1>1. \A i \in 1 .. Len(r) : r[i].kind # 2 => i \in 1 .. Len(q) /\ r[i] = q[i]
  BY <1>0 DEF More
<1>2. \A i \in 1 .. Len(q) : i \in 1 .. Len(r) /\ r[i] = q[i]
  BY <1>0 DEF More
<1>3. Messages(r, current, out, uart)
  <2>0. \A i \in 1 .. Len(r) : r[i].kind \in {0, 1} => i \in 1 .. Len(q) /\ r[i] = q[i]
    BY <1>1
  <2>1. \A i \in 1 .. Len(r) : r[i].kind = 0 => /\ r[i].frame \in Frames
                                                 /\ r[i].frame # current /\ r[i].frame # out
    BY <2>0 DEF Messages
  <2>2. \A i \in 1 .. Len(r) : r[i].kind = 1 => r[i].frame = out /\ out # NULL /\ uart = NULL
    BY <2>0 DEF Messages
  <2>3. ASSUME NEW i \in 1 .. Len(r), NEW j \in 1 .. Len(r)
        PROVE  /\ r[i].kind = 0 /\ r[j].kind = 0 /\ r[i].frame = r[j].frame => i = j
               /\ r[i].kind = 1 /\ r[j].kind = 1 => i = j
    BY <2>0 DEF Messages
  <2>. QED
    BY <2>1, <2>2, <2>3 DEF Messages
<1>4. MessageFrames(r) = MessageFrames(q)
  BY <1>1, <1>2 DEF MessageFrames
<1>. QED
  BY <1>3, <1>4

\* The first message x of q is taken, and r is left
Behind(q, r, x, current, out, uart) ==
    /\ r \in Seq(Message) /\ x \in Message
    /\ Messages(r, current, out, uart)
    /\ x.kind = 0 => /\ x.frame \in Frames /\ x.frame \notin Handful(r, current, out)
                     /\ Handful(q, current, out) = Handful(r, current, out) \cup {x.frame}
    /\ x.kind # 0 => MessageFrames(r) = MessageFrames(q)
    /\ x.kind = 1 => /\ x.frame = out /\ out # NULL /\ uart = NULL
                     /\ \A i \in 1 .. Len(r) : r[i].kind # 1

LEMMA TailMessages ==
    ASSUME NEW q, NEW current, NEW out, NEW uart, Messages(q, current, out, uart), q # <<>>,
           NEW x, x = Head(q), NEW r, r = Tail(q)
    PROVE  Behind(q, r, x, current, out, uart)
<1>0. q \in Seq(Message)
  BY DEF Messages
<1>1. /\ r \in Seq(Message) /\ x = q[1] /\ x \in Message /\ 1 \in 1 .. Len(q)
      /\ \A i \in 1 .. Len(r) : r[i] = q[i + 1] /\ i + 1 \in 1 .. Len(q) /\ i + 1 # 1
      /\ \A i \in 1 .. Len(q) : i # 1 => i - 1 \in 1 .. Len(r) /\ r[i - 1] = q[i]
  BY <1>0
<1>2. \A i, j \in 1 .. Len(r) : i + 1 = j + 1 => i = j
  OBVIOUS
<1>3. Messages(r, current, out, uart)
  <2>1. /\ r \in Seq(Message) /\ current \in Link /\ out \in Link /\ uart \in Link
        /\ \A i \in 1 .. Len(r) : r[i].kind = 0 => /\ r[i].frame \in Frames
                                                   /\ r[i].frame # current /\ r[i].frame # out
        /\ \A i \in 1 .. Len(r) : r[i].kind = 1 => r[i].frame = out /\ out # NULL /\ uart = NULL
        /\ current = out => current = NULL
        /\ uart # NULL => uart = out
    BY <1>1 DEF Messages
  <2>2. ASSUME NEW i \in 1 .. Len(r), NEW j \in 1 .. Len(r)
        PROVE  /\ r[i].kind = 0 /\ r[j].kind = 0 /\ r[i].frame = r[j].frame => i = j
               /\ r[i].kind = 1 /\ r[j].kind = 1 => i = j
    <3>1. /\ r[i].kind = 0 /\ r[j].kind = 0 /\ r[i].frame = r[j].frame => i + 1 = j + 1
          /\ r[i].kind = 1 /\ r[j].kind = 1 => i + 1 = j + 1
      BY <1>1 DEF Messages
    <3>. QED
      BY <1>2, <3>1
  <2>. QED
    BY <2>1, <2>2 DEF Messages
<1>4. x.kind = 0 => /\ x.frame \in Frames /\ x.frame # current /\ x.frame # out
                    /\ x.frame \notin MessageFrames(r)
                    /\ MessageFrames(q) = MessageFrames(r) \cup {x.frame}
  <2>1. x.kind = 0 => x.frame \in Frames /\ x.frame # current /\ x.frame # out
    BY <1>1 DEF Messages
  <2>2. x.kind = 0 => x.frame \notin MessageFrames(r)
    BY <1>1 DEF Messages, MessageFrames
  <2>3. x.kind = 0 => MessageFrames(q) = MessageFrames(r) \cup {x.frame}
    <3>1. ASSUME x.kind = 0, NEW f \in Frames
          PROVE  f \in MessageFrames(q) <=> f = x.frame \/ f \in MessageFrames(r)
      <4>1. f \in MessageFrames(q) => f = x.frame \/ f \in MessageFrames(r)
        BY <1>1 DEF MessageFrames
      <4>2. f = x.frame => f \in MessageFrames(q)
        BY <1>1, <3>1 DEF MessageFrames
      <4>3. f \in MessageFrames(r) => f \in MessageFrames(q)
        BY <1>1 DEF MessageFrames
      <4>. QED
        BY <4>1, <4>2, <4>3
    <3>2. MessageFrames(q) \subseteq Frames /\ MessageFrames(r) \subseteq Frames
      BY DEF MessageFrames
    <3>. QED
      BY <2>1, <3>1, <3>2
  <2>. QED
    BY <2>1, <2>2, <2>3
<1>5. x.kind # 0 => MessageFrames(r) = MessageFrames(q)
  BY <1>1 DEF MessageFrames
<1>6. x.kind = 1 => /\ x.frame = out /\ out # NULL /\ uart = NULL
                    /\ \A i \in 1 .. Len(r) : r[i].kind # 1
  BY <1>1 DEF Messages
<1>. QED
  BY <1>1, <1>3, <1>4, <1>5, <1>6 DEF Handful, Behind

-----------------------------------------------------------------------------
(* How many messages there are *)

\* The frames in messages after the first i
After(q, i) == {f \in Frames : \E j \in i + 1 .. Len(q) : q[j].kind = 0 /\ q[j].frame = f}

\* After the first i, no more than one for each received packet and each of the w frames that
\* wait to be sent, and c more
Owed(q, w, i, c) == Len(q) - i <= Cardinality(After(q, i)) + w + c

\* The frame that is sent now has left its message behind, until the device tells that it is
\* sent: then the messages in front of that one are fewer than that, and those behind it are owed
\* to others
Counted(q, w, out, uart) ==
    \/ out = NULL /\ Owed(q, w, 0, 0)
    \/ out # NULL /\ uart = out /\ Owed(q, w, 0, 1)
    \/ /\ out # NULL
       /\ \E i \in 1 .. Len(q) : /\ q[i].kind = 1 /\ q[i].frame = out
                                 /\ Owed(q, w, 0, 2) /\ Owed(q, w, i, 0)

LEMMA AfterFinite ==
    ASSUME NEW q, NEW i
    PROVE  IsFiniteSet(After(q, i)) /\ Cardinality(After(q, i)) \in Nat
  BY FramesAssumption, FS_Subset, FS_CardinalityType DEF After

LEMMA CountedMore ==
    ASSUME NEW q \in Seq(Message), NEW r \in Seq(Message), NEW w \in Nat, NEW v \in Nat,
           NEW out, NEW uart, Counted(q, w, out, uart), More(q, r), Len(r) - Len(q) <= v - w
    PROVE  Counted(r, v, out, uart)
<1>1. Len(q) \in Nat /\ Len(r) \in Nat /\ Len(q) <= Len(r)
  BY DEF More
<1>2. \A i \in 0 .. Len(q) : After(r, i) = After(q, i)
  <2>1. ASSUME NEW i \in 0 .. Len(q), NEW j \in i + 1 .. Len(r), r[j].kind = 0
        PROVE  j \in i + 1 .. Len(q) /\ q[j] = r[j]
    BY <1>1, <2>1 DEF More
  <2>2. ASSUME NEW i \in 0 .. Len(q), NEW j \in i + 1 .. Len(q)
        PROVE  j \in i + 1 .. Len(r) /\ q[j] = r[j]
    BY <1>1 DEF More
  <2>. QED
    BY <2>1, <2>2 DEF After
<1>3. ASSUME NEW i \in 0 .. Len(q), NEW c \in 0 .. 2, Owed(q, w, i, c)
      PROVE  Owed(r, v, i, c)
  <2>1. Cardinality(After(r, i)) = Cardinality(After(q, i)) /\ Cardinality(After(q, i)) \in Nat
    BY <1>2, AfterFinite
  <2>2. Len(q) - i <= Cardinality(After(q, i)) + w + c
    BY <1>3 DEF Owed
  <2>3. Len(r) - i <= Cardinality(After(r, i)) + v + c
    BY <1>1, <2>1, <2>2
  <2>. QED
    BY <2>3 DEF Owed
<1>4. \A i \in 1 .. Len(q) : i \in 1 .. Len(r) /\ i \in 0 .. Len(q) /\ r[i] = q[i]
  BY <1>1 DEF More
<1>5. 0 \in 0 .. Len(q) /\ 0 \in 0 .. 2 /\ 1 \in 0 .. 2 /\ 2 \in 0 .. 2
  BY <1>1
<1>. QED
  BY <1>3, <1>4, <1>5 DEF Counted

LEMMA CountedTail ==
    ASSUME NEW q, NEW current, NEW out, NEW uart, Messages(q, current, out, uart), q # <<>>,
           NEW x, x = Head(q), NEW r, r = Tail(q), NEW w \in Nat, Counted(q, w, out, uart)
    PROVE  /\ x.kind # 1 => Counted(r, w, out, uart)
           /\ x.kind = 1 => Counted(r, w, NULL, uart)
<1>1. /\ r \in Seq(Message) /\ x = q[1] /\ x \in Message /\ Len(q) \in Nat /\ 1 \in 1 .. Len(q)
      /\ Len(r) = Len(q) - 1 /\ \A j \in 1 .. Len(r) : r[j] = q[j + 1]
  BY DEF Messages
<1>2. \A i \in 1 .. Len(q) : After(r, i - 1) = After(q, i)
  <2>1. ASSUME NEW i \in 1 .. Len(q), NEW j \in i + 1 .. Len(q)
        PROVE  j - 1 \in (i - 1) + 1 .. Len(r) /\ r[j - 1] = q[j]
    BY <1>1
  <2>2. ASSUME NEW i \in 1 .. Len(q), NEW j \in (i - 1) + 1 .. Len(r)
        PROVE  j + 1 \in i + 1 .. Len(q) /\ r[j] = q[j + 1]
    BY <1>1
  <2>3. ASSUME NEW i \in 1 .. Len(q), NEW f \in Frames
        PROVE  f \in After(r, i - 1) <=> f \in After(q, i)
    <3>1. ASSUME f \in After(r, i - 1) PROVE f \in After(q, i)
      <4>1. PICK j \in (i - 1) + 1 .. Len(r) : r[j].kind = 0 /\ r[j].frame = f
        BY <3>1 DEF After
      <4>2. j + 1 \in i + 1 .. Len(q) /\ r[j] = q[j + 1]
        BY <2>2
      <4>. QED
        BY <4>1, <4>2 DEF After
    <3>2. ASSUME f \in After(q, i) PROVE f \in After(r, i - 1)
      <4>1. PICK j \in i + 1 .. Len(q) : q[j].kind = 0 /\ q[j].frame = f
        BY <3>2 DEF After
      <4>2. j - 1 \in (i - 1) + 1 .. Len(r) /\ r[j - 1] = q[j]
        BY <2>1
      <4>. QED
        BY <4>1, <4>2 DEF After
    <3>. QED
      BY <3>1, <3>2
  <2>4. \A i \in 1 .. Len(q) : After(r, i - 1) \subseteq Frames /\ After(q, i) \subseteq Frames
    BY DEF After
  <2>. QED
    BY <2>3, <2>4
<1>3. After(r, 0) = After(q, 1)
  <2>1. After(r, 1 - 1) = After(q, 1)
    BY <1>1, <1>2
  <2>. QED
    BY <2>1
<1>4. /\ x.kind # 0 => After(q, 0) = After(q, 1)
      /\ x.kind = 0 => After(q, 0) = After(q, 1) \cup {x.frame}
  <2>1. \A j \in 0 + 1 .. Len(q) : j = 1 \/ j \in 1 + 1 .. Len(q)
    BY <1>1
  <2>2. \A j \in 1 + 1 .. Len(q) : j \in 0 + 1 .. Len(q)
    BY <1>1
  <2>3. 1 \in 0 + 1 .. Len(q)
    BY <1>1
  <2>4. x.kind = 0 => x.frame \in Frames
    BY <1>1 DEF Messages
  <2>5. ASSUME NEW f \in Frames
        PROVE  f \in After(q, 0) <=> f \in After(q, 1) \/ (x.kind = 0 /\ f = x.frame)
    BY <1>1, <2>1, <2>2, <2>3 DEF After
  <2>6. After(q, 0) \subseteq Frames /\ After(q, 1) \subseteq Frames
    BY DEF After
  <2>. QED
    BY <2>4, <2>5, <2>6
<1>5. /\ Cardinality(After(q, 0)) \in Nat /\ Cardinality(After(r, 0)) \in Nat
      /\ x.kind # 0 => Cardinality(After(q, 0)) = Cardinality(After(r, 0))
      /\ x.kind = 0 => Cardinality(After(q, 0)) <= Cardinality(After(r, 0)) + 1
  <2>1. /\ Cardinality(After(q, 0)) \in Nat /\ Cardinality(After(q, 1)) \in Nat
        /\ IsFiniteSet(After(q, 1))
    BY AfterFinite
  <2>2. Cardinality(After(q, 1) \cup {x.frame}) <= Cardinality(After(q, 1)) + 1
    <3>1. \A S, y : IsFiniteSet(S) =>
             Cardinality(S \cup {y}) = IF y \in S THEN Cardinality(S) ELSE Cardinality(S) + 1
      BY FS_AddElement
    <3>. DEFINE S == After(q, 1)
                y == x.frame
    <3>. HIDE DEF S, y
    <3>2. IsFiniteSet(S) /\ Cardinality(S) \in Nat
      BY <2>1 DEF S
    <3>3. Cardinality(S \cup {y}) <= Cardinality(S) + 1
      BY <3>1, <3>2, SMTT(30)
    <3>. QED
      BY <3>3 DEF S, y
  <2>. QED
    BY <1>3, <1>4, <2>1, <2>2
<1>6. ASSUME x.kind \in {0, 2}, NEW c \in 0 .. 2, Owed(q, w, 0, c)
      PROVE  Owed(r, w, 0, c)
  <2>1. Len(q) - 0 <= Cardinality(After(q, 0)) + w + c
    BY <1>6 DEF Owed
  <2>2. Len(r) - 0 <= Cardinality(After(r, 0)) + w + c
    BY <1>1, <1>5, <1>6, <2>1
  <2>. QED
    BY <2>2 DEF Owed
<1>7. ASSUME NEW i \in 1 .. Len(q), Owed(q, w, i, 0)
      PROVE  Owed(r, w, i - 1, 0)
  <2>1. Len(q) - i <= Cardinality(After(q, i)) + w + 0
    BY <1>7 DEF Owed
  <2>2. After(r, i - 1) = After(q, i) /\ Cardinality(After(q, i)) \in Nat /\ Len(r) - (i - 1) = Len(q) - i
    BY <1>1, <1>2, AfterFinite
  <2>. QED
    BY <2>1, <2>2 DEF Owed
<1>8. ASSUME x.kind # 1
      PROVE  Counted(r, w, out, uart)
  <2>0. x.kind \in {0, 2} /\ 0 \in 0 .. 2 /\ 1 \in 0 .. 2 /\ 2 \in 0 .. 2
    BY <1>1, <1>8 DEF Message
  <2>1. CASE out = NULL /\ Owed(q, w, 0, 0)
    BY <1>6, <2>0, <2>1 DEF Counted
  <2>2. CASE out # NULL /\ uart = out /\ Owed(q, w, 0, 1)
    BY <1>6, <2>0, <2>2 DEF Counted
  <2>3. ASSUME out # NULL, NEW i \in 1 .. Len(q), q[i].kind = 1, q[i].frame = out,
               Owed(q, w, 0, 2), Owed(q, w, i, 0)
        PROVE  Counted(r, w, out, uart)
    <3>1. i # 1
      BY <1>1, <1>8, <2>3
    <3>2. i - 1 \in 1 .. Len(r) /\ r[i - 1] = q[i]
      BY <1>1, <3>1
    <3>3. Owed(r, w, 0, 2) /\ Owed(r, w, i - 1, 0)
      BY <1>6, <1>7, <2>0, <2>3
    <3>. QED
      BY <2>3, <3>2, <3>3 DEF Counted
  <2>. QED
    BY <2>1, <2>2, <2>3 DEF Counted
<1>9. ASSUME x.kind = 1
      PROVE  Counted(r, w, NULL, uart)
  <2>1. out # NULL /\ uart = NULL
    BY <1>1, <1>9 DEF Messages
  <2>2. PICK i \in 1 .. Len(q) : q[i].kind = 1 /\ Owed(q, w, i, 0)
    BY <2>1 DEF Counted
  <2>3. i = 1
    BY <1>1, <1>9, <2>2 DEF Messages
  <2>4. Owed(r, w, 1 - 1, 0)
    BY <1>7, <2>2, <2>3
  <2>. QED
    BY <2>4 DEF Counted
<1>. QED
  BY <1>8, <1>9

\* A received packet adds a message and what it is for
LEMMA CountedReceived ==
    ASSUME NEW q \in Seq(Message), NEW x \in Message, x.kind = 0, x.frame \in Frames \ MessageFrames(q),
           NEW w \in Nat, NEW out, NEW uart, Counted(q, w, out, uart)
    PROVE  Counted(Append(q, x), w, out, uart)
<1>. DEFINE r == Append(q, x)
<1>1. /\ Len(q) \in Nat /\ Len(r) = Len(q) + 1 /\ r[Len(q) + 1] = x
      /\ \A j \in 1 .. Len(q) : r[j] = q[j]
  OBVIOUS
<1>. HIDE DEF r
<1>2. ASSUME NEW i \in 0 .. Len(q)
      PROVE  After(r, i) = After(q, i) \cup {x.frame} /\ x.frame \notin After(q, i)
  <2>1. \A j \in i + 1 .. Len(r) : j = Len(q) + 1 \/ (j \in i + 1 .. Len(q) /\ r[j] = q[j])
    BY <1>1
  <2>2. \A j \in i + 1 .. Len(q) : j \in i + 1 .. Len(r) /\ r[j] = q[j] /\ j \in 1 .. Len(q)
    BY <1>1
  <2>3. Len(q) + 1 \in i + 1 .. Len(r)
    BY <1>1
  <2>4. ASSUME NEW f \in Frames
        PROVE  f \in After(r, i) <=> f \in After(q, i) \/ f = x.frame
    BY <1>1, <2>1, <2>2, <2>3 DEF After
  <2>5. After(r, i) \subseteq Frames /\ After(q, i) \subseteq Frames
    BY DEF After
  <2>6. After(q, i) \subseteq MessageFrames(q)
    BY <2>2 DEF After, MessageFrames
  <2>. QED
    BY <2>4, <2>5, <2>6
<1>3. ASSUME NEW i \in 0 .. Len(q), NEW c \in 0 .. 2, Owed(q, w, i, c)
      PROVE  Owed(r, w, i, c)
  <2>1. Cardinality(After(r, i)) = Cardinality(After(q, i)) + 1 /\ Cardinality(After(q, i)) \in Nat
    BY <1>2, AfterFinite, FS_AddElement
  <2>2. Len(q) - i <= Cardinality(After(q, i)) + w + c
    BY <1>3 DEF Owed
  <2>3. Len(r) - i <= Cardinality(After(r, i)) + w + c
    BY <1>1, <2>1, <2>2
  <2>. QED
    BY <2>3 DEF Owed
<1>4. \A i \in 1 .. Len(q) : i \in 1 .. Len(r) /\ i \in 0 .. Len(q) /\ r[i] = q[i]
  BY <1>1
<1>5. 0 \in 0 .. Len(q) /\ 0 \in 0 .. 2 /\ 1 \in 0 .. 2 /\ 2 \in 0 .. 2
  BY <1>1
<1>6. Counted(r, w, out, uart)
  BY <1>3, <1>4, <1>5 DEF Counted
<1>. QED
  BY <1>6 DEF r

\* The device tells that a frame is sent: nothing is behind that
LEMMA CountedTold ==
    ASSUME NEW q \in Seq(Message), NEW w \in Nat, NEW out \in Frames, Counted(q, w, out, out),
           \A i \in 1 .. Len(q) : q[i].kind # 1, NEW x \in Message, x.kind = 1, x.frame = out
    PROVE  Counted(Append(q, x), w, out, NULL)
<1>. DEFINE r == Append(q, x)
            n == Len(q) + 1
<1>1. /\ Len(q) \in Nat /\ Len(r) = n /\ r[n] = x /\ n \in 1 .. Len(r)
      /\ \A j \in 1 .. Len(q) : r[j] = q[j]
  OBVIOUS
<1>. HIDE DEF r
<1>2. out # NULL
  BY FramesAssumption
<1>3. Owed(q, w, 0, 1)
  BY <1>2 DEF Counted
<1>4. After(r, 0) = After(q, 0)
  <2>1. \A j \in 0 + 1 .. Len(r) : j = n \/ (j \in 0 + 1 .. Len(q) /\ r[j] = q[j])
    BY <1>1
  <2>2. \A j \in 0 + 1 .. Len(q) : j \in 0 + 1 .. Len(r) /\ r[j] = q[j]
    BY <1>1
  <2>. QED
    BY <1>1, <2>1, <2>2 DEF After
<1>5. Owed(r, w, 0, 2)
  <2>1. Len(q) - 0 <= Cardinality(After(r, 0)) + w + 1
    BY <1>3, <1>4 DEF Owed
  <2>2. Len(r) - 0 <= Cardinality(After(r, 0)) + w + 2
    BY <1>1, <2>1, AfterFinite
  <2>. QED
    BY <2>2 DEF Owed
<1>6. Owed(r, w, n, 0)
  <2>1. Cardinality(After(r, n)) \in Nat /\ Len(r) - n = 0
    BY <1>1, AfterFinite
  <2>2. Len(r) - n <= Cardinality(After(r, n)) + w + 0
    BY <2>1
  <2>. QED
    BY <2>2 DEF Owed
<1>7. Counted(r, w, out, NULL)
  <2>. HIDE DEF n
  <2>. QED
    BY <1>1, <1>2, <1>5, <1>6 DEF Counted
<1>. QED
  BY <1>7 DEF r

LEMMA TogetherApart ==
    ASSUME NEW S, IsFiniteSet(S), NEW T, IsFiniteSet(T), S \cap T = {}
    PROVE  IsFiniteSet(S \cup T) /\ Cardinality(S \cup T) = Cardinality(S) + Cardinality(T)
<1>1. IsFiniteSet(S \cup T) /\ Cardinality(S \cup T) = Cardinality(S) + Cardinality(T) - Cardinality({})
  BY FS_Union
<1>2. Cardinality({}) = 0 /\ Cardinality(S) \in Nat /\ Cardinality(T) \in Nat
  BY FS_EmptySet, FS_CardinalityType
<1>. QED
  BY <1>1, <1>2

\* Messages, frames that wait to be sent and the one that is sent now are of different frames
LEMMA CountedBound ==
    ASSUME NEW m, NEW current, NEW out, NEW uart, Good(m, Handful(m.queue, current, out)),
           Messages(m.queue, current, out, uart), Counted(m.queue, Waiting(m), out, uart)
    PROVE  /\ Len(m.queue) <= Cardinality(Frames) + 1
           /\ uart # NULL => Len(m.queue) <= Cardinality(Frames)
<1>. DEFINE q == m.queue
            A == MessageFrames(q)
            B == In(m, "send")
            C == {out} \ {NULL}
            N == Cardinality(Frames)
            E == Handful(q, current, out)
<1>1. /\ IsFiniteSet(A) /\ IsFiniteSet(B) /\ IsFiniteSet(C) /\ IsFiniteSet(Frames)
      /\ A \subseteq Frames /\ B \subseteq Frames /\ C \subseteq Frames
  <2>1. A \subseteq Frames /\ B \subseteq Frames /\ C \subseteq Frames
    BY DEF MessageFrames, In, Messages, Link
  <2>. QED
    BY <2>1, FramesAssumption, FS_Subset
<1>2. A \cap B = {} /\ A \cap C = {} /\ B \cap C = {}
  <2>1. A \subseteq E /\ C \subseteq E
    BY DEF Handful
  <2>2. \A f \in E : f \notin B
    <3>. HIDE DEF E, B
    <3>1. Good(m, E) /\ E \subseteq Frames
      BY GoodType DEF E
    <3>. QED
      BY <3>1, HandOutside, ListNames DEF B
  <2>3. A \cap C = {}
    BY DEF MessageFrames, Messages
  <2>. QED
    BY <2>1, <2>2, <2>3
<1>3. Cardinality(C) = IF out = NULL THEN 0 ELSE 1
  <2>1. out = NULL => C = {}
    OBVIOUS
  <2>2. out # NULL => C = {out}
    OBVIOUS
  <2>. QED
    BY <2>1, <2>2, FS_EmptySet, FS_Singleton
<1>4. Cardinality(A) + Cardinality(B) + Cardinality(C) <= N
  <2>. HIDE DEF A, B, C
  <2>1. IsFiniteSet(A \cup B) /\ Cardinality(A \cup B) = Cardinality(A) + Cardinality(B)
    BY <1>1, <1>2, TogetherApart
  <2>a. (A \cup B) \cap C = {}
    BY <1>2
  <2>2. Cardinality((A \cup B) \cup C) = Cardinality(A \cup B) + Cardinality(C)
    BY <1>1, <2>1, <2>a, TogetherApart
  <2>3. Cardinality((A \cup B) \cup C) <= N
    BY <1>1, FS_Subset
  <2>. QED
    BY <2>1, <2>2, <2>3
<1>5. After(q, 0) = A
  <2>1. 0 + 1 = 1
    OBVIOUS
  <2>. QED
    BY <2>1 DEF After, MessageFrames
<1>6. /\ Len(q) \in Nat /\ Cardinality(A) \in Nat /\ Cardinality(B) \in Nat /\ N \in Nat
      /\ Waiting(m) = Cardinality(B)
  <2>1. Len(q) \in Nat
    BY DEF Messages
  <2>. HIDE DEF A, q
  <2>. QED
    BY <1>1, <2>1, FS_CardinalityType DEF Waiting
<1>7. ASSUME NEW c \in 0 .. 2, Owed(q, Waiting(m), 0, c)
      PROVE  Len(q) <= Cardinality(A) + Cardinality(B) + c
  <2>. HIDE DEF A, B
  <2>1. Len(q) - 0 <= Cardinality(A) + Cardinality(B) + c
    BY <1>5, <1>6, <1>7 DEF Owed
  <2>. QED
    BY <1>6, <2>1
<1>8. \/ out = NULL /\ Owed(q, Waiting(m), 0, 0)
      \/ out # NULL /\ uart = out /\ Owed(q, Waiting(m), 0, 1)
      \/ out # NULL /\ uart = NULL /\ Owed(q, Waiting(m), 0, 2)
  BY DEF Counted, Messages
<1>9. out = NULL => uart = NULL
  BY DEF Messages
<1>10. 0 \in 0 .. 2 /\ 1 \in 0 .. 2 /\ 2 \in 0 .. 2
  OBVIOUS
<1>. HIDE DEF A, B, C, N, q
<1>11. \/ out = NULL /\ Len(q) <= Cardinality(A) + Cardinality(B) + 0
       \/ out # NULL /\ uart = out /\ Len(q) <= Cardinality(A) + Cardinality(B) + 1
       \/ out # NULL /\ uart = NULL /\ Len(q) <= Cardinality(A) + Cardinality(B) + 2
  BY <1>7, <1>8, <1>10
<1>12. Len(q) <= N + 1 /\ (uart # NULL => Len(q) <= N)
  BY <1>3, <1>4, <1>6, <1>9, <1>11
<1>. QED
  BY <1>12 DEF q, N

-----------------------------------------------------------------------------
(* The memory between two steps *)

\* All is in its place, unless the code has lost its way
Clean(m, current, out, uart) ==
    /\ Good(m, Handful(m.queue, current, out))
    /\ Messages(m.queue, current, out, uart)
    /\ Counted(m.queue, Waiting(m), out, uart)

Ready(m, current, out, uart) == Bad(m) \/ Clean(m, current, out, uart)

LEMMA WorksClean ==
    ASSUME NEW m \in Mem, NEW n, NEW current, NEW out, NEW uart,
           Messages(m.queue, current, out, uart), Counted(m.queue, Waiting(m), out, uart),
           Works(m, n, Handful(m.queue, current, out))
    PROVE  Clean(n, current, out, uart)
<1>1. /\ n.queue \in Seq(Message) /\ m.queue \in Seq(Message) /\ Len(m.queue) \in Nat
      /\ More(m.queue, n.queue) /\ Len(n.queue) - Len(m.queue) <= Waiting(n) - Waiting(m)
  BY GoodType, QueueLength DEF Works, Ahead
<1>2. Messages(n.queue, current, out, uart) /\ MessageFrames(n.queue) = MessageFrames(m.queue)
  BY <1>1, MoreMessages
<1>3. Handful(n.queue, current, out) = Handful(m.queue, current, out)
  BY <1>2 DEF Handful
<1>4. Counted(n.queue, Waiting(n), out, uart)
  BY <1>1, CountedMore, WaitingNat
<1>. QED
  BY <1>2, <1>3, <1>4 DEF Works, Clean

LEMMA CleanType ==
    ASSUME NEW m, NEW current, NEW out, NEW uart, Clean(m, current, out, uart)
    PROVE  /\ m \in Mem /\ m.defect = "none" /\ m.queue \in Seq(Message)
           /\ current \in Link /\ out \in Link /\ uart \in Link
           /\ Messages(m.queue, current, out, uart)
           /\ Good(m, Handful(m.queue, current, out)) /\ Handful(m.queue, current, out) \subseteq Frames
           /\ Counted(m.queue, Waiting(m), out, uart) /\ Waiting(m) \in Nat
  BY GoodType, WaitingNat DEF Clean, Messages

LEMMA WaitingSame ==
    ASSUME NEW m, NEW n, SameIn(m, n)
    PROVE  Waiting(n) = Waiting(m)
  BY ListNames DEF SameIn, Waiting

\* A frame for what the device receives
LEMMA GetClean ==
    ASSUME NEW m, NEW out, NEW uart, Clean(m, NULL, out, uart), NEW c \in Nat, NEW g, g = IPFrameGet(m, c)
    PROVE  Clean(g.m, g.f, out, uart)
<1>. DEFINE E == Handful(m.queue, NULL, out)
<1>1. m \in Mem /\ Good(m, E) /\ Messages(m.queue, NULL, out, uart)
  BY CleanType
<1>2. (g.f = NULL /\ g.m = m) \/ Taken(m, E, g)
  <2>. HIDE DEF E
  <2>. QED BY <1>1, GetGood
<1>3. CASE g.f = NULL /\ g.m = m
  BY <1>3
<1>4. CASE Taken(m, E, g)
  <2>1. g.f \in Frames /\ g.f \notin E /\ Good(g.m, E \cup {g.f}) /\ g.m.queue = m.queue
    BY <1>4 DEF Taken
  <2>2. g.f # NULL /\ g.f # out /\ g.f \notin MessageFrames(m.queue) /\ g.f \in Link
    BY <2>1, FramesAssumption DEF Handful, Link
  <2>3. Handful(m.queue, g.f, out) = E \cup {g.f}
    BY <2>2 DEF Handful
  <2>4. \A i \in 1 .. Len(m.queue) : m.queue[i].kind = 0 => m.queue[i].frame # g.f
    BY <2>1, <2>2 DEF MessageFrames
  <2>5. Messages(m.queue, g.f, out, uart)
    BY <1>1, <2>2, <2>4 DEF Messages
  <2>6. Counted(g.m.queue, Waiting(g.m), out, uart)
    BY <1>4, <2>1, CleanType, WaitingSame DEF Taken
  <2>. QED
    BY <2>1, <2>3, <2>5, <2>6 DEF Clean
<1>. QED
  BY <1>2, <1>3, <1>4

\* The queue is written
Queued(m, n, q, E) == Good(n, E) /\ n.queue = q /\ Waiting(n) = Waiting(m)

LEMMA QueueGood ==
    ASSUME NEW m, NEW E, Good(m, E), NEW q \in Seq(Message)
    PROVE  Queued(m, [m EXCEPT !.queue = q], q, E)
<1>. DEFINE n == [m EXCEPT !.queue = q]
<1>1. m \in Mem /\ m.defect = "none"
  BY GoodType
<1>2. /\ n \in Mem /\ n.defect = "none" /\ SamePlaces(m, n) /\ SameUsers(m, n) /\ n.sock = m.sock
      /\ n.queue = q
  BY <1>1 DEF Mem, SamePlaces, SameLists, SamePool, SameUsers
<1>. HIDE DEF n
<1>3. Queued(m, n, q, E)
  BY <1>2, OwnersSame, SameGood, WaitingSame DEF Queued
<1>. QED
  BY <1>3 DEF n

\* A packet is received: its frame is in a message, or gone
LEMMA ReceivedClean ==
    ASSUME NEW m, NEW f, f # NULL, NEW out, NEW uart, Clean(m, f, out, uart),
           NEW n, n = MQueueSend(m, 0, f)
    PROVE  Clean(n, NULL, out, uart)
<1>. DEFINE E == Handful(m.queue, f, out)
            x == [kind |-> 0, frame |-> f]
            q == Append(m.queue, x)
<1>1. /\ m \in Mem /\ m.defect = "none" /\ m.queue \in Seq(Message) /\ f \in Frames /\ out \in Link
      /\ Good(m, E) /\ E \subseteq Frames /\ Messages(m.queue, f, out, uart) /\ x \in Message
  <2>. HIDE DEF x
  <2>1. /\ m \in Mem /\ m.defect = "none" /\ m.queue \in Seq(Message) /\ f \in Link /\ out \in Link
        /\ Good(m, E) /\ E \subseteq Frames /\ Messages(m.queue, f, out, uart)
    BY CleanType
  <2>2. f \in Frames
    BY <2>1 DEF Link
  <2>3. x \in Message
    BY <2>1 DEF x, Message
  <2>. QED
    BY <2>1, <2>2, <2>3
<1>2. /\ n \in Mem
      /\ SameLists(m, n) /\ SamePool(m, n) /\ SameMarks(m, n) /\ SameSockets(m, n)
      /\ n.state = m.state /\ n.next = m.next /\ n.defect = m.defect
      /\ \/ n.queue = q /\ n.lost = m.lost
         \/ n.queue = m.queue /\ n.lost = m.lost \cup {f}
  <2>1. 0 \in 0 .. 2 /\ f \in Frames \cup {NULL}
    BY <1>1
  <2>. QED
    BY <1>1, <2>1, SendFields
<1>3. f \notin MessageFrames(m.queue) /\ f # out
  BY <1>1 DEF Messages, MessageFrames
<1>4. CASE n.queue = q /\ n.lost = m.lost
  <2>1. Good(n, E) /\ SameIn(m, n)
    <3>. HIDE DEF E
    <3>1. SamePlaces(m, n) /\ SameUsers(m, n) /\ n.sock = m.sock /\ n.defect = "none"
      BY <1>1, <1>2, <1>4 DEF SamePlaces, SameMarks, SameSockets
    <3>. QED
      BY <1>1, <1>2, <3>1, OwnersSame, SameGood
  <2>2. /\ q \in Seq(Message) /\ Len(q) = Len(m.queue) + 1 /\ Len(m.queue) \in Nat
        /\ q[Len(q)].kind = 0 /\ q[Len(q)].frame = f
        /\ \A i \in 1 .. Len(q) : i = Len(q) \/ (i \in 1 .. Len(m.queue) /\ q[i] = m.queue[i])
        /\ \A i \in 1 .. Len(m.queue) : i \in 1 .. Len(q) /\ q[i] = m.queue[i]
        /\ Len(q) \in 1 .. Len(q)
    BY <1>1
  <2>a. Counted(q, Waiting(m), out, uart)
    <3>. HIDE DEF x
    <3>1. x.kind = 0 /\ x.frame = f
      BY DEF x
    <3>. QED
      BY <1>1, <1>3, <3>1, CleanType, CountedReceived
  <2>. HIDE DEF q, x
  <2>3. MessageFrames(q) = MessageFrames(m.queue) \cup {f}
    <3>1. ASSUME NEW g \in Frames
          PROVE  g \in MessageFrames(q) <=> g = f \/ g \in MessageFrames(m.queue)
      <4>1. g \in MessageFrames(q) => g = f \/ g \in MessageFrames(m.queue)
        BY <2>2 DEF MessageFrames
      <4>2. g = f => g \in MessageFrames(q)
        BY <2>2 DEF MessageFrames
      <4>3. g \in MessageFrames(m.queue) => g \in MessageFrames(q)
        BY <2>2 DEF MessageFrames
      <4>. QED
        BY <4>1, <4>2, <4>3
    <3>2. MessageFrames(q) \subseteq Frames /\ MessageFrames(m.queue) \subseteq Frames
      BY DEF MessageFrames
    <3>. QED
      BY <1>1, <3>1, <3>2
  <2>4. Handful(q, NULL, out) = E
    BY <1>1, <2>3, FramesAssumption DEF Handful
  <2>5. Messages(q, NULL, out, uart)
    <3>0. \A i \in 1 .. Len(m.queue) : m.queue[i].kind = 0 => m.queue[i].frame # f
      BY <1>1 DEF Messages
    <3>1. \A i \in 1 .. Len(q) : q[i].kind = 0 => /\ q[i].frame \in Frames
                                                  /\ q[i].frame # NULL /\ q[i].frame # out
      <4>1. \A i \in 1 .. Len(m.queue) : m.queue[i].kind = 0 => /\ m.queue[i].frame \in Frames
                                                                /\ m.queue[i].frame # out
        BY <1>1 DEF Messages
      <4>2. \A h \in Frames : h # NULL
        BY FramesAssumption
      <4>. QED
        BY <1>1, <1>3, <2>2, <4>1, <4>2
    <3>2. \A i \in 1 .. Len(q) : q[i].kind = 1 => q[i].frame = out /\ out # NULL /\ uart = NULL
      BY <1>1, <2>2 DEF Messages
    <3>3. ASSUME NEW i \in 1 .. Len(q), NEW j \in 1 .. Len(q)
          PROVE  /\ q[i].kind = 0 /\ q[j].kind = 0 /\ q[i].frame = q[j].frame => i = j
                 /\ q[i].kind = 1 /\ q[j].kind = 1 => i = j
      <4>1. \A k, l \in 1 .. Len(m.queue) :
               /\ m.queue[k].kind = 0 /\ m.queue[l].kind = 0 /\ m.queue[k].frame = m.queue[l].frame => k = l
               /\ m.queue[k].kind = 1 /\ m.queue[l].kind = 1 => k = l
        BY <1>1 DEF Messages
      <4>2. CASE i = Len(q) \/ j = Len(q)
        BY <2>2, <3>0, <4>2
      <4>3. CASE i # Len(q) /\ j # Len(q)
        <5>1. i \in 1 .. Len(m.queue) /\ j \in 1 .. Len(m.queue) /\ q[i] = m.queue[i] /\ q[j] = m.queue[j]
          BY <2>2, <4>3
        <5>. QED
          BY <4>1, <5>1
      <4>. QED
        BY <4>2, <4>3
    <3>4. NULL \in Link /\ uart \in Link /\ (uart # NULL => uart = out)
      BY <1>1 DEF Link, Messages
    <3>. QED
      BY <1>1, <2>2, <3>1, <3>2, <3>3, <3>4 DEF Messages
  <2>. QED
    BY <1>4, <2>1, <2>4, <2>5, <2>a, WaitingSame DEF Clean
<1>5. CASE n.queue = m.queue /\ n.lost = m.lost \cup {f}
  <2>. DEFINE D == E \ {f}
  <2>1. f \in E
    BY <1>1, FramesAssumption DEF Handful
  <2>2. Handful(m.queue, NULL, out) = D
    BY <1>1, <1>3, FramesAssumption DEF Handful
  <2>. HIDE DEF E
  <2>3. Handed(m, n, E, D, f, Gone)
    <3>1. \A r \in Sockets : ~ Owns(n, r, f)
      BY <1>1, <1>2, <2>1, HandOutside DEF Owns, SameSockets, SameUsers
    <3>2. \A r \in Sockets : n.user[r].at = "send" => n.frameSend[r] # NULL
      BY <1>1, <1>2 DEF Good, Sound, SocketsRight, SameSockets, SameUsers
    <3>3. f \notin D /\ \A h \in Frames \ {f} : h \in D <=> h \in E
      OBVIOUS
    <3>. QED
      BY <1>2, <1>5, <3>1, <3>2, <3>3, PlacesDiffer DEF Handed, Owns, SameMarks, SameSockets, SameUsers
  <2>4. D \in SUBSET Frames /\ Gone \in {Hand, Gone} \cup {OwnedBy(r) : r \in Sockets}
    BY <1>1
  <2>. HIDE DEF D
  <2>5. Good(n, D) /\ SameIn(m, n)
    BY <1>1, <1>2, <2>1, <2>3, <2>4, HandGood
  <2>6. Messages(m.queue, NULL, out, uart)
    <3>1. \A i \in 1 .. Len(m.queue) : m.queue[i].kind = 0 => m.queue[i].frame # NULL
      BY <1>1, FramesAssumption DEF Messages
    <3>. QED
      BY <1>1, <3>1 DEF Messages, Link
  <2>. QED
    BY <1>5, <2>2, <2>5, <2>6, CleanType, WaitingSame DEF Clean
<1>. QED
  BY <1>2, <1>4, <1>5

LEMMA CleanBound ==
    ASSUME NEW m, NEW current, NEW out, NEW uart, uart # NULL, Clean(m, current, out, uart)
    PROVE  Len(m.queue) <= Cardinality(Frames)
<1>1. /\ Good(m, Handful(m.queue, current, out)) /\ Messages(m.queue, current, out, uart)
      /\ Counted(m.queue, Waiting(m), out, uart)
  BY CleanType
<1>2. \A x, y, z, t : /\ Good(x, Handful(x.queue, y, z)) /\ Messages(x.queue, y, z, t)
                      /\ Counted(x.queue, Waiting(x), z, t) /\ t # NULL
                      => Len(x.queue) <= Cardinality(Frames)
  BY CountedBound
<1>. QED
  BY <1>1, <1>2

\* The last byte of a frame is out
LEMMA ToldClean ==
    ASSUME NEW m, NEW current, NEW out, NEW uart, uart # NULL, Clean(m, current, out, uart),
           NEW n, n = MQueueSend(m, 1, uart)
    PROVE  Clean(n, current, out, NULL)
<1>. DEFINE E == Handful(m.queue, current, out)
            x == [kind |-> 1, frame |-> uart]
            q == Append(m.queue, x)
<1>1. /\ m \in Mem /\ m.defect = "none" /\ m.queue \in Seq(Message) /\ uart \in Link /\ x \in Message
      /\ Good(m, E) /\ Messages(m.queue, current, out, uart) /\ NULL \in Link
  <2>. HIDE DEF x
  <2>1. /\ m \in Mem /\ m.defect = "none" /\ m.queue \in Seq(Message) /\ uart \in Link
        /\ Good(m, E) /\ Messages(m.queue, current, out, uart)
    BY CleanType
  <2>2. NULL \in Link
    BY DEF Link
  <2>3. x \in Message
    BY <2>1 DEF x, Message
  <2>. QED
    BY <2>1, <2>2, <2>3
<1>2. /\ n \in Mem
      /\ SameLists(m, n) /\ SamePool(m, n) /\ SameMarks(m, n) /\ SameSockets(m, n)
      /\ n.state = m.state /\ n.next = m.next /\ n.defect = m.defect
      /\ n.queue = q /\ n.lost = m.lost
  <2>0. Len(m.queue) < QueueSize
    <3>1. Len(m.queue) <= Cardinality(Frames)
      BY CleanBound
    <3>2. Cardinality(Frames) \in Nat \ {0}
      BY FramesAssumption, FS_CardinalityType, FS_EmptySet
    <3>3. Len(m.queue) \in Nat
      BY <1>1, QueueLength
    <3>. QED
      BY <3>1, <3>2, <3>3 DEF QueueSize
  <2>3. n = [m EXCEPT !.queue = q]
    BY <1>1, <2>0 DEF MQueueSend
  <2>4. n.queue = q /\ n.lost = m.lost
    <3>. HIDE DEF q
    <3>. QED
      BY <1>1, <2>3 DEF Mem
  <2>1. 1 \in 0 .. 2 /\ uart \in Frames \cup {NULL}
    BY <1>1 DEF Link
  <2>2. /\ n \in Mem
        /\ SameLists(m, n) /\ SamePool(m, n) /\ SameMarks(m, n) /\ SameSockets(m, n)
        /\ n.state = m.state /\ n.next = m.next /\ n.defect = m.defect
    BY <1>1, <2>1, SendFields
  <2>. QED
    BY <2>2, <2>4
<1>3. Good(n, E) /\ SameIn(m, n)
  <2>. HIDE DEF E
  <2>1. SamePlaces(m, n) /\ SameUsers(m, n) /\ n.sock = m.sock /\ n.defect = "none"
    BY <1>1, <1>2 DEF SamePlaces, SameMarks, SameSockets
  <2>. QED
    BY <1>1, <1>2, <2>1, OwnersSame, SameGood
<1>4. out = uart /\ \A i \in 1 .. Len(m.queue) : m.queue[i].kind # 1
  BY <1>1 DEF Messages
<1>5. Counted(q, Waiting(m), out, NULL)
  <2>1. out \in Frames /\ x.kind = 1 /\ x.frame = out
    BY <1>1, <1>4 DEF Link
  <2>2. Counted(m.queue, Waiting(m), out, out) /\ Waiting(m) \in Nat
    BY <1>4, CleanType
  <2>. HIDE DEF x
  <2>. QED
    BY <1>1, <1>4, <2>1, <2>2, CountedTold
<1>6. /\ q \in Seq(Message) /\ Len(q) = Len(m.queue) + 1 /\ Len(m.queue) \in Nat
      /\ q[Len(q)].kind = 1 /\ q[Len(q)].frame = uart
      /\ \A i \in 1 .. Len(q) : i = Len(q) \/ (i \in 1 .. Len(m.queue) /\ q[i] = m.queue[i])
      /\ \A i \in 1 .. Len(m.queue) : i \in 1 .. Len(q) /\ q[i] = m.queue[i]
  BY <1>1
<1>. HIDE DEF q, x
<1>7. MessageFrames(q) = MessageFrames(m.queue)
  <2>1. ASSUME NEW f \in Frames
        PROVE  f \in MessageFrames(q) <=> f \in MessageFrames(m.queue)
    <3>1. \A i \in 1 .. Len(q) : q[i].kind = 0 => i \in 1 .. Len(m.queue) /\ q[i] = m.queue[i]
      BY <1>6
    <3>2. f \in MessageFrames(q) => f \in MessageFrames(m.queue)
      BY <3>1 DEF MessageFrames
    <3>3. f \in MessageFrames(m.queue) => f \in MessageFrames(q)
      BY <1>6 DEF MessageFrames
    <3>. QED
      BY <3>2, <3>3
  <2>2. MessageFrames(q) \subseteq Frames /\ MessageFrames(m.queue) \subseteq Frames
    BY DEF MessageFrames
  <2>. QED
    BY <2>1, <2>2
<1>8. Messages(q, current, out, NULL)
  <2>1. \A i \in 1 .. Len(q) : q[i].kind = 0 => /\ q[i].frame \in Frames
                                                /\ q[i].frame # current /\ q[i].frame # out
    BY <1>1, <1>6 DEF Messages
  <2>2. \A i \in 1 .. Len(q) : q[i].kind = 1 => q[i].frame = out /\ out # NULL
    BY <1>1, <1>4, <1>6 DEF Messages
  <2>3. ASSUME NEW i \in 1 .. Len(q), NEW j \in 1 .. Len(q)
        PROVE  /\ q[i].kind = 0 /\ q[j].kind = 0 /\ q[i].frame = q[j].frame => i = j
               /\ q[i].kind = 1 /\ q[j].kind = 1 => i = j
    <3>1. \A k, l \in 1 .. Len(m.queue) :
             m.queue[k].kind = 0 /\ m.queue[l].kind = 0 /\ m.queue[k].frame = m.queue[l].frame => k = l
      BY <1>1 DEF Messages
    <3>. QED
      BY <1>4, <1>6, <3>1, SMTT(30)
  <2>. QED
    BY <1>1, <1>6, <2>1, <2>2, <2>3 DEF Messages
<1>. QED
  BY <1>2, <1>3, <1>5, <1>7, <1>8, WaitingSame DEF Clean, Handful

\* A packet that has been received
LEMMA PacketReady ==
    ASSUME NEW m, NEW current, NEW out, NEW uart, Clean(m, current, out, uart), m.queue # <<>>,
           NEW x, x = Head(m.queue), x.kind = 0, NEW a, a = [m EXCEPT !.queue = Tail(@)],
           NEW o \in Outcomes(a, x.frame),
           NEW n, n = IF o.rc = 0 THEN FrameFree(o.m, x.frame) ELSE o.m
    PROVE  Ready(n, current, out, uart)
<1>. DEFINE q == m.queue
            r == Tail(q)
            f == x.frame
            E == Handful(m.queue, current, out)
            D == Handful(r, current, out)
<1>1. m \in Mem /\ Good(m, E) /\ Messages(m.queue, current, out, uart)
  BY CleanType
<1>2. /\ r \in Seq(Message) /\ Messages(r, current, out, uart) /\ f \in Frames /\ f \notin D /\ E = D \cup {f}
      /\ Counted(r, Waiting(m), out, uart)
  <2>1. q # <<>> /\ Messages(q, current, out, uart)
    BY <1>1
  <2>3. Counted(Tail(q), Waiting(m), out, uart)
    <3>1. Counted(q, Waiting(m), out, uart) /\ Waiting(m) \in Nat
      BY CleanType
    <3>. HIDE DEF q
    <3>2. Head(q).kind # 1
      BY DEF q
    <3>. QED
      BY <2>1, <3>1, <3>2, CountedTail
  <2>2. Behind(q, Tail(q), Head(q), current, out, uart)
    <3>. HIDE DEF q
    <3>. QED BY <2>1, TailMessages
  <2>. HIDE DEF r
  <2>. QED
    BY <2>2, <2>3 DEF r, Behind
<1>3. a = [m EXCEPT !.queue = r]
  OBVIOUS
<1>. HIDE DEF r, E
<1>4. Good(a, E) /\ a.queue = r /\ Waiting(a) = Waiting(m)
  <2>1. Queued(m, [m EXCEPT !.queue = r], r, E)
    BY <1>1, <1>2, QueueGood
  <2>. QED
    BY <1>3, <2>1 DEF Queued
<1>5. Outcome(a, o, E, f) /\ f \in E /\ a \in Mem /\ D = E \ {f}
  BY <1>2, <1>4, OutcomesGood, GoodType
<1>6. CASE o.rc = 0
  <2>1. n = FrameFree(o.m, f)
    BY <1>6
  <2>2. CASE Bad(o.m)
    <3>1. Steady(o.m, n)
      BY <1>2, <2>1, <2>2, FreeSteady DEF Bad
    <3>. QED
      BY <2>2, <3>1, SteadyBad DEF Ready
  <2>3. CASE Works(a, o.m, E)
    <3>1. Freed(o.m, n, E, f)
      BY <1>5, <2>1, <2>3, FreeGood DEF Works
    <3>2. Works(a, n, D)
      <4>1. Works(o.m, n, D)
        BY <1>5, <3>1 DEF Works, Freed, Sent, FramesOnly
      <4>. QED
        BY <1>5, <2>3, <4>1, WorksWorks
    <3>. HIDE DEF D
    <3>3. Works(a, n, Handful(a.queue, current, out)) /\ Messages(a.queue, current, out, uart)
      BY <1>2, <1>4, <3>2 DEF D
    <3>. QED
      BY <1>2, <1>4, <1>5, <3>3, WorksClean DEF Ready
  <2>. QED
    BY <1>5, <1>6, <2>2, <2>3 DEF Outcome, Rest
<1>7. CASE o.rc # 0
  <2>1. n = o.m
    BY <1>7
  <2>2. CASE Works(a, n, E \ {f})
    <3>. HIDE DEF D
    <3>3. Works(a, n, Handful(a.queue, current, out)) /\ Messages(a.queue, current, out, uart)
      BY <1>2, <1>4, <1>5, <2>2 DEF D
    <3>. QED
      BY <1>2, <1>4, <1>5, <3>3, WorksClean DEF Ready
  <2>. QED
    BY <1>5, <1>7, <2>1, <2>2 DEF Outcome, Rest, Ready
<1>. QED
  BY <1>6, <1>7

\* The frame that was sent can be sent again, or is free
LEMMA SentClean ==
    ASSUME NEW m, NEW current, NEW out, NEW uart, Clean(m, current, out, uart), m.queue # <<>>,
           NEW x, x = Head(m.queue), x.kind = 1, NEW a, a = [m EXCEPT !.queue = Tail(@)],
           NEW b, b = IF x.frame = out THEN a ELSE [a EXCEPT !.defect = "assert"],
           NEW n, n = IPFrameReschedule(b, x.frame)
    PROVE  Clean(n, current, NULL, uart)
<1>. DEFINE q == m.queue
            r == Tail(q)
            E == Handful(m.queue, current, out)
<1>1. m \in Mem /\ Good(m, E) /\ Messages(m.queue, current, out, uart) /\ out \in Link
  BY CleanType
<1>2. /\ r \in Seq(Message) /\ Messages(r, current, out, uart) /\ MessageFrames(r) = MessageFrames(m.queue)
      /\ x.frame = out /\ out # NULL /\ uart = NULL /\ \A i \in 1 .. Len(r) : r[i].kind # 1
      /\ Counted(r, Waiting(m), NULL, uart)
  <2>1. q # <<>> /\ Messages(q, current, out, uart)
    BY <1>1
  <2>3. Counted(Tail(q), Waiting(m), NULL, uart)
    <3>1. Counted(q, Waiting(m), out, uart) /\ Waiting(m) \in Nat
      BY CleanType
    <3>. HIDE DEF q
    <3>2. Head(q).kind = 1
      BY DEF q
    <3>. QED
      BY <2>1, <3>1, <3>2, CountedTail
  <2>2. Behind(q, Tail(q), Head(q), current, out, uart)
    <3>. HIDE DEF q
    <3>. QED BY <2>1, TailMessages
  <2>. HIDE DEF r
  <2>. QED
    BY <2>2, <2>3 DEF r, Behind
<1>3. a = [m EXCEPT !.queue = r] /\ b = a /\ out \in Frames
  BY <1>1, <1>2 DEF Link
<1>4. out \in E
  BY <1>2
     DEF Handful
<1>5. E \ {out} = Handful(r, current, NULL)
  <2>1. out \notin MessageFrames(r) /\ (current = out => current = NULL)
    BY <1>2 DEF Messages, MessageFrames
  <2>. QED
    BY <1>2, <2>1 DEF Handful
<1>6. Messages(r, current, NULL, uart)
  <2>1. \A i \in 1 .. Len(r) : r[i].kind = 0 => r[i].frame # NULL
    BY <1>2, FramesAssumption DEF Messages
  <2>2. NULL \in Link
    BY DEF Link
  <2>. QED
    BY <1>2, <2>1, <2>2 DEF Messages
<1>. HIDE DEF r, E
<1>7. Good(a, E) /\ a.queue = r /\ a \in Mem /\ Waiting(a) = Waiting(m)
  <2>0. Queued(m, [m EXCEPT !.queue = r], r, E)
    BY <1>1, <1>2, QueueGood
  <2>1. Good(a, E) /\ a.queue = r /\ Waiting(a) = Waiting(m)
    BY <1>3, <2>0 DEF Queued
  <2>. QED
    BY <2>1, GoodType
<1>8. Fine(a, n, E \ {out})
  BY <1>2, <1>3, <1>4, <1>7, RescheduleGood
<1>9. Works(a, n, Handful(a.queue, current, NULL)) /\ Messages(a.queue, current, NULL, uart)
  BY <1>5, <1>6, <1>7, <1>8, WorksFine
<1>. QED
  BY <1>2, <1>7, <1>9, WorksClean

\* A message that only woke the network thread
LEMMA WokenClean ==
    ASSUME NEW m, NEW current, NEW out, NEW uart, Clean(m, current, out, uart), m.queue # <<>>,
           Head(m.queue).kind = 2, NEW a, a = [m EXCEPT !.queue = Tail(@)]
    PROVE  Clean(a, current, out, uart)
<1>. DEFINE q == m.queue
            r == Tail(q)
            E == Handful(m.queue, current, out)
<1>1. m \in Mem /\ Good(m, E) /\ Messages(m.queue, current, out, uart)
  BY CleanType
<1>2. /\ r \in Seq(Message) /\ Messages(r, current, out, uart) /\ MessageFrames(r) = MessageFrames(m.queue)
      /\ Counted(r, Waiting(m), out, uart)
  <2>1. q # <<>> /\ Messages(q, current, out, uart)
    BY <1>1
  <2>3. Counted(Tail(q), Waiting(m), out, uart)
    <3>1. Counted(q, Waiting(m), out, uart) /\ Waiting(m) \in Nat
      BY CleanType
    <3>. HIDE DEF q
    <3>2. Head(q).kind # 1
      BY DEF q
    <3>. QED
      BY <2>1, <3>1, <3>2, CountedTail
  <2>2. Behind(q, Tail(q), Head(q), current, out, uart)
    <3>. HIDE DEF q
    <3>. QED BY <2>1, TailMessages
  <2>. HIDE DEF r
  <2>. QED
    BY <2>2, <2>3 DEF r, Behind
<1>3. a = [m EXCEPT !.queue = r] /\ Handful(r, current, out) = E
  BY <1>2 DEF Handful
<1>. HIDE DEF r, E
<1>4. Good(a, E) /\ a.queue = r /\ Waiting(a) = Waiting(m)
  <2>1. Queued(m, [m EXCEPT !.queue = r], r, E)
    BY <1>1, <1>2, QueueGood
  <2>. QED
    BY <1>3, <2>1 DEF Queued
<1>. QED
  BY <1>2, <1>3, <1>4 DEF Clean

\* The oldest frame of the list to send is sent
LEMMA FirstSent ==
    ASSUME NEW m, NEW current, NEW uart, Clean(m, current, NULL, uart),
           NEW f, f = m.tail["send"], f # NULL, NEW n, n = FrameRemove(m, "send", f)
    PROVE  Clean(n, current, f, f)
<1>. DEFINE E == Handful(m.queue, current, NULL)
            q == ListFrames(m, "send")
<1>1. m \in Mem /\ Good(m, E) /\ Messages(m.queue, current, NULL, uart) /\ f \in Link /\ current \in Link
  <2>1. m \in Mem /\ Good(m, E) /\ Messages(m.queue, current, NULL, uart) /\ current \in Link
    BY CleanType
  <2>. HIDE DEF E
  <2>. QED
    BY <2>1, FieldTypes, ListNames
<1>. HIDE DEF E
<1>2. /\ q \in Seq(Frames) /\ m.tail["send"] = Final(q)
      /\ \A i \in 1 .. Len(q) : q[i] \in In(m, "send")
  BY <1>1, GoodList, ListNames
<1>. HIDE DEF q
<1>3. f \in In(m, "send")
  <2>1. q # <<>>
    BY <1>2 DEF Final
  <2>2. Len(q) \in 1 .. Len(q)
    BY <1>2, <2>1
  <2>. QED
    BY <1>2, <2>1, <2>2 DEF Final
<1>4. Cut(m, n, E, "send", f)
  BY <1>1, <1>3, RemoveGood, ListNames
<1>5. f \in Frames /\ f \notin E /\ Good(n, E \cup {f}) /\ n.queue = m.queue
  BY <1>4 DEF Cut
<1>6. Handful(m.queue, current, f) = E \cup {f} /\ f # current /\ f \notin MessageFrames(m.queue)
  BY <1>5, FramesAssumption DEF Handful, E
<1>7. Messages(m.queue, current, f, f)
  <2>1. \A i \in 1 .. Len(m.queue) : m.queue[i].kind = 0 => /\ m.queue[i].frame \in Frames
                                                            /\ m.queue[i].frame # current
    BY <1>1 DEF Messages
  <2>2. \A i \in 1 .. Len(m.queue) : m.queue[i].kind = 0 => m.queue[i].frame # f
    BY <1>5, <1>6 DEF MessageFrames
  <2>3. \A i \in 1 .. Len(m.queue) : m.queue[i].kind # 1
    BY <1>1 DEF Messages
  <2>4. \A i, j \in 1 .. Len(m.queue) :
           m.queue[i].kind = 0 /\ m.queue[j].kind = 0 /\ m.queue[i].frame = m.queue[j].frame => i = j
    BY <1>1 DEF Messages
  <2>5. m.queue \in Seq(Message)
    BY <1>1 DEF Messages
  <2>. QED
    BY <1>1, <1>6, <2>1, <2>2, <2>3, <2>4, <2>5 DEF Messages
<1>8. Counted(n.queue, Waiting(n), f, f)
  <2>1. Owed(m.queue, Waiting(m), 0, 0)
    BY CleanType DEF Counted
  <2>2. In(n, "send") = In(m, "send") \ {f}
    BY <1>4 DEF Cut
  <2>3. Waiting(n) = Waiting(m) - 1 /\ Waiting(m) \in Nat /\ Waiting(n) \in Nat
    BY <1>3, <2>2, WaitingNat, FS_RemoveElement DEF Waiting
  <2>4. Len(m.queue) - 0 <= Cardinality(After(m.queue, 0)) + Waiting(m) + 0
    BY <2>1 DEF Owed
  <2>5. Len(m.queue) - 0 <= Cardinality(After(m.queue, 0)) + Waiting(n) + 1
    BY <1>1, <2>3, <2>4, QueueLength, AfterFinite
  <2>. QED
    BY <1>5, <2>5 DEF Counted, Owed
<1>. QED
  BY <1>5, <1>6, <1>7, <1>8 DEF Clean

-----------------------------------------------------------------------------
(* The inductive invariant, and the steps of the network and the device *)

Invariant == Ready(ip, packetCurrent, frameOut, packetOut)

\* The loop of IPMainThread, after a message
LEMMA StartSendReady ==
    ASSUME NEW m, NEW out, Ready(m, packetCurrent, out, packetOut), StartSend(m, out),
           packetCurrent' = packetCurrent
    PROVE  Invariant'
<1>. DEFINE f == m.tail["send"]
<1>1. CASE out # NULL \/ f = NULL
  <2>1. ip' = m /\ frameOut' = out /\ packetOut' = packetOut
    BY <1>1 DEF StartSend
  <2>. QED
    BY <2>1 DEF Invariant
<1>2. CASE ~ (out # NULL \/ f = NULL)
  <2>1. ip' = FrameRemove(m, "send", f) /\ frameOut' = f /\ packetOut' = f
    BY <1>2 DEF StartSend
  <2>2. CASE Bad(m)
    <3>1. f \in Frames /\ m \in Mem
      BY <1>2, <2>2, FieldTypes, ListNames DEF Link, Bad
    <3>2. Steady(m, ip')
      BY <2>1, <3>1, RemoveSteady, ListNames
    <3>3. Bad(ip')
      BY <2>2, <3>2, SteadyBad
    <3>. QED
      BY <3>3 DEF Invariant, Ready
  <2>3. CASE Clean(m, packetCurrent, NULL, packetOut)
    <3>1. Clean(ip', packetCurrent, f, f)
      BY <1>2, <2>1, <2>3, FirstSent
    <3>. QED
      BY <2>1, <3>1 DEF Invariant, Ready
  <2>. QED
    BY <1>2, <2>2, <2>3 DEF Ready
<1>. QED
  BY <1>1, <1>2

Now == Clean(ip, packetCurrent, frameOut, packetOut)

LEMMA UartStep ==
    ASSUME Now, UartPacketStart \/ UartPacketEnd \/ UartPacketSent
    PROVE  Invariant'
<1>1. ASSUME UartPacketStart
      PROVE  Invariant'
  <2>. DEFINE g == IPFrameGet(ip, FRAME_COUNT_RCV)
  <2>1. /\ packetCurrent = NULL /\ packetCurrent' = g.f /\ ip' = g.m
        /\ packetOut' = packetOut /\ frameOut' = frameOut
    BY <1>1 DEF UartPacketStart
  <2>2. Clean(g.m, g.f, frameOut, packetOut)
    BY <2>1, GetClean, FramesAssumption DEF Now
  <2>. QED
    BY <2>1, <2>2 DEF Invariant, Ready
<1>2. ASSUME UartPacketEnd
      PROVE  Invariant'
  <2>1. /\ packetCurrent # NULL /\ packetCurrent' = NULL /\ ip' = MQueueSend(ip, 0, packetCurrent)
        /\ packetOut' = packetOut /\ frameOut' = frameOut
    BY <1>2 DEF UartPacketEnd
  <2>2. Clean(ip', NULL, frameOut, packetOut)
    BY <2>1, ReceivedClean DEF Now
  <2>. QED
    BY <2>1, <2>2 DEF Invariant, Ready
<1>3. ASSUME UartPacketSent
      PROVE  Invariant'
  <2>1. /\ packetOut # NULL /\ packetOut' = NULL /\ ip' = MQueueSend(ip, 1, packetOut)
        /\ packetCurrent' = packetCurrent /\ frameOut' = frameOut
    BY <1>3 DEF UartPacketSent
  <2>2. Clean(ip', packetCurrent, frameOut, NULL)
    BY <2>1, ToldClean DEF Now
  <2>. QED
    BY <2>1, <2>2 DEF Invariant, Ready
<1>. QED
  BY <1>1, <1>2, <1>3

LEMMA NowType ==
    ASSUME Now
    PROVE  /\ ip \in Mem /\ ip.defect = "none"
           /\ Messages(ip.queue, packetCurrent, frameOut, packetOut)
           /\ Counted(ip.queue, Waiting(ip), frameOut, packetOut)
           /\ Good(ip, Handful(ip.queue, packetCurrent, frameOut))
  BY CleanType DEF Now

\* What leaves the frames in hand in hand
LEMMA WorksInvariant ==
    ASSUME Now, Bad(ip') \/ Works(ip, ip', Handful(ip.queue, packetCurrent, frameOut)),
           UNCHANGED <<packetCurrent, packetOut, frameOut>>
    PROVE  Invariant'
<1>1. CASE Bad(ip')
  BY <1>1 DEF Invariant, Ready
<1>2. CASE Works(ip, ip', Handful(ip.queue, packetCurrent, frameOut))
  <2>1. Clean(ip', packetCurrent, frameOut, packetOut)
    BY <1>2, NowType, WorksClean
  <2>. QED
    BY <2>1 DEF Invariant, Ready
<1>. QED
  BY <1>1, <1>2

\* IPMainThread
LEMMA MainMessageStep ==
    ASSUME Now, MainMessage
    PROVE  Invariant'
<1>. DEFINE x == Head(ip.queue)
            a == [ip EXCEPT !.queue = Tail(@)]
            b == IF x.frame = frameOut THEN a ELSE [a EXCEPT !.defect = "assert"]
<1>0. ip.queue # <<>> /\ packetCurrent' = packetCurrent
  BY DEF MainMessage
<1>1. ASSUME x.kind = 0, NEW o \in Outcomes(a, x.frame),
             StartSend(IF o.rc = 0 THEN FrameFree(o.m, x.frame) ELSE o.m, frameOut)
      PROVE  Invariant'
  <2>. DEFINE n == IF o.rc = 0 THEN FrameFree(o.m, x.frame) ELSE o.m
  <2>1. Ready(n, packetCurrent, frameOut, packetOut)
    BY <1>0, <1>1, PacketReady DEF Now
  <2>2. StartSend(n, frameOut)
    BY <1>1
  <2>. HIDE DEF n
  <2>. QED
    BY <1>0, <2>1, <2>2, StartSendReady
<1>2. ASSUME x.kind = 1, StartSend(IPFrameReschedule(b, x.frame), NULL)
      PROVE  Invariant'
  <2>. DEFINE n == IPFrameReschedule(b, x.frame)
  <2>1. Clean(n, packetCurrent, NULL, packetOut)
    BY <1>0, <1>2, SentClean DEF Now
  <2>2. StartSend(n, NULL)
    BY <1>2
  <2>. HIDE DEF n
  <2>. QED
    BY <1>0, <2>1, <2>2, StartSendReady DEF Ready
<1>3. ASSUME x.kind = 2, StartSend(a, frameOut)
      PROVE  Invariant'
  <2>1. Clean(a, packetCurrent, frameOut, packetOut)
    BY <1>0, <1>3, WokenClean DEF Now
  <2>. HIDE DEF a
  <2>. QED
    BY <1>0, <1>3, <2>1, StartSendReady DEF Ready
<1>4. \/ x.kind = 0 /\ \E o \in Outcomes(a, x.frame) :
                          StartSend(IF o.rc = 0 THEN FrameFree(o.m, x.frame) ELSE o.m, frameOut)
      \/ x.kind = 1 /\ StartSend(IPFrameReschedule(b, x.frame), NULL)
      \/ x.kind = 2 /\ StartSend(a, frameOut)
  BY Zenon DEF MainMessage
<1>. QED
  BY <1>1, <1>2, <1>3, <1>4

LEMMA MainTimeoutStep ==
    ASSUME Now, MainTimeout
    PROVE  Invariant'
<1>1. StartSend(ip, frameOut) /\ packetCurrent' = packetCurrent
  BY DEF MainTimeout
<1>. QED
  BY <1>1, StartSendReady DEF Now, Ready

\* The clock
LEMMA CloseSettles ==
    ASSUME CloseSettled
    PROVE  Settled(ip)
  BY DEF CloseSettled, Settled, SettledAt, Idle

LEMMA ClockStep ==
    ASSUME Now, MainTick \/ EthernetTick
    PROVE  Invariant'
<1>1. /\ UNCHANGED <<packetCurrent, packetOut, frameOut>>
      /\ ip' = ip \/ (CloseSettled /\ \E second : ip' = IPTick(ip, second))
  BY DEF MainTick, EthernetTick
<1>. DEFINE E == Handful(ip.queue, packetCurrent, frameOut)
<1>2. ip \in Mem /\ Good(ip, E)
  BY NowType
<1>3. CASE ip' = ip
  BY <1>1, <1>3 DEF Now, Invariant, Ready
<1>4. ASSUME CloseSettled, NEW second, ip' = IPTick(ip, second)
      PROVE  Invariant'
  <2>1. Settled(ip)
    BY <1>4, CloseSettles
  <2>. HIDE DEF E
  <2>2. Bad(ip') \/ (Good(ip', E) /\ Ahead(ip, ip'))
    BY <1>2, <1>4, <2>1, TickOutcome
  <2>. QED
    BY <1>1, <2>2, WorksInvariant DEF Works, E
<1>. QED
  BY <1>1, <1>3, <1>4

\* EthernetThread
LEMMA EthernetStep ==
    ASSUME Now, EthernetGet \/ EthernetPacket
    PROVE  Invariant'
<1>1. ASSUME EthernetGet
      PROVE  Invariant'
  <2>. DEFINE g == IPFrameGet(ip, FRAME_COUNT_RCV)
  <2>1. /\ packetCurrent = NULL /\ packetCurrent' = g.f /\ ip' = g.m
        /\ packetOut' = packetOut /\ frameOut' = frameOut
    BY <1>1 DEF EthernetGet
  <2>2. Clean(g.m, g.f, frameOut, packetOut)
    BY <2>1, GetClean, FramesAssumption DEF Now
  <2>. QED
    BY <2>1, <2>2 DEF Invariant, Ready
<1>2. ASSUME EthernetPacket
      PROVE  Invariant'
  <2>. DEFINE f == packetCurrent
              E == Handful(ip.queue, f, frameOut)
  <2>1. PICK o \in Outcomes(ip, f) :
          /\ f # NULL /\ ip' = o.m
          /\ packetCurrent' = IF o.rc = 1 THEN NULL ELSE f
          /\ packetOut' = packetOut /\ frameOut' = frameOut
    BY <1>2 DEF EthernetPacket
  <2>2. ip \in Mem /\ Good(ip, E) /\ Messages(ip.queue, f, frameOut, packetOut)
    BY NowType
  <2>3. f \in E
    BY <2>1, <2>2 DEF Handful, Messages, Link
  <2>4. Outcome(ip, o, E, f)
    <3>. HIDE DEF E
    <3>. QED BY <2>1, <2>2, <2>3, OutcomesGood
  <2>5. CASE Bad(o.m)
    BY <2>1, <2>5 DEF Invariant, Ready
  <2>6. CASE o.rc = 0 /\ Works(ip, o.m, Rest(o, E, f))
    <3>1. Works(ip, ip', E) /\ UNCHANGED <<packetCurrent, packetOut, frameOut>>
      BY <2>1, <2>6 DEF Rest
    <3>. QED
      BY <3>1, WorksInvariant
  <2>7. CASE o.rc = 1 /\ Works(ip, o.m, Rest(o, E, f))
    <3>1. Works(ip, ip', E \ {f}) /\ packetCurrent' = NULL
      BY <2>1, <2>7 DEF Rest
    <3>2. f # frameOut /\ f \notin MessageFrames(ip.queue) /\ NULL \in Link
      BY <2>1, <2>2 DEF Messages, MessageFrames, Link
    <3>3. E \ {f} = Handful(ip.queue, NULL, frameOut)
      BY <3>2, FramesAssumption DEF Handful, MessageFrames
    <3>4. Messages(ip.queue, NULL, frameOut, packetOut)
      <4>1. \A i \in 1 .. Len(ip.queue) : ip.queue[i].kind = 0 => ip.queue[i].frame # NULL
        BY <2>2, FramesAssumption DEF Messages
      <4>. QED
        BY <2>2, <3>2, <4>1 DEF Messages
    <3>5. Clean(ip', NULL, frameOut, packetOut)
      BY <2>2, <3>1, <3>3, <3>4, NowType, WorksClean
    <3>. QED
      BY <2>1, <3>1, <3>5 DEF Invariant, Ready
  <2>. QED
    BY <2>4, <2>5, <2>6, <2>7 DEF Outcome
<1>. QED
  BY <1>1, <1>2

-----------------------------------------------------------------------------
(* The steps of a socket's user *)

\* A socket is opened
LEMMA OpenedGood ==
    ASSUME NEW m, NEW E, Good(m, E), NEW s \in Sockets, NEW x \in SocketState,
           NEW n, n = [m EXCEPT !.sstate[s] = x]
    PROVE  Works(m, n, E)
<1>. DEFINE ss == [m.sstate EXCEPT ![s] = x]
            st == m.stimeout
<1>1. m \in Mem
  BY GoodType
<1>2. ss \in [Sockets -> SocketState] /\ st \in [Sockets -> Nat]
  BY <1>1, FieldTypes
<1>3. n = [m EXCEPT !.stimeout = st, !.sstate = ss]
  BY <1>1 DEF Mem
<1>. HIDE DEF ss, st
<1>4. StateSet(m, n, E, ss, st)
  BY <1>2, <1>3, StateGood
<1>. QED
  BY <1>1, <1>4, GoodType DEF StateSet, Works

\* A frame for the user to fill
LEMMA FillGood ==
    ASSUME NEW m, NEW E, Good(m, E), NEW s \in Sockets, m.user[s] = Done, m.frameSend[s] = NULL,
           NEW g, g = IPFrameGet(m, FRAME_COUNT_SEND), NEW n, n = [g.m EXCEPT !.frameSend[s] = g.f]
    PROVE  Works(m, n, E)
<1>. DEFINE fs == [g.m.frameSend EXCEPT ![s] = g.f]
            D == E \cup {g.f}
<1>1. (g.f = NULL /\ g.m = m) \/ Taken(m, E, g)
  <2>1. FRAME_COUNT_SEND \in Nat
    BY FramesAssumption
  <2>. QED
    BY <2>1, GetGood
<1>2. m \in Mem
  BY GoodType
<1>3. CASE g.f = NULL /\ g.m = m
  <2>1. fs = m.frameSend
    BY <1>2, <1>3, FieldTypes
  <2>2. n = [m EXCEPT !.frameSend = fs]
    BY <1>3
  <2>. HIDE DEF fs
  <2>3. n = m
    BY <1>2, <2>1, <2>2 DEF Mem
  <2>. QED
    BY <1>2, <2>3, AheadKept DEF Works
<1>4. CASE Taken(m, E, g)
  <2>1. /\ g.f \in Frames /\ g.f \notin E /\ Good(g.m, D) /\ Works(m, g.m, D)
        /\ g.m.frameSend[s] = NULL /\ g.m.user[s] = Done
    BY <1>4 DEF Taken, Works, Sent, FramesOnly, SameSockets, SameUsers
  <2>2. D \ {g.f} = E /\ g.f \in D
    BY <2>1
  <2>. HIDE DEF D
  <2>3. g.m \in Mem /\ g.m.defect = "none" /\ D \subseteq Frames
    BY <2>1, GoodType
  <2>4. fs \in [Sockets -> Link] /\ \A r \in Sockets : fs[r] = IF r = s THEN g.f ELSE g.m.frameSend[r]
    <3>1. g.f \in Link
      BY <2>1 DEF Link
    <3>. QED
      BY <2>3, <3>1, FieldTypes
  <2>5. n = [g.m EXCEPT !.frameSend = fs]
    OBVIOUS
  <2>. HIDE DEF fs
  <2>6. /\ n \in Mem /\ n.defect = "none" /\ SameLists(g.m, n) /\ SamePool(g.m, n)
        /\ n.state = g.m.state /\ n.next = g.m.next /\ n.sock = g.m.sock /\ n.lost = g.m.lost
        /\ n.queue = g.m.queue /\ n.user = g.m.user /\ n.frameSend = fs
    <3>1. fs \in [Sockets -> Link]
      BY <2>4
    <3>. QED
      BY <2>3, <2>5, <3>1, ZenonT(60) DEF Mem, SameLists, SamePool
  <2>7. Handed(g.m, n, D, E, g.f, OwnedBy(s))
    <3>1. \A r \in Sockets : ~ Owns(g.m, r, g.f)
      BY <2>1, <2>2, HandOutside
    <3>2. \A r \in Sockets : Owns(n, r, g.f) <=> r = s
      BY <2>1, <2>4, <2>6, <3>1 DEF Owns, Done
    <3>3. \A h \in Frames \ {g.f} : \A r \in Sockets : Owns(n, r, h) <=> Owns(g.m, r, h)
      BY <2>1, <2>4, <2>6, FramesAssumption DEF Owns
    <3>4. \A r \in Sockets : n.user[r].at = "send" => n.frameSend[r] # NULL
      BY <2>1, <2>4, <2>6, FramesAssumption DEF Good, Sound, SocketsRight, Done
    <3>5. g.f \notin g.m.lost
      <4>1. PICK L, P, Where : Sound(g.m, L, P, Where, D)
        BY <2>1 DEF Good
      <4>. QED
        BY <2>1, <2>2, <4>1, PlacesDiffer DEF Sound, Located
    <3>6. \A h \in Frames \ {g.f} : h \in E <=> h \in D
      BY <2>2
    <3>. QED
      BY <2>1, <2>6, <3>2, <3>3, <3>4, <3>5, <3>6, PlacesDiffer DEF Handed
  <2>8. E \in SUBSET Frames /\ OwnedBy(s) \in {Hand, Gone} \cup {OwnedBy(r) : r \in Sockets}
    BY <2>2, <2>3
  <2>9. Good(n, E) /\ SameIn(g.m, n)
    BY <2>1, <2>2, <2>6, <2>7, <2>8, HandGood
  <2>10. Works(g.m, n, E)
    BY <2>3, <2>6, <2>9, WorksIn
  <2>. QED
    BY <1>2, <2>1, <2>10, WorksWorks
<1>. QED
  BY <1>1, <1>3, <1>4

\* Who owns a frame is the only one, and it is in no other place
LEMMA OwnerAlone ==
    ASSUME NEW m, NEW E, Good(m, E), NEW s \in Sockets, NEW f \in Frames, Owns(m, s, f)
    PROVE  /\ f \notin E /\ f \notin m.lost /\ \A r \in Sockets : Owns(m, r, f) => r = s
           /\ \A l \in Lists : f \notin In(m, l)
<1>1. PICK L, P, Where : Sound(m, L, P, Where, E)
  BY DEF Good
<1>2. Where[f] = OwnedBy(s)
  BY <1>1 DEF Sound, Located
<1>3. f \notin E /\ f \notin m.lost /\ \A r \in Sockets : Owns(m, r, f) => r = s
  BY <1>1, <1>2, PlacesDiffer DEF Sound, Located
<1>. QED
  BY <1>3, HandOutside

\* Its user gives a socket's frame to IPSendFrame
LEMMA FlushStartGood ==
    ASSUME NEW m, NEW E, Good(m, E), NEW s \in Sockets, m.user[s] = Done,
           NEW f, f = m.frameSend[s], f # NULL, NEW to \in {"flush", "close"},
           NEW n, n = [ArpLookup(IPSendPacket(m, s, f, TRUE), f) EXCEPT
                         !.user[s] = [call |-> to, at |-> "send"]]
    PROVE  Works(m, n, E)
<1>. DEFINE a == IPSendPacket(m, s, f, TRUE)
            b == ArpLookup(a, f)
            u == [call |-> to, at |-> "send"]
            us == [b.user EXCEPT ![s] = u]
<1>1. m \in Mem /\ f \in Frames /\ Owns(m, s, f)
  BY GoodType, FieldTypes DEF Link, Owns, Done
<1>2. Addressed(m, a, E, s, f)
  <2>1. f \notin In(m, "resend") /\ s \in Sockets \cup {NULL} /\ TRUE \in BOOLEAN
    BY <1>1, OwnerAlone, ListNames
  <2>. QED
    BY <1>1, <2>1, PacketGood
<1>. HIDE DEF a
<1>3. Fine(a, b, E) /\ Fine(m, a, E)
  BY <1>2, LookupGood DEF Addressed, Fine
<1>4. n = [b EXCEPT !.user = us] /\ us = [b.user EXCEPT ![s] = u]
  BY DEF a
<1>. HIDE DEF b
<1>5. Fine(m, b, E) /\ b \in Mem /\ b.defect = "none"
  BY <1>1, <1>3, FineFine, GoodType DEF Fine
<1>6. b.user = m.user /\ b.frameSend = m.frameSend
  BY <1>5 DEF Fine, Sent, FramesOnly, SameSockets, SameUsers
<1>7. us \in [Sockets -> UserState] /\ us[s] = u /\ \A r \in Sockets \ {s} : us[r] = b.user[r]
  <2>1. u \in UserState
    BY DEF UserState
  <2>. HIDE DEF u
  <2>. QED
    BY <1>5, <2>1, FieldTypes
<1>. HIDE DEF us
<1>8. /\ n \in Mem /\ n.defect = "none" /\ SamePlaces(b, n) /\ n.sock = b.sock /\ n.queue = b.queue
      /\ n.user = us /\ n.frameSend = b.frameSend
  BY <1>4, <1>5, <1>7, ZenonT(60) DEF Mem, SamePlaces, SameLists, SamePool
<1>9. SameOwners(b, n)
  <2>1. u.at = "send"
    OBVIOUS
  <2>2. \A r \in Sockets : b.user[r].at = "send" => b.frameSend[r] # NULL
    BY <1>5 DEF Fine, Good, Sound, SocketsRight
  <2>. HIDE DEF u
  <2>. QED
    <3>1. ASSUME NEW r \in Sockets
          PROVE  /\ \A h \in Frames : Owns(n, r, h) <=> Owns(b, r, h)
                 /\ n.user[r].at = "send" => n.frameSend[r] # NULL
      <4>1. n.frameSend[r] = b.frameSend[r]
        BY <1>8
      <4>2. CASE r = s
        <5>1. n.user[r].at = "send" /\ b.user[r].at = "idle"
          <6>1. n.user[r] = u /\ b.user[r] = Done
            BY <1>6, <1>7, <1>8, <4>2
          <6>2. Done.at = "idle"
            BY DEF Done
          <6>. QED
            BY <2>1, <6>1, <6>2
        <5>2. n.frameSend[r] # NULL
          BY <1>6, <4>1, <4>2
        <5>. QED
          BY <4>1, <5>1, <5>2 DEF Owns
      <4>3. CASE r # s
        <5>1. n.user[r] = b.user[r]
          BY <1>7, <1>8, <4>3
        <5>. QED
          BY <2>2, <4>1, <5>1 DEF Owns
      <4>. QED
        BY <4>2, <4>3
    <3>. QED
      BY <3>1 DEF SameOwners
<1>10. Good(n, E) /\ SameIn(b, n)
  BY <1>5, <1>8, <1>9, SameGood DEF Fine
<1>11. Works(b, n, E)
  BY <1>5, <1>8, <1>10, WorksIn
<1>. QED
  BY <1>1, <1>5, <1>11, WorksFine, WorksWorks

\* It is sent, or put into the list to send
LEMMA FlushSendGood ==
    ASSUME NEW m, NEW E, Good(m, E), NEW s \in Sockets, m.user[s].at = "send",
           NEW f, f = m.frameSend[s], NEW n, n = Transmit([m EXCEPT !.user[s].at = "sent"], f)
    PROVE  Works(m, n, E)
<1>. DEFINE u == [m.user[s] EXCEPT !.at = "sent"]
            us == [m.user EXCEPT ![s] = u]
            k == [m EXCEPT !.user = us]
            D == E \cup {f}
<1>1. m \in Mem /\ m.defect = "none" /\ E \subseteq Frames
  BY GoodType
<1>2. f \in Frames
  BY <1>1, FieldTypes DEF Good, Sound, SocketsRight, Link
<1>3. Owns(m, s, f)
  BY DEF Owns
<1>4. us \in [Sockets -> UserState] /\ us[s].at = "sent" /\ \A r \in Sockets \ {s} : us[r] = m.user[r]
  <2>1. m.user[s] \in UserState /\ m.user \in [Sockets -> UserState]
    BY <1>1, FieldTypes
  <2>2. u \in UserState /\ u.at = "sent"
    BY <2>1 DEF UserState
  <2>. HIDE DEF u
  <2>. QED
    BY <2>1, <2>2
<1>5. n = Transmit(k, f)
  OBVIOUS
<1>. HIDE DEF us
<1>6. /\ k \in Mem /\ k.defect = "none" /\ SameLists(m, k) /\ SamePool(m, k)
      /\ k.state = m.state /\ k.next = m.next /\ k.sock = m.sock /\ k.lost = m.lost
      /\ k.queue = m.queue /\ k.user = us /\ k.frameSend = m.frameSend
  BY <1>1, <1>4 DEF Mem, SameLists, SamePool
<1>. HIDE DEF k
<1>7. f \notin E /\ f \notin m.lost /\ \A r \in Sockets : Owns(m, r, f) => r = s
  BY <1>2, <1>3, OwnerAlone
<1>8. Handed(m, k, E, D, f, Hand)
  <2>1. \A r \in Sockets : ~ Owns(k, r, f)
    BY <1>4, <1>6, <1>7 DEF Owns
  <2>2. \A h \in Frames \ {f} : \A r \in Sockets : Owns(k, r, h) <=> Owns(m, r, h)
    BY <1>4, <1>6 DEF Owns
  <2>3. \A r \in Sockets : k.user[r].at = "send" => k.frameSend[r] # NULL
    BY <1>4, <1>6 DEF Good, Sound, SocketsRight
  <2>4. f \in D /\ \A h \in Frames \ {f} : h \in D <=> h \in E
    OBVIOUS
  <2>. QED
    BY <1>6, <1>7, <2>1, <2>2, <2>3, <2>4, PlacesDiffer DEF Handed
<1>9. D \in SUBSET Frames /\ f \in D /\ D \ {f} = E
  BY <1>1, <1>2, <1>7
<1>. HIDE DEF D
<1>10. Good(k, D) /\ SameIn(m, k)
  BY <1>2, <1>3, <1>6, <1>8, <1>9, HandGood
<1>11. Fine(k, n, E)
  <2>1. Fine(k, n, D \ {f})
    BY <1>5, <1>9, <1>10, TransmitGood
  <2>. QED
    BY <1>9, <2>1
<1>12. Works(m, k, D)
  BY <1>1, <1>6, <1>10, WorksIn
<1>. QED
  BY <1>1, <1>11, <1>12, WorksFine, WorksWorks

\* The socket has it no longer
LEMMA FlushEndGood ==
    ASSUME NEW m, NEW E, Good(m, E), NEW s \in Sockets, m.user[s].at = "sent",
           NEW n, n = [m EXCEPT !.frameSend[s] = NULL, !.user[s] = Done]
    PROVE  Works(m, n, E)
<1>. DEFINE us == [m.user EXCEPT ![s] = Done]
            fs == [m.frameSend EXCEPT ![s] = NULL]
<1>1. m \in Mem /\ m.defect = "none"
  BY GoodType
<1>2. /\ us \in [Sockets -> UserState] /\ fs \in [Sockets -> Link]
      /\ us[s] = Done /\ fs[s] = NULL
      /\ \A r \in Sockets \ {s} : us[r] = m.user[r] /\ fs[r] = m.frameSend[r]
  <2>1. Done \in UserState /\ NULL \in Link
    BY DEF Done, UserState, Link
  <2>. QED
    BY <1>1, <2>1, FieldTypes
<1>3. n = [m EXCEPT !.frameSend = fs, !.user = us]
  OBVIOUS
<1>. HIDE DEF us, fs
<1>4. /\ n \in Mem /\ n.defect = "none" /\ SamePlaces(m, n) /\ n.sock = m.sock /\ n.queue = m.queue
      /\ n.user = us /\ n.frameSend = fs
  <2>1. us \in [Sockets -> UserState] /\ fs \in [Sockets -> Link]
    BY <1>2
  <2>. QED
    BY <1>1, <1>3, <2>1, ZenonT(60) DEF Mem, SamePlaces, SameLists, SamePool
<1>5. SameOwners(m, n)
  <2>1. \A r \in Sockets : m.user[r].at = "send" => m.frameSend[r] # NULL
    BY DEF Good, Sound, SocketsRight
  <2>2. \A f \in Frames : f # NULL
    BY FramesAssumption
  <2>. QED
    BY <1>2, <1>4, <2>1, <2>2 DEF SameOwners, Owns, Done
<1>6. Good(n, E) /\ SameIn(m, n)
  BY <1>4, <1>5, SameGood
<1>. QED
  BY <1>1, <1>4, <1>6, WorksIn

\* A reader takes the oldest frame
LEMMA ReadGood ==
    ASSUME NEW m, NEW E, Good(m, E), NEW s \in Sockets, NEW f, f = m.tail[s], f # NULL,
           NEW k, k = FrameRemove(m, s, f),
           NEW n, n = FrameFree(k, f) \/ n = TCPSendPacket(k, s, f, FALSE)
    PROVE  Works(m, n, E)
<1>. DEFINE q == ListFrames(m, s)
            D == E \cup {f}
<1>1. m \in Mem /\ s \in Lists
  BY GoodType, ListNames
<1>2. /\ q \in Seq(Frames) /\ m.tail[s] = Final(q)
      /\ \A i \in 1 .. Len(q) : q[i] \in In(m, s)
  BY <1>1, GoodList
<1>. HIDE DEF q
<1>3. f \in In(m, s)
  <2>1. q # <<>>
    BY <1>2 DEF Final
  <2>2. Len(q) \in 1 .. Len(q)
    BY <1>2, <2>1
  <2>. QED
    BY <1>2, <2>1, <2>2 DEF Final
<1>4. Cut(m, k, E, s, f)
  BY <1>1, <1>3, RemoveGood
<1>5. Good(k, D) /\ f \in D /\ D \ {f} = E /\ Works(m, k, D)
  BY <1>4, ListNames DEF Cut, Works, FramesOnly
<1>. HIDE DEF D
<1>6. Fine(k, n, E)
  <2>1. CASE n = FrameFree(k, f)
    <3>1. Freed(k, n, D, f)
      BY <1>5, <2>1, FreeGood
    <3>. QED
      BY <1>5, <3>1 DEF Freed, Fine
  <2>2. CASE n = TCPSendPacket(k, s, f, FALSE)
    <3>1. s \in Sockets \cup {NULL} /\ FALSE \in BOOLEAN
      OBVIOUS
    <3>2. Fine(k, n, D \ {f})
      BY <1>5, <2>2, <3>1, TcpSendGood
    <3>. QED
      BY <1>5, <3>2
  <2>. QED
    BY <2>1, <2>2
<1>. QED
  BY <1>1, <1>5, <1>6, WorksFine, WorksWorks

LEMMA UserStep ==
    ASSUME Now, NEW s \in Sockets, User(s)
    PROVE  Invariant'
<1>. DEFINE E == Handful(ip.queue, packetCurrent, frameOut)
<1>1. ip \in Mem /\ Good(ip, E) /\ Works(ip, ip, E)
  BY NowType, AheadKept DEF Works
<1>. HIDE DEF E
<1>2. UNCHANGED <<packetCurrent, packetOut, frameOut>>
  BY DEF User, IPOpen, IPWriteFill, IPWriteUdp, FlushStart, FlushSend, FlushEnd, IPRead, CloseSocket
<1>3. ASSUME IPOpen(s)
      PROVE  Works(ip, ip', E)
  <2>. DEFINE a == [ip EXCEPT !.sstate[s] = "tcp"]
  <2>1. ip' = [ip EXCEPT !.sstate[s] = "udp"] \/ ip' = Reply(a, s, 0, TRUE)
    BY <1>3 DEF IPOpen
  <2>2. "udp" \in SocketState /\ "tcp" \in SocketState
    BY DEF SocketState
  <2>3. CASE ip' = [ip EXCEPT !.sstate[s] = "udp"]
    BY <1>1, <2>2, <2>3, OpenedGood
  <2>4. CASE ip' = Reply(a, s, 0, TRUE)
    <3>1. Works(ip, a, E)
      BY <1>1, <2>2, OpenedGood
    <3>. HIDE DEF a
    <3>2. s \in Sockets \cup {NULL} /\ 0 \in Nat /\ TRUE \in BOOLEAN
      OBVIOUS
    <3>3. Works(a, ip', E)
      BY <2>4, <3>1, <3>2, ReplyWorks DEF Works
    <3>. QED
      BY <1>1, <3>1, <3>3, WorksWorks
  <2>. QED
    BY <2>1, <2>3, <2>4
<1>4. ASSUME IPWriteFill(s)
      PROVE  Works(ip, ip', E)
  <2>. DEFINE g == IPFrameGet(ip, FRAME_COUNT_SEND)
  <2>1. ip.user[s] = Done /\ ip.frameSend[s] = NULL /\ ip' = [g.m EXCEPT !.frameSend[s] = g.f]
    BY <1>4 DEF IPWriteFill, Idle
  <2>2. g = IPFrameGet(ip, FRAME_COUNT_SEND)
    OBVIOUS
  <2>. HIDE DEF g
  <2>. QED
    BY <1>1, <2>1, <2>2, FillGood
<1>5. ASSUME IPWriteUdp(s)
      PROVE  Works(ip, ip', E)
  <2>1. s \in Sockets \cup {NULL} /\ FRAME_COUNT_SEND \in Nat /\ TRUE \in BOOLEAN
    BY FramesAssumption
  <2>2. ip' = Reply(ip, s, FRAME_COUNT_SEND, TRUE)
    BY <1>5 DEF IPWriteUdp
  <2>. QED
    BY <1>1, <2>1, <2>2, ReplyWorks
<1>6. ASSUME FlushStart(s)
      PROVE  Works(ip, ip', E)
  <2>. DEFINE f == ip.frameSend[s]
  <2>1. PICK to \in {"flush", "close"} :
          ip' = [ArpLookup(IPSendPacket(ip, s, f, TRUE), f) EXCEPT
                   !.user[s] = [call |-> to, at |-> "send"]]
    BY <1>6 DEF FlushStart
  <2>2. ip.user[s] = Done /\ f # NULL
    BY <1>6 DEF FlushStart, Idle
  <2>. QED
    BY <1>1, <2>1, <2>2, FlushStartGood
<1>7. ASSUME FlushSend(s)
      PROVE  Works(ip, ip', E)
  <2>1. ip.user[s].at = "send" /\ ip' = Transmit([ip EXCEPT !.user[s].at = "sent"], ip.frameSend[s])
    BY <1>7 DEF FlushSend
  <2>. QED
    BY <1>1, <2>1, FlushSendGood
<1>8. ASSUME NEW a, Works(ip, a, E), ip' = CloseRest(a, s)
      PROVE  Bad(ip') \/ Works(ip, ip', E)
  <2>1. a \in Mem /\ Good(a, E)
    BY <1>8, GoodType DEF Works
  <2>2. Bad(ip') \/ Finished(a, ip', E, s)
    BY <1>8, <2>1, RestOutcome
  <2>3. Finished(a, ip', E, s) => Works(a, ip', E)
    BY DEF Finished, Shut, Works
  <2>. QED
    BY <1>1, <1>8, <2>2, <2>3, WorksWorks
<1>9. ASSUME FlushEnd(s)
      PROVE  Bad(ip') \/ Works(ip, ip', E)
  <2>. DEFINE a == [ip EXCEPT !.frameSend[s] = NULL, !.user[s] = Done]
  <2>1. ip.user[s].at = "sent" /\ (ip' = a \/ ip' = CloseRest(a, s))
    BY <1>9 DEF FlushEnd
  <2>2. Works(ip, a, E)
    BY <1>1, <2>1, FlushEndGood
  <2>. HIDE DEF a
  <2>. QED
    BY <1>8, <2>1, <2>2
<1>10. ASSUME IPRead(s)
       PROVE  Works(ip, ip', E)
  <2>. DEFINE f == ip.tail[s]
              k == FrameRemove(ip, s, f)
  <2>1. f # NULL /\ (ip' = FrameFree(k, f) \/ ip' = TCPSendPacket(k, s, f, FALSE))
    BY <1>10 DEF IPRead
  <2>. QED
    BY <1>1, <2>1, ReadGood
<1>11. ASSUME CloseSocket(s)
       PROVE  Bad(ip') \/ Works(ip, ip', E)
  <2>1. ip' = CloseRest(ip, s)
    BY <1>11 DEF CloseSocket
  <2>. QED
    BY <1>1, <1>8, <2>1
<1>12. Bad(ip') \/ Works(ip, ip', E)
  BY <1>3, <1>4, <1>5, <1>6, <1>7, <1>9, <1>10, <1>11 DEF User
<1>. QED
  BY <1>2, <1>12, WorksInvariant DEF E

\* A step of the network, the device or a user
LEMMA StepInvariant ==
    ASSUME Invariant, [Next]_vars
    PROVE  Invariant'
<1>1. CASE UNCHANGED vars
  BY <1>1 DEF vars, Invariant
<1>2. CASE Next
  <2>1. Now /\ (Network \/ \E s \in Sockets : User(s))
    BY <1>2 DEF Next, Invariant, Ready, Bad, Now
  <2>2. CASE Network
    BY <2>1, <2>2, UartStep, MainMessageStep, MainTimeoutStep, ClockStep, EthernetStep DEF Network
  <2>3. CASE \E s \in Sockets : User(s)
    BY <2>1, <2>3, UserStep
  <2>. QED
    BY <2>1, <2>2, <2>3
<1>. QED
  BY <1>1, <1>2

-----------------------------------------------------------------------------
(* The start, and the theorem *)

LEMMA InitInvariant ==
    ASSUME IPInit
    PROVE  Invariant
<1>1. PICK pool \in SetToSeqs(Frames), sendFunc \in BOOLEAN :
          ip = [sendFunc  |-> sendFunc,
                state     |-> [f \in Frames |-> 0],
                next      |-> [f \in Frames |->
                                 LET i == CHOOSE j \in DOMAIN pool : pool[j] = f
                                 IN IF i = Len(pool) THEN NULL ELSE pool[i + 1]],
                prev      |-> [f \in Frames |-> NULL],
                sock      |-> [f \in Frames |-> NULL],
                counted   |-> [f \in Frames |-> FALSE],
                timeout   |-> [f \in Frames |-> 0],
                retry     |-> [f \in Frames |-> 0],
                head      |-> [l \in Lists |-> NULL],
                tail      |-> [l \in Lists |-> NULL],
                freeHead  |-> pool[1],
                freeCount |-> Len(pool),
                queue     |-> <<>>,
                sstate    |-> [s \in Sockets |-> "none"],
                stimeout  |-> [s \in Sockets |-> 0],
                macKnown  |-> [s \in Sockets |-> FALSE],
                frameSend |-> [s \in Sockets |-> NULL],
                user      |-> [s \in Sockets |-> Done],
                lost      |-> {},
                defect    |-> "none"]
  BY Zenon DEF IPInit
<1>2. packetCurrent = NULL /\ packetOut = NULL /\ frameOut = NULL
  BY DEF IPInit
<1>. DEFINE nx == [f \in Frames |->
                     LET i == CHOOSE j \in DOMAIN pool : pool[j] = f
                     IN IF i = Len(pool) THEN NULL ELSE pool[i + 1]]
            place(j) == IF j = Len(pool) THEN NULL ELSE pool[j + 1]
\* The pool names each frame once
<1>3. pool \in Seq(Frames) /\ IsInjective(pool) /\ Range(pool) = Frames /\ Len(pool) \in Nat
  <2>1. /\ pool \in [1 .. Cardinality(Frames) -> Frames]
        /\ IsInjective(pool) /\ \A f \in Frames : \E j \in DOMAIN pool : pool[j] = f
    <3>. DEFINE c == Cardinality(Frames)
    <3>1. c \in Nat /\ IsFiniteSet(Frames)
      BY FramesAssumption, FS_CardinalityType
    <3>2. pool \in [1 .. c -> Frames] /\ \A i, j \in 1 .. c : i # j => pool[i] # pool[j]
      BY DEF SetToSeqs
    <3>3. Cardinality(1 .. c) = c
      BY <3>1, FS_Interval
    <3>4. pool \in Injection(1 .. c, Frames)
      <4>. HIDE DEF c
      <4>. QED BY <3>2 DEF Injection, IsInjective
    <3>5. pool \in Surjection(1 .. c, Frames)
      <4>. HIDE DEF c
      <4>1. Cardinality(1 .. c) = Cardinality(Frames)
        BY <3>3 DEF c
      <4>. QED BY <3>1, <3>4, <4>1, FS_Injection
    <3>. HIDE DEF c
    <3>6. pool \in [1 .. c -> Frames] /\ IsInjective(pool) /\ \A f \in Frames : \E j \in DOMAIN pool : pool[j] = f
      BY <3>4, <3>5 DEF Injection, Surjection
    <3>. QED
      BY <3>6 DEF c
  <2>2. Cardinality(Frames) \in Nat
    BY FrameCountNat DEF FrameCount
  <2>3. pool \in Seq(Frames) /\ Len(pool) = Cardinality(Frames)
    BY <2>1, <2>2
  <2>4. Range(pool) = Frames
    BY <2>1 DEF Range
  <2>. QED
    BY <2>1, <2>2, <2>3, <2>4
<1>4. Len(pool) # 0 /\ pool # <<>> /\ pool[1] \in Frames
  <2>1. Frames # {}
    BY FramesAssumption
  <2>2. pool # <<>>
    BY <1>3, <2>1 DEF Range
  <2>. QED
    BY <1>3, <2>2
<1>5. \A j \in 1 .. Len(pool) : nx[pool[j]] = place(j)
  <2>. SUFFICES ASSUME NEW j \in 1 .. Len(pool)
                PROVE  nx[pool[j]] = place(j)
    OBVIOUS
  <2>. DEFINE i == CHOOSE h \in DOMAIN pool : pool[h] = pool[j]
  <2>1. pool[j] \in Frames /\ DOMAIN pool = 1 .. Len(pool)
    BY <1>3
  <2>2. i \in DOMAIN pool /\ pool[i] = pool[j]
    BY <2>1
  <2>3. nx[pool[j]] = place(i)
    BY <2>1
  <2>. HIDE DEF i, nx, place
  <2>4. i = j
    BY <1>3, <2>1, <2>2 DEF IsInjective
  <2>. QED
    BY <2>3, <2>4
<1>6. nx \in [Frames -> Link]
  <2>. SUFFICES ASSUME NEW f \in Frames
                PROVE  nx[f] \in Link
    OBVIOUS
  <2>1. PICK j \in 1 .. Len(pool) : pool[j] = f
    BY <1>3 DEF Range
  <2>2. nx[f] = place(j)
    <3>. HIDE DEF nx, place
    <3>. QED BY <1>5, <2>1
  <2>. HIDE DEF nx
  <2>3. place(j) \in Link
    BY <1>3, <2>1 DEF Link
  <2>. QED
    BY <2>2, <2>3
<1>. HIDE DEF nx
<1>7. ip = [sendFunc  |-> sendFunc,
            state     |-> [f \in Frames |-> 0],
            next      |-> nx,
            prev      |-> [f \in Frames |-> NULL],
            sock      |-> [f \in Frames |-> NULL],
            counted   |-> [f \in Frames |-> FALSE],
            timeout   |-> [f \in Frames |-> 0],
            retry     |-> [f \in Frames |-> 0],
            head      |-> [l \in Lists |-> NULL],
            tail      |-> [l \in Lists |-> NULL],
            freeHead  |-> pool[1],
            freeCount |-> Len(pool),
            queue     |-> <<>>,
            sstate    |-> [s \in Sockets |-> "none"],
            stimeout  |-> [s \in Sockets |-> 0],
            macKnown  |-> [s \in Sockets |-> FALSE],
            frameSend |-> [s \in Sockets |-> NULL],
            user      |-> [s \in Sockets |-> Done],
            lost      |-> {},
            defect    |-> "none"]
  BY <1>1, Zenon DEF nx
<1>8. ip \in Mem
  <2>1. /\ NULL \in Link /\ "none" \in SocketState /\ Done \in UserState /\ "none" \in Defects
        /\ pool[1] \in Link /\ Len(pool) \in Int /\ <<>> \in Seq(Message)
    BY <1>3, <1>4 DEF Link, SocketState, Done, UserState, Defects
  <2>. HIDE DEF place
  <2>. QED
    BY <1>6, <1>7, <2>1 DEF Mem
<1>9. /\ ip.state = [f \in Frames |-> 0] /\ ip.next = nx
      /\ ip.head = [l \in Lists |-> NULL] /\ ip.tail = [l \in Lists |-> NULL]
      /\ ip.freeHead = pool[1] /\ ip.freeCount = Len(pool) /\ ip.queue = <<>>
      /\ ip.frameSend = [s \in Sockets |-> NULL] /\ ip.user = [s \in Sockets |-> Done]
      /\ ip.lost = {} /\ ip.defect = "none"
  BY <1>7
<1>10. Messages(ip.queue, packetCurrent, frameOut, packetOut)
       /\ Handful(ip.queue, packetCurrent, frameOut) = {}
  BY <1>2, <1>9 DEF Messages, Link, Handful, MessageFrames
<1>. DEFINE L == [l \in Lists |-> <<>>]
            Where == [f \in Frames |-> Pool]
<1>11. Sound(ip, L, pool, Where, {})
  <2>1. L \in [Lists -> Seq(Frames)]
    OBVIOUS
  <2>2. \A l \in Lists : Links(ip, l, L[l])
    BY <1>9 DEF Links, First, Final, Chained, Back, IsInjective
  <2>3. PoolLinks(ip, pool)
    BY <1>3, <1>4, <1>5, <1>9 DEF PoolLinks, First, Chained
  <2>4. Located(ip, L, pool, Where, {})
    <3>1. \A s \in Sockets : \A f \in Frames : ~ Owns(ip, s, f)
      BY <1>9, FramesAssumption DEF Owns
    <3>2. \A l \in Lists : Range(L[l]) = {}
      BY DEF Range
    <3>3. \A f \in Frames : Where[f] = Pool
      OBVIOUS
    <3>. HIDE DEF L, Where
    <3>. QED
      BY <1>3, <1>9, <3>1, <3>2, <3>3, PlacesDiffer DEF Located
  <2>5. StatesRight(ip, Where)
    BY <1>9, PlacesDiffer DEF StatesRight
  <2>6. SocketsRight(ip, L)
    <3>1. Range(L["resend"]) = {}
      BY ListNames DEF Range
    <3>2. \A s \in Sockets : ip.user[s].at = "idle"
      BY <1>9 DEF Done
    <3>. QED
      BY <3>1, <3>2 DEF SocketsRight
  <2>. QED
    BY <2>1, <2>2, <2>3, <2>4, <2>5, <2>6 DEF Sound
<1>. HIDE DEF L, Where
<1>12. Good(ip, {})
  BY <1>8, <1>9, <1>11 DEF Good
<1>13. Counted(ip.queue, Waiting(ip), frameOut, packetOut)
  <2>1. Len(ip.queue) = 0 /\ frameOut = NULL
    <3>1. ip.queue = <<>>
      BY <1>9
    <3>. QED
      BY <1>2, <3>1
  <2>2. Len(ip.queue) - 0 <= Cardinality(After(ip.queue, 0)) + Waiting(ip) + 0
    BY <2>1, AfterFinite, WaitingNat
  <2>. QED
    BY <2>1, <2>2 DEF Counted, Owed
<1>. QED
  BY <1>10, <1>12, <1>13 DEF Invariant, Ready, Clean

\* What the property says of frames is what the invariant says
LEMMA InvariantSound ==
    ASSUME Invariant
    PROVE  FramesSound
<1>1. CASE Bad(ip)
  BY <1>1 DEF Bad, FramesSound
<1>2. CASE Now
  <2>. DEFINE E == Handful(ip.queue, packetCurrent, frameOut)
  <2>1. /\ ip \in Mem /\ ip.defect = "none" /\ Messages(ip.queue, packetCurrent, frameOut, packetOut)
        /\ Good(ip, E)
    BY <1>2, NowType
  <2>2. PICK L, P, Where : Sound(ip, L, P, Where, E)
    BY <2>1 DEF Good
  <2>3. /\ \A l \in Lists : ListFrames(ip, l) = L[l]
        /\ Chain(ip, ip.freeHead) = P
    <3>. HIDE DEF E
    <3>. QED BY <2>1, <2>2, SoundLists
  <2>4. \A q : ToSet(q) = Range(q)
    BY DEF ToSet, Range
  <2>5. FreeFrames = Range(P)
    BY <2>3, <2>4 DEF FreeFrames
  <2>6. ip.freeCount = Cardinality(FreeFrames)
    <3>1. P \in Seq(Frames) /\ IsInjective(P) /\ ip.freeCount = Len(P)
      BY <2>2 DEF Sound, PoolLinks
    <3>2. P \in Bijection(1 .. Len(P), Range(P))
      BY <3>1 DEF Bijection, Injection, Surjection, Range
    <3>3. Len(P) \in Nat /\ IsFiniteSet(1 .. Len(P)) /\ Cardinality(1 .. Len(P)) = Len(P)
      <4>1. Len(P) \in Int /\ Len(P) \in Nat /\ 1 \in Int
        BY <3>1
      <4>2. IsFiniteSet(1 .. Len(P)) /\ Cardinality(1 .. Len(P)) = IF 1 > Len(P) THEN 0 ELSE Len(P) - 1 + 1
        BY <4>1, FS_Interval
      <4>. QED
        BY <4>1, <4>2
    <3>4. ExistsBijection(1 .. Len(P), Range(P))
      BY <3>2 DEF ExistsBijection
    <3>. QED
      BY <2>5, <3>1, <3>3, <3>4, FS_Bijection
  <2>7. ASSUME NEW f \in Frames
        PROVE  f \in Held <=> f \in E \/ f \in ip.lost \/ \E s \in Sockets : Owns(ip, s, f)
    <3>. DEFINE A == Placed({packetCurrent, frameOut})
                B == {msg.frame : msg \in {n \in ToSet(ip.queue) : n.kind = 0}}
                C == Placed({ip.frameSend[s] : s \in {t \in Sockets : ip.user[t].at # "sent"}})
    <3>1. f \in A <=> f \in {packetCurrent, frameOut} \ {NULL}
      BY DEF Placed
    <3>2. f \in B <=> f \in MessageFrames(ip.queue)
      <4>1. ip.queue \in Seq(Message)
        BY <2>1, FieldTypes
      <4>2. \A n : n \in ToSet(ip.queue) <=> \E i \in 1 .. Len(ip.queue) : n = ip.queue[i]
        BY <4>1 DEF ToSet
      <4>3. f \in B <=> \E n \in ToSet(ip.queue) : n.kind = 0 /\ f = n.frame
        OBVIOUS
      <4>. HIDE DEF B
      <4>. QED
        BY <4>2, <4>3 DEF MessageFrames
    <3>3. f \in C <=> \E s \in Sockets : Owns(ip, s, f)
      BY FramesAssumption DEF Placed, Owns
    <3>4. Held = A \cup B \cup C \cup ip.lost
      BY DEF Held
    <3>. HIDE DEF A, B, C
    <3>. QED
      BY <3>1, <3>2, <3>3, <3>4 DEF Handful
  <2>. HIDE DEF E
  <2>8. ASSUME NEW f \in Frames
        PROVE  LET at == {l \in Lists : f \in ToSet(ListFrames(ip, l))} IN
               \/ ip.state[f] = 0 /\ f \in FreeFrames /\ at = {} /\ f \notin Held
               \/ ip.state[f] = 1 /\ f \notin FreeFrames /\ at = {} /\ f \in Held
               \/ ip.state[f] = 2 /\ f \notin FreeFrames /\ Cardinality(at) = 1 /\ f \notin Held
               \/ f \in ip.lost /\ f \notin FreeFrames /\ at = {}
    <3>. DEFINE at == {l \in Lists : f \in ToSet(ListFrames(ip, l))}
    <3>1. at = {l \in Lists : Where[f] = InList(l)}
      BY <2>2, <2>3, <2>4 DEF Sound, Located
    <3>. HIDE DEF at
    <3>2. /\ Where[f] \in {Pool, Hand, Gone} \cup {InList(l) : l \in Lists} \cup {OwnedBy(s) : s \in Sockets}
          /\ Where[f] = Pool <=> f \in FreeFrames
          /\ Where[f] = Hand <=> f \in E
          /\ Where[f] = Gone <=> f \in ip.lost
          /\ \A s \in Sockets : Where[f] = OwnedBy(s) <=> Owns(ip, s, f)
      BY <2>2, <2>5 DEF Sound, Located
    <3>3. /\ Where[f] = Pool <=> ip.state[f] = 0
          /\ \A l \in Lists : Where[f] = InList(l) => ip.state[f] = 2
          /\ Where[f] = Hand => ip.state[f] = 1
          /\ \A s \in Sockets : Where[f] = OwnedBy(s) => ip.state[f] = 1
      BY <2>2 DEF Sound, StatesRight
    <3>4. CASE Where[f] \in {Pool, Hand, Gone} \cup {OwnedBy(s) : s \in Sockets}
      <4>1. at = {}
        BY <3>1, <3>4, PlacesDiffer
      <4>. QED
        BY <2>7, <3>2, <3>3, <3>4, <4>1, PlacesDiffer DEF at
    <3>5. ASSUME NEW l \in Lists, Where[f] = InList(l)
          PROVE  ip.state[f] = 2 /\ f \notin FreeFrames /\ Cardinality(at) = 1 /\ f \notin Held
      <4>1. at = {l}
        BY <3>1, <3>5, PlacesDiffer
      <4>2. Cardinality(at) = 1
        BY <4>1, FS_Singleton
      <4>3. f \notin Held
        BY <2>7, <3>2, <3>5, PlacesDiffer
      <4>. QED
        BY <3>2, <3>3, <3>5, <4>2, <4>3, PlacesDiffer
    <3>. QED
      BY <3>2, <3>4, <3>5 DEF at
  <2>9. ASSUME NEW l \in Lists
        PROVE  LET q == ListFrames(ip, l) IN
               /\ ip.tail[l] = IF q = <<>> THEN NULL ELSE Last(q)
               /\ \A i \in DOMAIN q : ip.prev[q[i]] = IF i = 1 THEN NULL ELSE q[i - 1]
    <3>1. /\ ListFrames(ip, l) = L[l] /\ L[l] \in Seq(Frames)
          /\ ip.tail[l] = Final(L[l]) /\ Back(ip.prev, L[l])
      BY <2>2, <2>3 DEF Sound, Links
    <3>. QED
      BY <3>1 DEF Final, Back, Last
  <2>. QED
    BY <2>1, <2>6, <2>8, <2>9 DEF FramesSound
<1>. QED
  BY <1>1, <1>2 DEF Invariant, Ready, Now

LEMMA SpecInvariant == Spec => []Invariant
<1>1. IPInit => Invariant
  BY InitInvariant
<1>2. Invariant /\ [Next]_vars => Invariant'
  BY StepInvariant
<1>. QED
  BY <1>1, <1>2, PTL DEF Spec

\* Each frame is in one place, whatever the network, the device and the users of the sockets do,
\* as long as the code has not lost its way: none is both free and in a list, in two lists or
\* with two holders, the asserts on their states hold, and the links of the lists agree.
THEOREM FramesInPlace == Spec => []FramesSound
<1>1. Spec => []Invariant
  BY SpecInvariant
<1>2. Invariant => FramesSound
  BY InvariantSound
<1>. QED
  BY <1>1, <1>2, PTL

\* There are at most as many messages as frames, and one: what the queue has room for when there
\* is more than one frame
LEMMA InvariantTaken ==
    ASSUME Cardinality(Frames) > 1, Invariant
    PROVE  MessagesTaken
<1>1. CASE Bad(ip)
  BY <1>1 DEF Bad, MessagesTaken
<1>2. CASE Now
  <2>. DEFINE q == ip.queue
  <2>1. /\ Good(ip, Handful(q, packetCurrent, frameOut))
        /\ Messages(q, packetCurrent, frameOut, packetOut)
        /\ Counted(q, Waiting(ip), frameOut, packetOut)
    BY <1>2, NowType
  <2>2. Len(q) < QueueSize
    <3>1. Len(q) <= Cardinality(Frames) + 1
      BY <2>1, CountedBound
    <3>2. Cardinality(Frames) \in Nat /\ Len(q) \in Nat
      BY <2>1, FramesAssumption, FS_CardinalityType DEF Messages
    <3>. QED
      BY <3>1, <3>2 DEF QueueSize
  <2>3. TransmitterAlive
    <3>1. SUFFICES ASSUME frameOut # NULL, packetOut # frameOut
                   PROVE  [kind |-> 1, frame |-> frameOut] \in ToSet(ip.queue)
      BY DEF TransmitterAlive
    <3>2. PICK i \in 1 .. Len(q) : q[i].kind = 1 /\ q[i].frame = frameOut
      BY <2>1, <3>1 DEF Counted
    <3>3. q[i] \in Message
      BY <2>1, <3>2 DEF Messages
    <3>4. q[i] = [kind |-> 1, frame |-> frameOut]
      BY <3>2, <3>3 DEF Message
    <3>. QED
      BY <3>2, <3>4 DEF ToSet
  <2>. QED
    BY <2>2, <2>3 DEF MessagesTaken
<1>. QED
  BY <1>1, <1>2 DEF Invariant, Ready, Now

\* No message is ever refused, though no sender looks whether it was taken, and the end of each
\* transmission of the device is told: with as many places in the queue as twice the frames, when
\* there is more than one (MQueueSend in the driver and in the stack; FRAME_COUNT is 100).
THEOREM MessagesAreTaken ==
    ASSUME Cardinality(Frames) > 1
    PROVE  Spec => []MessagesTaken
<1>1. Spec => []Invariant
  BY SpecInvariant
<1>2. Invariant => MessagesTaken
  BY InvariantTaken
<1>. QED
  BY <1>1, <1>2, PTL
=============================================================================
