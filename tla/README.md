# A verification of the Plasma SoC

This directory holds TLA+ models of the software of the Plasma SoC, the
configurations that model-check them with TLC, and theorems about them that TLAPS
checks. The models are translations of the sources, and `PROJECT.json` names for each
definition the lines it stands for.

## The system

Plasma is a MIPS soft core with a memory controller, a UART and an Ethernet MAC
(`rtl/`), a small RTOS with drivers, a TCP/IP stack, a file system, libraries and
services (`kernel/`), and host tools (`tools/`). `ise/` and `rtl/mig_*` are FPGA
projects and generated memory controllers.

| Component | State | Operations | What is hard | What makes it correct |
| --- | --- | --- | --- | --- |
| Scheduler (`rtos.c` 260–665) | ready list, timeout list, current thread, tick count, deferred reschedule | create, exit, set priority, tick, reschedule | preemption at any instruction; reschedules inside interrupts are deferred and merged; the tick counter wraps | a thread is in one place; the highest priority runs; equals share; waits end in time |
| Semaphores (`rtos.c` 670–765) | count, list of waiting threads | create, delete, pend, post | a post, a timeout and a new wait meet | no wakeup lost or doubled |
| Interrupts (`rtos.c` 1135–1268) | handlers, mask, `InterruptInside` | service routine, tick | runs between any two instructions of a thread | as above |
| Mutex (`rtos.c` 770–825) | owner, count, semaphore | pend, post | fields are written without a lock | exclusion, recursion |
| Message queue (`rtos.c` 830–916) | ring, indices, semaphore | send (also from interrupts), get | storing and announcing are two steps | a bounded FIFO |
| Thread clean-up (`rtos.c` 474–561) | `NeedToFree`, `SemaphoreRelease` | create, exit | who exits cannot free its own stack | freed once, and freed |
| Timers (`rtos.c` 963–1130) | sorted list, timer thread | create, delete, start, stop | fields and clock are read outside the lock | fire when due, not before |
| Spin lock (`rtos.c` 1318–1369) | an entry per CPU | lock, unlock | CPUs look at each other while they move | exclusion |
| Heap (`rtos.c` 146–277) | K&R free list, alternate heap | malloc, free | joining neighbours on a list that wraps | blocks are disjoint, nothing is lost |
| Jobs (`rtos.c` 918–960) | a queue and a thread, made on first use | `OS_Job` | queue full | each accepted job runs once |
| UART (`uart.c`) | two rings, packet buffers | write, read, interrupt, packets | threads and the interrupt share the rings without a lock | bytes in order, nobody sleeps for ever |
| IP frames (`tcpip.c` 200–415, 1083–1148, 1574–1656) | pool of frames, send, resend and read lists | get, free, send, reschedule, tick | frames move between interrupt, driver, main thread and callers | a frame has one owner and comes back |
| TCP (`tcpip.c` 417–925, 1184–1550) | sockets, sequence numbers, windows | open, write, read, close, segments | lost, repeated and reordered segments | the stream is delivered in order |
| UDP, ARP, DHCP, DNS (`tcpip.c` 519–651, 925–1080, 1689–1729) | address, gateway, ARP cache | requests and answers | late, lost and repeated answers | packets go to the right machine |
| Ethernet (`ethernet.c`, `eth_dma.vhd`) | a receive ring filled by DMA | receive, transmit | software reads what hardware still writes | whole packets only, and all of them |
| File system (`filesys.c`, `flash.c`) | blocks of directories and files | open, read, write, seek, close, delete | the medium fills up between two steps | no block in two files |
| Libraries (`math.c`, `libc.c`) | none | floating point, sorting, text, calendar | carries, ends of ranges | the right number |
| Services (`netutil.c`, `http.c`) | sessions | FTP, TFTP, telnet, web | callbacks over sockets | |
| Hardware (`rtl/plasma_core`) | pipeline, cache, DDR controller, UART | one step per clock | cache against memory; refresh against open rows | the CPU reads what it wrote |

Threads interact through the kernel only: they call it in critical sections
(interrupts off), interrupts call it at their level, and every service of the
kernel is built from semaphores. Drivers share memory with their interrupt handlers.
The IP stack is fed by the UART's packets through a message queue, or by the Ethernet
thread; the users of sockets, the network thread and the driver share frames. The
services run as callbacks of sockets on the job thread.

## The modules

    RtosKernel  <-- RtosMutex, RtosMQueue, RtosThreads, RtosTimer      (EXTENDS)
        |  implements              |            |
    CountingSemaphores     RecursiveLock   BoundedQueue       ByteStream
                                 |               |                |
                             SpinLock       UartBuffers       TcpSocket   (implement them)

    IpFrames   FileSystem   RtosHeap   EthernetRing   IpConfig     (invariants of their own)
    WireFormats   SoftFloat   LibC                                 (pure functions)

* **`RtosKernel`** is the scheduler, the semaphores and the interrupt service, for one
  CPU. A critical section is one action, since interrupts are off in it, and so is
  each iteration of the loop of `OS_ThreadTick`, which runs inside the interrupt. A
  linked list is a sequence. `Reschedule` is `OS_ThreadReschedule`, called last by
  the handlers as in the code; its caller hands it the ready list and the thread states
  it has reached. `isr` is where the service routine is: while it is not `"none"` no
  thread moves, and reschedules are deferred into `needReschedule`. `ThreadCreate`,
  `SemaphorePend` and the others are operators of their arguments, so that the modules
  of the services call them as the C code does. `KernelNext` is the kernel under every
  client: any thread calls anything, any handler posts anything.
* **`CountingSemaphores`** says what semaphores promise, without lists or scheduler.
* **`RtosMutex`** has one step per access of a field, since `OS_MutexPend` and
  `OS_MutexPost` are not critical sections. Clients nest calls and sleep while they
  hold the mutex. **`RecursiveLock`** is what it promises.
* **`RtosMQueue`** has the critical section of `OS_MQueueSend` and its post as two
  steps for threads and one for interrupt handlers, and `OS_MQueueGet` as wait,
  look at the result, copy. **`BoundedQueue`** is what it promises.
* **`RtosThreads`** is the clean-up of exited threads, which `OS_ThreadCreate` and
  `OS_ThreadExit` share. The memory of a thread can become a new thread.
* **`RtosTimer`** is `OS_TimerThread` and its clients: reading the clock, looking at
  `active`, each section under `SemaphoreLock` and the wakeup are separate steps.
* **`SpinLock`** is the lock for several CPUs (`OS_CPU_COUNT > 1`), one step for each
  access of the shared array.
* **`RtosHeap`** is `OS_HeapMalloc` and `OS_HeapFree`. The circular list is a sequence
  that ends with `heap->available`; a request goes on to the alternate heap.
* **`UartBuffers`** is the console: two rings, a lock for writers, and the interrupt,
  one step for each access of a member that the other side reads. Its semaphores are
  plain counts with a wait, which `SemaphoresImplemented` justifies; it does not
  extend the kernel, and any thread may run at any time.
* **`IpFrames`** follows the frames. The record `ip` is the memory of `tcpip.c` that has
  to do with them: the links, heads and tails as the code keeps them, the pool, the
  message queue, and of a socket its state, its timeout and its half-filled frame. The
  UART's two interrupt routines, the sections of the network thread (`IPMainThread`, or
  `EthernetThread` when `IPInit` was given a send function) and the steps of a socket's
  user are its actions. A handler is a composition of operators that take a memory
  and give one, in the order of the code's calls. What is in a packet is a choice
  between the outcomes the code distinguishes.
* **`TcpSocket`** is one connection: the numbers, windows and frames of a socket, the
  handling of a segment, retransmission, and the application's calls. Its environment is
  a correct TCP behind a network: at any time a segment may arrive that the peer could
  have sent until now, so loss, repetition, delay and reordering need no state. Frames
  the stack has transmitted stay in `wire`, and may arrive at any time too. What the
  environment may do beyond that is in three constants: `FinMerges`, `LateSynAck` and
  `PeerIsn` (see `Orderly` below).
  **`ByteStream`** is what a connection promises in each direction.
* **`IpConfig`** is how the stack gets its address and the hardware address of its
  gateway: DHCP, its renewal, ARP and the cache, among servers that all answer.
* **`EthernetRing`** is `EthernetReceive` over a ring of words that the DMA fills between
  any two reads of the driver. The driver compares bytes; the seven it looks for (0x5d and
  its address) are in two words, and `lead` is how many of them the first word has.
* **`WireFormats`**, **`SoftFloat`** and **`LibC`** are pure functions next to
  definitions of what they should compute; a state is a sample.
* **`FileSystem`** is `filesys.c` over RAM: blocks, directories that are files of entries,
  open files. A call is a step, since it runs under `mutexFilesys`. `content` records
  what each path should hold.
* `MC*` modules give constants, symmetry sets and views. `MCParts` puts the parts that
  share no state into one specification of which each behaviour follows one part;
  `MCMutexQueue` and `MCCalls` do so for clients of one kernel, the latter for those whose
  progress is checked.
* `ListLemmas`, `RtosKernelProofs`, `RtosServicesProofs`, `RtosTimerProofs`, `PartsProofs`,
  `IpFramesProofs`, `TcpProofs` and `FileSystemProofs` hold the proofs.

A definition whose comment begins "Broken variant" is not part of a specification: it
is the definition after it with a plausible mistake, and exists to show that a
property notices the mistake. `PROJECT.json` pairs each with its property.

### What the models leave out

*Kernel.* Stacks, saved contexts, names and thread-local data; `OS_ThreadCpuLock`, as
the build has one CPU; deleting semaphores, mutexes, queues and timers; which interrupt
bit calls which handler: the service routine may run any number of ticks and posts,
so a property holds for every set of handlers. The memory of an exited thread is given back in
the step that decides to (`ThreadFree`, `rtos.c` 480–484), though `OS_HeapFree` takes the heap's
semaphore first and can wait there: nobody uses that memory meanwhile. `OS_HeapMalloc`
is one step too, with the chain of alternates that the code follows after it has released the
semaphore of the first heap (`rtos.c` 207–210). In between, others may use the heaps, so that
the alternate gives a block though the first heap has room again; `HeapSound` speaks of each
heap for itself, and what happens to each is a step of the model. A wait is assumed shorter than half
the range of the tick counter (`TimeAssumption`): beyond that the signed differences
of the code mean nothing. Packets that share the UART with the console are left out of
`UartBuffers`; they pass by the rings, and only delay them.

*Frames.* The network thread has the highest priority in the system, so each of its
sections is one step; those of a socket's user can be torn apart by it. When the code
has lost its way, the model stops and `ip.defect` says how: an assertion failed, a user
and the network thread have sent the same frame, `IPClose2` has corrected the ends of
the wrong list, or a frame was given to a reader and freed as well. The properties of
run `ip_frames` are about the behaviours until then, and say that the first never
happens; the third is the finding `ip_close`.

*TCP.* Segments of the peer are well formed. A connection that carries bytes is
followed until it is given up, since after that nothing is promised; one without is
followed until its socket is free. A peer to which only the application writes does not
close first. An application that has connected writes when its SYN is acknowledged, one that
was connected to may write in its first callback already, as those of `netutil.c` do (104, 434).
An application has closed a socket before that is freed; a closed socket is freed with its
frames gone.

A connection is `Orderly` if three things do not happen that the checks of
`IPProcessTCPPacket` do not guard against. The model has all three; the properties of the
reading direction are stated for connections without them.

* `LateSynAck`: the network delivers a SYN/ACK again when data has come. The code takes it
  in any state and sets `ack` and `ackProcessed` back (`tcpip.c` 833–838), so data that the
  peer repeats is read twice. With `LateSynAck` TRUE TLC finds `ApplicationGetsStream` violated.
* The numbers of the peer wrap. A FIN is compared with `ack` as an unsigned number
  (`tcpip.c:899`), so one that begins before the wrap can be counted while data before it is
  missing. With `PeerIsn` = 29 of 32 TLC finds `FinAfterData` violated. The stack's own numbers
  do wrap in the runs: the code compares those by signed differences.
* `FinMerges`: the peer repeats data that the socket has in part together with its FIN in one
  segment. This is the finding `tcp_fin`.

*Ethernet.* The DMA does not come round to words that were not read, at most 1500
bytes are unread when the driver starts again, and it starts again once at most. A word is
written and read whole: the bytes of a word that the driver reads one after another are of one
write. The DMA writes words from the first nibble of valid data on (`eth_dma.vhd` 95), so how
many of the driver's seven bytes are in the first word depends on when the PHY says so. They
are four when the data begins with 0x5d, as `ethernet.c:40` has it, and three when a byte of
the preamble comes before; the driver's test for a frame that is still coming in is written for
three (`countOk == 3`, `ethernet.c:99`). `Leads` has both. With one or two the address ends in
the third word; the driver has no rule for these that it has not for four.

*Files.* Users are polite (`Polite`): no file is written by one handle while another has it
open, no directory is opened as a file or deleted while it has entries.

*Widths.* `SoftFloat` has 12 bits of fraction where the code has 24, and exponents of 5
bits where it has 8, and every shift scaled with them. `WireFormats` has bytes of 4 bits,
checksums of 8 and a CRC of 16, with the standard's polynomial of that length.
Sequence numbers are counted modulo 32, the tick counter modulo 3 to 9.

## The runs

| Run | Question | Bounds |
| --- | --- | --- |
| `kernel_safety` | Are threads, lists, counts and timeouts consistent, does the right thread run, and do the semaphores implement the abstract ones? | 3 threads and the idle thread, one semaphore counted to 1, 2 priorities, waits of 1 and 2 ticks, tick counter modulo 5 |
| `mutex_queue` | Does the mutex exclude, and is it a recursive lock, while its holder sleeps or is preempted? Is every message counted, and the ring a bounded queue? | the mutex: 3 threads, 2 priorities, nesting 2; the queue: 2 threads and an interrupt handler, 2 messages, capacity 2 |
| `calls` | Is only exited memory freed; does a creation return, do equals share the CPU, does a receiver beside a message get it, does each timed wait end? | 2 threads that create and exit, or that use a queue of 2 |
| `timer_safety` | Is the timer list sound, and the timer thread asleep no longer than it may be? | 1 client of a lower or the same priority, 2 timers of 2 ticks, tick counter modulo 9, nobody more than 2 ticks late |
| `parts` | Eight parts, one at a time; see below | see below |
| `ip_frames` | Is a frame in one place, and comes back; is no message refused? | 3 frames, one reserved, 1 socket, both kinds of device |
| `tcp` | Does each side read what the other wrote, is every unacknowledged byte kept, is the window honest, is a closed socket freed? | 2 bytes in either direction or one in each, segments of 1 and 2 bytes, 2 tries, 2 FINs, own numbers that wrap after the third; `Orderly` |
| `files` | Has a block one owner, does a file read back, does a handle keep its place? | 4 blocks of one unit, 2 names and a directory, 3 handles, files of up to 3 units |
| `threads_leak` | Is each exited thread freed by the next clean-up, as a comment says? (violated) | 3 threads |
| `timer_early` | Does a timer fire only when its time has come, as a comment says? (violated) | 1 client, 1 timer |
| `ip_close` | Does closing a socket remove its pending packets, as a comment says? (violated) | as `ip_frames` |
| `tcp_fin` | Is a segment without effect when data before it is missing, as a comment says? (violated) | as `tcp`, with `FinMerges` TRUE |

The parts of `parts`, with their bounds: the spin lock (4 CPUs, nesting 2); the console (2
threads that write, one of which reads, rings of 3 places); 2 heaps of 5 units, one the
alternate of the other; the Ethernet ring (3 frames of 3 words, good, bad or another's, and of either alignment,
in a ring of 12 words); DHCP and ARP (2 servers, of which one is its own gateway, 2 cache
entries, 2 losses, repetitions or late messages); packets of up to 3 bytes of 3 values,
every CRC of such a frame and names of up to 3 labels; 144 numbers of either sign whose
exponents are equal, next to each other, far apart and at the ends; arrays of up to 5 items,
integers at the ends of 31 bits, and days of 9 years.

Why the bounds are enough to meet the interesting cases: three threads are the
fewest with a running, a ready and a waiting one, or with a high, a low and an
equal priority; two threads wait on one semaphore while a third posts. Waits of one
and two ticks make lists of timeouts with distinct and equal times, and the counter
wraps in every behaviour that ticks a few times. A queue of two places becomes
empty, partly full and full, and its indices wrap; a UART ring of three places
holds two bytes. Two timers make a list whose first element changes. With three frames the
pool is empty, at its reserve and above it, a list has a first, a middle and a last
frame, and one waits for each use while another is on its way. Two bytes make two
segments, of which one is lost or overtakes the other, or one that a retry cuts
differently. With three free blocks a directory and a file fill the medium and the next
write fails. Every bound is a constant with a comment that says `bound` or a sample set
(`MaxCount`, `MaxDepth`, `MaxNest`, `MaxLag`, `MaxTrouble`, `FrameCount`, `MaxBytes`,
`MaxFin`, `MaxLength`, and `FewPosts`, which keeps posts of `SemaphoreTimer` below
`MaxCount`), and stands in a guard.

`CHECK_DEADLOCK FALSE` stands where the system may stop: in `parts`, where a sample has
no step after it and a spin lock no client is obliged to unlock, in `ip_frames` and
`files`, whose models stop at a defect, and in `tcp`, where a connection ends.

`PriorityChanges` says what clients do with `OS_ThreadPrioritySet`. The kernel runs
allow all of it; the runs of the services none, and give threads fixed priorities.

Symmetry is used in safety runs over threads (the idle thread, the timer thread and
the reader excepted), messages, timers, frames, handles and file names: no action or
property tells them apart. A view identifies states that differ in what is written
again before it is read: times seen from the present in `MCRtosTimer` (every action and
both properties use only differences modulo `TimeWrap`), the fields of frames in no list
in `MCIpFrames`, the contents of free blocks and deleted entries in `MCFileSystem`.

### What the runs show

*The kernel.* `OnePlace`, `SemAccounting` and `ListsInOrder` are the invariants of the
lists. `TimeoutExact` says that a timeout is reported in the very tick asked for, also
across the wrap. `HighestKeepsRunning` says that nothing but a thread's lowering of its
own priority (which the code does not follow with a reschedule) leaves a lower thread
running, deferred reschedules in interrupts included. `SemaphoresImplemented` is the
refinement of `CountingSemaphores`. A semaphore's list need not be sorted as
`rtos.c:280` says: `OS_ThreadPrioritySet` re-sorts only the ready list (`rtos.c:618`).

*The mutex* excludes in all its windows: its name is written after the semaphore is
taken and cleared before it is posted, so no other thread can find its own name there.

*The queue* can leave a receiver asleep beside a message while the sender is
interrupted before its post. `StallEnds` says that this ends; it needs equal
priorities, since a thread of a higher priority can keep the sender from the CPU.

*The heap* hands out disjoint blocks and loses nothing, whatever the order of the
calls, and never leaves two free nodes side by side (`HeapSound`).

*The console.* Writers and the interrupt share `WriteBuffer` without a lock and still
make it a queue. Two weaknesses are visible in the model. First, the check for
a full or empty ring and the counting of the waiting thread are two steps
(`uart.c` 83 and 87, 106 and 110). If the interrupt drains the ring in between, nobody
is posted; `RingsSound` is about waits that have been counted and does not exclude it. A
writer then waits beside an empty ring, with the interrupt switched off and
`SemaphoreUart` taken, so for ever; a reader waits for the next byte, or for ever if
the ring is full by then, because a dropped byte posts nobody. Second, `BufferRead`
stores the read index before it wraps it (`uart.c:115`): an interrupt at that point
finds room in a full ring, and the byte it stores makes the ring look empty. Nothing in
the repository says that a writer gets on, so `BytesGoOut` says that what is in the ring
is sent.

*Frames.* Until the code loses its way in one of the four manners above, each frame is in
one place and the lists are linked soundly in both directions, though frames are taken in
interrupts, sent by users and given up by the clock. The queue of two messages
per frame is long enough (`MessagesTaken`); one message per frame would not be.
Two leaks are part of the model, and `FramesSound` allows them there only: a connection
request that finds no memory for a socket (`tcpip.c:710`), and a half-filled frame of
a socket that is freed.

*TCP.* What the peer reads is a stream of what the application wrote, whatever the network
does: nothing is delivered twice, out of order or invented, in spite of late acknowledgements,
repeated segments and own numbers that wrap (`PeerGetsStream`). What the application reads is
one if the connection is `Orderly` (`ApplicationGetsStream`), and then what is acknowledged is
kept for the reader, frame behind frame (`AckHonest`; each FIN that is seen counts, a repeated
one again, `tcpip.c:910`). A closed socket is freed when its peer falls silent (`ClosedIsFreed`).

What is not acknowledged is kept, with one exception, which `NothingForgotten` names. A second
acknowledgement of the same number has all frames sent again (`tcpip.c` 808–829) without
counting the try, so a frame that was sent four times can be sent a fifth time.
`IPFrameReschedule` then frees it, acknowledged or not (`tcpip.c` 355–358), and the connection
goes on: unlike a frame whose time runs out on the fourth try (`tcpip.c:1619`), nobody closes it.
If that last transmission is lost as well, the peer waits for the missing bytes for as long as
the connection lasts, which for a client's socket, whose timeout is 0, may be for ever. No
sentence in the repository speaks of it, so it is not among the findings. In the models it is the
field `last` of a frame on the wire.

*Addresses.* The gateway's hardware address is never that of another server or of an
earlier gateway (`GatewayRight`), and is found again after each renewal (`GatewayIsFound`):
when its ARP request is lost, not before the next one, hours later.

*Ethernet.* What is delivered are good frames, in order, none twice, and nothing old is
left behind the driver (`RingSound`). The driver gets stuck on no frame (`FramesFound`). Both
hold for either alignment of the first word. A frame can be thrown away while it comes in,
though "all errors require waiting and then re-processing the data" (`ethernet.c` 40–43):

* If its first word holds four of the bytes the driver looks for and the rest is not
  there yet, `countOk` is 4 when the first empty byte comes, `needWait` stays clear, and
  the driver empties that word at the first look (`ethernet.c` 99, 118–122). What follows is
  not found as a frame then. With three, it waits.
* `gCheckedBefore` stays set after a bad frame and costs the next one its second chance
  (`ethernet.c` 187–191).

`NotThrownAway` says that there are no other ways: while `gCheckedBefore` is clear, no good frame
with three bytes in the first word is thrown away. Which alignment a board has, the repository
does not say, so neither is a finding.

*Functions.* Checksums verify at the receiver, a CRC is the one of the standard, bit by
bit on the wire, and is found again by `EthernetReceive` (`FormatsRight`). Sums, products
and quotients are as close as the shifts allow for numbers without infinities (`FloatsClose`);
zero is not one of them: its word has a hidden one, so that 0 * x is not 0 and -0 < 0.
`LibraryRight` says that sorting, searching, numbers as text and the calendar are right, with
what the code leaves out: `strtol` reads nine digits, `tm_yday` lacks the leap day, and
daylight saving begins a week late when March begins on a Sunday (`libc.c:620`). When it ends
in November is not checked.

*Files.* No block is lost or has two owners, a file that was closed reads back, and a
handle keeps its place across the ends of blocks. A write beyond the last block stops the
model: the check for it in `OS_fwrite` never holds (`filesys.c:309`).

### Findings

Four runs end in a violation, each of a sentence in the sources.

1. `threads_leak`: a thread that has found `NeedToFree` NULL can be preempted before it
   writes NULL (`rtos.c:545`–`547`); a thread that exits in between is never freed.
2. `timer_early`: `OS_TimerThread` picks a due timer under the lock and stops it after
   it has released it (`rtos.c:998`–`1004`); a client that restarts the timer in
   between has it fire at once and never when it asked.
3. `ip_close`: `IPClose2` takes frames off the send list with the head and tail of the
   resend list (`tcpip.c:1495`), so that the send list keeps a frame that is free.
4. `tcp_fin`: a peer repeats a segment of which the socket has the first part, with more
   data and its FIN added. `TCPProcess` finds that the segment does not begin where it
   is to go on, drops its data and means to answer "with current offset since data
   missing" (`tcpip.c:889`), but the FIN, looked at on its own, is counted
   (`tcpip.c:899`–`910`). The answer acknowledges a byte that never came, and the peer
   will not send it again. This came to light when the proof of `ApplicationGetsStream`
   did not go through; `Orderly`, under which the theorem holds, excludes it since.

### Fairness

Safety runs assume none. `InterruptFairness` says that the timer interrupt keeps
coming and that its handler ends: the tick is a free-running counter bit, and
`OS_InterruptServiceRoutine` is a bounded loop with interrupts off. It is strong
for `InterruptEntry`, which is disabled again and again while an interrupt is
served, for `TickCount`, which is disabled outside interrupts, and for `InterruptExit`,
which competes with the further posts of other handlers. `CallsSpec` adds that a thread
which has the CPU goes on with the call it has made; this is strong because the thread
loses the CPU again and again, and is never enabled while it has lost it: nothing is
assumed of the scheduler itself. No client is assumed to make a call.

In `parts`, an interrupt of the console that is switched on comes, and a thread that has
written a byte goes on to switch the interrupt on (weak: any thread runs at any time
there); the DMA goes on with the frame it writes, and the driver with its loop, which its
timeout wakes; the second passes (`IPTick`), and a message that stays on its way is
received and answered, of which only `MaxTrouble` many are lost. `First`, `Second` and
`Third` collect these conditions, one part's in each, since a behaviour follows one part.
In `tcp`, the network thread transmits and looks at the clock again and again, and
the application closes a socket in the end; nothing is assumed of the peer or the
network.

## The proofs

All theorems hold for every value of the constants that the named assumptions admit:
any number of threads, semaphores, timers, CPUs, messages, bytes and frames, rings of any
size, and counters of any width. The assumptions, and why the code justifies them:

| Assumption | What it says | Why |
| --- | --- | --- |
| `KernelAssumption`, `ReleaseAssumption`, `MutexAssumption`, `MQueueAssumption` | which objects differ, and the first counts of the semaphores | `OS_Init`, `OS_MutexCreate` and `OS_MQueueCreate` create them so |
| `TimeAssumption`, `TimerTimeAssumption` | waits and timers are shorter than half the range of the tick counter, and nobody is late by half of it with a time it has read | the code compares ticks by the sign of a 32-bit difference; half the range is 248 days |
| `TimerAssumption` | the timer thread has two semaphores, one free and one not | `OS_TimerCreate` |
| `UartAssumption` | a ring has two places or more | 128 in the code; one place would be full while empty |
| `HeapAssumption` | finitely many heaps of at least a unit, each with an alternate heap or none | `OS_HeapCreate`, `OS_HeapAlternate` |
| `FramesAssumption` | finitely many frames and sockets, at least one frame, and a link to a frame is told from NULL and from a list | `FrameInit` and the static arrays of `tcpip.c`; the numbers are its constants. `MessagesAreTaken` is for more than one frame: the code has 100 |
| `RingAssumption` | the frames of a behaviour fit together into the words the driver looks through, wherever in the ring they begin | stands for a DMA that does not come round to words that were not read: the ring is 64 kB, 1500 bytes are looked through |
| `ConfigAssumption` | the cache has an entry, a lease outlasts a retry | constants of `tcpip.c` |
| `SocketAssumption` | a connection carries fewer bytes than half the circle of numbers | frames stay in `wire` for ever, so this stands for a network in which no segment is as old as 2^31 bytes |
| `Orderly`, of three theorems only | no SYN/ACK comes again after data, the peer does not merge data and FIN, its numbers do not wrap | the code does not justify it: see above for what happens otherwise |
| `FilesAssumption` | finitely many blocks, with positive numbers, the first of them the root's; the directory's name is no file's | `OS_fopen` makes the root; an address is not `BLOCK_EOF`; a name in a directory is found once |
| `SpinAssumption` | nesting up to 9 | the code's own limit |

Each module states an inductive invariant, shows that the initial states have it and
every action keeps it (a lemma for each action), and draws the properties of the runs
from it. TLC checked the invariants of the timers, the sockets and the frames on the
constants of their runs before they were proved.

**`RtosKernelProofs`**

* `KernelInvariant`: `KernelSpec => []KernelInv`, the inductive invariant.
* `KernelTypes`, `ThreadsInOnePlace`, `SemaphoresAccount`: `TypeOK`, `OnePlace` and
  `SemAccounting` of run `kernel_safety`, from it.
* `SemaphoresAreCounting` (`SemaphoresImplemented`): the semaphores implement
  `CountingSemaphores`.
* `HighestRunsAlways` (`HighestKeepsRunning`), `ListsAreInOrder` (`ListsInOrder`) and
  `TimeoutsAreExact` (`TimeoutExact`).

`OnePlace` is not inductive: a post puts the first thread of a semaphore's list into
the ready list, so the proof needs that it is not there already, which follows
from its state; a timeout takes a thread out of the list of its semaphore, so the
proof needs that a thread in the timeout list is waiting, and is there once; a
thread that blocks must leave another for the CPU, which is why the idle thread is
never blocked and why the invariant says when there is no current thread and that
a thread runs only after `OS_Start`. `KernelInv`
adds those facts to the three properties. The proof works on its parts: `SchedInv` (states, ready
list and current thread), `SemInv` (counts, lists and `semaphorePending`), `TimeInv`
(the timeout list), `RestInv` (the other variables) and `WaitInv` (who waits is
blocked). The argument has a lemma for each list operation (what it returns, for
every list), one for `Reschedule` and one for each handler; the theorem is then a
case for each disjunct of `KernelNext`. `ListLemmas` has the facts about
`InsertAt`, `RemoveAt`, least indices, sorted sequences and `%` that all of these rest on.

`PendEffect`, `PostEffect`, `InterruptEffect` and `BootEffect` say what the
kernel's steps do to the count, to who waits for what, to the return codes and to who may time
out; the refinement, and whatever is built on semaphores, uses these instead of the scheduler.

Inserting where the code does
keeps a list sorted if it was (`PriorityInsertSorts`); the one handler that changes a key,
`OS_ThreadPrioritySet`, takes the thread out first. So the ready list is always sorted
(`ReadyAlwaysSorted`), its first thread has the highest priority of all that are ready, and
`Reschedule`, which compares with the first alone, leaves nobody higher behind.

A signed difference of two ticks is their distance only
while they are less than half the range apart, so comparing two deadlines is not an order in
general. It is one among the deadlines that are waited for: `ListInTime` says that the list is
sorted by the ticks that are left, and that between ticks each of them is from 1 to `MaxTicks`
(from 0 while a tick is being served, which is what makes a waiter due). It rests on
`TimeAssumption`.

**`RtosServicesProofs`**

* `MessagesAreCounted` (`MessagesCounted`) and `MQueueImplements` (`QueueImplemented`), for any
  clients, handlers, messages and capacity. That the messages
  in the ring are those that the semaphore counts is not inductive: `MQueueInv` adds that whoever
  waits is inside `OS_MQueueGet`, so a post gives its message to someone who will take it, that a
  sender owes a post for each message it has stored, and that `write` is `used` slots after `read`.
* `MutexIsSound` (`MutexSound` of run `mutex_queue`) and `MutexImplements` (the mutex
  implements `RecursiveLock`), for any threads and any depth of nesting. Each step
  of the mutex and its clients is a step of the kernel or leaves it alone
  (`MutexStepsAreKernelSteps`), so the kernel's invariant holds of them too. `MutexSound` is
  not inductive: a post makes whoever waits the owner, so `MutexInv` adds that who waits
  for the mutex is about to claim it and has matched all its calls; no tick may do that
  instead of a post, so who waits for it waits for ever; a count of two would admit two, so it
  is at most 1; and the fields are right when a window closes because the name is written before
  the count and cleared before the post.
* `ThreadsInvariant`, and `FreesOnlyExited` (`FreesExitedOnly`) from it: whatever
  `OS_ThreadCreate` and `OS_ThreadExit` are about to free has exited and was not freed.
  `ThreadsInv` has three parts. `HoldInv`: one thread at most holds `SemaphoreRelease`, the
  count says so, and who waits for it waits without a timeout, so that being woken is
  having it. `GoneInv`: a thread that is gone was in no call but the beginning of its exit,
  so it holds nothing. `FreeInv`: `NeedToFree` is a thread that has exited, except
  in the window between the look at it and the write of NULL, when only the
  holder looks at it. The lemmas `...SameGone` say of each call of the kernel that it
  brings nobody back who has exited.

**`RtosTimerProofs`**

* `TimerInvariant`, and from it `TimerListStaysSound` (`TimerListSound`) and
  `NeverOversleeps` (`WakesInTime`), for any threads, timers, times and schedule. A sorted
  list is not inductive by itself: comparing two times by the sign of their difference is an
  order only for times near the clock. So the invariant says that every time
  that anybody holds (in a timer, in a local variable of a client that was interrupted,
  in `timeNow`) is `Near`: not further ahead than the longest timer, not further behind
  than `MaxLag`; `Slack` is the tick between the clock's step and the waits', while the tick's
  interrupt is being served. The list is sorted by `Ends`, the ticks until each timer ends,
  which are integers and do not wrap. That the timer thread does not oversleep needs what it
  plans: `PlanKnown` and `SleepKnown` say that what it plans to sleep, and what it sleeps, ends
  before the first timer, or that somebody is about to post `SemaphoreTimer` or has done so
  (`Heralded`). `WaitsKnown` says that nobody else waits for that semaphore.
  `TickBringsNearer` shows that a tick moves all of this by one.

**`PartsProofs`**: the parts of `MCParts`

* `SpinExclusive` and `SpinImplements` (`LockImplemented`: each step
  of the CPUs is one of the abstract `RecursiveLock`, or none), for any number of CPUs.
  A CPU has passed another when it is inside, or still looking with success and
  already beyond the other's entry. `SpinInv` says that two CPUs have never passed each
  other: the one that raised its entry last has still to find the other's raised.
* `HeapIsSound` (`HeapSound`), for any heaps, sizes and chains of alternates. `HeapInv` says of
  each heap that its free nodes and its blocks tile its memory, that no two free nodes touch, and
  that the free list is *turned*: from some place on the addresses go up once round, as
  `available` is wherever the last call left it. The last is what makes `OS_HeapFree` right, which
  searches from `available` for two nodes that the block lies between: it shows that the search
  ends, and that no third node lies between those two (`TurnedToPlace`), so joining the
  block with its two neighbours in the list joins it with all that it touches. The lemmas
  `TakeParts` and `JoinParts` then say what the two calls do to one heap.

* `RingsAreSound` (`RingsSound`) and `OutputIsQueue` (`OutputQueue`): the console, for any
  writers, bytes and ring sizes. The first says that a wait that was counted is posted once and
  that no byte in the output ring is forgotten; it does not say that a thread which has
  looked at the ring and not yet counted itself is noticed, and the code does not notice it
  (`uart.c` 83–87). `UartInv` adds that one thread writes at a time, since it holds
  `SemaphoreUart`, and that it still has the room it has seen, since only the interrupt moves the
  other index, which makes more room. The refinement counts a byte as accepted when
  the write index passes it, and shows that a byte is written where none of the
  queue is (`DataKeepsContents`).
* `FramesAreSound` (`RingSound`) and `FramesNotThrownAway` (`NotThrownAway`): the Ethernet ring,
  for any frames, of either alignment, and any ring. The second excludes the frames of which
  four bytes are in the first word. `RingInv` says what each word of the ring is (the one the DMA has
  written there, or empty), what the driver's scan and its CRC have covered, and
  what was delivered; `LookedInv` adds that a scan which saw no reason to wait has passed the
  start of no frame but the last.
* `GatewayIsRight` (`GatewayRight`), for any servers, cache, loss and delay: this one is
  inductive itself.

**`TcpProofs`**

* `SocketInvariant`; `BytesAreKept` (`NothingForgotten`) and `PeerStream` (`PeerGetsStream`),
  for any numbers of bytes, segment size, window and tries, any modulus that
  `SocketAssumption` admits, and connections that are `Orderly` or not. With `Orderly` also
  `ApplicationStream` (`ApplicationGetsStream`), `AcksAreHonest` (`AckHonest`) and
  `FinComesAfterData` (`FinAfterData`); TLC's counterexamples above show that these three fail
  without it. The streams are
  not inductive: that the peer reads what was written needs that each frame that is
  waiting, awaited or on its way (where an old one may arrive at any time) carries
  the bytes of the stream at their number (`Numbered`), that the socket's numbers are what
  was sent modulo `M`, with one more for a SYN and a FIN (`Outgoing`), and that a FIN comes
  after all bytes. What the application reads needs that the frames to be read are
  together the stream from `ackProcessed` to `ack` (`Incoming`). `Kept` says that each byte
  the peer lacks is in a frame that is kept, or in one that was transmitted for the last time,
  and rests on an acknowledgement never being ahead of the peer. Numbers tell places apart
  because less than half the circle is in use (`NumbersDiffer`, `AckOrder`).

**`IpFramesProofs`**

* `FramesInPlace` (`FramesSound`), for any frames, sockets, devices and schedule. A pool and a
  list are chains of links in one record of arrays, so what a list *is* depends on all links
  at once. The invariant therefore gives a witness: a sequence for each list, one for the pool, and
  `Where`, a function that says where each frame is: in the pool, in a list, in the hands of the
  network thread, a device or a message, with a socket's user, or lost by one of the
  two leaks. Since it is a function, no frame is in two places; `Located`, `StatesRight`
  and `Links` say that lists, states and links in both directions agree with it. What the
  code reads by following links is then shown to be that sequence (`CountUp` and
  `FiniteRecursion` of `ListLemmas` are the induction: a fact about the places of a walk, never
  about data in general). `Good(m, E)` is that of a memory with the frames `E` in hand;
  the lemmas `...Good` say of each operation of the code from which `E` it leads to which,
  and those of a handler follow from those of its calls in their order. `Bad` is
  a memory in which the code has lost its way in one of the other three manners; a failed
  assertion is not among them, so the proof is also that none fails.
* `MessagesAreTaken` (`MessagesTaken`), for more than one frame. That the queue has room is a
  matter of counting, and no bound on the messages alone is inductive. A message carries a
  received frame, tells the end of a transmission, or wakes the thread for a frame
  that somebody put into the list to send. `Counted` says that there are no more messages than
  received frames in them, frames that wait to be sent, and one or two for the frame that is
  being sent, whose own message to wake may still be there; when its end has been told, the
  messages are split at the one that tells it, and those behind it are owed to others.
  Received frames and those that wait are in different places, by `Where`, so `N` frames are
  good for at most `N + 1` messages, and the queue has `2N` places. The lemmas `...Good` carry
  the other half: no operation adds more messages than frames to the list (`Ahead`). So
  each `MQueueSend` in an interrupt or a thread finds room.

**`FileSystemProofs`**

* `NoBlockLost` (`BlocksOwned`), `FoundAgain` (`ReadsBack`) and `PlaceIsKept` (`PlaceKept`), for any
  number and size of blocks, any names, values and handles, until a call writes past the last
  block (`disk.defect`). Which blocks a file has is a chain of links, so the invariant
  gives a witness here too: `P`, the paths that have blocks; `C`, the blocks of each; `Own`, a
  function that says whose a block is, so it has one owner; `S` and `T`, the paths with an
  entry and that entry. `Sound` says that links and free blocks agree with `C` and `Own`.
  `Holds` says that each directory's units are the entries of `S` in it, each once, with
  deleted ones among them, and blank ones behind. `Opens` says where each open
  file is in its chain and that who writes a path is alone with it (`Polite`); `Contents`, that
  the units of a file are what it should hold. `Good` is the four together.
  A file's place in units is a block and an offset (`At`, `Blk`, `Off`), which needs some
  multiplication that the provers get as lemmas (`Products`, `PlaceOf`). `ChainRule` reduces what
  a walk along the links returns to one step of it, by `FiniteRecursion` of
  `ListLemmas`. `Added`, `Extended`, `Written`, `Released` and `Deleted` say
  what a call does to the disk and to the witness: a chain begins, grows, gets a unit, is given back,
  and its entry goes with it.

Only model-checked:

* Liveness and everything under fairness, which the prover cannot treat: `CreateReturns`,
  `RoundRobin`, `StallEnds`, `TimedWaitEnds`, `BytesGoOut`, `FramesFound`, `GatewayIsFound`,
  `ClosedIsFreed`.
* `FormatsRight`, `FloatsClose` and `LibraryRight`: functions of data, recursive or bitwise.


## Not modelled

* *Network services* (`netutil.c`, `http.c`). A callback depends on the job queue, on what one
  `IPRead` returns and on the peer at once; a model that TLC can exhaust would assume most of
  that away. Reading them for this purpose showed: a sender of FTP that wrote part of a
  block depends on being called again (`netutil.c:42`); data and FIN in one segment
  leave a transfer incomplete (201–204); QUIT frees what the data socket still uses
  (157–158); the TFTP server has one header to answer with, which the next datagram
  overwrites; TFTP has no timer; a padded short datagram is read with its padding, as the
  length of a UDP packet is not looked at (`tcpip.c:933`).
* *Jobs*: `OS_Job` is a message queue, whose promises are checked, and ignores a full one
  (`rtos.c:959`).
* *Deletion* of semaphores, mutexes, queues and timers: nobody in `kernel/` deletes one that
  others may use, and nothing says what they may expect.
* *Flash* (`flash.c`, `MediaBlockCleanup` in `filesys.c`): interrupted clean-up would be worth
  a model of its own.
* *DNS answers*, string formatting, the series of `sqrt`, `sin`, `atan`, `exp` and `log`.
* *Hardware*: the CPU, cache, DDR controller and UART are VHDL; the DMA of the
  Ethernet MAC is modelled from the driver's side only.
* *Host tools, tests and boot code.*

## The plan

1. Flash: block clean-up with a loss of power between any two writes.
2. `Cache` and `DdrController`: the clocked machines of `cache.vhd` and `ddr_ctrl.vhd` against a
   memory.
3. `OS_Job` with two sockets and their callbacks, as the frame on which one network service
   could be modelled.
