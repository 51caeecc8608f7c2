----------------------------- MODULE RtosMQueue -----------------------------
(***************************************************************************)
(* The message queue of the RTOS (kernel/rtos.c), over the kernel: a ring  *)
(* changed in critical sections, and a semaphore, posted and waited for    *)
(* outside them, that counts its messages.  Threads send and receive;      *)
(* interrupt handlers send.                                                *)
(***************************************************************************)
EXTENDS RtosKernel

CONSTANTS
    QueueSemaphore,  \* mQueue->semaphore, created with count 0
    Capacity,        \* mQueue->count
    Message,
    NoMessage        \* what the ring holds before it is written

ASSUME MQueueAssumption ==
    /\ QueueSemaphore \in Semaphore
    /\ InitialCount[QueueSemaphore] = 0
    /\ Capacity \in Nat \ {0}
    /\ NoMessage \notin Message

VARIABLES
    used,      \* mQueue->used
    read,      \* mQueue->read
    write,     \* mQueue->write
    ring,      \* the words after the OS_MQueue_t
    queuePc,   \* where each thread is in OS_MQueueSend and OS_MQueueGet
    received,  \* the message the last OS_MQueueGet copied
    refused    \* the last message an OS_MQueueSend discarded

queueVars == <<used, read, write, ring, received, refused>>
mqueueVars == <<queueVars, queuePc>>
mqueueKernelVars == <<kernelVars, mqueueVars>>

MQueueInit ==
    /\ KernelInit
    /\ used = 0
    /\ read = 0
    /\ write = 0
    /\ ring = [i \in 0 .. Capacity - 1 |-> NoMessage]
    /\ queuePc = [t \in Thread |-> "user"]
    /\ received = NoMessage
    /\ refused = NoMessage

\* ++index, back to 0 at the end of the ring.
Advance(index) == IF index + 1 >= Capacity THEN 0 ELSE index + 1

\* Broken variant: the last slot is never used.
DiscardEarly(m) ==
    /\ used + 1 >= Capacity
    /\ refused' = m
    /\ UNCHANGED <<used, read, write, ring, received>>

\* The critical section of OS_MQueueSend: the queue is full ...
Discard(m) ==
    /\ used + 1 > Capacity
    /\ refused' = m
    /\ UNCHANGED <<used, read, write, ring, received>>

\* ... or takes the message.
Store(m) ==
    /\ used + 1 <= Capacity
    /\ used' = used + 1
    /\ ring' = [ring EXCEPT ![write] = m]
    /\ write' = Advance(write)
    /\ UNCHANGED <<read, received, refused>>

\* The critical section of OS_MQueueGet.
Copy ==
    /\ used' = used - 1
    /\ received' = ring[read]
    /\ read' = Advance(read)
    /\ UNCHANGED <<write, ring, refused>>

QueueGoto(self, from, to) ==
    /\ Running(self)
    /\ queuePc[self] = from
    /\ queuePc' = [queuePc EXCEPT ![self] = to]

\* OS_MQueueSend by a thread: an interrupt may come before the post.
SendDiscard(self, m) ==
    /\ QueueGoto(self, "user", "user")
    /\ Discard(m)
    /\ UNCHANGED kernelVars

SendStore(self, m) ==
    /\ QueueGoto(self, "user", "post")
    /\ Store(m)
    /\ UNCHANGED kernelVars

\* Broken variant: the semaphore is not posted.
SendPostNothing(self) ==
    /\ QueueGoto(self, "post", "user")
    /\ UNCHANGED <<queueVars, kernelVars>>

SendPost(self) ==
    /\ QueueGoto(self, "post", "user")
    /\ SemaphorePost(QueueSemaphore)
    /\ UNCHANGED queueVars

\* OS_MQueueSend by an interrupt handler, which nothing interrupts.
InterruptSend(m) ==
    /\ isr \in {"body", "ticked"}
    /\ \/ Discard(m) /\ UNCHANGED kernelVars
       \/ Store(m) /\ SemaphorePost(QueueSemaphore)
    /\ UNCHANGED queuePc

\* OS_MQueueGet waits for a message ...
GetNow(self) ==
    /\ QueueGoto(self, "user", "copy")
    /\ PendAcquire(QueueSemaphore)
    /\ UNCHANGED queueVars

GetNothing(self) ==
    /\ QueueGoto(self, "user", "user")
    /\ PendNoWait(QueueSemaphore, 0)
    /\ UNCHANGED queueVars

GetWait(self, ticks) ==
    /\ QueueGoto(self, "user", "woken")
    /\ PendWait(self, QueueSemaphore, ticks)
    /\ UNCHANGED queueVars

\* Broken variant: the result of the wait is ignored.
GetWokenAnyway(self) ==
    /\ QueueGoto(self, "woken", "copy")
    /\ UNCHANGED <<queueVars, kernelVars>>

\* ... looks at how the wait ended when it runs again
GetWoken(self) ==
    /\ QueueGoto(self, "woken", IF returnCode[self] # 0 THEN "user" ELSE "copy")
    /\ UNCHANGED <<queueVars, kernelVars>>

\* and copies the message.
GetCopy(self) ==
    /\ QueueGoto(self, "copy", "user")
    /\ Copy
    /\ UNCHANGED kernelVars

MQueueCall(self) ==
    \/ \E m \in Message : SendDiscard(self, m) \/ SendStore(self, m)
    \/ SendPost(self)
    \/ GetNow(self)
    \/ GetNothing(self)
    \/ \E ticks \in Ticks \cup {FOREVER} : GetWait(self, ticks)
    \/ GetWoken(self)
    \/ GetCopy(self)

MQueueNext ==
    \/ (Boot \/ Interrupt({})) /\ UNCHANGED mqueueVars
    \/ \E m \in Message : InterruptSend(m)
    \/ \E self \in Client : MQueueCall(self)

MQueueSpec == MQueueInit /\ [][MQueueNext]_mqueueKernelVars

GoOn(self) == SendPost(self) \/ GetWoken(self) \/ GetCopy(self)

\* A thread that has the CPU goes on with the call it has made.
FairMQueueSpec ==
    /\ MQueueSpec /\ InterruptFairness
    /\ \A self \in Client : SF_mqueueKernelVars(GoOn(self))

(***************************************************************************)
(* Properties.                                                             *)
(***************************************************************************)

\* The shape of the queue and its clients.
MQueueTypeOK ==
    /\ used \in 0 .. Capacity
    /\ read \in 0 .. Capacity - 1
    /\ write \in 0 .. Capacity - 1
    /\ ring \in [0 .. Capacity - 1 -> Message \cup {NoMessage}]
    /\ queuePc \in [Thread -> {"user", "post", "woken", "copy"}]
    /\ received \in Message \cup {NoMessage}
    /\ refused \in Message \cup {NoMessage}

\* The sender has stored its message and not yet posted it.
Storing == {t \in Thread : queuePc[t] = "post"}

\* The receiver has the semaphore and not yet the message.
Entitled(t) ==
    \/ queuePc[t] = "copy"
    \/ queuePc[t] = "woken" /\ semaphorePending[t] = NoSemaphore /\ returnCode[t] = 0

\* Each message in the ring is announced by the semaphore, or claimed by a receiver,
\* or about to be posted: so a receiver never copies from an empty ring, and none
\* sleeps beside a message nobody else will take (OS_MQueueSend, OS_MQueueGet).
MessagesCounted ==
    /\ MQueueTypeOK
    /\ used = (IF semCount[QueueSemaphore] > 0 THEN semCount[QueueSemaphore] ELSE 0)
              + Cardinality({t \in Thread : Entitled(t)}) + Cardinality(Storing)

\* The messages from read on, in the order they were stored.
Contents == [i \in 1 .. used |-> ring[(read + i - 1) % Capacity]]

\* The ring is a bounded queue: no message is lost, repeated, overtaken or
\* overwritten, whatever senders and receivers interleave, and only a message that
\* finds the queue full is discarded.
Queue == INSTANCE BoundedQueue WITH queue <- Contents

QueueImplemented == Queue!Spec

\* A receiver sleeps while a message is in the ring and nobody is entitled to it.
Stalled ==
    /\ used > 0
    /\ semHead[QueueSemaphore] # <<>>
    /\ \A t \in Thread : ~Entitled(t)

\* That lasts only until the interrupted sender goes on to its post, when all
\* priorities are equal (a thread of a higher priority could keep the CPU).
StallEnds == []<>~Stalled
=============================================================================
