---------------------------- MODULE UartBuffers ----------------------------
(***************************************************************************)
(* The console half of the UART driver (kernel/uart.c).  Threads and       *)
(* UartInterrupt share two rings without a lock: threads write WriteBuffer *)
(* under SemaphoreUart, one thread reads ReadBuffer, with SemaphoreUart or *)
(* without; the interrupt does the opposite and may come between any two   *)
(* steps of a thread.  A thread that finds a ring full or empty counts     *)
(* itself in pendingWrite or pendingRead and waits for a semaphore.        *)
(*                                                                         *)
(* A semaphore is the count of CountingSemaphores, which the kernel        *)
(* implements.  UartInterrupt handles several bytes in a row: each is an   *)
(* action.  The bytes of packets pass by the rings and are left out.       *)
(***************************************************************************)
EXTENDS Integers, Sequences

CONSTANTS
    Thread,    \* the threads that write
    Reader,    \* the thread that also reads
    NoThread,
    Byte,
    Received,  \* the bytes among them that arrive
    NoByte,    \* what a ring holds before it is written
    Size       \* BUFFER_WRITE_SIZE and BUFFER_READ_SIZE

ASSUME UartAssumption ==
    /\ Reader \in Thread
    /\ NoThread \notin Thread
    /\ NoByte \notin Byte
    /\ Received \subseteq Byte
    /\ Size \in Nat \ {0, 1}

VARIABLES
    tx,     \* WriteBuffer, with the members that are not always 0
    rx,     \* ReadBuffer, likewise
    holder, \* SemaphoreUart: the thread that has taken it
    mask,   \* IRQ_UART_WRITE_AVAILABLE is set in IRQ_MASK
    uartPc,     \* where each thread is
    value,  \* the byte each thread writes
    sent    \* the last byte written to UART_WRITE

threadVars == <<uartPc, value>>
uartVars == <<tx, rx, holder, mask, threadVars, sent>>

Ring == [data : [0 .. Size - 1 -> Byte \cup {NoByte}],
         read : 0 .. Size - 1,
         write : 0 .. Size - 1,
         pending : {0, 1},
         semaphore : {0, 1}]

\* BufferCreate.
BufferCreate ==
    [data |-> [n \in 0 .. Size - 1 |-> NoByte], read |-> 0, write |-> 0,
     pending |-> 0, semaphore |-> 0]

\* UartInit.
UartInit ==
    /\ tx = BufferCreate
    /\ rx = BufferCreate
    /\ holder = NoThread
    /\ mask = FALSE
    /\ uartPc = [t \in Thread |-> "user"]
    /\ value = [t \in Thread |-> NoByte]
    /\ sent = NoByte

\* ++index, back to 0 at the end of the ring.
Advance(index) == IF index + 1 >= Size THEN 0 ELSE index + 1

Full(ring) == Advance(ring.write) = ring.read

Empty(ring) == ring.read = ring.write

\* Broken variant: the pending thread is not counted down.
WakeKept(ring) == [ring EXCEPT !.semaphore = @ + ring.pending]

\* Post the semaphore of the thread that has counted itself.
Wake(ring) == [ring EXCEPT !.pending = 0, !.semaphore = @ + ring.pending]

Goto(self, from, to) ==
    /\ uartPc[self] = from
    /\ uartPc' = [uartPc EXCEPT ![self] = to]

Return(self) == IF holder = self THEN "locked" ELSE "user"

(***************************************************************************)
(* SemaphoreUart, around everything that is written.                       *)
(***************************************************************************)
UartLock(self) ==
    /\ Goto(self, "user", "locked")
    /\ holder = NoThread
    /\ holder' = self
    /\ UNCHANGED <<tx, rx, mask, value, sent>>

UartUnlock(self) ==
    /\ Goto(self, "locked", "user")
    /\ holder' = NoThread
    /\ UNCHANGED <<tx, rx, mask, value, sent>>

(***************************************************************************)
(* UartWrite: BufferWrite(WriteBuffer, ch, 1), then OS_InterruptMaskSet.   *)
(***************************************************************************)
WriteCheck(self) ==
    /\ Goto(self, "locked", IF Full(tx) THEN "writeCount" ELSE "writeData")
    /\ \E v \in Byte : value' = [value EXCEPT ![self] = v]
    /\ UNCHANGED <<tx, rx, holder, mask, sent>>

WriteCount(self) ==
    /\ Goto(self, "writeCount", "writePend")
    /\ tx' = [tx EXCEPT !.pending = @ + 1]
    /\ UNCHANGED <<rx, holder, mask, value, sent>>

WritePend(self) ==
    /\ Goto(self, "writePend", "writeData")
    /\ tx.semaphore > 0
    /\ tx' = [tx EXCEPT !.semaphore = @ - 1]
    /\ UNCHANGED <<rx, holder, mask, value, sent>>

\* Broken variant: the index goes first.
WriteDataLast(self) ==
    /\ Goto(self, "writeData", "writeAdvance")
    /\ tx' = [tx EXCEPT !.write = Advance(@)]
    /\ UNCHANGED <<rx, holder, mask, value, sent>>

WriteData(self) ==
    /\ Goto(self, "writeData", "writeAdvance")
    /\ tx' = [tx EXCEPT !.data[tx.write] = value[self]]
    /\ UNCHANGED <<rx, holder, mask, value, sent>>

\* Only the holder of SemaphoreUart writes: writeNext is still right.
WriteAdvance(self) ==
    /\ Goto(self, "writeAdvance", "mask")
    /\ tx' = [tx EXCEPT !.write = Advance(@)]
    /\ value' = [value EXCEPT ![self] = NoByte]
    /\ UNCHANGED <<rx, holder, mask, sent>>

MaskSet(self) ==
    /\ Goto(self, "mask", "locked")
    /\ mask' = TRUE
    /\ UNCHANGED <<tx, rx, holder, value, sent>>

UartWrite(self) ==
    \/ WriteCheck(self)
    \/ WriteCount(self)
    \/ WritePend(self)
    \/ WriteData(self)
    \/ WriteAdvance(self)
    \/ MaskSet(self)

(***************************************************************************)
(* UartRead: BufferRead(ReadBuffer, 1).                                    *)
(***************************************************************************)
ReadCheck ==
    /\ uartPc[Reader] \in {"user", "locked"}
    /\ uartPc' = [uartPc EXCEPT ![Reader] = IF Empty(rx) THEN "readCount" ELSE "readValue"]
    /\ UNCHANGED <<tx, rx, holder, mask, value, sent>>

ReadCount ==
    /\ Goto(Reader, "readCount", "readPend")
    /\ rx' = [rx EXCEPT !.pending = @ + 1]
    /\ UNCHANGED <<tx, holder, mask, value, sent>>

ReadPend ==
    /\ Goto(Reader, "readPend", "readValue")
    /\ rx.semaphore > 0
    /\ rx' = [rx EXCEPT !.semaphore = @ - 1]
    /\ UNCHANGED <<tx, holder, mask, value, sent>>

\* The byte is copied; then ++buffer->read is stored, also when it is past the end ...
ReadValue ==
    /\ Goto(Reader, "readValue", IF rx.read + 1 >= Size THEN "readWrap" ELSE Return(Reader))
    /\ rx' = [rx EXCEPT !.read = @ + 1]
    /\ UNCHANGED <<tx, holder, mask, value, sent>>

\* ... which the next instructions mend.
ReadWrap ==
    /\ Goto(Reader, "readWrap", Return(Reader))
    /\ rx' = [rx EXCEPT !.read = 0]
    /\ UNCHANGED <<tx, holder, mask, value, sent>>

UartRead == ReadCheck \/ ReadCount \/ ReadPend \/ ReadValue \/ ReadWrap

(***************************************************************************)
(* UartInterrupt.  OS_InterruptStatus does not look at IRQ_MASK: an        *)
(* interrupt for a received byte also sends.                               *)
(***************************************************************************)

\* BufferWrite(ReadBuffer, value, 0) drops the byte when the ring is full.
Receive(v) ==
    /\ rx' = IF Full(rx) THEN rx
             ELSE Wake([rx EXCEPT !.data[rx.write] = v, !.write = Advance(@)])
    /\ UNCHANGED <<tx, holder, mask, threadVars, sent>>

\* BufferRead(WriteBuffer, 0).
Transmit ==
    /\ ~Empty(tx)
    /\ sent' = tx.data[tx.read]
    /\ tx' = Wake([tx EXCEPT !.read = Advance(@)])
    /\ UNCHANGED <<rx, holder, mask, threadVars>>

\* Broken variant: without looking whether something is left.
MaskClearAlways ==
    /\ mask' = FALSE
    /\ UNCHANGED <<tx, rx, holder, threadVars, sent>>

\* Nothing is left to send: the interrupt switches itself off.
MaskClear ==
    /\ Empty(tx)
    /\ mask' = FALSE
    /\ UNCHANGED <<tx, rx, holder, threadVars, sent>>

UartInterrupt == (\E v \in Received : Receive(v)) \/ Transmit \/ MaskClear

UartNext ==
    \/ \E self \in Thread : UartLock(self) \/ UartUnlock(self) \/ UartWrite(self)
    \/ UartRead
    \/ UartInterrupt

UartSpec == UartInit /\ [][UartNext]_uartVars

\* An interrupt that is switched on comes, and a thread goes on with its call.
UartFairSpec ==
    /\ UartSpec
    /\ WF_uartVars(mask /\ Transmit)
    /\ \A self \in Thread : WF_uartVars(MaskSet(self))

(***************************************************************************)
(* Properties.                                                             *)
(***************************************************************************)

\* WriteBuffer is a queue of Size - 1 bytes that refuses none: what the threads write
\* is sent, once and in their order, though neither side locks (BufferWrite by
\* threads, BufferRead by UartInterrupt).
Contents ==
    [n \in 1 .. (tx.write - tx.read) % Size |-> tx.data[(tx.read + n - 1) % Size]]

Output ==
    INSTANCE BoundedQueue
        WITH Message <- Byte, NoMessage <- NoByte, Capacity <- Size - 1,
             queue <- Contents, received <- sent, refused <- NoByte

OutputQueue == Output!Spec

\* A thread that has counted itself is posted once, and nobody else is: a post that
\* came for an earlier wait never lets a thread write to a full ring or read from an
\* empty one (pendingWrite and pendingRead with their semaphores).
WakesCounted ==
    /\ tx.pending + tx.semaphore = IF \E t \in Thread : uartPc[t] = "writePend" THEN 1 ELSE 0
    /\ rx.pending + rx.semaphore = IF uartPc[Reader] = "readPend" THEN 1 ELSE 0

\* Bytes left in WriteBuffer are never forgotten: the interrupt that sends them is on,
\* or the thread that has written the last is about to switch it on, although the
\* interrupt switches itself off without looking at the threads (UartWrite,
\* UartInterrupt).
NothingForgotten ==
    Empty(tx) \/ mask \/ \E t \in Thread : uartPc[t] = "mask"

\* Each wait that a thread has counted in pendingRead or pendingWrite is posted once, and no byte
\* left in WriteBuffer is forgotten, wherever the interrupt comes.  What the interrupt does between
\* the check of the ring and the count (uart.c 83-87) posts nobody, and is not excluded.
RingsSound == tx \in Ring /\ WakesCounted /\ NothingForgotten

\* Each byte in WriteBuffer is sent, as if the interrupt were never switched off:
\* UartFairSpec assumes that of an interrupt that is on only.
BytesGoOut == WF_uartVars(Transmit)
=============================================================================
