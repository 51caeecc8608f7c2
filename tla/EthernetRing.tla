---------------------------- MODULE EthernetRing ----------------------------
(* How the Ethernet driver (kernel/ethernet.c) finds frames in the ring that    *)
(* the DMA fills behind it.  A cell is one 32-bit word of the ring, the unit    *)
(* the DMA writes; a frame is two words that hold 0x5d and our address, and its  *)
(* CRC.  How many of these seven bytes are in the first word depends on when the *)
(* PHY sees the frame: four when its data begins with 0x5d, three when a byte of *)
(* the preamble comes before.  The driver reads one cell at a time; the DMA may  *)
(* write between any two.                                                        *)
EXTENDS Integers, Sequences, FiniteSets

CONSTANTS RingSize,      \* INDEX_MASK + 1, in words
          CountEmpty,    \* COUNT_EMPTY, and the 1500 of a frame that must be there
          CountExpected,
          Origin,        \* where in the ring the first frame comes
          FrameCount,    \* bound: frames that come in
          ErrorLimit     \* ethErrorCount that makes EthernetThread start again

Frames == 1..FrameCount
FrameWords == 3

\* Assumed: the DMA does not come round to words that were not read yet, and no more than the
\* 1500 bytes are unread when the driver starts again
ASSUME RingAssumption ==
    /\ {RingSize, CountExpected, FrameCount} \subseteq Nat
    /\ ErrorLimit \in Nat \ {0} /\ Origin \in 0..RingSize - 1
    /\ CountEmpty \in 2..CountExpected   \* COUNT_EMPTY is more than the start of a frame
    /\ FrameCount * FrameWords <= CountExpected /\ CountExpected < RingSize - 1

Kinds == {"good", "badCrc", "other"}   \* for us, for us with an error, for someone else

\* Bound: with one or two the address ends in the third word, and the driver has no rule for
\* it that it has not for four
Leads == {3, 4}

VARIABLES kind,          \* of each frame that comes
          lead,          \* bytes of 0x5d and our address in its first word
          ring, written, \* the cells, and how many cells the DMA has written
          irq,           \* IRQ_ETHERNET_RECEIVE
          gIndex, gCheckedBefore, gEmptyBefore, errors,
          ringPc, scan,      \* where EthernetReceive is, and its variables
          delivered

dmaVars == <<kind, lead, written>>
ringVars == <<kind, lead, ring, written, irq, gIndex, gCheckedBefore, gEmptyBefore, errors,
              ringPc, scan, delivered>>

BYTE_EMPTY == <<"empty">>
Junk == <<"junk">>

\* The cells of a frame, as the DMA writes them
Cells(f) ==
    IF kind[f] = "other" THEN <<Junk, Junk, Junk>>
    ELSE <<<<"mac1", f>>, <<"mac2", f>>, IF kind[f] = "good" THEN <<"crc", f>> ELSE Junk>>

Coming == written \div FrameWords + 1

At(index) == (index + Origin) % RingSize
Cell(i) == ring[At(gIndex + i)]

\* Broken variant: all but the last
ClearedShort(first, n) ==
    [x \in DOMAIN ring |-> IF \E j \in 0..n - 2 : x = At(first + j) THEN BYTE_EMPTY ELSE ring[x]]

Cleared(first, n) ==
    [x \in DOMAIN ring |-> IF \E j \in 0..n - 1 : x = At(first + j) THEN BYTE_EMPTY ELSE ring[x]]

NoScan == [i |-> 0, ok |-> 0, empty |-> 0, goal |-> 0, wait |-> FALSE, expected |-> FALSE]

RingInit ==
    /\ kind \in [Frames -> Kinds] /\ lead \in [Frames -> Leads]
    /\ ring = [x \in 0..RingSize - 1 |-> BYTE_EMPTY]
    /\ written = 0 /\ irq = FALSE
    /\ gIndex = 0 /\ gCheckedBefore = FALSE /\ gEmptyBefore = FALSE
    /\ errors \in {0, ErrorLimit}
    /\ ringPc = "wait" /\ scan = NoScan /\ delivered = <<>>

-----------------------------------------------------------------------------
\* The DMA writes one word; at the end of a frame it raises the interrupt
Dma ==
    /\ written < FrameCount * FrameWords /\ ringPc # "init"
    /\ ring' = [ring EXCEPT ![At(written)] = Cells(Coming)[(written % FrameWords) + 1]]
    /\ written' = written + 1
    /\ irq' = (irq \/ (written + 1) % FrameWords = 0)
    /\ UNCHANGED <<kind, lead, gIndex, gCheckedBefore, gEmptyBefore, errors, ringPc, scan, delivered>>

\* EthernetThread goes on when SemEthernet is posted, for a frame that is there or one that it
\* has read meanwhile, or after 50 ticks: at any time
ThreadWakes ==
    /\ ringPc = "wait"
    /\ ringPc' = "begin"
    /\ UNCHANGED <<dmaVars, ring, irq, gIndex, gCheckedBefore, gEmptyBefore, errors, scan, delivered>>

\* EthernetReceive looks at the interrupt and then clears it
Begin ==
    /\ ringPc = "begin"
    /\ ringPc' = "scan"
    /\ scan' = [NoScan EXCEPT !.expected = irq,
                  !.goal = IF irq /\ Cell(0) = BYTE_EMPTY /\ gEmptyBefore
                           THEN CountExpected ELSE CountEmpty]
    /\ irq' = FALSE
    /\ UNCHANGED <<dmaVars, ring, gIndex, gCheckedBefore, gEmptyBefore, errors, delivered>>

\* EthernetReceive returns 0; after ErrorLimit times the driver starts again.  Bound: once or,
\* with errors at the limit from the start, never.
ReturnNothing ==
    /\ ringPc' = IF errors + 1 = ErrorLimit THEN "init" ELSE "wait"
    /\ errors' = IF errors = ErrorLimit THEN errors ELSE errors + 1
    /\ scan' = NoScan
    /\ UNCHANGED <<dmaVars, irq, delivered>>

InScan == ringPc = "scan" /\ scan.i < RingSize - 1

\* Part of a frame may have come: the driver looks again later, but only once
MustWait ==
    /\ scan.wait /\ ~gCheckedBefore /\ scan.ok # 4 * scan.i /\ scan.empty # scan.i

ScanWait ==
    /\ InScan /\ MustWait
    /\ gCheckedBefore' = TRUE
    /\ ReturnNothing
    /\ UNCHANGED <<ring, gIndex, gEmptyBefore>>

\* The cell ends the 0x5d and address of which the cell before it held scan.ok bytes
Matches(cell) == scan.ok > 0 /\ cell[1] = "mac2"

\* Start of a frame: what is before it is emptied
ScanStart ==
    /\ InScan /\ ~MustWait
    /\ Matches(Cell(scan.i))
    /\ ring' = Cleared(gIndex, scan.i - 1)
    /\ gIndex' = gIndex + scan.i - 1
    /\ ringPc' = "crc" /\ scan' = [NoScan EXCEPT !.i = 1]
    /\ UNCHANGED <<dmaVars, irq, gCheckedBefore, gEmptyBefore, errors, delivered>>

\* Enough empty cells: what is before them is emptied
ScanNothing ==
    /\ InScan /\ ~MustWait
    /\ Cell(scan.i) = BYTE_EMPTY /\ scan.empty + 1 >= scan.goal
    /\ ring' = Cleared(gIndex, scan.i - scan.empty)
    /\ gIndex' = gIndex + scan.i - scan.empty
    /\ gCheckedBefore' = FALSE
    /\ gEmptyBefore' = (gEmptyBefore \/ (scan.empty + 1 >= scan.i /\ scan.expected))
    /\ ReturnNothing

ScanOn ==
    LET cell  == Cell(scan.i)
        empty == cell = BYTE_EMPTY
    IN /\ InScan /\ ~MustWait
       /\ ~Matches(cell) /\ ~(empty /\ scan.empty + 1 >= scan.goal)
       /\ scan' = [scan EXCEPT !.i = @ + 1,
                     !.ok = IF cell[1] = "mac1" THEN lead[cell[2]] ELSE 0,
                     !.empty = IF empty THEN @ + 1 ELSE 0,
                     !.wait = @ \/ (empty /\ scan.ok = 3) \/ (~empty /\ scan.empty > 0)]
       /\ gEmptyBefore' = (gEmptyBefore /\ empty)
       /\ UNCHANGED <<dmaVars, ring, irq, gIndex, gCheckedBefore, errors, ringPc, delivered>>

\* Nothing found in the whole ring: the frame is thought to start here
ScanEnd ==
    /\ ringPc = "scan" /\ scan.i = RingSize - 1
    /\ ringPc' = "crc" /\ scan' = NoScan
    /\ UNCHANGED <<dmaVars, ring, irq, gIndex, gCheckedBefore, gEmptyBefore, errors, delivered>>

-----------------------------------------------------------------------------
\* Cell i, from 0, of what may be a frame continues it: the CRC, over what was read, matches.
\* A cell that does not, not yet written or wrong, is never made good in the same call.
Continues(i) ==
    /\ Cell(i)[1] = <<"mac1", "mac2", "crc">>[i + 1]
    /\ i > 0 => Cell(i)[2] = Cell(i - 1)[2]

CrcOn ==
    /\ ringPc = "crc" /\ scan.i < 2 /\ Continues(scan.i)
    /\ scan' = [scan EXCEPT !.i = @ + 1]
    /\ UNCHANGED <<dmaVars, ring, irq, gIndex, gCheckedBefore, gEmptyBefore, errors, ringPc,
                   delivered>>

\* The end of the frame: its cells are emptied, and EthernetThread calls again at once
CrcEnd ==
    /\ ringPc = "crc" /\ scan.i = 2 /\ Continues(2)
    /\ delivered' = Append(delivered, Cell(0)[2])
    /\ ring' = Cleared(gIndex, 3)
    /\ gIndex' = gIndex + 3
    /\ gCheckedBefore' = FALSE
    /\ errors' = IF errors = ErrorLimit THEN errors ELSE 0
    /\ ringPc' = "begin" /\ scan' = NoScan
    /\ UNCHANGED <<dmaVars, irq, gEmptyBefore>>

\* Broken variant: the start of a frame is given up at the first check
CrcFailureOnce ==
    /\ ringPc = "crc" /\ scan.i <= 2 /\ ~Continues(scan.i)
    /\ ring' = Cleared(gIndex, 1)
    /\ gCheckedBefore' = TRUE
    /\ ReturnNothing
    /\ UNCHANGED <<gIndex, gEmptyBefore>>

\* Broken variant: it is never given up
CrcFailureNever ==
    /\ ringPc = "crc" /\ scan.i <= 2 /\ ~Continues(scan.i)
    /\ gCheckedBefore' = TRUE
    /\ ReturnNothing
    /\ UNCHANGED <<ring, gIndex, gEmptyBefore>>

\* No end: the start is given up when this was the second check
CrcFailure ==
    /\ ringPc = "crc" /\ scan.i <= 2 /\ ~Continues(scan.i)
    /\ ring' = IF gCheckedBefore THEN Cleared(gIndex, 1) ELSE ring
    /\ gCheckedBefore' = TRUE
    /\ ReturnNothing
    /\ UNCHANGED <<gIndex, gEmptyBefore>>

\* EthernetInit from EthernetThread empties the ring; the DMA is off, but stays where it was
EthernetInit ==
    /\ ringPc = "init" /\ ringPc' = "wait"
    /\ ring' = Cleared(0, RingSize)
    /\ UNCHANGED <<dmaVars, irq, gIndex, gCheckedBefore, gEmptyBefore, errors, scan, delivered>>

EthernetReceive ==
    Begin \/ ScanWait \/ ScanStart \/ ScanNothing \/ ScanOn \/ ScanEnd
    \/ CrcOn \/ CrcEnd \/ CrcFailure

Driver == ThreadWakes \/ EthernetReceive \/ EthernetInit

RingNext == Dma \/ Driver

Fairness == WF_ringVars(Dma) /\ WF_ringVars(Driver)
RingSpec == RingInit /\ [][RingNext]_ringVars /\ Fairness
-----------------------------------------------------------------------------
\* What is delivered are good frames, in the order they came, none twice; and the driver keeps
\* behind the DMA, with nothing left in the words behind it: nothing is skipped before it is
\* written, and nothing old is found again the next time round
RingSound ==
    /\ \A i \in DOMAIN delivered : kind[delivered[i]] = "good"
    /\ \A i, j \in DOMAIN delivered : i < j => delivered[i] < delivered[j]
    /\ gIndex <= written
    /\ \A n \in 1..RingSize - (written - gIndex) : ring[At(gIndex + RingSize - n)] = BYTE_EMPTY

InRing(f) == \E x \in DOMAIN ring : ring[x] = <<"mac1", f>>

\* While the driver has not looked at part of a frame before, it does not throw away one whose
\* first word holds three bytes of 0x5d and our address, the number EthernetReceive waits for
\* (countOk == 3): neither a whole one nor one that is still coming in, whatever frames are
\* around it.  One whose first word holds four it does throw away, if it finds that word and
\* then nothing (gCheckedBefore, needWait)
NotThrownAway ==
    [][\A f \in Frames :
         /\ ~gCheckedBefore /\ ringPc # "init"
         /\ kind[f] = "good" /\ lead[f] = 3 /\ InRing(f) /\ ~InRing(f)'
         => delivered' = Append(delivered, f)]_ringVars

\* The driver does not get stuck: while it does not start again, it reads or gives up every
\* frame for us that came in, of which there are finitely many (gCheckedBefore)
FramesFound == errors = ErrorLimit => []<>(\A f \in Frames : ~InRing(f))
=============================================================================
