------------------------------ MODULE MCParts ------------------------------
(***************************************************************************)
(* The small parts of the system that share no state, for TLC: a behaviour *)
(* is a behaviour of one part, while the others stay as they began.        *)
(***************************************************************************)
EXTENDS SpinLock, UartBuffers, EthernetRing, IpConfig, RtosHeap

VARIABLES part, sample

Parts == {"spin", "uart", "heap", "ring", "config", "formats", "floats", "libc"}

\* The second heap is the first one's alternate
MCAlternate == <<2, 0>>

\* One server is its own gateway, the other names the router
MCGatewayOf == [s \in Server |-> IF s = "s1" THEN s ELSE Router]

Formats == INSTANCE WireFormats WITH Bytes <- {0, 6, 15}, MaxBytes <- 3

\* Far apart, next to each other, and at the ends of what there is
Floats == INSTANCE SoftFloat
            WITH W <- 4, E <- 5, Exponents <- {1, 4, 11, 12, 13, 16},
                 Fractions <- {0, 1, 2, 15, 16, 17, 255, 1023, 1024, 1365, 2046, 2047}

\* Leap years, those before and after them, and the last one that 31 bits hold
Library == INSTANCE LibC
             WITH Items <- {1, 2, 3}, MaxItems <- 5,
                  Years <- {1980, 1981, 1983, 1984, 1999, 2000, 2001, 2020, 2046},
                  Values <- {0, 9, 10, 15, 16, 255, 99999999, 999999999, 2147483647,
                             -1, -10, -99999999}

partVars == <<part, vars, uartVars, heapVars, ringVars, configVars, sample>>

\* The last frame is good, and where a frame that is not good begins makes no difference
RingSample == kind[FrameCount] = "good" /\ \A f \in Frames : kind[f] # "good" => lead[f] = 3

PartsInit ==
    /\ part \in Parts
    /\ Init /\ UartInit /\ HeapInit /\ RingInit /\ ConfigInit
    /\ Formats!SampleInit
    /\ IF part = "ring" THEN RingSample
       ELSE errors = 0 /\ kind = [f \in Frames |-> "good"] /\ lead = [f \in Frames |-> 3]

\* The other parts stay as they are
Alone(name) ==
    /\ UNCHANGED part
    /\ name # "spin" => UNCHANGED vars
    /\ name # "uart" => UNCHANGED uartVars
    /\ name # "heap" => UNCHANGED heapVars
    /\ name # "ring" => UNCHANGED ringVars
    /\ name # "config" => UNCHANGED configVars
    /\ name \notin {"formats", "floats", "libc"} => UNCHANGED sample

PartsNext ==
    \/ part = "spin" /\ Next /\ Alone("spin")
    \/ part = "uart" /\ UartNext /\ Alone("uart")
    \/ part = "heap" /\ HeapNext /\ Alone("heap")
    \/ part = "ring" /\ RingNext /\ Alone("ring")
    \/ part = "config" /\ ConfigNext /\ Alone("config")
    \/ part = "formats" /\ Formats!TakeSample /\ Alone("formats")
    \/ part = "floats" /\ Floats!TakeSample /\ Alone("floats")
    \/ part = "libc" /\ Library!TakeSample /\ Alone("libc")

\* The fairness of each part; since one part goes, an action of each can share a condition
First ==
    \/ part = "uart" /\ mask /\ Transmit /\ Alone("uart")
    \/ part = "ring" /\ Dma /\ Alone("ring")
    \/ part = "config" /\ IPTick /\ Alone("config")
Second ==
    \/ part = "uart" /\ MaskSet("t1") /\ Alone("uart")
    \/ part = "ring" /\ Driver /\ Alone("ring")
    \/ part = "config" /\ Arrives /\ Alone("config")
Third ==
    \/ part = "uart" /\ MaskSet("t2") /\ Alone("uart")
    \/ part = "config" /\ Answer /\ Alone("config")

PartsFairness == WF_partVars(First) /\ WF_partVars(Second) /\ WF_partVars(Third)

PartsSpec == PartsInit /\ [][PartsNext]_partVars /\ PartsFairness
-----------------------------------------------------------------------------
\* IpConfig: the gateway's hardware address is found, and found again
GatewayIsFound == part = "config" => GatewayFound

\* WireFormats: checksums verify, frames are as the standard says, names are encoded
FormatsRight == Formats!FormatsRight

\* SoftFloat: sums, products and quotients are as close as the code's shifts allow
FloatsClose == Floats!FloatsClose

\* LibC: what is sorted, searched, printed, read and dated is right
LibraryRight == Library!LibraryRight
=============================================================================
