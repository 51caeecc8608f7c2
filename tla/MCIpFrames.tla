---------------------------- MODULE MCIpFrames ----------------------------
EXTENDS IpFrames
FrameSymmetry == Permutations(Frames)

\* What a frame outside the lists still says is written again before it is read
Busy == UNION {ToSet(ListFrames(ip, l)) : l \in Lists}
        \cup {frameOut} \cup {ip.frameSend[s] : s \in Sockets}
Listed == UNION {ToSet(ListFrames(ip, l)) : l \in {"resend"}}
Field(g, S) == [f \in S |-> g[f]]
FrameView ==
    <<[ip EXCEPT !.sock = Field(@, Busy \ {NULL}), !.counted = Field(@, Busy \ {NULL}),
                 !.retry = Field(@, Busy \ {NULL}), !.timeout = Field(@, Listed),
                 !.next = Field(@, {f \in Frames : ip.state[f] # 1}),
                 !.prev = Field(@, {f \in Frames : ip.state[f] = 2})],
      packetCurrent, packetOut, frameOut, main>>
===========================================================================
