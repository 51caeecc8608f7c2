------------------------------ MODULE IpConfig ------------------------------
(* How the IP stack gets its address, its gateway and the hardware address to   *)
(* send to (kernel/tcpip.c: IPDhcp, IPArp, ArpCache, IPSendFrame).  Messages    *)
(* are lost, come twice, out of order, or later than the retry time; there may  *)
(* be no frame whenever one is wanted (IPFrameGet).                             *)
EXTENDS Integers, FiniteSets

CONSTANTS Server,        \* DHCP servers; each stands for the address it gives
          Router,
          GatewayOf,     \* [Server -> Server \cup {Router}]: the gateway a server names
          Nothing,
          CacheSize,     \* entries of ArpCache
          RetrySeconds, LeaseSeconds,   \* DhcpRetrySeconds: 2 and 3600*4
          MaxTrouble     \* bound: losses, late messages, repetitions and missing frames

Host == Server \cup {Router}

ASSUME ConfigAssumption ==
    /\ GatewayOf \in [Server -> Host] /\ Nothing \notin Host
    /\ RetrySeconds \in 1..LeaseSeconds /\ CacheSize \in Nat \ {0}

VARIABLES request, DhcpRetrySeconds, ipAddress, ipAddressGateway,
          ethernetAddressGateway,   \* Nothing: ff:ff:ff:ff:ff:ff, everybody
          ArpCache, ArpCacheIndex,
          dest,                     \* ETHERNET_DEST of a socket's header to the Router
          net, trouble

dhcpVars == <<request, DhcpRetrySeconds, ipAddress, ipAddressGateway, ethernetAddressGateway>>
arpVars == <<ArpCache, ArpCacheIndex>>
configVars == <<dhcpVars, arpVars, dest, net, trouble>>

Discover == [type |-> "discover"]
ForHost(type, h) == [type |-> type, host |-> h]

ConfigInit ==
    /\ request = "none" /\ DhcpRetrySeconds = 0
    /\ ipAddress = Nothing /\ ipAddressGateway = Nothing /\ ethernetAddressGateway = Nothing
    /\ ArpCache = [i \in 0..CacheSize - 1 |-> Nothing] /\ ArpCacheIndex = 0
    /\ dest = Nothing /\ net = {} /\ trouble = 0

Spend(n) == trouble + n <= MaxTrouble /\ trouble' = trouble + n

\* A message comes, perhaps not for the last time, and some are sent
Deliver(m, sent, cost) ==
    /\ m \in net
    /\ \E again \in 0..1 :
         Spend(cost + again) /\ net' = (IF again = 1 THEN net ELSE net \ {m}) \cup sent

-----------------------------------------------------------------------------
\* IPDhcp(1) when the time is over; without a frame, it is over in the next second too.
\* A second with a message on its way makes that message late.
IPTick ==
    LET late == IF net = {} THEN 0 ELSE 1 IN
    /\ \/ /\ DhcpRetrySeconds > 1 /\ Spend(late)
          /\ DhcpRetrySeconds' = DhcpRetrySeconds - 1
          /\ UNCHANGED <<request, net>>
       \/ /\ DhcpRetrySeconds <= 1 /\ Spend(late)
          /\ request' = "discover" /\ DhcpRetrySeconds' = RetrySeconds
          /\ net' = net \cup {Discover}
       \/ /\ DhcpRetrySeconds <= 1 /\ Spend(late + 1)
          /\ DhcpRetrySeconds' = 0
          /\ UNCHANGED <<request, net>>
    /\ UNCHANGED <<ipAddress, ipAddressGateway, ethernetAddressGateway, arpVars, dest>>

\* IPDhcp(2), an offer: ask for it, if there is a frame.  The retry time goes on.
Offer(s) ==
    LET m == ForHost("offer", s) IN
    /\ \/ /\ request = "discover" /\ request' = "request"
          /\ Deliver(m, {ForHost("request", s)}, 0)
       \/ /\ request = "discover" /\ UNCHANGED request /\ Deliver(m, {}, 1)
       \/ /\ request # "discover" /\ UNCHANGED request /\ Deliver(m, {}, 0)
    /\ UNCHANGED <<DhcpRetrySeconds, ipAddress, ipAddressGateway, ethernetAddressGateway, arpVars, dest>>

\* Broken variant: the hardware address is that of the gateway before
GatewayKept(s) == IF GatewayOf[s] = s THEN s ELSE ethernetAddressGateway

\* The hardware address of the gateway, when it was the gateway that answered
GatewayKnown(s) == IF GatewayOf[s] = s THEN s ELSE Nothing

\* Broken variant: nobody is asked
AskNobody(s) == {}

\* IPArp to a gateway that was not the one that answered
AskGateway(s) == IF GatewayOf[s] = s THEN {} ELSE {ForHost("arp", GatewayOf[s])}

\* IPDhcp(2), an acknowledgement: taken after any request, whoever was asked
Ack(s) ==
    LET m == ForHost("ack", s) IN
    /\ \/ /\ request = "request"
          /\ request' = "none" /\ DhcpRetrySeconds' = LeaseSeconds
          /\ ipAddress' = s /\ ipAddressGateway' = GatewayOf[s]
          /\ ethernetAddressGateway' = GatewayKnown(s)
          /\ \/ Deliver(m, AskGateway(s), 0)
             \/ AskGateway(s) # {} /\ Deliver(m, {}, 1)
       \/ request # "request" /\ Deliver(m, {}, 0) /\ UNCHANGED dhcpVars
    /\ UNCHANGED <<arpVars, dest>>

\* An ARP reply: the oldest entry of the cache is written over
ArpReply(h) ==
    /\ Deliver(ForHost("arpReply", h), {}, 0)
    /\ ArpCache' = [ArpCache EXCEPT ![ArpCacheIndex] = h]
    /\ ArpCacheIndex' = (ArpCacheIndex + 1) % CacheSize
    /\ ethernetAddressGateway' = IF h = ipAddressGateway THEN h ELSE ethernetAddressGateway
    /\ UNCHANGED <<request, DhcpRetrySeconds, ipAddress, ipAddressGateway, dest>>

\* IPOpen: the header gets the gateway's hardware address, known or not
IPOpen ==
    /\ dest' = ethernetAddressGateway
    /\ UNCHANGED <<dhcpVars, arpVars, net, trouble>>

\* IPSendFrame when the header has no hardware address: that of the receiver, never of the
\* gateway, is looked up and asked for
IPSendFrame ==
    LET cached == \E i \in DOMAIN ArpCache : ArpCache[i] = Router IN
    /\ dest = Nothing
    /\ dest' = IF cached THEN Router ELSE Nothing
    /\ \/ cached /\ UNCHANGED <<net, trouble>>
       \/ ~cached /\ Spend(0) /\ net' = net \cup {ForHost("arp", Router)}
    /\ UNCHANGED <<dhcpVars, arpVars>>
-----------------------------------------------------------------------------
\* The servers and hosts answer; a message is lost
Answers(m) ==
    CASE m.type = "discover" -> {ForHost("offer", s) : s \in Server}
      [] m.type = "request"  -> {ForHost("ack", m.host)}
      [] m.type = "arp"      -> {ForHost("arpReply", m.host)}
      [] OTHER               -> {}

Answer ==
    \E m \in net :
      /\ m.type \in {"discover", "request", "arp"}
      /\ Deliver(m, Answers(m), 0)
      /\ UNCHANGED <<dhcpVars, arpVars, dest>>

Lose ==
    \E m \in net : Spend(1) /\ net' = net \ {m} /\ UNCHANGED <<dhcpVars, arpVars, dest>>

Arrives == (\E s \in Server : Offer(s) \/ Ack(s)) \/ \E h \in Host : ArpReply(h)

ConfigNext == IPTick \/ Arrives \/ IPOpen \/ IPSendFrame \/ Answer \/ Lose

ConfigFairness == WF_configVars(IPTick) /\ WF_configVars(Arrives) /\ WF_configVars(Answer)
ConfigSpec == ConfigInit /\ [][ConfigNext]_configVars /\ ConfigFairness
-----------------------------------------------------------------------------
\* What is sent through the gateway goes to the gateway of the address in use, or to everybody,
\* but never to one that was the gateway before or to another server (IPDhcp, ARP replies)
GatewayRight == ethernetAddressGateway \in {Nothing, ipAddressGateway}

\* The gateway's hardware address is found, and found again after each renewal, though messages
\* are lost and replies are late: nothing asks a second time but the next renewal of the address
GatewayFound == []<>(ethernetAddressGateway # Nothing)
=============================================================================
