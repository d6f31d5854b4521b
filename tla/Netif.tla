------------------------------- MODULE Netif -------------------------------
(***************************************************************************)
(* A network interface of vsfip: output, ARP cache and ARP client          *)
(* (component/tcpip/netif/vsfip_netif.c), and the transmitter of its       *)
(* driver (component/usb/class/device/CDC/vsfusbd_RNDIS.c).                *)
(*                                                                         *)
(* A packet goes to outq when the MAC of its next hop is cached and to     *)
(* requestq otherwise; the ARP client resolves one packet at a time, woken *)
(* by a timer or by any ARP reply.  The queues are lists linked through    *)
(* the buffers, which are counted by references: TCP keeps a reference to  *)
(* send the buffer again.  The waiters of the two semaphores are woken by  *)
(* queued events, so each is a step of its own; the rest of a wake-up is   *)
(* one step.  A MAC is named by the address it belongs to.                 *)
(***************************************************************************)
EXTENDS Integers, Sequences, FiniteSets, FiniteSetsExt

CONSTANTS
    NBuf,        \* buffers of the pool
    IPs,         \* destinations
    Hops,        \* addresses of the local network
    Via,         \* [IPs -> Hops]: next hop, the gateway for what is not local
    Bcast,       \* 255.255.255.255 and its MAC
    Peers,       \* addresses that may announce themselves
    CacheSize,   \* VSFIP_CFG_ARPCACHE_SIZE
    Retry,       \* requests after the first one: 3 in the code
    Packets,     \* what sockets send: to where, with room for the header,
                 \* and with a reference that is kept or without
    MaxSend,     \* bound: packets given to the interface
    MaxInput     \* bound: ARP packets received

Buf == 1..NBuf
NIL == 0                       \* NULL
Queues == {"outq", "requestq"}
ASSUME NetifAssumption ==
    /\ NBuf \in Nat \ {0} /\ CacheSize \in Nat \ {0} /\ Retry \in Nat
    /\ Via \in [IPs -> Hops] /\ Bcast \in IPs /\ Via[Bcast] = Bcast
    /\ Peers \subseteq Hops \ {Bcast}
    /\ Packets \subseteq [dst : IPs, room : BOOLEAN, held : BOOLEAN]
    /\ MaxSend \in Nat /\ MaxInput \in Nat

VARIABLES
    n,           \* the interface: struct vsfip_netif_t, the driver and the buffers
    sends, inputs,
    linkedTwice  \* history: TCP sent a buffer again that had not left the interface

vars == <<n, sends, inputs, linkedTwice>>

-----------------------------------------------------------------------------
(* vsfq: append and dequeue, through the next field of the buffers.        *)

AppendTo(m, q, b) ==
    LET clear == [m.next EXCEPT ![b] = NIL]
    IN  IF m.queue[q].tail = NIL
        THEN [m EXCEPT !.next = clear, !.queue[q] = [head |-> b, tail |-> b]]
        ELSE [m EXCEPT !.next = [clear EXCEPT ![m.queue[q].tail] = b], !.queue[q].tail = b]

Dequeue(m, q) ==
    LET h == m.queue[q].head
    IN  IF h = NIL THEN m
        ELSE [m EXCEPT !.queue[q] = [head |-> m.next[h],
                                     tail |-> IF m.next[h] = NIL THEN NIL ELSE @.tail]]

(* The buffers of a list in order, as far as it is one.                    *)
Listed(m, q) ==
    LET walk[i \in 0..NBuf] ==
          IF i = 0 THEN <<>>
          ELSE LET w == walk[i - 1]
                   b == IF w = <<>> THEN m.queue[q].head ELSE m.next[w[Len(w)]]
               IN  IF Len(w) < i - 1 \/ b = NIL THEN w ELSE Append(w, b)
    IN  walk[NBuf]

-----------------------------------------------------------------------------
(* Buffers                                                                 *)

(* What stands in an unused buffer is of no interest.                      *)
NoFrame == [dst |-> Bcast, room |-> TRUE, proto |-> "ip", mac |-> Bcast]

Unused(m) == {b \in Buf : m.ref[b] = 0}
Get(m, b) == [m EXCEPT !.ref[b] = 1]
Release(m, b) ==
    IF m.ref[b] > 1 THEN [m EXCEPT !.ref[b] = @ - 1]
    ELSE [m EXCEPT !.ref[b] = 0, !.frame[b] = NoFrame, !.next[b] = NIL]

(* ARP cache: an entry of time 0 is free.                                  *)
Known(m, ip) == ip = Bcast \/ \E i \in 1..CacheSize : m.cache[i].time > 0 /\ m.cache[i].ip = ip

Mac(m, ip) ==
    IF ip = Bcast THEN Bcast
    ELSE m.cache[Min({i \in 1..CacheSize : m.cache[i].time > 0 /\ m.cache[i].ip = ip})].mac

(* The first free entry, or else the first one of the oldest.              *)
Victim(m) ==
    LET oldest == Min({m.cache[i].time : i \in 1..CacheSize})
    IN  Min({i \in 1..CacheSize : m.cache[i].time = oldest})

(* A bug to check against: the entry that is replaced keeps its address.   *)
AddAssocKeep(m, ip, mac) ==
    IF Known(m, ip) THEN m
    ELSE [m EXCEPT !.cache[Victim(m)] = [ip |-> IF @.time = 0 THEN ip ELSE @.ip,
                                         mac |-> mac, time |-> m.arp_time],
                   !.arp_time = @ + 1]

(* vsfip_netif_arp_add_assoc: what is known already is not changed.        *)
AddAssoc(m, ip, mac) ==
    IF Known(m, ip) THEN m
    ELSE [m EXCEPT !.cache[Victim(m)] = [ip |-> ip, mac |-> mac, time |-> m.arp_time],
                   !.arp_time = @ + 1]

-----------------------------------------------------------------------------
(* Output                                                                  *)

(* vsfip_netif_ip_output_do: without room for the header the packet is     *)
(* dropped, otherwise it is given to the driver.                           *)
OutputDo(m, b, proto, mac) ==
    IF ~m.frame[b].room THEN Release(m, b)
    ELSE [AppendTo([m EXCEPT !.frame[b] = [@ EXCEPT !.proto = proto, !.mac = mac]], "outq", b)
            EXCEPT !.osem = @ + 1]

(* A bug to check against: the waiting packet is not counted.              *)
IpOutputQuiet(m, b) ==
    LET hop == Via[m.frame[b].dst]
    IN  IF Known(m, hop) THEN OutputDo(m, b, "ip", Mac(m, hop))
        ELSE AppendTo(m, "requestq", b)

IpOutput(m, b) ==
    LET hop == Via[m.frame[b].dst]
    IN  IF Known(m, hop) THEN OutputDo(m, b, "ip", Mac(m, hop))
        ELSE [AppendTo(m, "requestq", b) EXCEPT !.rsem = @ + 1]

-----------------------------------------------------------------------------
(* vsfip_netif_arp_client_thread                                           *)

(* A bug to check against: the unresolved packet is kept.                  *)
ClientEndKeep(m) ==
    LET e == [m EXCEPT !.pc = "sem", !.cur = NIL, !.ip = Bcast, !.retry = 0]
    IN  IF Known(m, m.ip) THEN OutputDo(e, m.cur, "ip", Mac(m, m.ip)) ELSE e

(* The packet is resolved and sent, or dropped.                            *)
ClientEnd(m) ==
    LET e == [m EXCEPT !.pc = "sem", !.cur = NIL, !.ip = Bcast, !.retry = 0]
    IN  IF Known(m, m.ip) THEN OutputDo(e, m.cur, "ip", Mac(m, m.ip)) ELSE Release(e, m.cur)

(* Broadcast a request and wait; without a buffer the packet is dropped.   *)
ClientAsk(m) ==
    IF Unused(m) = {} THEN ClientEnd(m)
    ELSE LET b == Min(Unused(m))
             e == [Get(m, b) EXCEPT !.frame[b] = [dst |-> m.ip, room |-> TRUE,
                                                  proto |-> "arp", mac |-> Bcast]]
         IN  [OutputDo(e, b, "arp", Bcast) EXCEPT !.pc = "reply"]

(* Woken by ARPC_TIMEOUT or ARPC_UPDATE.                                   *)
ClientWoken(m) ==
    IF ~Known(m, m.ip) /\ m.retry > 0 THEN ClientAsk([m EXCEPT !.retry = @ - 1])
    ELSE ClientEnd(m)

(* The semaphore is taken: the first packet of requestq.                   *)
ClientNext(m) ==
    LET b == m.queue["requestq"].head
        e == [Dequeue(m, "requestq") EXCEPT !.rsem = @ - 1]
        c == [e EXCEPT !.cur = b, !.ip = Via[m.frame[b].dst], !.retry = Retry]
    IN  IF b = NIL THEN e ELSE IF Known(c, c.ip) THEN ClientEnd(c) ELSE ClientAsk(c)

-----------------------------------------------------------------------------
(* The driver: vsfusbd_RNDIS_on_tx_finish                                  *)

(* A bug to check against: a sent frame does not bring the next one.       *)
TxFinishAlone(m) ==
    IF m.tx = NIL THEN [Dequeue(m, "outq") EXCEPT !.tx = m.queue["outq"].head]
    ELSE [Release(m, m.tx) EXCEPT !.tx = NIL]

TxFinish(m) ==
    LET e == [Dequeue(m, "outq") EXCEPT !.tx = m.queue["outq"].head]
    IN  IF m.tx = NIL THEN e ELSE Release(e, m.tx)

-----------------------------------------------------------------------------
(* A received packet is done with: on_rx_finish takes the next buffer, and *)
(* when there is none nothing is received any more.                        *)
NextRx(m) ==
    IF Unused(m) = {} THEN [m EXCEPT !.rx = NIL]
    ELSE [Get(m, Min(Unused(m))) EXCEPT !.rx = Min(Unused(m))]

(* vsfip_netif_arp_input: a reply wakes the client, whatever it is about.  *)
InputReply(m, ip) ==
    LET a == AddAssoc(m, ip, ip)
        w == IF a.pc = "reply" THEN ClientWoken(a) ELSE a
    IN  NextRx(Release(w, m.rx))

(* A request for the own address is answered in its own buffer.            *)
InputRequest(m, ip) ==
    NextRx(OutputDo([m EXCEPT !.frame[m.rx] = [dst |-> ip, room |-> TRUE,
                                               proto |-> "reply", mac |-> ip]],
                    m.rx, "reply", ip))

(* Any other packet, when it has been taken.                               *)
InputOther(m) == NextRx(Release(m, m.rx))

-----------------------------------------------------------------------------
(* Where a buffer stands, apart from the reference TCP holds.              *)
Queued(m, b) ==
    \/ \E q \in Queues : \E i \in 1..Len(Listed(m, q)) : Listed(m, q)[i] = b
    \/ b \in {m.cur, m.tx, m.rx}

(* vsfip_ip_output of a socket.                                            *)
Send(p) ==
    /\ sends < MaxSend /\ Unused(n) # {}
    /\ LET b == Min(Unused(n))
       IN  n' = IpOutput([Get(n, b) EXCEPT
                    !.frame[b] = [dst |-> p.dst, room |-> p.room, proto |-> "ip", mac |-> Bcast],
                    !.held = IF p.held THEN @ \cup {b} ELSE @,
                    !.ref[b] = IF p.held THEN 2 ELSE 1], b)
    /\ sends' = sends + 1 /\ UNCHANGED <<inputs, linkedTwice>>

(* vsfip_tcp_socket_tick sends the buffer again.  It does not look whether *)
(* the buffer has left the interface: with a timeout of 100 ms             *)
(* (vsfip_telnetd.c:155) and an ARP request of 1000 ms it may not have.    *)
Resend(b) ==
    /\ sends < MaxSend /\ b \in n.held
    /\ n' = IpOutput([n EXCEPT !.ref[b] = @ + 1], b)
    /\ linkedTwice' = (linkedTwice \/ Queued(n, b))
    /\ sends' = sends + 1 /\ UNCHANGED inputs

(* The data is acknowledged.                                               *)
Acknowledged(b) ==
    /\ b \in n.held
    /\ n' = [Release(n, b) EXCEPT !.held = @ \ {b}]
    /\ UNCHANGED <<sends, inputs, linkedTwice>>

ArpReply(ip) ==
    /\ inputs < MaxInput /\ n.rx # NIL
    /\ n' = InputReply(n, ip)
    /\ inputs' = inputs + 1 /\ UNCHANGED <<sends, linkedTwice>>

ArpRequest(ip) ==
    /\ inputs < MaxInput /\ n.rx # NIL
    /\ n' = InputRequest(n, ip)
    /\ inputs' = inputs + 1 /\ UNCHANGED <<sends, linkedTwice>>

Received ==
    /\ inputs < MaxInput /\ n.rx # NIL
    /\ n' = InputOther(n)
    /\ inputs' = inputs + 1 /\ UNCHANGED <<sends, linkedTwice>>

Client ==
    /\ n.pc = "sem" /\ n.rsem > 0
    /\ n' = ClientNext(n) /\ UNCHANGED <<sends, inputs, linkedTwice>>

ArpTimeout ==
    /\ n.pc = "reply"
    /\ n' = ClientWoken(n) /\ UNCHANGED <<sends, inputs, linkedTwice>>

(* vsfusbd_RNDIS_evt_handler: output_sem is taken; a frame that is being   *)
(* sent will bring the next one.                                           *)
Driver ==
    /\ n.osem > 0
    /\ n' = LET e == [n EXCEPT !.osem = @ - 1] IN IF n.tx = NIL THEN TxFinish(e) ELSE e
    /\ UNCHANGED <<sends, inputs, linkedTwice>>

TxDone ==
    /\ n.tx # NIL
    /\ n' = TxFinish(n) /\ UNCHANGED <<sends, inputs, linkedTwice>>

-----------------------------------------------------------------------------
NoQueue == [head |-> NIL, tail |-> NIL]

Init ==
    /\ n = [next |-> [b \in Buf |-> NIL], queue |-> [q \in Queues |-> NoQueue],
            osem |-> 0, rsem |-> 0, ref |-> [b \in Buf |-> IF b = 1 THEN 1 ELSE 0],
            frame |-> [b \in Buf |-> NoFrame], held |-> {},
            cache |-> [i \in 1..CacheSize |-> [ip |-> Bcast, mac |-> Bcast, time |-> 0]],
            arp_time |-> 1, pc |-> "sem", cur |-> NIL, ip |-> Bcast, retry |-> 0,
            tx |-> NIL, rx |-> 1]
    /\ sends = 0 /\ inputs = 0 /\ linkedTwice = FALSE

Next ==
    \/ \E p \in Packets : Send(p)
    \/ \E b \in Buf : Resend(b) \/ Acknowledged(b)
    \/ \E ip \in Peers : ArpReply(ip) \/ ArpRequest(ip)
    \/ Received \/ Client \/ ArpTimeout \/ Driver \/ TxDone

Spec == Init /\ [][Next]_vars

(* The threads run, the timer expires, and the host takes the frames.      *)
FairSpec == Spec /\ WF_vars(Client) /\ WF_vars(ArpTimeout) /\ WF_vars(Driver) /\ WF_vars(TxDone)

-----------------------------------------------------------------------------
(* vsfip_netif.c:111 and 168: the queues are linked through the buffers    *)
(* and every owner drops its own reference.  Nothing but a retransmission  *)
(* of a buffer that has not left the interface (vsfip.c:1348) undoes that: *)
(* until one happens a buffer stands at one place at most, the lists end   *)
(* at their tails, and the references are those of that place and of TCP,  *)
(* so nothing leaks and nothing is used after free.                        *)
BuffersOwned ==
    LET out == Listed(n, "outq")
        req == Listed(n, "requestq")
        places == out \o req \o <<n.cur, n.tx, n.rx>>
    IN  ~linkedTwice =>
        /\ \A i, j \in 1..Len(places) : i # j => places[i] = NIL \/ places[i] # places[j]
        /\ \A q \in Queues :
              LET l == Listed(n, q)
              IN  n.queue[q].tail = IF l = <<>> THEN NIL ELSE l[Len(l)]
        /\ \A b \in Buf : n.ref[b] = (IF Queued(n, b) THEN 1 ELSE 0) + (IF b \in n.held THEN 1 ELSE 0)

(* vsfusbd_RNDIS.c:128 and vsfip_netif.c:169: the semaphores are counted   *)
(* apart from the queues, and the driver skips a wake-up while it sends:   *)
(* as long as no buffer was linked twice, somebody is due to take the head *)
(* of a queue that is not empty.                                           *)
SomebodyComes ==
    ~linkedTwice =>
    /\ n.rsem = Len(Listed(n, "requestq"))
    /\ n.queue["outq"].head # NIL => n.osem > 0 \/ n.tx # NIL

(* Frames go where their packet goes: the MAC in the header is that of the *)
(* next hop, although the cache entry may have been replaced while the     *)
(* packet waited; while no buffer was linked twice.                        *)
RightHop ==
    ~linkedTwice =>
    \A b \in Buf : (b = n.tx \/ \E i \in 1..Len(Listed(n, "outq")) : Listed(n, "outq")[i] = b) =>
        /\ n.frame[b].proto = "ip" => n.frame[b].mac = Via[n.frame[b].dst]
        /\ n.frame[b].proto = "arp" => n.frame[b].mac = Bcast

(* vsfip_netif.c:361-399: the client asks a limited number of times and    *)
(* then drops the packet: what is given to the interface leaves it, sent   *)
(* or dropped, though nobody may answer, unless a buffer is linked twice.  *)
Laden == \E b \in Buf : Queued(n, b) /\ b # n.rx
PacketsLeave == Laden ~> (~Laden \/ linkedTwice)
=============================================================================
