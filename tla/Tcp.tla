-------------------------------- MODULE Tcp --------------------------------
(***************************************************************************)
(* TCP of vsfip (component/tcpip/vsfip.c): a socket that connects and a    *)
(* listening socket with a backlog of one, on two hosts that both run this *)
(* code, over a network that loses, duplicates and, if asked to, reorders. *)
(*                                                                         *)
(* An endpoint is a record: the vsfip_tcppcb_t, the queues of the socket   *)
(* and what the state machines hooked to tx_sm and rx_sm wait for.  The    *)
(* handlers are functions on that record; vsfip_tcp_postevt dispatches the *)
(* event on the spot, so the waiting call goes on inside the handler.  What*)
(* the application calls next is an action of its own.                     *)
(*                                                                         *)
(* A buffer carries one unit of data, its number in the sender's stream.   *)
(* Sequence numbers start at 0 (vsfip.tsn) and do not wrap.  The tick      *)
(* (vsfip_tcp_socket_tick) is split by the timer that expires; how long a  *)
(* timer runs is abstracted away.                                          *)
(***************************************************************************)
EXTENDS Integers, Sequences, SequencesExt, FiniteSets

CONSTANTS client, server,
          TxWindow,     \* VSFIP_CFG_TCP_TX_WINDOW, in buffers
          Retry,        \* pcb->tx_retry and VSFIP_TCP_RETRY, 3 in the code
          TsnStep,      \* distance of initial sequence numbers, 0x10000 in the code
          Scenarios     \* see Scenario

Ends == {client, server}
Peer(h) == IF h = client THEN server ELSE client

(* What an execution may meet: how many buffers the application of each end  *)
(* sends, VSFIP_CFG_TCP_RX_WINDOW in buffers, whether received data expires  *)
(* before it is read, whether segments overtake each other, whether a timer  *)
(* may expire while segments are on their way, and bounds on the segments    *)
(* lost, those duplicated and the timers that expire.                        *)
Scenario == [send : [Ends -> Nat], rx_window : Nat, expires : BOOLEAN, reorder : BOOLEAN,
             early : BOOLEAN, loss : Nat, dup : Nat, timeout : Nat]

ASSUME EndsAssumption == client # server
ASSUME WindowAssumption == TxWindow \in Nat
ASSUME RetryAssumption == Retry \in Nat \ {0}
ASSUME TsnAssumption == TsnStep \in Nat
ASSUME ScenariosAssumption == Scenarios \subseteq Scenario

VARIABLES ep,    \* the endpoints
          net,   \* segments on their way to each end
          env    \* the scenario; its bounds count down

vars == <<ep, net, env>>

\* What the state machine in tx_sm waits for; "hung" is a call that waits after
\* an event it ignored took it out of tx_sm.
TxCalls == {"idle", "connect", "accept", "send", "sendflush", "flush", "drain", "fin",
            "failed", "done", "reset", "hung"}

Flags == {"SYN", "ACK", "FIN", "PSH", "RST"}

(* A socket after vsfip_socket (and vsfip_listen, for the server); tsn is     *)
(* vsfip.tsn and log is the history of the connection: what the application  *)
(* has handed over, what was confirmed to it, what the segments brought, and *)
(* what of it was received or expired unread.                                *)
Fresh(st, tx, tsn, log) ==
    [state |-> st, lseq |-> tsn, acked_lseq |-> tsn, rseq |-> 0, acked_rseq |-> 0,
     flags |-> {}, tx_retry |-> 0, tx_timer |-> FALSE, rwnd |-> 0,
     rclose |-> TRUE, lclose |-> TRUE, inq |-> <<>>, outq |-> <<>>,
     tx |-> tx, rx |-> FALSE, rx_timer |-> FALSE, out |-> <<>>, tsn |-> tsn,
     log |-> log]

NewLog == [sent |-> 0, acked |-> 0, taken |-> <<>>, received |-> <<>>,
           expired |-> {}, gaveup |-> FALSE]

Init ==
    /\ ep = [h \in Ends |-> IF h = client THEN Fresh("CLOSED", "idle", 0, NewLog)
                                          ELSE Fresh("LISTEN", "accept", 0, NewLog)]
    /\ net = [h \in Ends |-> <<>>]
    /\ env \in Scenarios

-----------------------------------------------------------------------------
(* Sending.                                                                  *)

\* vsfip_add_tcphead; data is 0 in a segment without data.
Segment(e, fl, data) ==
    [flags |-> fl \cup (IF e.rseq # 0 THEN {"ACK"} ELSE {}),
     seq |-> e.lseq, ackseq |-> e.rseq, data |-> data, wnd |-> env.rx_window - Len(e.inq)]

\* vsfip_tcp_send_do
SendDo(e, fl, data) ==
    [e EXCEPT !.out = Append(@, Segment(e, fl, data)),
              !.acked_rseq = e.rseq,
              !.flags = IF fl \cap {"FIN", "SYN"} # {} \/ data # 0 THEN fl ELSE @,
              !.lseq = @ + (IF data # 0 THEN 1 ELSE 0)]

\* Mutant: no timer is started.
SendFlagsNoTimer(e, fl) == SendDo(e, fl, 0)

\* vsfip_tcp_sendflags; only SYN and FIN start the timer.
SendFlags(e, fl) ==
    SendDo([e EXCEPT !.tx_timer = @ \/ fl \cap {"SYN", "FIN"} # {}], fl, 0)

\* A SYN or FIN, which takes one sequence number.
SendSynFin(e, fl) ==
    LET s == SendFlags([e EXCEPT !.tx_retry = Retry], fl)
    IN  [s EXCEPT !.lseq = @ + 1]

SendFin(e) ==
    [SendSynFin([e EXCEPT !.lseq = e.acked_lseq], {"FIN"})
        EXCEPT !.state = IF e.rclose THEN "LASTACK" ELSE "FINWAIT1"]

-----------------------------------------------------------------------------
(* The calls that wait, and how an event makes them go on.                   *)

\* Mutant: the window of the receiver is ignored.
WindowOwn(e) == TxWindow

\* min(TX_WINDOW, pcb->rwnd), what a send may have in flight.
Window(e) == IF TxWindow < e.rwnd THEN TxWindow ELSE e.rwnd

\* vsfip_tcp_async_send with the retry loop of vsfip_tcp_send; flush says
\* whether the caller then waits for the queue to drain.
AsyncSend(e, flush) ==
    IF e.lclose THEN [e EXCEPT !.tx = "failed"]
    ELSE IF Len(e.outq) + 1 > Window(e) THEN [e EXCEPT !.tx = IF flush THEN "sendflush" ELSE "send"]
    ELSE LET b == [seq |-> e.lseq, data |-> e.log.sent + 1, retry |-> Retry]
         IN  SendDo([e EXCEPT !.outq = Append(@, b), !.log.sent = @ + 1,
                              !.tx = IF flush THEN "flush" ELSE "idle"],
                    {"PSH"}, b.data)

\* vsfip_tcp_close once the queue is empty or given up.
CloseFin(e) ==
    [(IF e.lclose THEN e ELSE SendFin(e)) EXCEPT !.tx = "fin"]

\* vsfip_tcp_close, the loop that waits for the queue.
CloseDrain(e) == IF e.outq # <<>> THEN [e EXCEPT !.tx = "drain"] ELSE CloseFin(e)

\* The end of connect and close.
Return(e, tx) == [e EXCEPT !.lseq = e.acked_lseq, !.tx = tx]

\* vsfip_tcp_postevt(&pcb->tx_sm, evt), the call that waits included.
PostTx(e, evt) ==
    CASE e.tx = "connect" /\ evt \in {"CONNECTOK", "TIMEOUT"} ->
            Return(e, IF evt = "CONNECTOK" THEN "idle" ELSE "failed")
      [] e.tx = "accept" -> [e EXCEPT !.tx = IF evt = "CONNECTOK" THEN "idle" ELSE @]
      [] e.tx \in {"send", "sendflush"} /\ evt = "TXOK" -> AsyncSend(e, e.tx = "sendflush")
      [] e.tx = "flush" /\ evt = "TXOK" -> IF e.outq = <<>> THEN [e EXCEPT !.tx = "idle"] ELSE e
      [] e.tx \in {"send", "sendflush", "flush"} /\ evt = "TIMEOUT" -> [e EXCEPT !.tx = "failed"]
      [] e.tx = "drain" /\ evt = "TXOK" -> CloseDrain(e)
      [] e.tx = "drain" /\ evt = "TIMEOUT" -> CloseFin(e)
      [] e.tx = "fin" /\ evt \in {"CLOSED", "TIMEOUT"} ->
            IF e.tx_timer THEN [e EXCEPT !.tx = "hung"]
            ELSE Return(e, IF evt = "CLOSED" THEN "done" ELSE "reset")
      [] e.tx \in {"idle", "failed", "done", "reset", "hung"} -> e
      [] OTHER -> [e EXCEPT !.tx = "hung"]

\* vsfip_tcp_async_recv: nothing is handed out once the remote end has closed.
AsyncRecv(e) ==
    IF e.rclose \/ e.inq = <<>> THEN e
    ELSE [e EXCEPT !.inq = Tail(@), !.log.received = Append(@, Head(e.inq))]

\* vsfip_tcp_postevt(&pcb->rx_sm, evt): vsfip_tcp_recv tries once more.
PostRx(e) == IF e.rx THEN AsyncRecv([e EXCEPT !.rx = FALSE]) ELSE e

-----------------------------------------------------------------------------
(* vsfip_tcp_socket_input, by state; h is the header of the segment.          *)

\* vsfip_tcp_data_input
DataInput(e, h) ==
    [e EXCEPT !.rseq = @ + 1, !.inq = Append(@, h.data), !.log.taken = Append(@, h.data)]

Reset(e) ==
    LET c == [e EXCEPT !.tx_timer = FALSE, !.rx_timer = FALSE, !.state = "CLOSED",
                       !.inq = <<>>, !.outq = <<>>]
    IN  PostRx(PostTx(c, "TIMEOUT"))

Connected(e) ==
    PostTx([e EXCEPT !.rclose = FALSE, !.lclose = FALSE, !.state = "ESTABLISHED"],
           "CONNECTOK")

SynSent(e, h) ==
    IF h.flags = {"SYN"}
    THEN [SendSynFin([e EXCEPT !.rseq = h.seq + 1], {"SYN", "ACK"}) EXCEPT !.state = "SYN_GET"]
    ELSE IF h.flags \cap {"SYN", "ACK"} # {} /\ h.ackseq = e.lseq
         THEN Connected(SendFlags([e EXCEPT !.tx_timer = FALSE, !.rseq = h.seq + 1,
                                            !.acked_lseq = e.lseq], {"ACK"}))
         ELSE e

\* Mutant: data that comes with the last ACK of the handshake is acknowledged, not queued.
SynGetNoQueue(e, h) ==
    IF "ACK" \in h.flags /\ h.ackseq = e.acked_lseq + 1
    THEN LET a == [e EXCEPT !.tx_timer = FALSE, !.acked_lseq = h.ackseq, !.lseq = h.ackseq]
         IN  Connected(IF h.data # 0 /\ a.rseq = h.seq
                       THEN [a EXCEPT !.rseq = @ + 1, !.log.taken = Append(@, h.data)] ELSE a)
    ELSE e

SynGet(e, h) ==
    IF h.flags = {"SYN"}
    THEN SendSynFin([e EXCEPT !.lseq = e.acked_lseq], {"SYN", "ACK"})
    ELSE IF "ACK" \in h.flags /\ h.ackseq = e.acked_lseq + 1
         THEN LET a == [e EXCEPT !.tx_timer = FALSE, !.acked_lseq = h.ackseq, !.lseq = h.ackseq]
              IN  Connected(IF h.data = 0 THEN a
                            ELSE IF a.rseq = h.seq THEN DataInput(a, h)
                                 ELSE SendFlags(a, {"ACK"}))
         ELSE IF "FIN" \in h.flags
              THEN [SendSynFin(e, {"FIN"}) EXCEPT !.state = "FINWAIT1", !.lclose = TRUE]
              ELSE e

\* Mutant: the sequence number is not compared.
TakeDataAnySeq(e, h) == IF h.data = 0 THEN e ELSE PostRx(DataInput(e, h))

\* Data in ESTABLISHED: the expected segment is queued, any other answered.
TakeData(e, h) ==
    IF h.data = 0 THEN e
    ELSE IF e.rseq = h.seq THEN PostRx(DataInput(e, h))
    ELSE SendFlags(e, {"ACK"})

\* Mutant: any ACK confirms all of outq.
TakeAckAny(e, h) ==
    IF "ACK" \in h.flags
    THEN PostTx([e EXCEPT !.acked_lseq = h.ackseq, !.outq = <<>>, !.log.acked = @ + Len(e.outq)],
                "TXOK")
    ELSE e

\* An acknowledgement in ESTABLISHED and CLOSEWAIT.
TakeAck(e, h) ==
    IF "ACK" \in h.flags /\ h.ackseq # e.acked_lseq
    THEN LET unacked == SelectInSeq(e.outq, LAMBDA b : h.ackseq < b.seq + 1)
             left == IF unacked = 0 THEN <<>> ELSE SubSeq(e.outq, unacked, Len(e.outq))
         IN  PostTx([e EXCEPT !.tx_timer = FALSE, !.acked_lseq = h.ackseq, !.outq = left,
                              !.log.acked = @ + Len(e.outq) - Len(left)],
                    "TXOK")
    ELSE e

\* remote_close: the FIN of the other end.
RemoteClose(e, h) ==
    LET a == SendFlags([e EXCEPT !.rclose = TRUE, !.rseq = h.seq + 1], {"ACK"})
        c == PostRx([a EXCEPT !.state = IF e.lclose THEN "CLOSED" ELSE "CLOSEWAIT"])
    IN  IF c.state = "CLOSED" THEN PostTx(c, "CLOSED") ELSE c

\* check_data_in_FIN: data after the local close is acknowledged and released.
DataInFin(e, h) ==
    IF h.data = 0 THEN e
    ELSE SendFlags(IF e.rseq = h.seq
                   THEN [e EXCEPT !.rseq = @ + 1, !.log.taken = Append(@, h.data)] ELSE e,
                   {"ACK"})

FinWait2(e, h) == IF "FIN" \in h.flags THEN RemoteClose(e, h) ELSE DataInFin(e, h)

\* Mutant: the timer of the FIN is left running.
FinWait1NoStop(e, h) ==
    IF "ACK" \in h.flags /\ h.ackseq = e.lseq
    THEN LET a == [e EXCEPT !.lclose = TRUE, !.acked_lseq = e.lseq]
         IN  IF "FIN" \in h.flags THEN RemoteClose(a, h)
             ELSE DataInFin([a EXCEPT !.state = "FINWAIT2"], h)
    ELSE DataInFin(e, h)

FinWait1(e, h) ==
    IF "ACK" \in h.flags /\ h.ackseq = e.lseq
    THEN LET a == [e EXCEPT !.lclose = TRUE, !.tx_timer = FALSE, !.acked_lseq = e.lseq]
         IN  IF "FIN" \in h.flags THEN RemoteClose(a, h)
             ELSE DataInFin([a EXCEPT !.state = "FINWAIT2"], h)
    ELSE DataInFin(e, h)

\* Mutant: an ACK of anything ends the connection.
LastAckAny(e, h) ==
    IF h.flags = {"ACK"}
    THEN PostTx([e EXCEPT !.lclose = TRUE, !.tx_timer = FALSE, !.state = "CLOSED"], "CLOSED")
    ELSE e

LastAck(e, h) ==
    LET a == IF "FIN" \in h.flags THEN SendFlags(e, {"ACK"}) ELSE e
    IN  IF h.flags = {"ACK"} /\ h.ackseq = e.lseq
        THEN PostTx([a EXCEPT !.lclose = TRUE, !.tx_timer = FALSE, !.acked_lseq = e.lseq,
                              !.state = "CLOSED"], "CLOSED")
        ELSE a

\* ESTABLISHED and CLOSEWAIT.  A close that waits for the acknowledgement sends
\* its FIN inside TakeAck; the segment is then processed again in the new state.
Open(e, h) ==
    LET d == IF e.state = "ESTABLISHED" THEN TakeData(e, h) ELSE e
        a == TakeAck(d, h)
    IN  CASE a.state = "FINWAIT1" -> FinWait1(a, h)
          [] a.state = "LASTACK"  -> LastAck(a, h)
          [] OTHER -> IF "FIN" \in h.flags THEN RemoteClose(a, h) ELSE a

\* The listener: a SYN makes a child socket, everything else is released.
Listen(e, h) ==
    IF h.flags = {"SYN"}
    THEN SendSynFin([Fresh("SYN_GET", e.tx, e.tsn, e.log)
                        EXCEPT !.rseq = h.seq + 1, !.rclose = FALSE, !.tsn = @ + TsnStep],
                    {"SYN", "ACK"})
    ELSE e

SocketInput(e, seg) ==
    LET w == [e EXCEPT !.rwnd = seg.wnd]
    IN  CASE e.state = "NONE" -> e
          [] e.state = "LISTEN" -> Listen(e, seg)
          [] e.state \notin {"NONE", "LISTEN"} /\ "RST" \in seg.flags -> Reset(w)
          [] OTHER ->
              CASE e.state = "CLOSED" -> SendFlags(w, {"RST"})
                [] e.state = "SYN_SENT" -> SynSent(w, seg)
                [] e.state = "SYN_GET" -> SynGet(w, seg)
                [] e.state \in {"ESTABLISHED", "CLOSEWAIT"} -> Open(w, seg)
                [] e.state = "FINWAIT1" -> FinWait1(w, seg)
                [] e.state = "FINWAIT2" -> FinWait2(w, seg)
                [] e.state = "LASTACK" -> LastAck(w, seg)

-----------------------------------------------------------------------------
\* The endpoint's new value and, on the network, what it has sent.
Update(h, new, n) ==
    /\ ep' = [ep EXCEPT ![h] = [new EXCEPT !.out = <<>>]]
    /\ net' = [n EXCEPT ![Peer(h)] = @ \o new.out]

Call(h, new) == Update(h, new, net) /\ UNCHANGED env

Input(h) ==
    \E i \in 1 .. Len(net[h]) :
        /\ i = 1 \/ env.reorder
        /\ Update(h, SocketInput(ep[h], net[h][i]), [net EXCEPT ![h] = RemoveAt(@, i)])
        /\ UNCHANGED env

(* The network.                                                              *)
Lose(h) ==
    /\ net[h] # <<>> /\ env.loss > 0
    /\ net' = [net EXCEPT ![h] = Tail(@)]
    /\ env' = [env EXCEPT !.loss = @ - 1]
    /\ UNCHANGED ep

Duplicate(h) ==
    /\ net[h] # <<>> /\ env.dup > 0
    /\ net' = [net EXCEPT ![h] = <<Head(@)>> \o @]
    /\ env' = [env EXCEPT !.dup = @ - 1]
    /\ UNCHANGED ep

(* vsfip_tcp_connect *)
Connect(h) ==
    /\ h = client /\ ep[h].tx = "idle" /\ ep[h].state = "CLOSED" /\ ep[h].rseq = 0
    /\ LET s == SendSynFin([ep[h] EXCEPT !.tsn = @ + TsnStep], {"SYN"})
       IN  Call(h, [s EXCEPT !.state = "SYN_SENT", !.tx = "connect"])

Usable(e) == e.tx = "idle" /\ e.rseq # 0 /\ e.state # "NONE"

(* vsfip_tcp_send *)
Send(h) ==
    /\ Usable(ep[h]) /\ ep[h].log.sent < env.send[h]
    /\ \E flush \in BOOLEAN : Call(h, AsyncSend(ep[h], flush))

(* vsfip_tcp_recv: if there is nothing, or the remote end has closed, it waits*)
(* once.                                                                     *)
Recv(h) ==
    LET e == ep[h]
        now == AsyncRecv(e)
    IN  /\ e.rseq # 0 /\ ~e.rx /\ e.state \notin {"NONE", "SYN_GET"}
        /\ Call(h, IF now # e THEN now ELSE [e EXCEPT !.rx = TRUE, !.rx_timer = TRUE])

(* vsfip_tcp_close *)
Close(h) ==
    LET e == ep[h]
    IN  /\ e.tx \in {"idle", "failed"} /\ e.rseq # 0 /\ e.state # "NONE"
        /\ Call(h, IF e.state = "CLOSED" THEN [e EXCEPT !.tx = "reset"] ELSE CloseDrain(e))

(* vsfip_close of a socket nobody waits for; the child's place in the backlog *)
(* is free again and the server accepts the next connection.                 *)
Free(h) ==
    LET e == ep[h]
    IN  /\ e.tx \in {"done", "reset", "failed"} /\ ~e.rx /\ e.state # "NONE"
        /\ Call(h, IF h = client THEN Fresh("NONE", e.tx, e.tsn, e.log)
                                 ELSE Fresh("LISTEN", "accept", e.tsn, e.log))

-----------------------------------------------------------------------------
(* vsfip_tcp_socket_tick, by the timer that expires.                         *)
Expire ==
    /\ env.early \/ \A h \in Ends : net[h] = <<>>
    /\ env.timeout > 0
    /\ env' = [env EXCEPT !.timeout = @ - 1]

\* tx_timeout_ms reaches 0: the SYN or FIN is sent again, or given up.
TickTx(h) ==
    LET e == [ep[h] EXCEPT !.tx_timer = FALSE, !.tx_retry = @ - 1]
        again == SendFlags([e EXCEPT !.lseq = e.acked_lseq], e.flags)
    IN  /\ ep[h].tx_timer
        /\ Expire
        /\ Update(h,
             IF e.tx_retry # 0
             THEN [again EXCEPT !.lseq = @ + (IF e.flags \cap {"SYN", "FIN"} # {} THEN 1 ELSE 0)]
             ELSE IF h = server /\ "SYN" \in e.flags THEN Fresh("LISTEN", e.tx, e.tsn, e.log)
             ELSE PostTx([e EXCEPT !.state =
                            IF @ \in {"SYN_SENT", "SYN_GET", "LASTACK"} THEN "CLOSED" ELSE @],
                         "TIMEOUT"),
             net)

\* A buffer in outq reaches its ttl.  Buffers are given the same ttl, so one
\* expires for the n-th time after those before it have.
TickOutq(h) ==
    LET e == ep[h]
        dead == [SendFin([e EXCEPT !.outq = <<>>]) EXCEPT !.lclose = TRUE, !.log.gaveup = TRUE]
    IN  \E i \in 1 .. Len(e.outq) :
          LET b == e.outq[i]
              resent == SendDo([e EXCEPT !.lseq = b.seq, !.outq[i].retry = @ - 1], {"PSH"}, b.data)
          IN  /\ \A j \in 1 .. i - 1 : e.outq[j].retry < b.retry
              /\ Expire
              /\ Update(h, IF b.retry > 1 /\ e.state # "CLOSEWAIT"
                           THEN [resent EXCEPT !.lseq = e.lseq]
                           ELSE PostTx(dead, "TIMEOUT"),
                        net)

\* The delayed acknowledgement.
TickAck(h) ==
    /\ ep[h].acked_rseq # ep[h].rseq
    /\ Call(h, SendFlags(ep[h], {"ACK"}))

\* rx_timeout_ms reaches 0.
TickRx(h) ==
    /\ ep[h].rx_timer
    /\ Call(h, PostRx([ep[h] EXCEPT !.rx_timer = FALSE]))

\* vsfip_check_buff: a buffer in inq reaches VSFIP_CFG_TTL_INPUT unread.
TickInq(h) ==
    /\ env.expires /\ ep[h].inq # <<>>
    /\ Call(h, [ep[h] EXCEPT !.inq = Tail(@), !.log.expired = @ \cup {Head(ep[h].inq)}])

Next ==
    \E h \in Ends :
        \/ Input(h) \/ Lose(h) \/ Duplicate(h)
        \/ Connect(h) \/ Send(h) \/ Recv(h) \/ Close(h) \/ Free(h)
        \/ TickTx(h) \/ TickOutq(h) \/ TickAck(h) \/ TickRx(h) \/ TickInq(h)

Spec == Init /\ [][Next]_vars

(* The network delivers what it does not lose, the tick goes on, and the     *)
(* applications read and, at last, close.  Scenarios with early timeouts,    *)
(* whose number is bounded, are not asked to go on.                          *)
Due(A) == ~env.early /\ A
Fairness ==
    \A h \in Ends : /\ WF_vars(Due(Input(h))) /\ WF_vars(Due(TickTx(h)))
                    /\ WF_vars(Due(TickOutq(h))) /\ WF_vars(Due(TickAck(h)))
                    /\ WF_vars(Due(Recv(h))) /\ WF_vars(Due(Close(h)))

FairSpec == Spec /\ Fairness

-----------------------------------------------------------------------------
(* The segments bring the stream of the other application to its end of the  *)
(* connection in order, without a gap and without repetition, whatever the   *)
(* network does.                                                             *)
InOrder == \A h \in Ends : \A i \in 1 .. Len(ep[h].log.taken) : ep[h].log.taken[i] = i

(* What TXOK confirms to a sender has reached the other end.                 *)
AckedIsTaken == \A h \in Ends : ep[h].log.acked <= Len(ep[Peer(h)].log.taken)

(* While the connection is open, what has arrived was read by the application*)
(* in order, waits for it in inq, or expired there (vsfip_check_buff).       *)
NothingVanishes ==
    \A h \in Ends : ep[h].state = "ESTABLISHED" =>
        /\ Range(ep[h].log.taken) = Range(ep[h].log.received \o ep[h].inq) \cup ep[h].log.expired
        /\ \A i, j \in 1 .. Len(ep[h].log.received) :
              i < j => ep[h].log.received[i] < ep[h].log.received[j]

(* Every event that vsfip_tcp_postevt sends to the state machine in tx_sm,   *)
(* taking it out of there, is one its call waits for.                        *)
NobodyHung == \A h \in Ends : ep[h].tx # "hung"

(* The sender never has the receiver store more than its window, as long as  *)
(* no old segment comes late: the length of inq is subtracted from rx_window *)
(* to a 16-bit window_size.                                                  *)
WindowKept == ~env.reorder => \A h \in Ends : Len(ep[h].inq) <= env.rx_window

(* A close that succeeds, without having given up data, means that the other *)
(* end has seen the FIN, as long as no old segment comes late.               *)
CloseAgreed ==
    ~env.reorder => \A h \in Ends : ep[h].tx = "done" /\ ~ep[h].log.gaveup =>
        ep[Peer(h)].rclose

(* Every call returns: connect, send, the wait for the queue and close.  No   *)
(* timer ends three waits: that of vsfip_tcp_close in FINWAIT2, for the FIN   *)
(* of the other end; that of a close called when the stack has given up the   *)
(* data and its own FIN has timed out; and that of vsfip_tcp_send for a window*)
(* that the acknowledgement of the last buffer has closed.  The receiver      *)
(* sends nothing when it reads, so that a send with nothing unacknowledged    *)
(* waits for an event that does not come.                                     *)
Untimed(h) ==
    \/ ep[h].state = "FINWAIT2"
    \/ ep[h].log.gaveup /\ ~ep[h].tx_timer
    \/ ep[h].tx \in {"send", "sendflush"} /\ ep[h].outq = <<>>
Waits(h) ==
    /\ ep[h].tx \in TxCalls \ {"idle", "accept", "failed", "done", "reset"}
    /\ ~Untimed(h)
CallsReturn == \A h \in Ends : Waits(h) /\ ~env.early ~> ~Waits(h)
=============================================================================
