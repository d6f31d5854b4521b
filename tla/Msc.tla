-------------------------------- MODULE Msc --------------------------------
(***************************************************************************)
(* The data path of a USB mass-storage device: the bulk transfers of       *)
(* vsfusbd (component/usb/core/vsfusbd.c), the Bulk-Only Transport on top  *)
(* of them (vsfusbd_MSC_BOT.c), the SCSI commands (vsfscsi.c) and the      *)
(* thread that moves blocks between the medium and the stream of the       *)
(* logical unit (vsfmal.c), against a host that sends commands.            *)
(*                                                                         *)
(* The USB device and the thread are state machines of one event queue, so *)
(* their handlers do not overlap; the interrupts that post IN and OUT may  *)
(* come between any two steps.  A handler is a function on the record of   *)
(* the device.  It is left, to go on in the next step, where it calls the  *)
(* driver of the medium, between enabling an endpoint and storing what it  *)
(* has received, and before the callback that ends a transfer (`cont').    *)
(*                                                                         *)
(* Data is counted in units, of which a packet holds EpSize and a block    *)
(* Block; a CBW and a CSW are one unit long.  Every command has a region of*)
(* the medium for itself.                                                  *)
(***************************************************************************)
EXTENDS Integers, Sequences, SequencesExt

CONSTANTS EpSize,      \* size of the bulk endpoints
          Block,       \* mal->op_block_size
          Buffers,     \* multibuf.count of the logical unit
          Commands,    \* the commands the host sends
          MaxCommands, \* bound on the number of commands
          Outcomes     \* what the driver may do: for "read" and "write", a
                       \* subset of {"done", "pending", "failed"}

(* A command: the direction and the length the CBW announces, and what       *)
(* vsf_mal2scsi_execute makes of its CDB: "garbled" is no CBW, "fail" an     *)
(* error, "none" no data, "buf" an answer of `size' units, "read" and "write"*)
(* the transfer of `size' units, which are blocks.                           *)
Command == [dir : {"IN", "OUT"}, len : Nat, size : Nat,
            exec : {"garbled", "fail", "none", "buf", "read", "write"}]

ASSUME SizeAssumption == EpSize \in Nat \ {0} /\ Block \in Nat \ {0} /\ Buffers \in Nat \ {0}
ASSUME CommandsAssumption == Commands \subseteq Command /\ MaxCommands \in Nat
ASSUME BlocksAssumption ==
    \A c \in Commands : c.exec \in {"read", "write"} => c.size > 0 /\ c.size % Block = 0
ASSUME OutcomesAssumption ==
    /\ Outcomes \in [{"read", "write"} -> SUBSET {"done", "pending", "failed"}]
    /\ \A op \in {"read", "write"} : Outcomes[op] \notin {{}, {"pending"}}

VARIABLES d,     \* the device
          h,     \* the host
          cmds   \* the commands sent, by number

vars == <<d, h, cmds>>

Capacity == Buffers * Block
Smaller(a, b) == IF a < b THEN a ELSE b

\* Unit i of the data of command n.
Unit(n, i) == n * 100 + i
Units(n, from, to) == [i \in 1 .. to - from + 1 |-> Unit(n, from + i - 1)]

NoPacket == [full |-> FALSE, csw |-> FALSE, data |-> <<>>]
NoCsw == [tag |-> 0, status |-> "ok", residue |-> 0]

\* The command in param->CBW.
CBW(e) == cmds[e.cbw]
IsIn(e) == CBW(e).dir = "IN"

Post(e, evt) == [e EXCEPT !.q = Append(@, evt)]

-----------------------------------------------------------------------------
(* Streams.  The stream of a transfer is the buffer stream of the CBW and CSW*)
(* ("buf") or that of the logical unit ("lun"), whose callbacks are "usb",   *)
(* "mal", "dummy" or "none".                                                 *)

DataSize(e) ==
    IF e.t.stream = "lun" THEN Len(e.lun.data)
    ELSE IF e.buf.read THEN 1 - e.buf.pos ELSE e.buf.pos

FreeSize(e) ==
    IF e.t.stream = "lun" THEN Capacity - Len(e.lun.data)
    ELSE IF e.buf.read THEN e.buf.pos ELSE 1 - e.buf.pos

\* callback_tx.on_inout and callback_rx.on_inout, if that end is connected.
NotifyTx(e) ==
    IF ~e.lun.tx_ready THEN e
    ELSE CASE e.lun.tx_inout = "mal" -> Post(e, "MAL")
           [] e.lun.tx_inout = "usb" -> Post(e, "STREAM_OUT")
           [] OTHER -> e

NotifyRx(e) ==
    IF ~e.lun.rx_ready THEN e
    ELSE CASE e.lun.rx_inout = "mal" -> Post(e, "MAL")
           [] e.lun.rx_inout = "usb" -> Post(e, "STREAM_IN")
           [] e.lun.rx_inout = "dummy" -> NotifyTx([e EXCEPT !.lun.data = <<>>])
           [] OTHER -> e

\* The next n units of the stream; those of a CSW are in csw.
Payload(e, n) == IF e.t.stream = "lun" THEN SubSeq(e.lun.data, 1, n) ELSE <<0>>

\* Mutant: the writing end is not told of the room.
StreamReadQuiet(e, n) ==
    IF e.t.stream = "lun" THEN [e EXCEPT !.lun.data = SubSeq(@, n + 1, Len(@))]
    ELSE [e EXCEPT !.buf.pos = @ + n]

\* stream_read of n units
StreamRead(e, n) ==
    IF e.t.stream = "lun"
    THEN NotifyTx([e EXCEPT !.lun.data = SubSeq(@, n + 1, Len(@))])
    ELSE [e EXCEPT !.buf.pos = @ + n]

\* Mutant: the reading end is not told of the data.
StreamWriteQuiet(e, data) ==
    IF e.t.stream = "lun"
    THEN [e EXCEPT !.lun.data = @ \o SubSeq(data, 1, Smaller(Len(data), FreeSize(e)))]
    ELSE [e EXCEPT !.buf.pos = @ + Len(data), !.cbw = data[1] \div 100]

\* stream_write: what does not fit is lost.
StreamWrite(e, data) ==
    IF e.t.stream = "lun"
    THEN NotifyRx([e EXCEPT !.lun.data = @ \o SubSeq(data, 1, Smaller(Len(data), FreeSize(e)))])
    ELSE [e EXCEPT !.buf.pos = @ + Len(data), !.cbw = data[1] \div 100]

(* stream_disconnect_tx and stream_disconnect_rx                             *)
DisconnectTx(e) ==
    LET c == [e EXCEPT !.lun.tx_ready = FALSE]
    IN  IF e.lun.tx_ready /\ e.lun.rx_close THEN Post(c, "CLOSE_IN") ELSE c

DisconnectRx(e) ==
    LET c == [e EXCEPT !.lun.rx_ready = FALSE]
    IN  IF e.lun.rx_ready /\ e.lun.tx_close THEN Post(c, "CLOSE_OUT") ELSE c

-----------------------------------------------------------------------------
(* Transfers on the bulk endpoints.                                          *)

\* vsfhal_usbd_ep_set_IN_count
SetPacket(e, csw, data) == [e EXCEPT !.in = [full |-> TRUE, csw |-> csw, data |-> data]]

\* vsfusbd_ep_cancel_send and vsfusbd_ep_cancel_recv, up to on_finish.
CancelSend(e) ==
    LET c == [e EXCEPT !.in_transact = FALSE, !.cont = "finish"]
    IN  IF e.t.stream = "lun" THEN [c EXCEPT !.lun.rx_inout = "none", !.lun.rx_close = FALSE] ELSE c

CancelRecv(e) ==
    LET c == [e EXCEPT !.out_transact = FALSE, !.cont = "finish"]
    IN  IF e.t.stream = "lun" THEN [c EXCEPT !.lun.tx_inout = "none", !.lun.tx_close = FALSE] ELSE c

\* vsfusbd_on_IN_do
OnIn(e) ==
    LET cur == Smaller(e.t.size, EpSize)
        left == e.t.size - cur
        sent == [e EXCEPT !.t.idle = FALSE, !.t.size = left,
                          !.t.zlp = IF left = 0 /\ cur < EpSize THEN FALSE ELSE @]
        tx_ready == e.t.stream = "lun" /\ e.lun.tx_ready
    IN  IF e.t.size > 0
        THEN IF DataSize(e) >= cur
             THEN SetPacket(StreamRead(sent, cur), e.t.stream = "buf", Payload(e, cur))
             ELSE IF ~tx_ready /\ DataSize(e) < e.t.size
                  THEN CancelSend([e EXCEPT !.t.idle = TRUE])
                  ELSE [e EXCEPT !.t.idle = TRUE]
        ELSE IF e.t.zlp THEN SetPacket([e EXCEPT !.t.zlp = FALSE], FALSE, <<>>)
        ELSE CancelSend(e)

\* vsfusbd_ep_send
EpSend(e) ==
    LET s == [e EXCEPT !.in_transact = TRUE, !.t.idle = TRUE]
    IN  IF e.t.size = 0 THEN SetPacket(s, FALSE, <<>>)
        ELSE OnIn(IF e.t.stream = "lun"
                  THEN [s EXCEPT !.lun.rx_inout = "usb", !.lun.rx_close = TRUE, !.lun.rx_ready = TRUE]
                  ELSE s)

\* vsfusbd_transact_out
TransactOut(e) ==
    LET room == FreeSize(e) >= Smaller(EpSize, e.t.size)
    IN  IF e.t.idle /\ room THEN [e EXCEPT !.t.idle = FALSE, !.out_enabled = TRUE] ELSE e

\* vsfusbd_ep_recv
EpRecv(e) ==
    LET r == [e EXCEPT !.out_transact = TRUE, !.t.idle = TRUE]
    IN  IF e.t.size = 0 THEN [r EXCEPT !.out_enabled = TRUE]
        ELSE TransactOut(IF e.t.stream = "lun"
                         THEN [r EXCEPT !.lun.tx_inout = "usb", !.lun.tx_close = TRUE, !.lun.tx_ready = TRUE]
                         ELSE r)

\* vsfusbd_on_OUT_do up to stream_write.
OnOut(e) ==
    LET n == Len(e.out)
        left == e.t.size - n
        free == FreeSize(e) - n
        rx_ready == e.t.stream = "lun" /\ e.lun.rx_ready
        last == left = 0 \/ n < EpSize \/ (~rx_ready /\ free < left)
        idle == IF left = 0 THEN e.t.idle ELSE last \/ free < Smaller(left, EpSize)
    IN  IF n > e.t.size THEN e
        ELSE [e EXCEPT !.t.size = left, !.t.idle = idle, !.tmpbuf = e.out, !.last = last,
                       !.out_enabled = ~last /\ ~idle, !.cont = "store"]

\* vsfusbd_on_OUT_do from stream_write on.
Store(e) ==
    LET w == StreamWrite([e EXCEPT !.cont = "none"], e.tmpbuf)
    IN  IF e.last THEN CancelRecv(w) ELSE w

-----------------------------------------------------------------------------
(* The Bulk-Only Transport.  t.finish is the callback of the transfer.       *)

\* vsfusbd_MSCBOT_on_idle: wait for a CBW.
OnIdle(e) ==
    EpRecv([e EXCEPT !.buf = [read |-> FALSE, pos |-> 0],
                     !.t.size = 1, !.t.stream = "buf", !.t.finish = "cbw"])

\* Mutant: the residue is computed after the transfer has been given up.
SendCSWLate(e) ==
    EpSend([e EXCEPT !.csw.tag = e.cbw, !.csw.residue = CBW(e).len, !.scsi.lun = FALSE,
                     !.buf = [read |-> TRUE, pos |-> 0],
                     !.t.size = 1, !.t.stream = "buf", !.t.finish = "idle"])

\* vsfusbd_MSCBOT_SendCSW
SendCSW(e) ==
    LET residue == CBW(e).len - (IF e.scsi.lun THEN e.scsi.size ELSE 0)
    IN  EpSend([e EXCEPT !.csw.tag = e.cbw, !.csw.residue = residue, !.scsi.lun = FALSE,
                         !.buf = [read |-> TRUE, pos |-> 0],
                         !.t.size = 1, !.t.stream = "buf", !.t.finish = "idle"])

\* vsfusbd_MSCBOT_ErrHandler
ErrHandler(e) ==
    LET f == [e EXCEPT !.csw.status = "fail"]
    IN  IF IsIn(e) /\ CBW(e).len > 0
        THEN EpSend([f EXCEPT !.scsi.size = IF e.scsi.lun THEN 0 ELSE @,
                              !.t.size = 0, !.t.stream = "none", !.t.finish = "csw"])
        ELSE SendCSW(f)

\* vsfusbd_MSCBOT_on_data_finish
OnDataFinish(e) ==
    LET f == IF e.scsi.err THEN [e EXCEPT !.csw.status = "fail"] ELSE e
        short == CBW(e).len > e.scsi.size
        remain == [f EXCEPT !.t.size = DataSize(e), !.t.stream = "lun", !.t.finish = "csw",
                            !.t.zlp = IF DataSize(e) > 0 THEN short ELSE @,
                            !.lun.tx_inout = "none", !.lun.tx_close = FALSE]
    IN  IF IsIn(e)
        THEN IF DataSize(e) > 0 \/ (short /\ (e.transact_size - e.t.size) % EpSize = 0)
             THEN EpSend(remain) ELSE SendCSW(f)
        ELSE IF e.t.size > 0
             THEN EpRecv([f EXCEPT !.lun.rx_inout = "dummy", !.lun.rx_close = FALSE,
                                   !.t.finish = "csw"])
             ELSE SendCSW(f)

\* vsfusbd_MSCBOT_on_cbw after vsfscsi_execute.
AfterExecute(e) ==
    LET c == CBW(e)
        x == [e EXCEPT !.cont = "none"]
        size == IF e.scsi.size > 0 THEN e.scsi.size ELSE c.len
        t == [x EXCEPT !.t.size = size, !.transact_size = size,
                       !.t.stream = "lun", !.t.finish = "data"]
    IN  IF c.len = 0 THEN SendCSW([x EXCEPT !.scsi.lun = FALSE])
        ELSE IF ~e.scsi.lun THEN ErrHandler(x)
        ELSE IF c.dir = "IN" THEN EpSend(t) ELSE EpRecv(t)

-----------------------------------------------------------------------------
(* The thread of the medium: vsf_malstream_read_thread and                   *)
(* vsf_malstream_write_thread.                                               *)

\* After the loop: the stream is disconnected, vsf_mal2scsi_mal_finish called.
MalEnd(e) ==
    LET c == IF e.mal.op = "read" THEN DisconnectTx(e) ELSE DisconnectRx(e)
    IN  [c EXCEPT !.mal.pc = "ended",
                  !.scsi.err = @ \/ e.mal.offset < e.mal.size]

\* Mutant: the thread goes on when there is any room or any data.
MalLoopAny(e) ==
    LET ready == IF e.mal.op = "read" THEN Capacity > Len(e.lun.data) ELSE e.lun.data # <<>>
    IN  IF e.mal.offset >= e.mal.size THEN MalEnd(e)
        ELSE IF ready THEN [e EXCEPT !.mal.pc = "call"]
        ELSE IF e.mal.op = "read"
             THEN [e EXCEPT !.mal.pc = "wait", !.lun.tx_inout = "mal"]
             ELSE [e EXCEPT !.mal.pc = "wait", !.lun.rx_inout = "mal"]

\* The head of the loop: call the driver, or wait for room or data.
MalLoop(e) ==
    LET ready == (IF e.mal.op = "read" THEN Capacity - Len(e.lun.data) ELSE Len(e.lun.data)) >= Block
    IN  IF e.mal.offset >= e.mal.size THEN MalEnd(e)
        ELSE IF ready THEN [e EXCEPT !.mal.pc = "call"]
        ELSE IF e.mal.op = "read"
             THEN [e EXCEPT !.mal.pc = "wait", !.lun.tx_inout = "mal"]
             ELSE [e EXCEPT !.mal.pc = "wait", !.lun.rx_inout = "mal"]

\* The driver has transferred a block.  The data are void if it is taken to have
\* done so while it is busy, or if there was no full buffer to write from.
MalDone(e) ==
    LET m == [e EXCEPT !.mal.offset = @ + Block, !.mal.pc = "done"]
        over == m.mal.offset >= e.mal.size
        ended == IF over THEN [m EXCEPT !.lun.tx_inout = "none"] ELSE m
        full == Len(e.lun.data) >= Block
        void == [i \in 1 .. Block |-> 0]
        loaded == IF e.drv_busy THEN void ELSE Units(e.mal.n, e.mal.offset + 1, e.mal.offset + Block)
        stored == IF full /\ ~e.drv_busy THEN SubSeq(e.lun.data, 1, Block) ELSE void
        read == [ended EXCEPT !.lun.data = @ \o loaded]
        written == [ended EXCEPT !.disk[e.mal.n] = @ \o stored,
                                 !.lun.data = IF full THEN SubSeq(@, Block + 1, Len(@)) ELSE @]
    IN  MalLoop(IF e.mal.op = "read" THEN NotifyRx(read) ELSE NotifyTx(written))

\* An event for the thread: in its wait for the stream, in the driver, or,
\* after its end, where it called the driver last.  "MAL" is both
\* VSF_MALSTREAM_ON_INOUT of the stream and VSFSM_EVT_USER of the driver, which
\* are equal.
MalEvent(e) ==
    CASE e.mal.pc = "wait" ->
            MalLoop(IF e.mal.op = "read" THEN [e EXCEPT !.lun.tx_inout = "none"]
                                         ELSE [e EXCEPT !.lun.rx_inout = "none"])
      [] e.mal.pc = "driver" -> IF e.drv_failed THEN MalEnd(e) ELSE MalDone(e)
      [] e.mal.pc = "ended" -> [e EXCEPT !.mal.pc = "call"]
      [] OTHER -> e

-----------------------------------------------------------------------------
(* vsf_mal2scsi_execute.                                                     *)

\* vsf_mal2scsi_prepare_transact and STREAM_INIT
Prepare(e) ==
    [e EXCEPT !.scsi = [lun |-> TRUE, size |-> CBW(e).size, err |-> FALSE],
              !.lun.data = <<>>, !.lun.tx_ready = FALSE, !.lun.rx_ready = FALSE]

\* vsf_malstream_read and vsf_malstream_write up to the thread's first step.
MalStart(e, op) ==
    LET m == [e EXCEPT !.mal = [pc |-> "start", op |-> op, n |-> e.cbw, size |-> CBW(e).size, offset |-> 0]]
    IN  MalLoop(IF op = "read"
                THEN [m EXCEPT !.lun.tx_ready = TRUE, !.lun.tx_inout = "none", !.lun.tx_close = FALSE]
                ELSE [m EXCEPT !.lun.rx_ready = TRUE, !.lun.rx_inout = "none", !.lun.rx_close = FALSE])

\* vsf_mal2scsi_execute returns an error: another command is under way, or the
\* medium is not ready, or the command or a field of it is unknown.
Refuses(e) == e.scsi.lun \/ CBW(e).exec = "fail"

\* vsf_mal2scsi_execute otherwise.
Execute(e) ==
    LET x == [e EXCEPT !.cont = "executed"]
        p == Prepare(x)
    IN  CASE CBW(e).exec = "none" -> x
          [] CBW(e).exec = "buf" ->
                [p EXCEPT !.lun.data = Units(e.cbw, 1, CBW(e).size), !.lun.tx_ready = TRUE,
                          !.lun.tx_inout = "none", !.lun.tx_close = FALSE]
          [] OTHER -> MalStart(p, CBW(e).exec)

\* vsfusbd_MSCBOT_on_cbw
OnCbw(e) ==
    LET ok == [e EXCEPT !.csw.status = "ok"]
    IN  IF e.t.size > 0 \/ CBW(e).exec = "garbled" THEN OnIdle(e)
        ELSE IF Refuses(e) THEN ErrHandler(ok) ELSE Execute(ok)

-----------------------------------------------------------------------------
(* vsfusbd_MSCBOT_class_init, after SET_CONFIGURATION.                       *)
Init ==
    /\ cmds = <<>>
    /\ h = [pc |-> "ready", n |-> 0, got |-> <<>>, sent |-> 0, csw |-> NoCsw, odd |-> FALSE]
    /\ d = OnIdle(
          [q |-> <<>>, in |-> NoPacket, out |-> <<>>, out_enabled |-> FALSE,
           in_transact |-> FALSE, out_transact |-> FALSE, tmpbuf |-> <<>>, last |-> FALSE,
           t |-> [size |-> 0, stream |-> "none", finish |-> "idle", zlp |-> FALSE, idle |-> FALSE],
           transact_size |-> 0, buf |-> [read |-> FALSE, pos |-> 0],
           lun |-> [data |-> <<>>, tx_ready |-> FALSE, rx_ready |-> FALSE,
                    tx_inout |-> "none", rx_inout |-> "none", tx_close |-> FALSE, rx_close |-> FALSE],
           scsi |-> [lun |-> FALSE, size |-> 0, err |-> FALSE],
           cbw |-> 0, csw |-> NoCsw,
           mal |-> [pc |-> "none", op |-> "read", n |-> 0, size |-> 0, offset |-> 0],
           cont |-> "none", drv_busy |-> FALSE, drv_failed |-> FALSE,
           disk |-> [n \in 1 .. MaxCommands |-> <<>>]])

\* The handler under way has not called the driver or has its answer.
Executes == d.mal.pc # "call"
AtRest == Executes /\ d.cont = "none"

(* vsfusbd_evt_handler: the default case, for the bulk endpoints, and the    *)
(* thread's handler.  An event of the stream is for a transfer that waits.   *)
OnEvent(e, evt) ==
    CASE evt = "MAL" -> MalEvent(e)
      [] evt = "IN" -> IF e.in_transact THEN OnIn(e) ELSE e
      [] evt \in {"STREAM_IN", "CLOSE_IN"} -> IF e.in_transact /\ e.t.idle THEN OnIn(e) ELSE e
      [] evt = "OUT" -> IF e.out_transact THEN OnOut(e) ELSE e
      [] evt = "STREAM_OUT" -> IF e.out_transact THEN TransactOut(e) ELSE e
      [] evt = "CLOSE_OUT" -> IF e.out_transact /\ e.t.idle THEN CancelRecv(e) ELSE e

Handle ==
    /\ AtRest /\ d.q # <<>>
    /\ d' = OnEvent([d EXCEPT !.q = Tail(@)], Head(d.q))
    /\ UNCHANGED <<h, cmds>>

StoreStep ==
    /\ Executes /\ d.cont = "store"
    /\ d' = Store(d)
    /\ UNCHANGED <<h, cmds>>

\* on_finish of the transfer that has ended.
FinishStep ==
    LET e == [d EXCEPT !.cont = "none"]
    IN  /\ Executes /\ d.cont = "finish"
        /\ d' = CASE d.t.finish = "cbw" -> OnCbw(e)
                  [] d.t.finish = "data" -> OnDataFinish(e)
                  [] d.t.finish = "csw" -> SendCSW(e)
                  [] d.t.finish = "idle" -> OnIdle(e)
        /\ UNCHANGED <<h, cmds>>

ExecutedStep ==
    /\ Executes /\ d.cont = "executed"
    /\ d' = AfterExecute(d)
    /\ UNCHANGED <<h, cmds>>

(* The thread calls drv->read or drv->write, which answers or goes on in the *)
(* background.                                                               *)
DriverCall ==
    /\ d.mal.pc = "call"
    /\ \E o \in Outcomes[d.mal.op] :
          d' = CASE o = "done" -> MalDone(d)
                [] o = "failed" -> MalEnd(d)
                [] o = "pending" -> [d EXCEPT !.mal.pc = "driver", !.drv_busy = TRUE, !.drv_failed = FALSE]
    /\ UNCHANGED <<h, cmds>>

\* The driver's interrupt, with the outcome of what went on in the background.
DriverDone ==
    /\ d.drv_busy
    /\ \E o \in Outcomes[d.mal.op] \ {"pending"} :
          d' = Post([d EXCEPT !.drv_busy = FALSE, !.drv_failed = (o = "failed")], "MAL")
    /\ UNCHANGED <<h, cmds>>

-----------------------------------------------------------------------------
(* The host.  It sends when the OUT endpoint is enabled and takes what is in *)
(* the IN endpoint; either raises an interrupt, also between the enabling of *)
(* the endpoint and the storing of the packet before.                        *)
Send(data) ==
    /\ d.out_enabled
    /\ d' = Post([d EXCEPT !.out = data, !.out_enabled = FALSE], "OUT")

HostCommand ==
    /\ h.pc = "ready" /\ h.n < MaxCommands
    /\ Send(<<Unit(h.n + 1, 0)>>)
    /\ \E c \in Commands :
          /\ cmds' = Append(cmds, c)
          /\ h' = [h EXCEPT !.n = @ + 1, !.got = <<>>, !.sent = 0, !.csw = NoCsw,
                            !.pc = CASE c.exec = "garbled" -> "ready"
                                     [] c.exec # "garbled" /\ c.len = 0 -> "status"
                                     [] OTHER -> c.dir]

HostData ==
    LET n == Smaller(EpSize, cmds[h.n].len - h.sent)
    IN  /\ h.pc = "OUT"
        /\ Send(Units(h.n, h.sent + 1, h.sent + n))
        /\ h' = [h EXCEPT !.sent = @ + n,
                          !.pc = IF h.sent + n = cmds[h.n].len THEN "status" ELSE @]
        /\ UNCHANGED cmds

\* A short packet or the length asked for ends the data; then comes the CSW.
HostTake ==
    LET got == h.got \o d.in.data
        ends == Len(d.in.data) < EpSize \/ Len(got) >= cmds[h.n].len
    IN  /\ h.pc \in {"IN", "status"} /\ d.in.full
        /\ d' = Post([d EXCEPT !.in = NoPacket], "IN")
        /\ h' = IF h.pc = "IN"
                THEN [h EXCEPT !.got = got, !.odd = @ \/ d.in.csw, !.pc = IF ends THEN "status" ELSE @]
                ELSE [h EXCEPT !.csw = d.csw, !.odd = @ \/ ~d.in.csw, !.pc = "ready"]
        /\ UNCHANGED cmds

Device == Handle \/ StoreStep \/ FinishStep \/ ExecutedStep \/ DriverCall
Next == Device \/ DriverDone \/ HostCommand \/ HostData \/ HostTake

Spec == Init /\ [][Next]_vars

(* The queue is polled (module Sched), the driver answers, and the host goes *)
(* on with a command it has begun.                                           *)
Fairness == WF_vars(Device) /\ WF_vars(DriverDone) /\ WF_vars(HostData) /\ WF_vars(HostTake)
FairSpec == Spec /\ Fairness

-----------------------------------------------------------------------------

\* What a command moves over the bus.
Expected(n) == Smaller(cmds[n].len, cmds[n].size)

(* The host gets the data of the medium, and the medium those of the host,   *)
(* every unit once, in order and at its place, whatever the pace of host,    *)
(* driver and event queue.  Of the medium this is said of the blocks that the*)
(* command names, and not of those behind them: a packet that arrives before *)
(* its predecessor is stored leaves a wake-up in the queue of a write thread *)
(* that has ended (vsfmal.c:338 removes callback_tx, not its callback_rx),   *)
(* and the thread, entered where it called the driver, writes one block more,*)
(* but never two.                                                            *)
InRegion(n) == SubSeq(d.disk[n], 1, Smaller(Len(d.disk[n]), cmds[n].size))
DataExact ==
    /\ h.n > 0 => IsPrefix(h.got, Units(h.n, 1, Expected(h.n)))
    /\ \A n \in 1 .. h.n :
          /\ IsPrefix(InRegion(n), Units(n, 1, Expected(n)))
          /\ Len(d.disk[n]) <= cmds[n].size + Block

(* After the data of a command, ended by a short packet if there are fewer   *)
(* than the host asked for, comes its CSW and nothing else; it has the tag of*)
(* the command, tells how much of the length was not used, and reports       *)
(* success only if all the data have passed.                                 *)
CswInPlace ==
    /\ ~h.odd
    /\ h.pc = "ready" /\ h.n > 0 /\ cmds[h.n].exec # "garbled" =>
          /\ h.csw.tag = h.n
          /\ h.csw.residue = cmds[h.n].len - Len(h.got) - h.sent
          /\ (h.csw.status = "ok") => Len(h.got) + h.sent = Expected(h.n)

(* When the device takes up a command, the data of every write that it has   *)
(* confirmed before are on the medium, although it sends the CSW when the    *)
(* last packet has arrived and the thread writes after that.                 *)
Durable ==
    \A n \in 1 .. d.cbw - 1 :
        cmds[n].exec = "write" => Len(d.disk[n]) >= cmds[n].len

(* Every command is answered, except one with data to the device that it     *)
(* refuses: there it does not take the data (comment in                      *)
(* vsfusbd_MSCBOT_ErrHandler).                                               *)
Refused(n) == cmds[n].dir = "OUT" /\ cmds[n].len > 0 /\ cmds[n].exec # "write"
Answered ==
    \A n \in 1 .. MaxCommands :
        (h.n = n /\ ~Refused(n) /\ h.pc # "ready") ~> (h.n = n /\ h.pc = "ready")
=============================================================================
