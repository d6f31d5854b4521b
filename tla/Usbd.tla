-------------------------------- MODULE Usbd --------------------------------
(***************************************************************************)
(* The control endpoint of the USB device (component/usb/core/vsfusbd.c)   *)
(* on the DWC2 controller (component/usb/core/dwc_otg/vsfdwcotg.c).        *)
(*                                                                         *)
(* A host sends requests, the interrupt turns what happens on the bus into *)
(* events of a queue, and vsfusbd_evt_handler takes them at its own pace:  *)
(* when it handles an event the registers may already show a later one.    *)
(* The interrupt is taken before the next transaction on the bus, so a     *)
(* transaction and its interrupt are one step.                             *)
(*                                                                         *)
(* Lengths are in units of eight bytes, the size of a SETUP packet.  A     *)
(* byte is named by the number of its request and its position.  The       *)
(* requests of the standard and the classes are reduced to their           *)
(* direction, lengths, whether they are accepted, and their effect.        *)
(***************************************************************************)
EXTENDS Integers, Sequences, SequencesExt

CONSTANTS
    Requests,    \* [dir, wLength, size, ok, act, value]: what a host may ask
    EpSize,      \* packet size of the endpoint
    MaxReq,      \* bound: requests of a behaviour
    MaxFault,    \* bound: requests given up and bus resets
    Patient      \* the host leaves the device time to take its events

Acts == {"none", "address", "config"}
ASSUME UsbdAssumption ==
    /\ Requests \subseteq [dir : {"in", "out"}, wLength : Nat, size : Nat, ok : BOOLEAN,
                           act : Acts, value : Nat]
    /\ \A r \in Requests : /\ r.dir = "in" => r.wLength > 0
                           /\ r.act # "none" => r.dir = "out" /\ r.wLength = 0
    /\ EpSize \in Nat \ {0} /\ MaxReq \in Nat /\ MaxFault \in Nat /\ Patient \in BOOLEAN

VARIABLES
    host,        \* the host and its idea of the device
    dev,         \* struct vsfusbd_device_t and the registers of the endpoint
    q            \* the events posted to the state machine of the device

vars == <<host, dev, q>>

None == <<"none">>             \* no packet is ready on the IN endpoint
NoRequest == [dir |-> "out", wLength |-> 0, size |-> 0, ok |-> FALSE, act |-> "none", value |-> 0]
Empty == [what |-> "empty", n |-> 0, id |-> 0, r |-> NoRequest]
Unknown == -1                  \* the host has given up a SET_CONFIGURATION
Unset == -2                    \* not configured since the last reset

Least(a, b) == IF a < b THEN a ELSE b
Units(id, from, n) == [i \in 1..n |-> <<id, from + i>>]

-----------------------------------------------------------------------------
(* The device.  Every operator takes a device and returns the next one.    *)

(* vsfusbd_ctrl_process: the request has ended, its effect takes place.    *)
CtrlProcess(d) ==
    LET r == d.req.r
        e == [d EXCEPT !.proc = Append(@, [req |-> d.req, data |-> d.store])]
    IN  CASE r.act = "address" -> [e EXCEPT !.address = r.value]
          [] r.act = "config"  -> [e EXCEPT !.configuration = r.value, !.configured = TRUE]
          [] OTHER             -> e

CancelSend(d) ==
    LET e == [d EXCEPT !.in.on = FALSE, !.inh = FALSE]
    IN  IF d.in.fin = "end" THEN CtrlProcess(e) ELSE e

(* vsfusbd_on_IN_do: the next packet, the short packet that ends the data, *)
(* or the end of the transfer.                                             *)
OnIn(d) ==
    LET cur == Least(d.in.size, EpSize)
        left == d.in.size - cur
    IN  IF d.in.size > 0
        THEN [d EXCEPT !.in.size = left, !.in.pos = @ + cur,
                       !.in.zlp = @ /\ ~(left = 0 /\ cur < EpSize),
                       !.armed = Units(d.req.id, d.in.pos, cur)]
        ELSE IF d.in.zlp THEN [d EXCEPT !.in.zlp = FALSE, !.armed = <<>>]
        ELSE CancelSend(d)

EpSend(d) ==
    LET e == [d EXCEPT !.in.on = TRUE, !.inh = TRUE]
    IN  IF d.in.size > 0 THEN OnIn(e) ELSE [e EXCEPT !.armed = <<>>]

EpRecv(d) == [d EXCEPT !.out.on = TRUE, !.outh = TRUE, !.outen = TRUE]

(* A bug to check against: the callback of the data stage stays.           *)
SetupStatusKeep(d) ==
    IF d.req.r.dir = "out"
    THEN EpSend([d EXCEPT !.in.size = 0, !.in.zlp = FALSE])
    ELSE EpRecv([d EXCEPT !.out.size = 0])

(* vsfusbd_setup_status_callback: an empty packet in the other direction.  *)
SetupStatus(d) ==
    IF d.req.r.dir = "out"
    THEN EpSend([d EXCEPT !.in.size = 0, !.in.zlp = FALSE, !.in.fin = "end"])
    ELSE EpRecv([d EXCEPT !.out.size = 0, !.out.fin = "end"])

CancelRecv(d) ==
    LET e == [d EXCEPT !.out.on = FALSE, !.outh = FALSE]
    IN  CASE d.out.fin = "status" -> SetupStatus(e)
          [] d.out.fin = "end"    -> CtrlProcess(e)
          [] OTHER                -> e

(* vsfusbd_on_OUT_do: the count and the data are what the one receive      *)
(* buffer of the controller holds now.                                     *)
OnOut(d) ==
    LET n == d.rx.n
        left == d.out.size - n
        e == [d EXCEPT !.rx = Empty, !.out.size = left,
                       !.store = @ \o Units(d.rx.id, Len(d.store), n)]
    IN  IF left < 0 THEN [d EXCEPT !.rx = Empty, !.bug = "size"]
        ELSE IF left = 0 \/ n < EpSize THEN CancelRecv(e)
        ELSE [e EXCEPT !.outen = TRUE]

(* get_setup and vsfusbd_ctrl_prepare                                      *)
Accepts(d) ==
    /\ d.rx.what = "setup" /\ d.rx.r.ok
    /\ ~(d.rx.r.act = "address" /\ d.configuration # 0)

Prepare(d) ==
    LET r == d.rx.r
    IN  [d EXCEPT !.req = [id |-> d.rx.id, r |-> r], !.rx = Empty, !.store = <<>>,
                  !.configured = @ /\ r.act # "config"]

(* Bugs to check against: the data is not cut to what the host asked for;  *)
(* the transfer of the data keeps the length of the one before; no empty   *)
(* packet follows data that ends with a full one.                          *)
DataStageLong(d) ==
    LET r == d.req.r
    IN  IF r.dir = "out"
        THEN EpRecv([d EXCEPT !.out.size = r.size, !.out.fin = "status"])
        ELSE SetupStatus(EpSend([d EXCEPT !.in = [on |-> TRUE, size |-> r.size, pos |-> 0,
                                                  zlp |-> r.size < r.wLength, fin |-> "none"]]))

DataStageStale(d) ==
    LET r == d.req.r
        size == Least(r.size, r.wLength)
    IN  IF r.dir = "out"
        THEN EpRecv([d EXCEPT !.out.fin = "status"])
        ELSE SetupStatus(EpSend([d EXCEPT !.in = [on |-> TRUE, size |-> size, pos |-> 0,
                                                  zlp |-> size < r.wLength, fin |-> "none"]]))

DataStageNoZlp(d) ==
    LET r == d.req.r
        size == Least(r.size, r.wLength)
    IN  IF r.dir = "out"
        THEN EpRecv([d EXCEPT !.out.size = size, !.out.fin = "status"])
        ELSE SetupStatus(EpSend([d EXCEPT !.in = [on |-> TRUE, size |-> size, pos |-> 0,
                                                  zlp |-> FALSE, fin |-> "none"]]))

(* The data stage; the status stage after IN data is prepared at once.     *)
DataStage(d) ==
    LET r == d.req.r
        size == Least(r.size, r.wLength)
    IN  IF r.dir = "out"
        THEN EpRecv([d EXCEPT !.out.size = size, !.out.fin = "status"])
        ELSE SetupStatus(EpSend([d EXCEPT !.in = [on |-> TRUE, size |-> size, pos |-> 0,
                                                  zlp |-> size < r.wLength, fin |-> "none"]]))

(* A request that cannot be read or is refused stalls both directions.     *)
OnSetup(d) ==
    IF Accepts(d)
    THEN IF d.rx.r.wLength = 0 THEN SetupStatus(Prepare(d)) ELSE DataStage(Prepare(d))
    ELSE [d EXCEPT !.req = IF d.rx.what = "setup" THEN [id |-> d.rx.id, r |-> d.rx.r] ELSE @,
                   !.rx = IF d.rx.what = "setup" THEN Empty ELSE @,
                   !.stall = TRUE]

(* A bug to check against: the configuration survives the bus reset.       *)
OnResetKeep(d) ==
    [d EXCEPT !.in.on = FALSE, !.out.on = FALSE, !.inh = TRUE, !.outh = TRUE,
              !.rx = Empty, !.address = 0]

(* The transfers are forgotten, the handlers of the endpoint stay.         *)
OnReset(d) ==
    [d EXCEPT !.in.on = FALSE, !.out.on = FALSE, !.inh = TRUE, !.outh = TRUE,
              !.configured = FALSE, !.configuration = 0, !.rx = Empty, !.address = 0]

(* vsfusbd_evt_handler: a handler without a transfer reads through NULL.   *)
Handle ==
    /\ q # <<>>
    /\ q' = Tail(q)
    /\ dev' = CASE Head(q) = "RESET" -> OnReset(dev)
                [] Head(q) = "SETUP" -> OnSetup(dev)
                [] Head(q) = "IN"    -> IF ~dev.inh THEN dev
                                        ELSE IF dev.in.on THEN OnIn(dev)
                                        ELSE [dev EXCEPT !.bug = "null"]
                [] Head(q) = "OUT"   -> IF ~dev.outh THEN dev
                                        ELSE IF dev.out.on THEN OnOut(dev)
                                        ELSE [dev EXCEPT !.bug = "null"]
    /\ UNCHANGED host

-----------------------------------------------------------------------------
(* The host                                                                *)

Reply(id, r) == Units(id, 0, Least(r.size, r.wLength))

Ended(h) ==
    LET r == h.req.r
    IN  [h EXCEPT !.st = "idle", !.done = Append(@, h.req.id),
                  !.addr = IF r.act = "address" THEN r.value ELSE @,
                  !.config = IF r.act = "config" THEN r.value ELSE @]

(* A patient host has been told by the device that the request before has  *)
(* ended: only the event of an empty status packet may still be there.     *)
Settled == q = <<>> \/ (q = <<"IN">> /\ host.clean)

(* SETUP is always taken: it ends whatever the endpoint was doing, and the *)
(* interrupt stores it in the receive buffer.  A new address is used from  *)
(* here on.                                                                *)
HostSetup(r) ==
    /\ host.st = "idle" /\ host.req.id < MaxReq
    /\ dev.address = host.addr
    /\ Patient => Settled
    /\ LET id == host.req.id + 1
       IN  /\ host' = [host EXCEPT !.req = [id |-> id, r |-> r], !.got = <<>>, !.sent = 0,
                         !.clean = FALSE, !.st = IF r.wLength > 0 THEN "data" ELSE "status"]
           /\ dev' = [dev EXCEPT !.rx = [what |-> "setup", n |-> 1, id |-> id, r |-> r],
                         !.armed = None, !.outen = FALSE, !.stall = FALSE,
                         !.address = IF r.act = "address" THEN r.value ELSE @]
    /\ q' = Append(q, "SETUP")

(* The host takes the packet of the IN endpoint.                           *)
HostIn ==
    /\ host.st = (IF host.req.r.dir = "in" THEN "data" ELSE "status")
    /\ dev.armed # None
    /\ LET got == host.got \o dev.armed
           short == Len(dev.armed) < EpSize
       IN  host' = IF host.st = "status" THEN [Ended(host) EXCEPT !.clean = TRUE]
                   ELSE [host EXCEPT !.got = got,
                           !.st = IF short \/ Len(got) >= host.req.r.wLength
                                  THEN "status" ELSE @]
    /\ dev' = [dev EXCEPT !.armed = None]
    /\ q' = Append(q, "IN")

(* The host sends the next packet to the OUT endpoint.                     *)
HostOut ==
    /\ host.st = (IF host.req.r.dir = "out" THEN "data" ELSE "status")
    /\ dev.outen
    /\ LET n == Least(EpSize, host.req.r.wLength - host.sent)
       IN  IF host.st = "status"
           THEN /\ host' = Ended(host)
                /\ dev' = [dev EXCEPT !.outen = FALSE]
           ELSE /\ host' = [host EXCEPT !.sent = @ + n,
                             !.st = IF host.sent + n = host.req.r.wLength THEN "status" ELSE @]
                /\ dev' = [dev EXCEPT !.outen = FALSE,
                             !.rx = [what |-> "data", n |-> n, id |-> host.req.id, r |-> NoRequest]]
    /\ q' = Append(q, "OUT")

(* After a SET_ADDRESS that failed the host does not know how to reach the *)
(* device: it resets the bus.                                              *)
Failed == IF host.req.r.act = "address" THEN "lost" ELSE "idle"

(* A stalled request has failed.                                           *)
HostStalled ==
    /\ host.st \in {"data", "status"} /\ dev.stall
    /\ host' = [host EXCEPT !.st = Failed]
    /\ UNCHANGED <<dev, q>>

(* The host gives a request up.                                            *)
HostAbort ==
    /\ host.faults < MaxFault
    /\ host.st \in {"data", "status"}
    /\ Patient => q = <<>>
    /\ host' = [host EXCEPT !.faults = @ + 1,
                  !.st = Failed,
                  !.config = IF host.req.r.act = "config" THEN Unknown ELSE @]
    /\ UNCHANGED <<dev, q>>

HostReset ==
    /\ host.st = "lost" \/ host.faults < MaxFault
    /\ host' = [host EXCEPT !.st = "idle", !.addr = 0, !.config = Unset, !.clean = FALSE,
                  !.faults = IF host.st = "lost" THEN @ ELSE @ + 1]
    /\ dev' = [dev EXCEPT !.armed = None, !.outen = FALSE, !.stall = FALSE]
    /\ q' = Append(q, "RESET")

-----------------------------------------------------------------------------
(* The bus has been reset for the first time.                              *)
Init ==
    /\ host = [st |-> "idle", req |-> [id |-> 0, r |-> NoRequest], got |-> <<>>, sent |-> 0,
               done |-> <<>>, addr |-> 0, config |-> Unset, faults |-> 0, clean |-> FALSE]
    /\ dev = [req |-> [id |-> 0, r |-> NoRequest], rx |-> Empty, armed |-> None, outen |-> FALSE,
              stall |-> FALSE, address |-> 0, configured |-> FALSE, configuration |-> 0,
              in |-> [on |-> FALSE, size |-> 0, pos |-> 0, zlp |-> FALSE, fin |-> "none"],
              out |-> [on |-> FALSE, size |-> 0, fin |-> "none"], inh |-> TRUE, outh |-> TRUE,
              store |-> <<>>, proc |-> <<>>, bug |-> "none"]
    /\ q = <<>>

Transfer == HostIn \/ HostOut \/ HostStalled

Next == \/ Handle
        \/ \E r \in Requests : HostSetup(r)
        \/ Transfer
        \/ HostAbort \/ HostReset

Spec == Init /\ [][Next]_vars

(* The main loop runs; the host repeats a transaction that is not          *)
(* acknowledged.  It need not ask, give up or reset.                       *)
FairSpec == Spec /\ WF_vars(Handle) /\ WF_vars(Transfer)

-----------------------------------------------------------------------------
(* vsfusbd.c:847: the effect of a request takes place once for each        *)
(* request that has ended at the host and for no other, in that order, and *)
(* with all the data the host has sent; it is done when no event is left.  *)
ProcessedAsEnded ==
    LET ids == [i \in 1..Len(dev.proc) |-> dev.proc[i].req.id]
    IN  /\ IsPrefix(ids, host.done)
        /\ q = <<>> => ids = host.done
        /\ \A i \in 1..Len(dev.proc) :
              LET p == dev.proc[i].req
              IN  p.r.dir = "out" => dev.proc[i].data = Units(p.id, 0, p.r.wLength)

(* vsfusbd.c:752 and 1094: while the host reads the answer, the packet it  *)
(* finds is the next piece of the answer to its own request, and it stops  *)
(* with the whole answer, not longer than it asked for.                    *)
AnswerExact ==
    LET r == host.req.r
        id == host.req.id
    IN  /\ host.st = "data" /\ r.dir = "in" /\ dev.armed # None =>
              IsPrefix(host.got \o dev.armed, Reply(id, r))
        /\ host.st = "status" /\ r.dir = "in" => host.got = Reply(id, r)
        /\ host.st = "status" /\ r.dir = "out" => dev.armed \in {None, <<>>}

(* vsfusbd.c:811 and 1035: the branch that returns VSFERR_BUG, a packet    *)
(* larger than the transfer, is never taken, and no event reaches a        *)
(* handler that has no transfer, as both have after a bus reset.           *)
HandlersSafe == dev.bug = "none"

(* Whenever nothing is under way, device and host agree on the address and *)
(* the configuration, after requests given up and bus resets, too.         *)
Agreed ==
    q = <<>> /\ host.st = "idle" =>
        /\ dev.address = host.addr
        /\ host.config = Unset => ~dev.configured
        /\ host.config \in Nat => dev.configured /\ dev.configuration = host.config

(* Every request ends: with its status, or stalled.                        *)
RequestsEnd == host.st \in {"data", "status"} ~> host.st \in {"idle", "lost"}
=============================================================================
