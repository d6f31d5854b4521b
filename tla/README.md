# A verification project for vsf

vsf (Versaloon software framework) is an event-driven framework for small
microcontrollers: a scheduler for state machines at several preemption levels,
timers, streams, and on top of them a TCP/IP stack, USB device and host stacks,
media, file systems and a shell. This directory holds TLA+ modules that model
its core, TLC configurations that check them on small instances, and theorems
that TLAPS checks for every value of the constants.

`PROJECT.json` maps each definition to the lines it models and lists runs,
mutants, findings, hazards and theorems. Paths below are relative to `src/vsf/`.

- [Inventory](#inventory)
- [Modules](#modules)
- [Runs, bounds and fairness](#runs-bounds-and-fairness)
- [Findings](#findings)
- [Proofs](#proofs)
- [What is not modelled](#what-is-not-modelled)
- [Plan](#plan)

## Inventory

### Kernel (`framework/vsfsm`, `vsfmain.c`)

*State.* One ring of events per preemption level (`vsfsm_evtq_t`: `head`,
`tail`, `evt_count`, `tick_evt_count`); per state machine its queue, its own
`evt_count` and `active`; one global, `vsfsm_cur_evtq`.

*Operations.* `vsfsm_init`, `vsfsm_fini`, `vsfsm_post_evt`,
`vsfsm_post_evt_pending`, `vsfsm_poll`; `vsfmain` polls the queue of level 0 and
sleeps, `app_on_srt` polls that of a software interrupt. Semaphores and critical
sections (`vsfsm_sync_*`) keep their waiters in a list linked through the state
machines. Optionally, states are hierarchical; threads are protothreads
(`vsfsm_pt_t`) or switch stacks.

*Interaction.* Everything else is a state machine of some queue. An interrupt
posts an event; a post to a queue of another level triggers its software
interrupt; a post inside the own level calls the handler on the spot if nothing
is queued for it.

*Hard.* A level is preempted between any two instructions by higher levels that
use the same global; ring and counters are changed partly with interrupts
enabled; a post may be refused; direct dispatch must not overtake queued events;
the decision to sleep races with posts.

*Correct if* accepted events arrive once and in order, a state machine is only
executed in the context of its queue, no wake-up is lost, a permit is neither
duplicated nor lost unless a post is refused.

### Timers (`framework/vsftimer`)

*State.* A list sorted by deadline (`vsfq_t`), a pool. *Operations.* Create,
free, enqueue, dequeue, `vsftimer_clean_sm`; the tick interrupt posts
`VSFSM_EVT_TIMER`, whose handler fires what is due. *Hard.* The users of fired
timers change the list the handler stands in; periodic timers go back into it.
*Correct if* a timer fires as often as asked, never early, and not late by more
than one run of the handler; the pool does not leak; the handler ends.

### Streams and buffers (`component/fundation`, `component/stream`)

*State.* `vsf_fifo_t`, `vsf_multibuf_t`, buffers, and `vsf_stream_t` with the
callbacks of both ends. *Operations.* `stream_read`, `stream_write`, connect and
disconnect, direct buffers. *Hard.* The fifo stream has one end in an interrupt
and no lock. *Correct if* bytes arrive once and in order.

### TCP/IP (`component/tcpip`)

*State.* Sockets with queues `inq` and `outq`; for TCP the `vsfip_tcppcb_t`:
sequence numbers, windows, three timers, the state machines that wait for the
sending and the receiving side (`tx_sm`, `rx_sm`). Interfaces with an ARP cache;
DHCP, DNS, HTTP and telnet above. *Operations.* connect, accept, send, recv,
close; input of a segment; the tick. *Hard.* Loss, duplication, reordering,
premature retransmission; an event delivered on the spot lets the application
call the stack in the middle of its own handler. *Correct if* the stream arrives
in order and whole, the window is kept, what is confirmed has arrived, a call
returns.

### Network interface (`component/tcpip/netif`, RNDIS)

*State.* Buffers counted by references and linked into `outq` or `requestq`
through one field; the ARP cache; one semaphore per queue; the ARP client with
the packet it resolves, its retries and its timer; the frame the driver sends and the
buffer it receives into. *Operations.* Output of a packet, input of a frame,
`vsfip_netif_arp_client_thread`, the callbacks of the RNDIS driver. *Hard.* The
owners of a buffer (TCP, a queue, the client, the driver) drop their references at
their own time; semaphores and queues are kept apart; cache entries are replaced
while packets wait; any reply wakes the client. *Correct if* no buffer is leaked
or used after it was freed, a queue is never left without somebody to come, a packet
goes to its own next hop and leaves the interface, sent or dropped.

### USB device, media (`component/usb`, `component/mal`)

*State.* Per endpoint a handler and a transfer (`vsfusbd_transact_t`); address,
configuration and the current request; the state of the mass-storage protocol and
its SCSI transaction; a thread that moves blocks between driver and stream.
*Operations.* Packets in and out, the setup requests, reset; CBW, data, CSW.
*Hard.* Host, event queue, stream, thread and driver proceed at their own pace and
wake each other up through callbacks that come and go; when an event is handled the
registers may show a later one; requests are given up. *Correct if* the data are
exact and in place, status and residue say what happened, a request takes effect
once, host and device agree on address and configuration, every command and every
request is answered.

### USB host (`component/usb/core/vsfusbh.c`, hub class)

*State.* A bitmap of addresses, a tree of devices, the one device being enumerated
(`new_dev`), per hub the port its thread works on, `reset_mask` and
`reconnect_mask`. *Operations.* The enumeration thread; per hub the scan, connect
and reset threads; disconnection of a device with everything behind it. *Hard.*
All threads wait for transfers and timers, so a hub frees devices while another
thread works on them; cables are plugged and pulled at any time; the port status is
stale when it is used. *Correct if* one device at a time listens at address 0, an
address is neither shared nor leaked, a driver talks to the device it was bound to,
and what stays plugged in is served.

### The rest

File systems, shell, HID, user interface, the other protocols of TCP/IP and the
hardware layer: `PROJECT.json` lists each with the reason why it is not modelled.

## Modules

| module | models | composes / abstract specification |
|---|---|---|
| `Evtq` | one event queue: `vsfsm_evtq_post`, and `vsfsm_poll` and `vsfsm_fini` step by step | implements `EvtqAbs`, a bounded FIFO in which a second tick is swallowed |
| `Sched` | `vsfmain`, `app_on_srt`, `vsfsm_post_evt`, `vsfsm_post_evt_pending`, protected dispatch, interrupts, sleep | uses queues as bounded FIFOs, which `Evtq` justifies |
| `SyncList`, `Sync` | the list of waiters as an algorithm; enter, leave, cancel and the grant on its way | |
| `Timer` | list, pool and tick handler | its handler is a state machine of `Sched` |
| `FifoStream` | `vsf_fifo_t` under `stream_read`, `stream_write`, connect, disconnect; `usart_stream` | implements `FifoAbs`, a bounded queue |
| `Tcp` | two endpoints that run `vsfip_tcp_*`, a network, two applications | |
| `Netif` | output, ARP cache, ARP client, input, the RNDIS transmitter and receiver, over linked and counted buffers | one composed model of interface, driver and buffers; TCP only as the owner of a second reference |
| `Usbd` | the control endpoint: interrupt, event queue, setup, data and status stages, reset, and a host | |
| `Usbh` | enumeration, hubs, the tree of devices, cables | one thread per hub and one for the core |
| `Msc` | host, bulk endpoints, Bulk-Only Transport, SCSI target, stream, thread, driver | one composed model of six parts |
| `EvtqProofs`, `SchedProofs`, `SyncProofs`, `TimerProofs`, `FifoProofs`, `NetifProofs`, `UsbdProofs`, `UsbhProofs` | theorems | each extends its module (`FifoProofs`: `FifoStream`) |
| `MC*` | constants that a `.cfg` cannot write | |

How the state corresponds to the code:

- **Evtq.** The variables are the fields of `vsfsm_evtq_t`, and `sm_evt_count`
  those of the state machines. `vsfsm_poll` is cut where interrupts are enabled:
  copy of the head element, advance of `head`, accounting, handler. A post is
  one step, since `vsfsm_evtq_post` raises the interrupt level. `vsfsm_fini` is
  called from a handler and cut at each turn of its scan.
- **Sched.** A level has a program counter, a stack of active handlers
  (`frames`) and the saved `old` queue. Only the highest active level moves, and
  a hardware interrupt before all. `vsfsm_evtq_set` is a read and a write. The
  post and the `activate` that follows it are two steps (`act`). A state machine
  without queue is dispatched under BASEPRI (`mask`). `MaxSrtPrio` is the highest
  level that `VSFCFG_MAX_SRT_PRIO` holds off: every `vsf_cfg.h` sets it to 0xFF, and
  with the priorities 0xff, 0xfe, ... of `vsfhal_cfg.h` BASEPRI then masks level 1
  only. `ProtectedExclusive` speaks of the levels up to `MaxSrtPrio`.
- **Sync.** A grant is in one of three places: taken off the list
  (`granting`), posted (`inflight`), received. A waiter may call
  `vsfsm_sync_cancel` in each of them; when the event comes to one who has given
  up, the permit is `lost`, as it is when a full queue refuses the post. One who
  waits again may take that event for its new grant (`mistaken`): it is then in the
  critical section and on the list, which ends `ListIsFifo` and `WaitersEnter`, not
  `PermitConserved`. After that the list may be linked to itself; `AppendReturns`
  and `CancelReturns` end the model where a loop over it would not end. A critical
  section is a sync with `max_value` 1; only this case is modelled.
- **Timer.** The pool is a set, the sorted list a sequence with the insertion of
  `vsfq_enqueue` (before those of equal key). A turn of the handler's loop has two
  halves: `FireHead` decrements the count and frees the timer or arms it again,
  `Tell` reads `evt` and `sm` and tells the user. Users act between any two halves
  and whenever the handler is idle. `vsftimer_enqueue` is one step, although it
  writes the deadline before it raises the interrupt level. The tick counter wraps at
  `Wrap`.
- **FifoStream.** The interrupt is one step; the thread loads, computes, copies,
  moves, wraps and notifies in steps of their own. A *setup* says which end the
  thread is, whether its notification makes it read, too (`uart_on_tx`,
  `usart_stream.c:97`), and, as the indices are not `volatile`, what the compiler
  made of them: whether they are loaded again at each use, and stored before they
  are wrapped. The run has all 16 setups; `torn` tells that one end has used an
  index that the other was changing.
- **Tcp.** The handlers (`vsfip_tcp_socket_input`, `vsfip_tcp_socket_tick`, the
  send path) are functions on the record of an endpoint. As
  `vsfip_tcp_postevt` dispatches on the spot, a waiting call goes on inside the
  handler; a call that gets an event it does not wait for is `hung`. A buffer is
  one unit of data. The variable `env` holds the scenario: buffers to send,
  window, loss, duplication, reordering, premature timeouts.
- **Msc.** The device is one record; its events are in one queue, since the USB
  device and the thread run at the same level. A handler pauses (`cont`) where
  an interrupt changes what follows, also between `enable_OUT` and the store of the
  packet (`vsfusbd.c:830`). The driver may answer at once or later, each time with
  success or an error (`Outcomes`, `drv_failed`). The check of the block size
  against that of the stream (`vsfmal.c:231`, `310`), a configuration error, is left
  out. The driver's completion and the stream's wake-up are the same
  event number, as in the code; a block taken as read while the driver is still
  busy has void contents.
- **Netif.** The interface, its driver and the buffers are one record, since all
  run at one level; each wake-up is a step. `next` is `netif_node.next`, `queue` head
  and tail of `outq` and `requestq`, `ref` the reference count, `held` the buffers TCP keeps to send again. `osem` and `rsem`
  count `output_sem` and `arpc.sem`. A MAC is named by the address it belongs to,
  so `RightHop` can compare them. TCP sends a buffer again whenever it likes;
  `linkedTwice` tells that the buffer had not left the interface.
- **Usbd.** `dev` holds the fields of `vsfusbd_device_t` for endpoint 0 and its
  registers: the armed IN packet, the enabled OUT side, the single receive buffer
  `rx`, the stall. A transaction on the bus and its interrupt are one step; the
  event waits in `q`. Callbacks of a transfer are named by `fin`. `proc` is the
  history of the requests that took effect.
- **Usbh.** A software device is named by the address it was allocated, a physical
  one by itself: `taddr` is the address a thing listens at. A hub's `pc` is the
  wait its threads stand at. A transfer is one step, except that the port status is
  sampled in one of its own, because it is used later. Cables are moved at any time.
  `rough` tells that one was moved in a window in which the code is not safe (below),
  `crowded` that two hubs were past the check of `new_dev` at once. What the
  enumeration does after its device has been freed, which takes such a race, and
  timers of a hub that is gone are not followed.

## Runs, bounds and fairness

Deadlock checking is off in all passing runs: applications may stop, and the bounds
on posts, bytes, ticks, packets and commands end the behaviours. The hubs of `usbh`
poll for ever, but after a race of two hubs the model may end (see `Usbh` above).
What must go on is said by the liveness properties.

| run | shows | instance |
|---|---|---|
| `evtq` | ring and counters agree at every interleaving; a tick is swallowed only if another is queued; events are dispatched; refinement of `EvtqAbs` | 3 slots, 2 state machines, ticks and user events; ring full, empty and wrapped; `vsfsm_fini` not on a full ring |
| `evtq_fini_full` | violation: `vsfsm_fini` on a full ring | 2 slots |
| `sched` | context of handlers, exclusion without queue, order, no lost wake-up, also before the sleep, delivery | main loop and 2 SRT levels, queues of 2, `MaxSrtPrio` 1 as the repository has it, so that level 2 is not held off, 5 posts: enough to nest all levels, fill a queue and post from each level to each |
| `sync` | conservation of the permit (hence exclusion), FIFO list, progress | 4 state machines: a head, a middle and a last waiter beside the holder; cancels before and after the grant, full queues |
| `timer` | number of firings, not early, none overdue when the handler ends, pool exact | pool of 2, one embedded timer, 3 ticks, 3 operations at any half of a turn, timers that fire twice and periodic ones |
| `fifo` | refinement of `FifoAbs`: bytes arrive once and in order, until an end uses an index that the other is changing | all 16 uses and builds; 4 slots, chunks up to 2, 8 bytes: both indices wrap |
| `tcp` | order, confirmed data has arrived, nothing vanishes, no event to the wrong call; window and close with ordered delivery; calls return | 2 buffers into a window of 1 with one loss, one premature timer and expiring data; reordering and one duplicate; one loss with timers that expire only when nothing is on its way; the same without a loss and with two buffers into a window of 1, which fills it |
| `msc` | data exact, CSW in place, durable, every command answered | packets of 2, blocks of 4, a stream of 2 blocks, transfers of 1 and 3 blocks: longer than the stream; 3 commands of 14 kinds |
| `netif` | buffers owned, no queue forgotten, right hop, packets leave | 4 buffers, one cache entry (each answer displaces the other), 2 packets of 4 kinds, 2 received frames, 1 retry; buffers sent again at any time |
| `usbd` | effects once and in order, answers exact, no handler without transfer, agreement, requests end | packets of 2 units, 3 of 11 requests, 2 faults (requests given up, bus resets) at any place |
| `usbd_busy` | violation: the next SETUP is there when the status event is handled | 3 of 2 requests, no fault |
| `usbh` | the enumeration has its device and is alone at address 0, addresses exact, drivers at their devices, everything served | a root hub of one port as the controller has it, behind it a hub of two ports, behind that one of one port; a function bound by its second configuration, one without driver, one that is mute; 2 plugs, unplugs and reconnects at any time; 5 addresses |

*Conditions that are part of a property.* `WindowKept` and `CloseAgreed` hold
only if no old segment comes late: `acked_lseq` is taken from every ACK
(`vsfip.c:1590`), so a late one sets it back, and with reordering both fail.
`CallsReturn` leaves out three waits that no timer ends: that of `vsfip_tcp_close` in
FINWAIT2; that of a close after the stack has given up data and its own FIN has timed
out; and that of `vsfip_tcp_send` for a window that the acknowledgement of the last
buffer has closed (`vsfip.c:1851`), since a receiver sends nothing when it reads. The
scenario `Full` reaches the last one. It is stated for the scenarios whose timers are
not premature (`early` is `FALSE`). `Answered` leaves out commands with data to the
device that it refuses, whose data it does not take (comment in
`vsfusbd_MSCBOT_ErrHandler`). `DataExact` is exact for the blocks that a command
names; behind them a write may leave one block more: a packet that arrives between
`enable_OUT` and the store of its predecessor leaves a wake-up for the write thread,
which ends without removing its callback (`vsfmal.c:338` removes the other one) and is
entered once more where it called the driver.

*Promises that end.* Some promises of the code hold until something happens that it
does not handle. The models contain that event, a history variable records it, and
the property is stated up to it; TLC and, where there is one, the theorem show that
nothing else breaks the promise.

| variable | what ends the promise | properties |
|---|---|---|
| `mistaken` (`Sync`) | a waiter cancels when its grant is on its way, waits again and takes the old event for its grant | `ListIsFifo`, `WaitersEnter` |
| `lost` (`Sync`) | a full queue refuses a grant, or it comes to one who has given up | `WaitersEnter` |
| `misfired` (`Timer`) | a timer is set up again, by a user of a higher level, between `vsftimer_free` and the read of `timer->evt` (`vsftimer.c:104`); ends with the next set-up | `FiresAsAsked`, for this timer |
| `torn` (`FifoStream`) | a comparison of indices that are loaded again; `head` found at the end of the buffer with `tail` wrapped (`buffer.c:273`); a read of the interrupt in the middle of the one that `uart_on_tx` makes in the thread | `ImplementsFifo` |
| `linkedTwice` (`Netif`) | TCP sends a buffer again that has not left the interface, as `vsfip_telnetd.c:155` (100 ms) can while an ARP query waits (1000 ms) | all of `Netif` |
| `crowded` (`Usbh`) | two hubs are past the check of `new_dev` (`vsfusbh_HUB.c:257`) before the first has attached its device | all of `Usbh` |
| `rough` (`Usbh`) | the cable of a port is moved while its hub resets and attaches it; a device is pulled while it is enumerated or after that failed, a hub while its thread waits for a timer; something is plugged in between the reading of a status that says disconnected and the clearing of the change; a driver asks for a device that is just being disconnected | `AddressesExact`, `DriverTalksToItsDevice`, `EveryoneServed`; not `EnumerationOwned` |

*Conditions on the environment.* One constant leaves out a use for which the code is
known not to be safe: `Patient` of `Usbd`. The host gives the device time to take the
events of a request before it sends the next SETUP or gives the request up; without it
`HandlersSafe` fails (run `usbd_busy`). The run `usbh` has addresses enough for what
is plugged in; without that `EnumerationOwned` fails (see the findings).

*Fairness.* Weak fairness of what the processor does by itself: a context that
has the processor goes on, a pending interrupt is taken, a poll takes the next
event. A handler returns (state machines do not block). In `Evtq` its return has
strong fairness, because the model lets it call `vsfsm_fini` and `vsfsm_init`
again and again before it returns, and code does not do so without end. `Sync` and
`Timer` assume that queued events are dispatched, the `AllDelivered` of
`Sched`. In `Tcp` the network delivers what it does not lose, the tick goes on,
applications read and at last close. In `Netif` the threads run, the ARP timer
expires and the USB host takes frames; nobody has to answer an ARP request. In `Usbd`
the handler runs and the host repeats a transaction that is not acknowledged. In
`Usbh` each hub and the enumeration go on: transfers complete or fail, timers expire,
while cables are never forced. In `Msc` the driver answers and the host
goes on with a command it has begun. Posting, arriving interrupts, new commands,
cancelling and losing are never forced.

*Configurations outside the list of runs.* Some uses of the code are known to
break a property and are kept as definitions to try in `Msc.cfg`: `Background` of
`MCMsc` (a driver that writes in the background) breaks `Durable`, and `ReadFails` with
`ReadCommands` breaks `CswInPlace`.

## Findings

Each of these is a run that TLC refutes:

1. `vsfsm_fini` does not remove events when the ring is full, against the comment in
   `vsfsm.h:272` (run `evtq_fini_full`).
2. `vsfusbd_on_OUT_do` reads the receive buffer when it handles the event; if the next
   SETUP has arrived, an empty status packet seems to have eight bytes, the branch marked
   `VSFERR_BUG` is taken, and the new request is stalled (run `usbd_busy`).

Other disagreements between code and comments, met on the way and kept as
configurations, hazards or ends of a promise:

- `vsf_fifo_push` stores an index outside the buffer before it wraps it; an
  interrupt that reads in between makes a later read return old bytes, although
  `stream.h:78` calls the fifo stream available in interrupts (depends on the build).
- Data received after the local close is acknowledged and dropped, against the
  comment at `vsfip.c:1651`.
- After a read error before any data the device answers the request for data with
  the CSW, against the comment at `vsfusbd_MSC_BOT.c:68`.
- A hub waits for `new_dev` (`vsfusbh_HUB.c:186`) after it has reset its port: with two
  external hubs, two things listen at address 0 at once (`crowded`).
- `vsfsm_sync_cancel` returns `VSFERR_NONE` also when it does not find the waiter, whose
  grant is then on its way; with it the permit gets lost.
- The receiver of TCP does not tell that its window has opened again, so that a send
  into a window that was full may never return.
- A thread of mal that has ended can be entered again by the wake-up of its stream.
- A thing for which there is no address left stays enabled at address 0
  (`vsfusbh_HUB.c:193` only gives up the scan), where the next enumeration meets it.

## Proofs

Everything below is proved for every value of the constants: any number of levels,
state machines, slots, timers, buffers. Each result is `Spec => []Inv` from an
inductive invariant, or a refinement from an invariant and a step-by-step mapping.

| module | theorems | hypotheses beyond the `ASSUME`s of the model |
|---|---|---|
| `EvtqProofs` | `TypeCorrect`, `RingIsConsistent`, `TicksAreCounted`, `FiniRemoves`, `RingImplementsFifo` | the last two: `FiniOnFull = FALSE`, no `vsfsm_fini` on a full ring (finding 1) |
| `SchedProofs` | `TypeCorrect`, `HandlersStayHome`, `WakeupsKept`, `ProtectionIsExclusive`, `OrderKept` | |
| `SyncProofs` | `PermitIsConserved`, `ListStaysFifo` | (the second until `mistaken`) |
| `TimerProofs` | `PoolIsExact`, `CountsAreKept`, `FiringIsInTime` | the last: `NoWrap`, the tick counter does not reach its wrap |
| `FifoProofs` | `StreamImplementsFifo` | (until `torn`) |
| `NetifProofs` | `OwnershipHolds`, `NobodyIsForgotten`, `FramesGoRight` | (until `linkedTwice`) |
| `UsbdProofs` | `HandlersAreSafe`, `EffectsAreExact`, `AnswersAreExact`, `DeviceAndHostAgree` | `Patient = TRUE`, as in the run (the finding of `usbd_busy` is the other case), and `Fitting`: no request sends more data than the device has a buffer for, as all requests of the run |
| `UsbhProofs` | `NewDeviceIsOwned`, `AddressesAreExact`, `DriversAreRight` | the first: none (until `crowded`); the others (until `rough`): `OneHub`, the root hub has only functions at any number of ports, or one port and one other hub is around; `Roomy`, there are more addresses than ports |

Without `FiniOnFull = FALSE`, `NoWrap`, `Patient` and `Roomy` the property fails, by a
finding or as the hazards say. `OneHub` is a limit of the proof: for two hubs in a row
`AddressesExact` and `DriverTalksToItsDevice` are only model-checked. Of
`EnumerationOwned` the part on the device is proved without any hypothesis; that nobody
else listens at address 0 is model-checked.

**Evtq.** The inductive invariant is `TypeOK /\ RingConsistent /\ TickInv`.
`TickCounted` counts a set of slots and is not inductive in that form; `TickInv`
replaces the cardinality by a position: if `tick_evt_count` is 1 there is exactly one
place that holds a tick, and none if it is 0. The lemmas state the arithmetic of the
ring (`Nth`) once. For `vsfsm_fini` the invariant `FInv` is added: what lies before
the position of the scan is cleared, and the position is within the stored events, since a
post may only move `tail` away from it. This is where a full ring breaks the
argument. The refinement maps the ring to the sequence read from `head`; posts and
polls are steps of the FIFO, the turns of the scan steps of forgetting, the other
steps stutter.

**Sched.** `HandlerAtHome` alone is not inductive: a direct dispatch is right only
because `vsfsm_cur_evtq` is right, which after a preemption depends on what
`app_on_srt` saved. The strengthening `IInv` is `TypeOK`, `CurIsTop` (the global names
the highest level that has set it), `OldIsBelow` (a saved value names the highest level
below that has), `QueuedAtHome` (events are queued where their state machine belongs),
`HandlerAtHome` and `HandlerHasFrame`. With it `NoLostWakeup` is inductive: who puts
an event into a queue has to activate it, and `app_on_srt` leaves only when its queue
is empty. `ProtectedExclusive` needs `PInv`: a protected handler has raised `mask`, no
context up to `MaxSrtPrio` is active above it, and dispatches nested in it, also those
of the levels that are not held off, put the raised level back.
`FifoPerSm` is kept because a direct dispatch happens only in the queue's own context
and with nothing queued for the state machine.

**Sync.** `SInv` says that the permit is conserved, that a state machine that is
granted or in flight is counted at one place, and, while nobody is mistaken, that the
pointers of the list spell the sequence of waiters (`IsChain`) and a free permit has no
waiters. Conservation then is a sum of cardinalities; it does not depend on the list, so
it survives a tangled one. What the walk through the list meets is proved by induction
along the walk, as the absence of a least difference.

**Timer.** `TInv` says that the list has no timer twice and is sorted by deadline, that
the pool is exact and that counts add up, where a timer that the handler has taken and
not yet told of counts as fired (`Owed`); `DInv` adds that a listed timer's deadline is
one interval after it was armed. The walks of `vsfq_remove`, `vsftimer_clean_sm`
and `vsfq_enqueue` are treated as in `Sync`.

**FifoStream.** `FInv` says what the steps of the thread have computed from
indices that may have moved since: the interrupt moves the other index only, so
the thread sees too little data or too little room, never too much. It holds until
`torn`. The refinement maps the buffer between `tail` and `head` to the queue of
`FifoAbs`; a head that stands at the end of the buffer counts as wrapped (`Settled`).
From the step that sets `torn` on, `FifoAbs` is `void` and allows anything.

**Netif.** Unless `linkedTwice`, the invariant is the existence of two sequences that `outq` and `requestq`
spell, without a common buffer (`Spells`, `Apart`); an owner for each reference
(`Own`); frames, cache entries and the count of `rsem` that fit (`Good`); and the
state of client and driver between two wake-ups (`Steady`, `Comes`). Each
operation of the model is a composition of moves of one buffer between places, each of
which has a lemma. That the walk `Listed` ends is a pigeonhole over the buffers.

**Usbd.** None of the four properties is inductive: what the device does next depends on
the events it has not taken yet. `IInv` says that the queue is one of six short
contents (`Bases`: the events of one request, or of the last packet of one and the SETUP
of the next) followed by any number of bus resets. For each content `Phase` has two
parts: what the device must be like to take these events (`Confirms`, `Sends`, `Awaits`,
`Takes`), which holds even if a reset is behind them, and how host and device fit while
none is (`live`): which packet is offered, how much is still to come, whether the
request has taken effect. `Even` and `Owed` say that the requests that took effect are
those the host has seen end, or all but the last. There is one lemma for each event
taken (`SetupHandled`, `SentGoesOn`, `NextPiece`, `ReceivedGoesOn`, `EndedTakesEffect`,
`ConfirmedTakesEffect`), one for each action of the host, and a small arithmetic
of pieces of data (`UnitsJoin`, `UnitsPrefix`). Without `Fitting`, a packet larger than what
is left of the buffer takes the branch that returns `VSFERR_BUG` (`vsfusbd.c:811`).

**Usbh.** A property about the bus depends on what every thread is going to do, so `IInv`
says for each wait of each thread what may have happened around it. `Tree`, `Hubs`,
`Numbers` and `Resets` are about the software alone: the devices form a tree, a hub that
works holds its children, a device answers at its own number except in the first
steps of its enumeration, and a port is reset only for a hub that attaches something or
for the enumeration. `HubsAnswer`, `Placed`, `Default` and `Linked` relate it to the
bus: a thing with an address sits at the port of the device with this address or is about
to be reset, a thing at address 0 sits where something is attached or enumerated, and
a port without change holds what the tree says. What makes this inductive are two
parts on stale knowledge. `Pendings`: a port with a change, sampled or not yet, or
with a request to connect again, has a device that is not being enumerated, that has a
driver as everything below it, and that no longer answers if it is a hub; so it may be
disconnected at any later time. `Attaching`: while a hub stands between the clearing
of a change and the allocation of the device, the port has no device and nobody is
enumerated, even though the hub looked at `new_dev` before it started. `Sampled` says that a
port that was read as empty has stayed so. The fixpoints `Under` and `Family` are replaced
by two levels (`UnderIs`, `FamilyIs`), for which `OneHub` is used. `IInv` holds until
`rough`; there is one lemma for each action. `NewDeviceIsOwned` has an invariant of its
own, `Own`, which says nothing of the bus and so is not touched by cables: `OnePast` (a hub
past the check is the only one, and while there is one nobody is enumerated), `NewHeld`
(the device under enumeration is the child of a hub that scans), and `Counters`,
`KnownHubs` and `KnownNumbers` about counters and numbers. It holds until `crowded`. `Roomy` is needed: if `vsfusbh_alloc_device` finds no address
(`vsfusbh.c:43`), the thing that was reset stays at address 0 and answers in place of the
next one; with two ports and two addresses TLC refutes `EnumerationOwned` and
`DriverTalksToItsDevice`. The assumption that things are plugged in once and not into
themselves at power-on is about cables.

Only model-checked: liveness (`EventsDispatched`, `AllDelivered`, `WaitersEnter`,
`CallsReturn`, `Answered`, `PacketsLeave`, `RequestsEnd`, `EveryoneServed`), which is out
of the prover's reach with its fairness; and everything about `Tcp` and `Msc`, of which an
inductive invariant would have to describe every combination of packets on their way or of
six parts that wait for each other. The prover has no induction over data; the recursive functions of `SyncList`,
`Timer` and `Netif` are dealt with by least counterexamples, and the modules with proofs
use no `RECURSIVE` operator. The type invariants of `Evtq` and `Sched` are proved and not
part of a run.

Each property has a mutant, an operator that changes a definition as a bug
would, under which TLC finds the property violated. They are named in
`PROJECT.json` and marked in the modules, as `Mutant` or as a bug to check against.

## What is not modelled

- Bytes: headers, checksums, descriptors, sizes of transfers in bytes. Data is
  counted in units, sequence numbers of TCP do not wrap.
- Memory: allocation failures and reuse of released memory, except for the buffers
  of `Netif`.
- In the kernel, hierarchical states and the stack switch of threads; in
  `Sync`, semaphores with a limit above 1.
- In TCP, several sockets on a listener, `on_input` callbacks, window updates
  (the code sends none).
- In the interface, `vsfip_netif_add` and `remove`, and the end of its threads.
- In the USB device, the contents of the standard requests, suspend, resume and the
  requests of the classes; in mass storage, the class reset, several units and errors
  while writing.
- In the USB host, speeds, over-current, parsing of descriptors and class drivers
  other than the hub.
- The hardware layer, beyond the contract of interrupt levels, sleep and tick.
- Vendored code: most lines of the repository are device headers and vendor libraries
  under `hal/cpu`, which have no behaviour of vsf in them.

The hazards of `PROJECT.json` that have a note instead of properties are of these
kinds.

## Plan

What is left, in the order of its weight:

1. UDP, DHCP and DNS over `Netif`: waits that end by an event or by a timeout,
   retries, one request at a time; the refused instant event of `vsfsm_post_evt`
   (`vsfsm.c:403`), which leaves a client on another queue waiting.
2. `Fat`: `vsfile`, `malfs` and the reading of volumes as protothreads under one
   critical section, cluster chains against a reference definition.
3. `Multibuf`, `Bufmgr`, `Dynpool`: containers against reference definitions
   (`vsf_dynpool.c:104` compares its limit the wrong way round).
4. The class requests of mass storage, CDC and HID on top of `Usbd`.
5. `Hsm`: dispatch in a tree of states.

Where two components always work together they share one module and one run, as
the six parts of `Msc` and the interface, client and driver of `Netif` do.

Theorems, in this order: the safety of `Tcp` without loss; `DataExact` of `Msc` for one
command.
