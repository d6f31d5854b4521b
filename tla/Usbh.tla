-------------------------------- MODULE Usbh --------------------------------
(***************************************************************************)
(* The USB host: enumeration of devices (component/usb/core/vsfusbh.c) and *)
(* the hub class (component/usb/class/host/HUB/vsfusbh_HUB.c).             *)
(*                                                                         *)
(* One thread per hub scans the ports, one thread of the core enumerates   *)
(* the single device named by new_dev; both wait for transfers, so their   *)
(* steps interleave, and cables are plugged and pulled between any two of  *)
(* them.  A software device is named by the address it was allocated.      *)
(*                                                                         *)
(* A transfer is one step: its effect on the bus and the handler of its    *)
(* completion.  Only the port status is sampled in a step of its own,      *)
(* because its handler uses what may be stale by then.  A sequence of      *)
(* transfers of which only the last one has an effect is one step, too.    *)
(* The poll timer wakes a hub at any time, so that the count of poll_sem   *)
(* is not kept.  Not modelled: speeds, the change flags that are only      *)
(* cleared (suspend, enable, over-current), lack of memory.                *)
(***************************************************************************)
EXTENDS Integers, FiniteSets, Sequences, FiniteSetsExt

CONSTANTS
    Things,      \* physical devices, the root hub among them
    Root,        \* the root hub
    Nothing,     \* what is plugged into an empty port
    NPort,       \* [Things -> Nat]: ports of a hub, 0 for a function
    Drivers,     \* [Things -> Seq(BOOLEAN)]: per configuration, does a driver match
    Mute,        \* things that are enabled by a reset but never answer
    Boot,        \* what is plugged into the ports at power-on
    MaxAddr,     \* USB_MAX_DEVICE
    MaxRetry,    \* attempts of a port reset after the first one: 4 in the code
    Fuel         \* bound: plugs, unplugs and reconnects of a behaviour

Addr == 1..MaxAddr
NoDev == 0                     \* NULL
Off == -1                      \* address of a thing whose port is not enabled
Silent == -2                   \* address of an enabled thing that does not answer
Port == UNION {{t} \X (1..NPort[t]) : t \in Things}
MaxPort == Max({NPort[t] : t \in Things})

ASSUME UsbhAssumption ==
    /\ IsFiniteSet(Things) /\ Root \in Things /\ Nothing \notin Things
    /\ NPort \in [Things -> Nat] /\ NPort[Root] > 0
    /\ \A t \in Things : Drivers[t] \in Seq(BOOLEAN)
    /\ Mute \subseteq Things
    /\ Boot \in [Port -> (Things \ {Root}) \cup {Nothing}]
    /\ \A p, q \in Port : Boot[p] = Boot[q] => p = q \/ Boot[p] = Nothing
    /\ \A p \in Port : Boot[p] # p[1]
    /\ MaxAddr \in Nat \ {0} /\ MaxRetry \in Nat /\ Fuel \in Nat

VARIABLES
    plug,        \* [Port -> thing]: the cables
    chg,         \* [Port -> BOOLEAN]: C_CONNECTION of the port
    taddr,       \* [Things -> address]: where a thing answers on the bus
    bitmap,      \* device_bitmap, without the bit of address 0
    dev,         \* [Addr -> device]: the memory of the devices
    new_dev,     \* the device that is being enumerated
    probe,       \* vsfusbh_probe_thread: [pc, cfg]
    hub,         \* [Addr -> hub]: the hub driver of a device
    fuel,
    rough,       \* history: a cable or a driver has not spared a window (see Plug)
    crowded      \* history: two hubs were past the check of new_dev (see HubPort)

vars == <<plug, chg, taddr, bitmap, dev, new_dev, probe, hub, fuel, rough, crowded>>
bus == <<plug, chg, taddr>>
soft == <<bitmap, dev, new_dev, probe, hub>>

-----------------------------------------------------------------------------
(* The bus: what is below a thing, and who answers at an address.          *)

Ports(u) == {i \in 1 .. MaxPort : <<u, i>> \in Port}

Under(t) ==
    LET grow[n \in 0..Cardinality(Things)] ==
            IF n = 0 THEN {t}
            ELSE UNION {{u} \cup {plug[<<u, i>>] : i \in Ports(u)} : u \in grow[n - 1]}
    IN  grow[Cardinality(Things)] \ {Nothing}

At(d) == {t \in Things : taddr[t] = d}

(* The thing behind a hub driver: its transfers fail when there is none.   *)
HubAt(a) == At(dev[a].devnum)

(* Nor does a hub answer for a port that it does not have.                 *)
PortAt(a) == {t \in HubAt(a) : <<t, hub[a].counter>> \in Port}

-----------------------------------------------------------------------------
(* Devices                                                                 *)

NoChildren == [n \in 1..MaxPort |-> NoDev]
NewDevice(a, parent) ==
    [live |-> TRUE, devnum |-> a, temp |-> 0, parent |-> parent,
     children |-> NoChildren, ifs |-> "none"]
NoHub == [pc |-> "off", ports |-> 0, counter |-> 1, by |-> "scan", retry |-> 0, again |-> FALSE,
          sts |-> [connection |-> FALSE, change |-> FALSE], reset |-> {}, reconnect |-> {}]

Children(b) == IF b = NoDev THEN {} ELSE {dev[b].children[i] : i \in 1..MaxPort}

(* vsfusbh_disconnect_device: the device and everything below it.          *)
Family(a) ==
    LET grow[n \in 0..MaxAddr] ==
            IF n = 0 THEN {a}
            ELSE UNION {{b} \cup Children(b) : b \in grow[n - 1]}
    IN  grow[MaxAddr] \cap Addr

Gone(a, n) ==
    IF dev[a].children[n] = NoDev THEN {} ELSE Family(dev[a].children[n])

DevAfter(a, n) ==
    [b \in Addr |->
       IF b \in Gone(a, n) THEN [dev[b] EXCEPT !.live = FALSE, !.children = NoChildren]
       ELSE IF b = a THEN [dev[b] EXCEPT !.children[n] = NoDev]
       ELSE dev[b]]

(* A bug to check against: only the device itself gives its address back.  *)
BitmapAfterFlat(a, n) == bitmap \ {dev[a].children[n]}

BitmapAfter(a, n) == bitmap \ {dev[b].devnum : b \in Gone(a, n)}

(* The place of a device: the port of its parent that holds it.            *)
PortOf(a) ==
    LET held == {n \in 1..MaxPort : dev[dev[a].parent].children[n] = a}
    IN  IF held = {} THEN 0 ELSE Min(held)

-----------------------------------------------------------------------------
(* hub_scan_thread, hub_connect_thread, hub_reset_thread                   *)

(* The top of the loop over the ports.                                     *)
EnterPort(h, n) ==
    [h EXCEPT !.counter = n, !.by = "scan", !.retry = 0, !.again = FALSE,
              !.pc = IF n \in h.reset THEN "reset" ELSE "status"]

NextPort(h) == IF h.counter < h.ports THEN EnterPort(h, h.counter + 1)
               ELSE [h EXCEPT !.pc = "poll"]

(* A failure ends the scan, which starts again at the first port.          *)
Abandon(h) == [h EXCEPT !.pc = "poll", !.again = FALSE]

(* connect_pt has returned to the scan, which had called it to connect     *)
(* again what reconnect_mask names, or for a change.                       *)
Connected(h) == NextPort([h EXCEPT !.reconnect = IF h.again THEN @ \ {h.counter} ELSE @,
                                   !.again = FALSE])

(* hub_init_thread powers the ports: what is connected shows as changed.   *)
HubInit(a) ==
    /\ hub[a].pc = "init"
    /\ \/ \E t \in HubAt(a) :
            /\ hub' = [hub EXCEPT ![a].pc = "poll", ![a].ports = NPort[t]]
            /\ chg' = [p \in Port |-> IF p[1] = t THEN plug[p] # Nothing ELSE chg[p]]
       \/ /\ HubAt(a) = {}
          /\ hub' = [hub EXCEPT ![a] = NoHub]
          /\ UNCHANGED chg
    /\ UNCHANGED <<plug, taddr, bitmap, dev, new_dev, probe, fuel, rough, crowded>>

HubPoll(a) ==
    /\ hub[a].pc = "poll"
    /\ hub' = [hub EXCEPT ![a] = EnterPort(@, 1)]
    /\ UNCHANGED <<bus, bitmap, dev, new_dev, probe, fuel, rough, crowded>>

HubStatus(a) ==
    /\ hub[a].pc = "status"
    /\ \/ \E t \in PortAt(a) :
            LET p == <<t, hub[a].counter>>
            IN  hub' = [hub EXCEPT ![a].pc = "ports",
                          ![a].sts = [connection |-> plug[p] # Nothing, change |-> chg[p]]]
       \/ /\ PortAt(a) = {}
          /\ hub' = [hub EXCEPT ![a] = Abandon(@)]
    /\ UNCHANGED <<bus, bitmap, dev, new_dev, probe, fuel, rough, crowded>>

(* A change is only looked at when no device is being enumerated.  Nothing *)
(* keeps a second hub from coming to the same conclusion before the first  *)
(* one has attached its device.                                            *)
Connecting == {"reset", "enabled", "wait"}
Past(a) == \/ hub[a].pc = "connect"
           \/ hub[a].pc \in Connecting /\ hub[a].by = "connect"

(* A bug to check against: new_dev is not looked at.                       *)
HubPortAny(a) ==
    LET goes == hub[a].counter \in hub[a].reconnect \/ hub[a].sts.change
    IN  /\ hub[a].pc = "ports"
        /\ hub' = [hub EXCEPT ![a] =
                     IF goes
                     THEN [@ EXCEPT !.pc = "connect", !.again = hub[a].counter \in hub[a].reconnect]
                     ELSE NextPort(@)]
        /\ crowded' = (crowded \/ (goes /\ \E b \in Addr \ {a} : Past(b)))
        /\ UNCHANGED <<bus, bitmap, dev, new_dev, probe, fuel, rough>>

HubPort(a) ==
    LET goes == (hub[a].counter \in hub[a].reconnect \/ hub[a].sts.change) /\ new_dev = NoDev
    IN  /\ hub[a].pc = "ports"
        /\ hub' = [hub EXCEPT ![a] =
                     IF goes
                     THEN [@ EXCEPT !.pc = "connect", !.again = hub[a].counter \in hub[a].reconnect]
                     ELSE NextPort(@)]
        /\ crowded' = (crowded \/ (goes /\ \E b \in Addr \ {a} : Past(b)))
        /\ UNCHANGED <<bus, bitmap, dev, new_dev, probe, fuel, rough>>

(* Clear C_CONNECTION, disconnect what was there; then the status sampled  *)
(* before tells whether there is something to connect.                     *)
HubConnect(a) ==
    /\ hub[a].pc = "connect"
    /\ \/ \E t \in PortAt(a) :
            LET n == hub[a].counter
            IN  /\ chg' = [chg EXCEPT ![<<t, n>>] = FALSE]
                /\ dev' = DevAfter(a, n)
                /\ bitmap' = BitmapAfter(a, n)
                /\ hub' = [b \in Addr |->
                     IF b \in Gone(a, n) THEN NoHub
                     ELSE IF b # a THEN hub[b]
                     ELSE IF hub[a].sts.connection
                          THEN [hub[a] EXCEPT !.pc = "reset", !.by = "connect", !.retry = 0]
                          ELSE Connected(hub[a])]
       \/ /\ PortAt(a) = {}
          /\ hub' = [hub EXCEPT ![a] = Abandon(@)]
          /\ UNCHANGED <<chg, dev, bitmap>>
    /\ UNCHANGED <<plug, taddr, new_dev, probe, fuel, rough, crowded>>

(* Set the reset, clear its change flag: a thing that is there is enabled  *)
(* and answers at the default address, the things below it are gone.       *)
HubReset(a) ==
    /\ hub[a].pc = "reset"
    /\ IF PortAt(a) # {}
       THEN \E t \in PortAt(a) :
              LET u == plug[<<t, hub[a].counter>>]
              IN  /\ hub' = [hub EXCEPT ![a].pc = "enabled"]
                  /\ taddr' = [v \in Things |->
                                IF v = u THEN IF u \in Mute THEN Silent ELSE 0
                                ELSE IF u # Nothing /\ v \in Under(u) THEN Off
                                ELSE taddr[v]]
       ELSE /\ hub' = [hub EXCEPT ![a] = Abandon(@)]
            /\ UNCHANGED taddr
    /\ UNCHANGED <<plug, chg, bitmap, dev, new_dev, probe, fuel, rough, crowded>>

(* A bug to check against: reset_mask keeps the bit of the port.           *)
HubEnabledKeep(a) ==
    /\ hub[a].pc = "enabled"
    /\ LET n == hub[a].counter
           enabled == \E t \in PortAt(a) : /\ plug[<<t, n>>] # Nothing
                                           /\ taddr[plug[<<t, n>>]] # Off
       IN  hub' = [hub EXCEPT ![a] =
             CASE enabled /\ @.by = "connect" -> [@ EXCEPT !.pc = "wait"]
               [] enabled /\ @.by = "scan"    -> [@ EXCEPT !.pc = "status"]
               [] PortAt(a) # {} /\ ~enabled /\ @.retry < MaxRetry ->
                     [@ EXCEPT !.pc = "reset", !.retry = @ + 1]
               [] OTHER -> Abandon(@)]
    /\ UNCHANGED <<bus, bitmap, dev, new_dev, probe, fuel, rough, crowded>>

(* The status after the reset; reset_pt returns to whoever started it.     *)
HubEnabled(a) ==
    /\ hub[a].pc = "enabled"
    /\ LET n == hub[a].counter
           enabled == \E t \in PortAt(a) : /\ plug[<<t, n>>] # Nothing
                                           /\ taddr[plug[<<t, n>>]] # Off
       IN  hub' = [hub EXCEPT ![a] =
             CASE enabled /\ @.by = "connect" -> [@ EXCEPT !.pc = "wait"]
               [] enabled /\ @.by = "scan"    -> [@ EXCEPT !.pc = "status", !.reset = @ \ {n}]
               [] PortAt(a) # {} /\ ~enabled /\ @.retry < MaxRetry ->
                     [@ EXCEPT !.pc = "reset", !.retry = @ + 1]
               [] OTHER -> Abandon(@)]
    /\ UNCHANGED <<bus, bitmap, dev, new_dev, probe, fuel, rough, crowded>>

(* Wait for new_dev to be free, allocate the device and hand it over.      *)
HubAttach(a) ==
    /\ hub[a].pc = "wait" /\ new_dev = NoDev
    /\ IF bitmap # Addr
       THEN LET d == Min(Addr \ bitmap)
            IN  /\ bitmap' = bitmap \cup {d}
                /\ dev' = [dev EXCEPT ![d] = NewDevice(d, a),
                                     ![a].children[hub[a].counter] = d]
                /\ new_dev' = d
                /\ probe' = [pc |-> "start", cfg |-> 1]
                /\ hub' = [hub EXCEPT ![a] = Connected(@)]
       ELSE /\ hub' = [hub EXCEPT ![a] = Abandon(@)]
            /\ UNCHANGED <<bitmap, dev, new_dev, probe>>
    /\ UNCHANGED <<bus, fuel, rough, crowded>>

HubStep(a) == \/ HubInit(a) \/ HubPoll(a) \/ HubStatus(a) \/ HubPort(a) \/ HubConnect(a)
              \/ HubReset(a) \/ HubEnabled(a) \/ HubAttach(a)

-----------------------------------------------------------------------------
(* vsfusbh_probe_thread and vsfusbh_probe_evt_handler.  The thread works   *)
(* on new_dev, whatever has become of it; the model ends where the device  *)
(* has been freed, which takes two hubs (see NewDevOwned).                 *)

(* The enumeration failed: vsfusbh_clean_device frees what the device      *)
(* points to; the device stays with its parent.                            *)
ProbeFail(ifs) ==
    /\ dev' = [dev EXCEPT ![new_dev].ifs = ifs]
    /\ new_dev' = NoDev
    /\ probe' = [probe EXCEPT !.pc = "idle"]

(* NEW_DEVICE: from now on the device is addressed with 0.                 *)
ProbeStart ==
    /\ probe.pc = "start"
    /\ dev' = [dev EXCEPT ![new_dev].temp = dev[new_dev].devnum, ![new_dev].devnum = 0]
    /\ probe' = [probe EXCEPT !.pc = "desc"]
    /\ UNCHANGED <<bus, bitmap, new_dev, hub, fuel, rough, crowded>>

(* The first descriptor has come: ask the hub to reset the port.           *)
ProbeDesc ==
    /\ probe.pc = "desc"
    /\ \/ /\ At(0) # {}
          /\ hub' = [hub EXCEPT ![dev[new_dev].parent].reset = @ \cup {PortOf(new_dev)}]
          /\ probe' = [probe EXCEPT !.pc = "reset"]
          /\ UNCHANGED <<dev, new_dev>>
       \/ /\ At(0) = {} /\ ProbeFail("none") /\ UNCHANGED hub
    /\ UNCHANGED <<bus, bitmap, fuel, rough, crowded>>

(* A bug to check against: the address is set without waiting for the hub. *)
ProbeResetEarly ==
    /\ probe.pc = "reset"
    /\ dev' = [dev EXCEPT ![new_dev].devnum = dev[new_dev].temp]
    /\ probe' = [probe EXCEPT !.pc = "addr"]
    /\ UNCHANGED <<bus, bitmap, new_dev, hub, fuel, rough, crowded>>

(* The hub has reset the port: the device gets its address back.           *)
ProbeReset ==
    /\ probe.pc = "reset"
    /\ PortOf(new_dev) \notin hub[dev[new_dev].parent].reset
    /\ dev' = [dev EXCEPT ![new_dev].devnum = dev[new_dev].temp]
    /\ probe' = [probe EXCEPT !.pc = "addr"]
    /\ UNCHANGED <<bus, bitmap, new_dev, hub, fuel, rough, crowded>>

(* SET_ADDRESS goes to whoever listens at the default address.             *)
ProbeAddr ==
    /\ probe.pc = "addr"
    /\ IF At(0) # {}
       THEN /\ taddr' = [t \in Things |-> IF t \in At(0) THEN dev[new_dev].devnum ELSE taddr[t]]
            /\ probe' = [probe EXCEPT !.pc = "config"]
            /\ UNCHANGED <<dev, new_dev>>
       ELSE ProbeFail("none") /\ UNCHANGED taddr
    /\ UNCHANGED <<plug, chg, bitmap, hub, fuel, rough, crowded>>

(* The descriptors, SET_CONFIGURATION and vsfusbh_parse_config: a driver   *)
(* takes the device, or the next configuration is tried.  cfg counts the   *)
(* configurations; those that were parsed have left interfaces to free.    *)
ProbeConfig ==
    /\ probe.pc = "config"
    /\ LET who == At(dev[new_dev].devnum)
           more == {t \in who : probe.cfg <= Len(Drivers[t])}
       IN  \/ \E t \in more :
                /\ Drivers[t][probe.cfg]
                /\ dev' = [dev EXCEPT ![new_dev].ifs = "bound"]
                /\ hub' = IF NPort[t] = 0 THEN hub
                          ELSE [hub EXCEPT ![new_dev] = [NoHub EXCEPT !.pc = "init"]]
                /\ new_dev' = NoDev
                /\ probe' = [probe EXCEPT !.pc = "idle"]
           \/ \E t \in more :
                /\ ~Drivers[t][probe.cfg]
                /\ probe' = [probe EXCEPT !.cfg = @ + 1]
                /\ UNCHANGED <<dev, hub, new_dev>>
           \/ /\ more = {}
              /\ ProbeFail(IF probe.cfg = 1 THEN "none" ELSE "freed")
              /\ UNCHANGED hub
    /\ UNCHANGED <<bus, bitmap, fuel, rough, crowded>>

ProbeStep ==
    /\ new_dev \in {a \in Addr : dev[a].live}
    /\ ProbeStart \/ ProbeDesc \/ ProbeReset \/ ProbeAddr \/ ProbeConfig

-----------------------------------------------------------------------------
(* The environment.  The code is not safe against a cable in some windows  *)
(* (see the README): rough tells that the cable of a port was moved while  *)
(* its hub reset and attached what was there, a device was pulled while it *)
(* was enumerated or after that failed, a hub while its thread waited for  *)
(* a timer, something was plugged in between the reading of a port status  *)
(* that says disconnected and the clearing of the change, or a driver      *)
(* asked for a device that was just being disconnected.                    *)

Scanners(p) == {a \in Addr : hub[a].pc \notin {"off", "init"} /\ p[1] \in HubAt(a)}
Busy(a, n, pcs) == hub[a].counter = n /\ hub[a].pc \in pcs

Quiet(a) == /\ dev[a].ifs = "bound" /\ new_dev # a
            /\ hub[a].pc \notin Connecting \cup {"init"}

PlugSpares(p) ==
    \A a \in Scanners(p) :
        /\ ~Busy(a, p[2], Connecting)
        /\ ~(Busy(a, p[2], {"ports", "connect"}) /\ ~hub[a].sts.connection)

Plug(p, t) ==
    /\ fuel > 0
    /\ plug[p] = Nothing /\ \A q \in Port : plug[q] # t
    /\ p[1] \notin Under(t)
    /\ plug' = [plug EXCEPT ![p] = t]
    /\ chg' = [chg EXCEPT ![p] = TRUE]
    /\ fuel' = fuel - 1
    /\ rough' = (rough \/ ~PlugSpares(p))
    /\ UNCHANGED <<taddr, soft, crowded>>

UnplugSpares(p) ==
    \A a \in Scanners(p) :
        /\ ~Busy(a, p[2], Connecting)
        /\ \A b \in Gone(a, p[2]) : Quiet(b)

Unplug(p) ==
    /\ fuel > 0
    /\ plug[p] # Nothing
    /\ taddr' = [t \in Things |-> IF t \in Under(plug[p]) THEN Off ELSE taddr[t]]
    /\ plug' = [plug EXCEPT ![p] = Nothing]
    /\ chg' = [chg EXCEPT ![p] = TRUE]
    /\ fuel' = fuel - 1
    /\ rough' = (rough \/ ~UnplugSpares(p))
    /\ UNCHANGED <<soft, crowded>>

(* vsfusbh_hub_reconnect_dev, called by the driver of a function.          *)
Reconnect(a) ==
    /\ fuel > 0
    /\ dev[a].live /\ dev[a].parent # NoDev
    /\ dev[a].ifs = "bound" /\ hub[a].pc = "off"
    /\ hub' = [hub EXCEPT ![dev[a].parent].reconnect = @ \cup {PortOf(a)}]
    /\ fuel' = fuel - 1
    /\ rough' = (rough \/ Busy(dev[a].parent, PortOf(a), {"connect"}))
    /\ UNCHANGED <<bus, bitmap, dev, new_dev, probe, crowded>>

Env == \/ \E p \in Port : Unplug(p) \/ \E t \in Things \ {Root} : Plug(p, t)
       \/ \E a \in Addr : Reconnect(a)

-----------------------------------------------------------------------------
(* The root hub has been enumerated and powered at power-on.               *)
Init ==
    /\ plug = Boot
    /\ chg = [p \in Port |-> Boot[p] # Nothing]
    /\ taddr = [t \in Things |-> IF t = Root THEN 1 ELSE Off]
    /\ bitmap = {1}
    /\ dev = [a \in Addr |-> IF a = 1 THEN [NewDevice(1, NoDev) EXCEPT !.ifs = "bound"]
                              ELSE [NewDevice(a, NoDev) EXCEPT !.live = FALSE]]
    /\ new_dev = NoDev
    /\ probe = [pc |-> "idle", cfg |-> 1]
    /\ hub = [a \in Addr |-> IF a = 1 THEN [NoHub EXCEPT !.pc = "poll", !.ports = NPort[Root]]
                              ELSE NoHub]
    /\ fuel = Fuel /\ rough = FALSE /\ crowded = FALSE

Next == \/ \E a \in Addr : HubStep(a)
        \/ ProbeStep
        \/ Env

Spec == Init /\ [][Next]_vars

(* Every state machine is dispatched as long as it has an event; timers    *)
(* and transfers end.                                                      *)
FairSpec == Spec /\ WF_vars(ProbeStep) /\ \A a \in Addr : WF_vars(HubStep(a))

-----------------------------------------------------------------------------
(* vsfusbh.c:666: the thread works on new_dev over many waits, while the   *)
(* hubs free devices: new_dev is always a device that exists and that its  *)
(* parent, a working hub, knows at one of its ports.                       *)
NewDevOwned ==
    /\ (probe.pc = "idle") = (new_dev = NoDev)
    /\ new_dev # NoDev =>
         LET d == dev[new_dev]
         IN  d.live /\ dev[d.parent].live /\ hub[d.parent].pc # "off" /\ PortOf(new_dev) # 0

(* vsfusbh.c:702: whoever answers at the default address when the thread   *)
(* uses it is the device behind the port of new_dev, nobody else.          *)
DefaultAddressOwned ==
    probe.pc \in {"desc", "addr"} =>
        \A t \in HubAt(dev[new_dev].parent) : At(0) \subseteq {plug[<<t, PortOf(new_dev)>>]}

(* The thread works on a device that exists, and alone with it, whichever  *)
(* cables are moved and when, until two hubs are past the check of new_dev *)
(* at once: new_dev is all that keeps a hub from freeing the device under  *)
(* enumeration and from resetting another port meanwhile.                  *)
EnumerationOwned == ~crowded => NewDevOwned /\ DefaultAddressOwned

Undisturbed == ~rough /\ ~crowded

(* vsfusbh.c:43 and 263: an address is taken exactly as long as its device *)
(* exists and is reachable from the root hub, if no cable was moved in one *)
(* of the windows named at Plug.                                           *)
AddressesExact ==
    Undisturbed => /\ bitmap = {a \in Addr : dev[a].live}
                   /\ bitmap = Family(1)

(* A device that a driver has taken is, as long as its port reports no     *)
(* change, the thing plugged in there and the only one at its address.     *)
DriverTalksToItsDevice ==
    Undisturbed => \A a \in bitmap \ {1} : dev[a].ifs = "bound" =>
        \A t \in HubAt(dev[a].parent) :
            LET p == <<t, PortOf(a)>>
            IN  plug[p] # Nothing /\ ~chg[p] => At(a) = {plug[p]}

(* Once the cables are left alone every reachable thing with a driver is   *)
(* bound at its port, an empty port has no device, and nobody enumerates.  *)
Served ==
    /\ new_dev = NoDev
    /\ \A p \in Port : p[1] \in Under(Root) =>
          \E a \in bitmap :
             /\ HubAt(a) = {p[1]} /\ hub[a].pc \notin {"off", "init"}
             /\ LET c == dev[a].children[p[2]]
                IN  IF plug[p] = Nothing THEN c = NoDev
                    ELSE /\ c # NoDev
                         /\ /\ plug[p] \notin Mute
                            /\ \E i \in DOMAIN Drivers[plug[p]] : Drivers[plug[p]][i]
                            => dev[c].ifs = "bound" /\ At(c) = {plug[p]}
EveryoneServed == <>[](Undisturbed => Served)
=============================================================================
