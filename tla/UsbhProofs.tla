----------------------------- MODULE UsbhProofs -----------------------------
(***************************************************************************)
(* Proofs about the USB host of module Usbh, for any number of ports,      *)
(* functions, addresses and cables moved.                                  *)
(*                                                                         *)
(* The first part is about the time until a cable is moved in one of the   *)
(* windows named at Plug, on a bus with addresses enough (Roomy) and one   *)
(* hub at most besides the root hub (OneHub): a root hub with any number   *)
(* of ports and only functions, or a root hub with one port and one other  *)
(* hub.                                                                    *)
(*                                                                         *)
(* The second part holds for any number of hubs and whatever the cables    *)
(* do: as long as no two hubs have been past the check of new_dev at once, *)
(* the device under enumeration exists and is held by a hub that works.    *)
(*                                                                         *)
(* The first argument: the devices form a tree of which each working hub   *)
(* holds its children.  A port at which something has changed, or is       *)
(* about to be connected again (Pending), has a device that is not being   *)
(* enumerated and, if it is a hub, one that is off the bus.  Hence, while  *)
(* one hub attaches something, nobody else does, nobody is enumerated, and *)
(* every thing that has an address sits where the tree says.               *)
(***************************************************************************)
EXTENDS Usbh, FiniteSetTheorems, TLAPS

\* Two things never listen at the default address: see above.
OneHub ==
    \A t \in Things \ {Root} : NPort[t] > 0 =>
        /\ NPort[Root] = 1
        /\ \A u \in Things \ {Root} : NPort[u] > 0 => u = t

\* There is an address for what is plugged into every port.
Roomy == Cardinality(Port) < MaxAddr

Device == [live : BOOLEAN, devnum : 0 .. MaxAddr, temp : 0 .. MaxAddr, parent : 0 .. MaxAddr,
           children : [1 .. MaxPort -> 0 .. MaxAddr], ifs : {"none", "freed", "bound"}]
Hub == [pc : {"off", "init", "poll", "status", "ports", "connect", "reset", "enabled", "wait"},
        ports : Nat, counter : Nat, by : {"scan", "connect"}, retry : Nat, again : BOOLEAN,
        sts : [connection : BOOLEAN, change : BOOLEAN],
        reset : SUBSET Nat, reconnect : SUBSET Nat]
Probe == [pc : {"idle", "start", "desc", "reset", "addr", "config"}, cfg : Nat]

TypeOK ==
    /\ plug \in [Port -> (Things \ {Root}) \cup {Nothing}]
    /\ chg \in [Port -> BOOLEAN]
    /\ taddr \in [Things -> -2 .. MaxAddr]
    /\ bitmap \in SUBSET Addr
    /\ dev \in [Addr -> Device]
    /\ new_dev \in 0 .. MaxAddr
    /\ probe \in Probe
    /\ hub \in [Addr -> Hub]
    /\ fuel \in Nat

On(a) == hub[a].pc # "off"
Scans(a) == hub[a].pc \notin {"off", "init"}
Child(a, n) == dev[a].children[n]
Bound(a) == dev[a].ifs = "bound"

\* A thing is plugged in once, and no hub into itself.
Cables ==
    /\ \A p, q \in Port : plug[p] = plug[q] /\ plug[p] # Nothing => p = q
    /\ \A p \in Port : plug[p] # p[1]

\* The devices form a tree, of which the bitmap has the addresses.
Tree ==
    /\ bitmap = {a \in Addr : dev[a].live}
    /\ 1 \in bitmap /\ dev[1].parent = NoDev /\ Bound(1)
    /\ \A a \in Addr : \A n \in 1 .. MaxPort : Child(a, n) # NoDev =>
         /\ Child(a, n) \in bitmap /\ Child(a, n) # 1 /\ dev[Child(a, n)].parent = a
         /\ a \in bitmap /\ Scans(a) /\ n <= hub[a].ports
         /\ \A m \in 1 .. MaxPort : Child(a, m) = Child(a, n) => m = n
    /\ \A c \in bitmap \ {1} :
         /\ dev[c].parent \in Addr
         /\ \E n \in 1 .. MaxPort : Child(dev[c].parent, n) = c

\* The root hub works; another one is a device at the one port of the root hub.
Hubs ==
    /\ Scans(1) /\ hub[1].ports = NPort[Root]
    /\ \A a \in Addr : Scans(a) => hub[a].counter \in 1 .. hub[a].ports
    /\ \A a \in Addr : hub[a].pc = "init" => hub[a].counter = 1
    /\ \A a \in Addr \ {1} : On(a) =>
         /\ a \in bitmap /\ dev[a].parent = 1 /\ Bound(a) /\ NPort[Root] = 1
         /\ Scans(a) => \E t \in Things \ {Root} : NPort[t] > 0 /\ hub[a].ports = NPort[t]

\* A device answers at its own address, but for the first steps of its
\* enumeration and if that has failed.
Numbers ==
    /\ (probe.pc = "idle") = (new_dev = NoDev)
    /\ new_dev # NoDev => new_dev \in bitmap /\ dev[new_dev].ifs = "none"
    /\ \A a \in bitmap :
        /\ Bound(a) => dev[a].devnum = a
        /\ a = new_dev => IF probe.pc \in {"desc", "reset"} THEN dev[a].devnum = 0 /\ dev[a].temp = a
                          ELSE dev[a].devnum = a

\* A hub resets a port outside of attaching a device only on behalf of the
\* thread that enumerates the device there.
Resets ==
    \A a \in Addr :
        /\ \A n \in hub[a].reset : /\ n \in 1 .. MaxPort /\ Child(a, n) = new_dev
                                   /\ new_dev # NoDev /\ probe.pc = "reset"
        /\ hub[a].pc \in {"reset", "enabled"} /\ hub[a].by = "scan" => hub[a].counter \in hub[a].reset
        /\ hub[a].pc = "wait" => hub[a].by = "connect"

Attaches(a) == hub[a].pc \in Connecting /\ hub[a].by = "connect"
Present(a) == \E t \in Things : taddr[t] = a

\* While a hub attaches something, its port is empty and nobody is enumerated.
AttachingAt(a) ==
    /\ hub[a].pc = "connect" /\ Present(a) => new_dev = NoDev
    /\ Attaches(a) =>
         /\ Present(a) /\ new_dev = NoDev /\ Child(a, hub[a].counter) = NoDev
         /\ \A t \in Things : taddr[t] = a =>
              /\ ~chg[<<t, hub[a].counter>>]
              /\ hub[a].pc = "wait" => plug[<<t, hub[a].counter>>] # Nothing
    /\ (Attaches(a) \/ hub[a].pc = "connect") /\ hub[a].counter \in hub[a].reconnect => hub[a].again
Attaching == \A a \in Addr : AttachingAt(a)

\* The device at the port will be disconnected.
Pending(a, n) ==
    \/ \E t \in Things : taddr[t] = a /\ chg[<<t, n>>]
    \/ n \in hub[a].reconnect
    \/ hub[a].counter = n /\ hub[a].pc = "ports" /\ hub[a].sts.change
    \/ hub[a].counter = n /\ hub[a].pc = "connect"

\* It has then a driver, as those below it, and none of them does anything.
Doomed(c) ==
    /\ Bound(c)
    /\ On(c) => ~Present(c)
    /\ \A m \in 1 .. MaxPort : Child(c, m) # NoDev => Bound(Child(c, m))
Pendings ==
    \A a \in Addr : \A n \in 1 .. MaxPort : Child(a, n) # NoDev /\ Pending(a, n) => Doomed(Child(a, n))

\* What is plugged into port n of t, which is the hub a.
Sits(u, t, n, a) ==
    /\ t \in Things /\ n \in 1 .. NPort[t] /\ plug[<<t, n>>] = u
    /\ taddr[t] = a /\ a \in Addr /\ Scans(a)

\* The root hub is at address 1; things with the address of a working hub are hubs.
HubsAnswer ==
    /\ \A t \in Things : (taddr[t] = 1) = (t = Root)
    /\ \A t \in Things \ {Root} : taddr[t] \in Addr /\ On(taddr[t]) =>
          NPort[t] > 0 /\ (Scans(taddr[t]) => hub[taddr[t]].ports = NPort[t])

\* A thing that has an address sits at the port of the device with this address,
\* or where it will be reset.
PlacedAt(u, t, n, a) ==
    /\ Sits(u, t, n, a)
    /\ \/ Child(a, n) = taddr[u]
       \/ /\ hub[a].counter = n /\ hub[a].pc = "reset" /\ hub[a].by = "connect"
          /\ taddr[u] \notin bitmap
Placed ==
    \A u \in Things \ {Root} : taddr[u] \in Addr =>
       \E t \in Things : \E n \in 1 .. NPort[t] : \E a \in Addr : PlacedAt(u, t, n, a)

\* A thing at the default address sits where a device is attached or enumerated.
DefaultAt(u, t, n, a) ==
    /\ Sits(u, t, n, a)
    /\ \/ hub[a].counter = n /\ Attaches(a)
       \/ Child(a, n) = new_dev /\ new_dev # NoDev /\ probe.pc # "config"
Default ==
    \A u \in Things : taddr[u] = 0 =>
       \E t \in Things : \E n \in 1 .. NPort[t] : \E a \in Addr : DefaultAt(u, t, n, a)

\* A device at a port without a change is what is plugged in there.
Linked ==
    \A t \in Things : \A n \in 1 .. NPort[t] :
       taddr[t] \in Addr /\ ~chg[<<t, n>>] /\ Child(taddr[t], n) # NoDev =>
          /\ plug[<<t, n>>] # Nothing
          /\ Bound(Child(taddr[t], n)) => taddr[plug[<<t, n>>]] = Child(taddr[t], n)

\* A port that was seen empty stays so until the change is cleared.
Sampled ==
    \A a \in Addr : hub[a].pc \in {"ports", "connect"} /\ ~hub[a].sts.connection =>
       \A t \in Things : taddr[t] = a => plug[<<t, hub[a].counter>>] = Nothing

IInv == /\ TypeOK /\ Cables /\ Tree /\ Hubs /\ Numbers /\ Resets
        /\ Attaching /\ Pendings /\ HubsAnswer /\ Placed /\ Default /\ Linked /\ Sampled

-----------------------------------------------------------------------------
(* The constants.                                                          *)

\* Every nonempty set of numbers has a least element.
LEMMA LeastNumber ==
    ASSUME NEW T, T \subseteq Nat, T # {}
    PROVE  Min(T) \in T /\ \A y \in T : Min(T) <= y
<1>1. PICK x \in T : \A y \in T : ~(<<y, x>> \in OpToRel(<, Nat))
  BY WFMin, NatLessThanWellFounded
<1>2. \A y \in T : ~(y < x)
  BY <1>1 DEF OpToRel
<1>3. \A y \in T : x <= y
  BY <1>2
<1> QED BY <1>3 DEF Min

\* Some hub has the most ports.
LEMMA MaxPortIs == MaxPort \in Nat /\ \A t \in Things : NPort[t] <= MaxPort
<1> DEFINE More(t) == {u \in Things : NPort[u] > NPort[t]}
           T == {Cardinality(More(t)) : t \in Things}
<1>1. \A t \in Things : NPort[t] \in Nat
  BY UsbhAssumption
<1>2. \A t \in Things : IsFiniteSet(More(t)) /\ Cardinality(More(t)) \in Nat
  <2> SUFFICES ASSUME NEW t \in Things PROVE IsFiniteSet(More(t)) /\ Cardinality(More(t)) \in Nat
    OBVIOUS
  <2>1. IsFiniteSet(More(t))
    BY UsbhAssumption, FS_Subset
  <2> HIDE DEF More
  <2> QED BY <2>1, FS_CardinalityType
<1>3. T \subseteq Nat /\ T # {}
  <2> HIDE DEF More
  <2>1. Cardinality(More(Root)) \in T
    BY UsbhAssumption
  <2> QED BY <1>2, <2>1
<1>4. PICK t \in Things : \A u \in Things : Cardinality(More(t)) <= Cardinality(More(u))
  <2> HIDE DEF More
  <2>1. Min(T) \in T /\ \A y \in T : Min(T) <= y
    <3> HIDE DEF T
    <3> QED BY <1>3, LeastNumber
  <2> QED BY <2>1
<1>5. ASSUME NEW u \in Things, NPort[u] > NPort[t] PROVE FALSE
  <2>1. More(u) \subseteq More(t) /\ u \in More(t) /\ u \notin More(u)
    BY <1>1, <1>5
  <2>2. Cardinality(More(u)) <= Cardinality(More(t)) /\ Cardinality(More(u)) # Cardinality(More(t))
    <3> HIDE DEF More
    <3> QED BY <1>2, <2>1, FS_Subset
  <2> HIDE DEF More
  <2> QED BY <1>2, <1>4, <2>2
<1>6. \A u \in Things : NPort[u] <= NPort[t]
  BY <1>1, <1>5
<1> DEFINE S == {NPort[u] : u \in Things}
<1>7. NPort[t] \in S /\ \A y \in S : NPort[t] >= y
  BY <1>1, <1>6
<1>8. MaxPort \in S /\ \A y \in S : MaxPort >= y
  <2>1. MaxPort = Max(S)
    BY DEF MaxPort
  <2> HIDE DEF S
  <2> QED BY <1>7, <2>1 DEF Max
<1> QED BY <1>1, <1>8

LEMMA PortIs ==
    /\ \A t, n : <<t, n>> \in Port <=> t \in Things /\ n \in 1 .. NPort[t]
    /\ \A p \in Port : p = <<p[1], p[2]>> /\ p[1] \in Things /\ p[2] \in 1 .. NPort[p[1]]
BY DEF Port

\* What the assumptions say of numbers.
LEMMA Numerals ==
    /\ MaxAddr \in Nat /\ MaxAddr >= 1 /\ Addr = 1 .. MaxAddr /\ 1 \in Addr
    /\ MaxPort \in Nat /\ MaxPort >= 1
    /\ \A t \in Things : NPort[t] \in Nat /\ 1 .. NPort[t] \subseteq 1 .. MaxPort
    /\ Root \in Things /\ Nothing \notin Things /\ NPort[Root] > 0
<1>1. \A t \in Things : NPort[t] \in Nat /\ NPort[t] <= MaxPort
  BY MaxPortIs, UsbhAssumption
<1> QED BY <1>1, MaxPortIs, UsbhAssumption DEF Addr

\* There are finitely many ports.
LEMMA PortFinite == ASSUME OneHub PROVE IsFiniteSet(Port) /\ Cardinality(Port) \in Nat
<1> DEFINE R == {Root} \X (1 .. NPort[Root])
<1>1. IsFiniteSet(R)
  <2>1. IsFiniteSet({Root}) /\ IsFiniteSet(1 .. NPort[Root])
    <3>1. 1 \in Int /\ NPort[Root] \in Int
      BY Numerals
    <3>2. IsFiniteSet(1 .. NPort[Root])
      BY <3>1, FS_Interval
    <3> QED BY <3>2, FS_Singleton
  <2> QED BY <2>1, FS_Product
<1>2. CASE \A t \in Things \ {Root} : ~(NPort[t] > 0)
  <2>1. Port \subseteq R
    <3> SUFFICES ASSUME NEW p \in Port PROVE p \in R
      OBVIOUS
    <3>1. p = <<p[1], p[2]>> /\ p[1] \in Things /\ p[2] \in 1 .. NPort[p[1]] /\ NPort[p[1]] \in Nat
      BY PortIs, Numerals
    <3>2. p[1] = Root
      BY <3>1, <1>2
    <3>3. <<p[1], p[2]>> \in R
      BY <3>1, <3>2
    <3> QED BY <3>1, <3>3
  <2> QED BY <1>1, <2>1, FS_Subset, FS_CardinalityType
<1>3. CASE \E t \in Things \ {Root} : NPort[t] > 0
  <2>1. PICK h \in Things \ {Root} : NPort[h] > 0
    BY <1>3
  <2> DEFINE H == {h} \X (1 .. NPort[h])
  <2>2. IsFiniteSet({h}) /\ IsFiniteSet(1 .. NPort[h])
    <3>1. 1 \in Int /\ NPort[h] \in Int
      BY Numerals
    <3>2. IsFiniteSet(1 .. NPort[h])
      BY <3>1, FS_Interval
    <3> QED BY <3>2, FS_Singleton
  <2>3. IsFiniteSet(R \cup H)
    BY <1>1, <2>2, FS_Product, FS_Union
  <2>4. Port \subseteq R \cup H
    <3> SUFFICES ASSUME NEW p \in Port PROVE p \in R \cup H
      OBVIOUS
    <3>1. p = <<p[1], p[2]>> /\ p[1] \in Things /\ p[2] \in 1 .. NPort[p[1]] /\ NPort[p[1]] \in Nat
      BY PortIs, Numerals
    <3>2. NPort[p[1]] > 0
      BY <3>1
    <3>3. p[1] = Root \/ p[1] = h
      BY <3>1, <3>2, <2>1 DEF OneHub
    <3>4. <<p[1], p[2]>> \in R \cup H
      BY <3>1, <3>3
    <3> QED BY <3>1, <3>4
  <2> QED BY <2>3, <2>4, FS_Subset, FS_CardinalityType
<1> QED BY <1>2, <1>3

LEMMA TwoAddresses == ASSUME OneHub, Roomy PROVE MaxAddr >= 2
<1>1. <<Root, 1>> \in Port
  BY PortIs, Numerals
<1>2. Cardinality(Port) # 0
  BY <1>1, PortFinite, FS_EmptySet
<1> QED BY <1>2, PortFinite, Numerals DEF Roomy

-----------------------------------------------------------------------------
(* The bus: what is below a thing.                                         *)

Below(t) == {u \in Things : \E n \in 1 .. NPort[t] : plug[<<t, n>>] = u}

\* The recursion in Under.
Further(X) == UNION {{u} \cup {plug[<<u, i>>] : i \in Ports(u)} : u \in X}
Grows(t, w) ==
    w = [n \in 0 .. Cardinality(Things) |-> IF n = 0 THEN {t} ELSE Further(w[n - 1])]

\* The recursive function satisfies its equation if any function does.
LEMMA UnderEquation ==
    ASSUME NEW t, NEW W, Grows(t, W)
    PROVE  \E w : Grows(t, w) /\ Under(t) = w[Cardinality(Things)] \ {Nothing}
<1> DEFINE w == CHOOSE w : w = [n \in 0 .. Cardinality(Things) |->
                  IF n = 0 THEN {t} ELSE Further(w[n - 1])]
<1>1. Grows(t, w)
  BY DEF Grows
<1>2. Under(t) = w[Cardinality(Things)] \ {Nothing}
  BY DEF Under, Further
<1> HIDE DEF w
<1> QED BY <1>1, <1>2

LEMMA FurtherIs ==
    ASSUME NEW X PROVE \A v : v \in Further(X) <=> v \in X \/ \E p \in Port : p[1] \in X /\ plug[p] = v
<1>1. \A u : \A i : i \in Ports(u) <=> <<u, i>> \in Port
  <2>1. \A u : \A i : <<u, i>> \in Port => i \in 1 .. MaxPort
    BY PortIs, Numerals
  <2> QED BY <2>1 DEF Ports
<1>2. \A p \in Port : p = <<p[1], p[2]>>
  BY PortIs
<1>3. \A v : v \in Further(X) <=> v \in X \/ \E u \in X : \E i \in Ports(u) : plug[<<u, i>>] = v
  BY DEF Further
<1>4. ASSUME NEW v, NEW u \in X, NEW i \in Ports(u), plug[<<u, i>>] = v
      PROVE  \E p \in Port : p[1] \in X /\ plug[p] = v
  <2>1. <<u, i>> \in Port /\ <<u, i>>[1] = u
    BY <1>1
  <2> QED BY <1>4, <2>1
<1>5. ASSUME NEW v, NEW p \in Port, p[1] \in X, plug[p] = v
      PROVE  \E u \in X : \E i \in Ports(u) : plug[<<u, i>>] = v
  <2>1. p[2] \in Ports(p[1]) /\ plug[<<p[1], p[2]>>] = v
    BY <1>1, <1>2, <1>5
  <2> QED BY <1>5, <2>1
<1> QED BY <1>3, <1>4, <1>5

\* There is one hub besides the root hub, so nothing is deeper than one step.
LEMMA UnderIs ==
    ASSUME OneHub, TypeOK, Cables, NEW t \in Things \ {Root}
    PROVE  Under(t) = {t} \cup Below(t)
<1> DEFINE X == Further({t})
           N == Cardinality(Things)
           W == [n \in 0 .. N |-> IF n = 0 THEN {t} ELSE X]
<1>1. N \in Nat /\ N # 0
  <2>1. N \in Nat
    BY UsbhAssumption, FS_CardinalityType
  <2>2. N # 0
    BY UsbhAssumption, FS_EmptySet
  <2> QED BY <2>1, <2>2
<1>2. X \ {Nothing} = {t} \cup Below(t)
  <2>1. \A p \in Port : plug[p] \in Things \cup {Nothing}
    BY DEF TypeOK
  <2>2. \A u : u \in X <=> u = t \/ \E p \in Port : p[1] = t /\ plug[p] = u
    BY FurtherIs
  <2>3. \A u : u \in X <=> u = t \/ \E n \in 1 .. NPort[t] : plug[<<t, n>>] = u
    <3> HIDE DEF X
    <3>1. \A p \in Port : p[1] = t => p = <<t, p[2]>> /\ p[2] \in 1 .. NPort[t]
      BY PortIs
    <3>2. \A n \in 1 .. NPort[t] : <<t, n>> \in Port /\ <<t, n>>[1] = t
      BY PortIs
    <3> QED BY <2>2, <3>1, <3>2
  <2>4. \A n \in 1 .. NPort[t] : <<t, n>> \in Port
    BY PortIs
  <2> HIDE DEF X
  <2> QED BY <2>1, <2>3, <2>4, Numerals DEF Below
<1>3. Further(X) = X
  <2> SUFFICES ASSUME NEW p \in Port, p[1] \in X PROVE plug[p] \in X
    <3> HIDE DEF X
    <3>1. \A v : v \in Further(X) <=> v \in X \/ \E p \in Port : p[1] \in X /\ plug[p] = v
      BY FurtherIs
    <3>2. \A v : v \in Further(X) <=> v \in X
      BY <3>1
    <3> QED BY <3>2
  <2>1. p[1] \in Things /\ p[2] \in 1 .. NPort[p[1]] /\ NPort[p[1]] \in Nat /\ p = <<p[1], p[2]>>
    BY PortIs, Numerals
  <2>2. NPort[p[1]] > 0
    BY <2>1
  <2>3. CASE p[1] = t
    BY <2>3, FurtherIs
  <2>4. CASE p[1] # t
    <3>1. PICK q \in Port : q[1] = t /\ plug[q] = p[1]
      BY <2>4, FurtherIs
    <3>2. q[2] \in 1 .. NPort[t] /\ NPort[t] \in Nat
      BY <3>1, PortIs, Numerals
    <3>3. NPort[t] > 0
      BY <3>2
    <3>4. p[1] # Root
      BY <2>1, <3>1, Numerals DEF TypeOK
    <3> QED BY <2>1, <2>2, <2>4, <3>3, <3>4 DEF OneHub
  <2> QED BY <2>3, <2>4
<1>4. Grows(t, W)
  <2> HIDE DEF X
  <2>1. \A n \in 0 .. N : W[n] = IF n = 0 THEN {t} ELSE Further(W[n - 1])
    <3> SUFFICES ASSUME NEW n \in 0 .. N, n # 0 PROVE W[n] = Further(W[n - 1])
      OBVIOUS
    <3>1. n - 1 \in 0 .. N /\ W[n] = X
      BY <1>1
    <3>2. W[n - 1] = {t} \/ W[n - 1] = X
      BY <3>1
    <3>3. Further({t}) = X
      BY DEF X
    <3> HIDE DEF W
    <3> QED BY <3>1, <3>2, <3>3, <1>3
  <2> QED BY <2>1 DEF Grows
<1>5. PICK w : Grows(t, w) /\ Under(t) = w[N] \ {Nothing}
  <2> HIDE DEF W
  <2> QED BY <1>4, UnderEquation
<1> HIDE DEF N, X, W
<1>6. w[0] = {t} /\ \A n \in 1 .. N : w[n] = Further(w[n - 1])
  <2>1. w = [n \in 0 .. N |-> IF n = 0 THEN {t} ELSE Further(w[n - 1])]
    BY <1>5 DEF Grows, N
  <2>2. \A n \in 0 .. N : w[n] = IF n = 0 THEN {t} ELSE Further(w[n - 1])
    BY Zenon, <2>1
  <2> QED BY <1>1, <2>2
<1> DEFINE T == {n \in 1 .. N : w[n] # X}
<1>7. T = {}
  <2> SUFFICES ASSUME T # {} PROVE FALSE
    OBVIOUS
  <2> DEFINE i == Min(T)
  <2>1. i \in T /\ \A k \in T : i <= k
    <3>1. T \subseteq Nat
      BY <1>1
    <3> HIDE DEF T
    <3> QED BY <3>1, LeastNumber
  <2> HIDE DEF i
  <2>2. i \in 1 .. N /\ w[i] # X /\ w[i] = Further(w[i - 1])
    BY <2>1, <1>6
  <2>3. i # 1
    BY <2>2, <1>6 DEF X
  <2>4. i - 1 \in 1 .. N /\ ~(i <= i - 1)
    BY <2>2, <2>3, <1>1
  <2>5. w[i - 1] = X
    BY <2>1, <2>4
  <2> QED BY <2>2, <2>5, <1>3
<1>8. w[N] = X
  BY <1>1, <1>7
<1> QED BY <1>2, <1>5, <1>8

-----------------------------------------------------------------------------
(* The tree: what is disconnected with a device.                           *)

Kids(a) == {c \in Addr : \E n \in 1 .. MaxPort : Child(a, n) = c}
Below2(a) == {c \in Addr : \E b \in Kids(a) : c \in Kids(b)}

Step(X) == UNION {{b} \cup Children(b) : b \in X}
Spreads(a, w) ==
    w = [n \in 0 .. MaxAddr |-> IF n = 0 THEN {a} ELSE Step(w[n - 1])]

LEMMA FamilyEquation ==
    ASSUME NEW a, NEW W, Spreads(a, W)
    PROVE  \E w : Spreads(a, w) /\ Family(a) = w[MaxAddr] \cap Addr
<1> DEFINE w == CHOOSE w : w = [n \in 0 .. MaxAddr |-> IF n = 0 THEN {a} ELSE Step(w[n - 1])]
<1>1. Spreads(a, w)
  BY DEF Spreads
<1>2. Family(a) = w[MaxAddr] \cap Addr
  BY DEF Family, Step
<1> HIDE DEF w
<1> QED BY <1>1, <1>2

LEMMA StepIs ==
    ASSUME NEW X PROVE \A c : c \in Step(X) <=> c \in X \/ \E b \in X \ {NoDev} : \E n \in 1 .. MaxPort : Child(b, n) = c
<1>1. \A b : \A c : c \in Children(b) <=> b # NoDev /\ \E n \in 1 .. MaxPort : Child(b, n) = c
  BY DEF Children, Child
<1>2. \A c : c \in Step(X) <=> \E b \in X : c = b \/ c \in Children(b)
  BY DEF Step
<1> QED BY <1>1, <1>2

\* A hub other than the root hub is a child of it.
LEMMA NotDeep ==
    ASSUME IInv, NEW a \in Addr, NEW n \in 1 .. MaxPort, Child(a, n) # NoDev
    PROVE  a # 1 => dev[a].parent = 1 /\ a \in bitmap /\ Child(1, 1) = a /\ NPort[Root] = 1
<1> HAVE a # 1
<1>1. Scans(a) /\ a \in bitmap
  BY DEF IInv, Tree
<1>2. dev[a].parent = 1 /\ NPort[Root] = 1
  BY <1>1 DEF IInv, Hubs, On, Scans
<1>3. PICK m \in 1 .. MaxPort : Child(1, m) = a
  BY <1>1, <1>2 DEF IInv, Tree
<1>4. a # NoDev /\ 1 \in Addr
  BY Numerals DEF NoDev
<1>5. m <= hub[1].ports
  BY <1>3, <1>4 DEF IInv, Tree
<1>6. m = 1
  BY <1>2, <1>5, Numerals DEF IInv, Hubs
<1> QED BY <1>1, <1>2, <1>3, <1>6

\* What the types say of the parts.
LEMMA Types ==
    ASSUME TypeOK
    PROVE  /\ \A a \in Addr : dev[a] \in Device /\ hub[a] \in Hub
           /\ \A a \in Addr : \A n \in 1 .. MaxPort : Child(a, n) \in Addr \cup {NoDev}
           /\ NoDev \notin Addr /\ 0 .. MaxAddr = Addr \cup {NoDev}
           /\ \A t \in Things : taddr[t] \in -2 .. MaxAddr
           /\ \A t \in Things : \A n \in 1 .. NPort[t] :
                 /\ plug[<<t, n>>] \in (Things \ {Root}) \cup {Nothing}
                 /\ chg[<<t, n>>] \in BOOLEAN
<1>1. \A a \in Addr : dev[a] \in Device /\ hub[a] \in Hub
  BY DEF TypeOK
<1>2. NoDev \notin Addr /\ 0 .. MaxAddr = Addr \cup {NoDev}
  BY Numerals DEF NoDev
<1>3. \A a \in Addr : dev[a].children \in [1 .. MaxPort -> 0 .. MaxAddr]
  BY <1>1 DEF Device
<1>4. \A a \in Addr : \A n \in 1 .. MaxPort : Child(a, n) \in 0 .. MaxAddr
  BY <1>3 DEF Child
<1>5. \A t \in Things : \A n \in 1 .. NPort[t] : <<t, n>> \in Port
  BY PortIs
<1> QED BY <1>1, <1>2, <1>4, <1>5 DEF TypeOK

\* A family reaches down two steps at most.
LEMMA FamilyIs ==
    ASSUME IInv, OneHub, Roomy, NEW a \in Addr
    PROVE  Family(a) = {a} \cup Kids(a) \cup Below2(a)
<1> DEFINE X1 == Step({a})
           X2 == Step(X1)
           X3 == Step(X2)
           W == [n \in 0 .. MaxAddr |-> IF n = 0 THEN {a} ELSE IF n = 1 THEN X1
                                        ELSE IF n = 2 THEN X2 ELSE X3]
           F == {a} \cup Kids(a) \cup Below2(a)
<1>0. MaxAddr \in Nat /\ MaxAddr >= 2 /\ Addr = 1 .. MaxAddr
  BY TwoAddresses, Numerals
<1>1. \A b \in Addr : \A n \in 1 .. MaxPort : Child(b, n) \in Addr \cup {NoDev}
  BY Types DEF IInv
<1>2. NoDev \notin Addr
  BY <1>0 DEF NoDev
<1>3. X1 \subseteq F \cup {NoDev} /\ {a} \cup Kids(a) \subseteq X1
  BY <1>1, <1>2, StepIs DEF Kids
<1>4. \A c \in F : \A n \in 1 .. MaxPort : Child(c, n) \in F \cup {NoDev}
  <2> SUFFICES ASSUME NEW c \in F, NEW n \in 1 .. MaxPort, Child(c, n) # NoDev PROVE Child(c, n) \in F
    OBVIOUS
  <2>1. c \in Addr /\ Child(c, n) \in Addr
    BY <1>1 DEF Kids, Below2
  <2>2. Child(c, n) \in Kids(c)
    BY <2>1 DEF Kids
  <2>3. CASE c = a \/ c \in Kids(a)
    BY <2>1, <2>2, <2>3 DEF Below2
  <2>4. CASE c \in Below2(a)
    <3>1. PICK b \in Kids(a) : c \in Kids(b)
      BY <2>4 DEF Below2
    <3>2. PICK k \in 1 .. MaxPort : Child(b, k) = c
      BY <3>1 DEF Kids
    <3>3. PICK m \in 1 .. MaxPort : Child(a, m) = b
      BY <3>1 DEF Kids
    <3>4. b \in Addr /\ c \in Addr /\ b # NoDev /\ c # NoDev
      BY <3>1, <2>1, <1>2 DEF Kids
    <3>5. c # 1 /\ dev[c].parent = b /\ b # 1
      BY <3>2, <3>3, <3>4 DEF IInv, Tree
    <3>6. dev[c].parent = 1
      BY <2>1, <3>5, NotDeep
    <3> QED BY <3>5, <3>6
  <2> QED BY <2>3, <2>4
<1>5. X2 \subseteq F \cup {NoDev} /\ F \subseteq X2
  <2> HIDE DEF X1, F
  <2>1. X2 \subseteq F \cup {NoDev}
    BY <1>3, <1>4, StepIs
  <2>2. {a} \cup Kids(a) \subseteq X2
    BY <1>3, StepIs
  <2>3. Below2(a) \subseteq X2
    BY <1>2, <1>3, StepIs DEF Below2, Kids
  <2> QED BY <2>2, <2>1, <2>3 DEF F
<1>6. X3 \subseteq F \cup {NoDev} /\ F \subseteq X3
  <2> HIDE DEF X2, F
  <2> QED BY <1>4, <1>5, StepIs
<1>7. NoDev \in X3
  <2>1. CASE \A n \in 1 .. MaxPort : Child(a, n) # NoDev
    <3>1. 1 \in 1 .. MaxPort
      BY Numerals
    <3> DEFINE b == Child(a, 1)
    <3>2. b \in Kids(a) /\ b \in Addr
      BY <1>1, <2>1, <3>1 DEF Kids
    <3>3. CASE Child(b, 1) = NoDev
      <4>1. b \in X2
        BY <3>2, <1>5
      <4> HIDE DEF b, X2
      <4> QED BY <3>1, <3>2, <3>3, <4>1, <1>2, StepIs
    <3>4. CASE Child(b, 1) # NoDev
      <4> DEFINE c == Child(b, 1)
      <4>1. c \in Addr /\ c \in Kids(b)
        BY <1>1, <3>1, <3>2, <3>4 DEF Kids
      <4>2. c \in Below2(a)
        BY <3>2, <4>1 DEF Below2
      <4>3. c # 1 /\ dev[c].parent = b /\ b # 1
        BY <2>1, <3>1, <3>2, <3>4 DEF IInv, Tree
      <4>4. Child(c, 1) = NoDev
        <5> SUFFICES ASSUME Child(c, 1) # NoDev PROVE FALSE
          OBVIOUS
        <5>1. dev[c].parent = 1
          BY <4>1, <4>3, <3>1, NotDeep
        <5> QED BY <4>3, <5>1
      <4>5. c \in X2
        BY <4>2, <1>5
      <4> HIDE DEF c, X2
      <4> QED BY <3>1, <4>1, <4>4, <4>5, <1>2, StepIs
    <3> QED BY <3>3, <3>4
  <2>2. CASE \E n \in 1 .. MaxPort : Child(a, n) = NoDev
    <3>1. a \in X2
      BY <1>5
    <3> HIDE DEF X2
    <3> QED BY <2>2, <3>1, <1>2, StepIs
  <2> QED BY <2>1, <2>2
<1>8. X3 = F \cup {NoDev}
  BY <1>6, <1>7
<1>9. Step(X3) = X3
  <2> HIDE DEF X3, F
  <2>1. Step(X3) \subseteq X3
    BY <1>4, <1>8, StepIs
  <2>2. X3 \subseteq Step(X3)
    BY StepIs
  <2> QED BY <2>1, <2>2
<1>10. X1 = Step({a}) /\ X2 = Step(X1) /\ X3 = Step(X2)
  OBVIOUS
<1> HIDE DEF X1, X2, X3, F
<1>11. Spreads(a, W)
  <2>1. \A n \in 0 .. MaxAddr : W[n] = IF n = 0 THEN {a} ELSE Step(W[n - 1])
    <3> SUFFICES ASSUME NEW n \in 0 .. MaxAddr, n # 0 PROVE W[n] = Step(W[n - 1])
      BY <1>0
    <3>1. n - 1 \in 0 .. MaxAddr
      BY <1>0
    <3>2. W[n - 1] = IF n = 1 THEN {a} ELSE IF n = 2 THEN X1 ELSE IF n = 3 THEN X2 ELSE X3
      BY <3>1, <1>0
    <3>3. W[n] = IF n = 1 THEN X1 ELSE IF n = 2 THEN X2 ELSE X3
      BY <1>0
    <3> HIDE DEF W
    <3> QED BY <3>2, <3>3, <1>9, <1>10
  <2> QED BY <2>1 DEF Spreads
<1>12. PICK w : Spreads(a, w) /\ Family(a) = w[MaxAddr] \cap Addr
  <2> HIDE DEF W
  <2> QED BY <1>11, FamilyEquation
<1> HIDE DEF W
<1>13. w[0] = {a} /\ \A n \in 1 .. MaxAddr : w[n] = Step(w[n - 1])
  <2>1. w = [n \in 0 .. MaxAddr |-> IF n = 0 THEN {a} ELSE Step(w[n - 1])]
    BY <1>12 DEF Spreads
  <2>2. \A n \in 0 .. MaxAddr : w[n] = IF n = 0 THEN {a} ELSE Step(w[n - 1])
    BY Zenon, <2>1
  <2> QED BY <1>0, <2>2
<1>14. w[1] = X1 /\ w[2] = X2
  <2>1. 1 \in 1 .. MaxAddr /\ 2 \in 1 .. MaxAddr /\ 1 - 1 = 0 /\ 2 - 1 = 1
    BY <1>0
  <2> QED BY <2>1, <1>10, <1>13
<1> DEFINE T == {n \in 3 .. MaxAddr : w[n] # X3}
<1>15. T = {}
  <2> SUFFICES ASSUME T # {} PROVE FALSE
    OBVIOUS
  <2> DEFINE i == Min(T)
  <2>1. i \in T /\ \A k \in T : i <= k
    <3>1. T \subseteq Nat
      BY <1>0
    <3> HIDE DEF T
    <3> QED BY <3>1, LeastNumber
  <2> HIDE DEF i
  <2>2. i \in 3 .. MaxAddr /\ w[i] # X3 /\ w[i] = Step(w[i - 1])
    BY <2>1, <1>0, <1>13
  <2>3. i # 3
    <3> SUFFICES ASSUME i = 3 PROVE FALSE
      OBVIOUS
    <3>1. i - 1 = 2
      OBVIOUS
    <3> QED BY <3>1, <2>2, <1>10, <1>14
  <2>4. i - 1 \in 3 .. MaxAddr /\ ~(i <= i - 1)
    BY <2>2, <2>3, <1>0
  <2>5. w[i - 1] = X3
    BY <2>1, <2>4
  <2> QED BY <2>2, <2>5, <1>9
<1>16. w[MaxAddr] = X2 \/ w[MaxAddr] = X3
  <2>1. CASE MaxAddr = 2
    BY <2>1, <1>14
  <2>2. CASE MaxAddr # 2
    <3>1. MaxAddr \in 3 .. MaxAddr
      BY <2>2, <1>0
    <3> QED BY <3>1, <1>15
  <2> QED BY <2>1, <2>2
<1>17. NoDev \notin F /\ F \subseteq Addr
  BY <1>2 DEF F, Kids, Below2
<1>18. w[MaxAddr] \cap Addr = F
  BY <1>2, <1>5, <1>6, <1>16, <1>17
<1> QED BY <1>12, <1>18 DEF F

-----------------------------------------------------------------------------
(* Who can be where.                                                       *)

LEMMA HubAtIs ==
    ASSUME IInv, NEW a \in Addr, On(a)
    PROVE  /\ a \in bitmap /\ Bound(a) /\ dev[a].devnum = a
           /\ HubAt(a) = {t \in Things : taddr[t] = a}
           /\ Present(a) <=> HubAt(a) # {}
<1>1. a \in bitmap /\ Bound(a)
  BY DEF IInv, Hubs, Tree
<1>2. dev[a].devnum = a
  BY <1>1 DEF IInv, Numbers
<1> QED BY <1>1, <1>2 DEF HubAt, At, Present

\* One thing is at the address of a hub.
LEMMA OneThing ==
    ASSUME IInv, OneHub, NEW a \in Addr, On(a), NEW t \in Things, taddr[t] = a,
           NEW u \in Things, taddr[u] = a
    PROVE  u = t
<1>1. CASE a = 1
  BY <1>1 DEF IInv, HubsAnswer
<1>2. CASE a # 1
  <2>1. t # Root /\ u # Root
    BY <1>2 DEF IInv, HubsAnswer
  <2>2. NPort[t] > 0 /\ NPort[u] > 0
    BY <2>1 DEF IInv, HubsAnswer
  <2> QED BY <2>1, <2>2 DEF OneHub
<1> QED BY <1>1, <1>2

\* The ports of a hub that scans are those of the thing at its address.
LEMMA PortsAre ==
    ASSUME IInv, NEW a \in Addr, Scans(a), NEW t \in Things, taddr[t] = a
    PROVE  /\ hub[a].ports = NPort[t] /\ hub[a].counter \in 1 .. NPort[t]
           /\ \A n \in 1 .. NPort[t] : n \in 1 .. MaxPort /\ <<t, n>> \in Port
<1>1. hub[a].ports = NPort[t]
  <2>1. CASE t = Root
    BY <2>1 DEF IInv, HubsAnswer, Hubs
  <2>2. CASE t # Root
    BY <2>2 DEF IInv, HubsAnswer, Scans, On
  <2> QED BY <2>1, <2>2
<1>2. hub[a].counter \in 1 .. NPort[t]
  BY <1>1 DEF IInv, Hubs
<1> QED BY <1>1, <1>2, Numerals, PortIs

\* A hub has the port that its driver is at.
LEMMA PortAtIs == ASSUME IInv, NEW a \in Addr, Scans(a) PROVE PortAt(a) = HubAt(a)
<1>1. On(a)
  BY DEF On, Scans
<1>2. \A t \in HubAt(a) : t \in Things /\ taddr[t] = a
  BY <1>1, HubAtIs
<1>3. \A t \in HubAt(a) : <<t, hub[a].counter>> \in Port
  BY <1>2, PortsAre
<1> QED BY <1>3 DEF PortAt

\* The counter of a hub names a port.
LEMMA CounterIs ==
    ASSUME IInv, NEW a \in Addr, Scans(a)
    PROVE  /\ hub[a].counter \in 1 .. hub[a].ports /\ hub[a].ports \in Nat /\ hub[a].ports > 0
           /\ 1 .. hub[a].ports \subseteq 1 .. MaxPort
<1>1. hub[a].counter \in 1 .. hub[a].ports
  BY DEF IInv, Hubs
<1>2. PICK t \in Things : hub[a].ports = NPort[t]
  <2>1. CASE a = 1
    BY <2>1, Numerals DEF IInv, Hubs
  <2>2. CASE a # 1
    BY <2>2 DEF IInv, Hubs, On, Scans
  <2> QED BY <2>1, <2>2
<1> QED BY <1>1, <1>2, Numerals

\* Only one hub connects something.
LEMMA Alone ==
    ASSUME IInv, OneHub, NEW a \in Addr, Attaches(a) \/ (hub[a].pc = "connect" /\ Present(a)),
           NEW b \in Addr, Attaches(b) \/ (hub[b].pc = "connect" /\ Present(b))
    PROVE  a = b
<1>1. Scans(a) /\ Scans(b) /\ Present(a) /\ Present(b)
  BY DEF Attaches, Connecting, Scans, IInv, Attaching, AttachingAt
<1>2. ASSUME NEW x \in Addr \ {1}, Scans(x), Present(x)
      PROVE  Child(1, 1) = x /\ ~Attaches(1) /\ hub[1].pc # "connect"
  <2>1. x \in bitmap /\ dev[x].parent = 1 /\ NPort[Root] = 1 /\ On(x)
    BY <1>2 DEF IInv, Hubs, On, Scans
  <2>2. PICK m \in 1 .. MaxPort : Child(1, m) = x
    BY <2>1 DEF IInv, Tree
  <2>3. x # NoDev /\ 1 \in Addr
    BY Numerals DEF NoDev
  <2>4. m <= hub[1].ports /\ Scans(1) /\ hub[1].ports = 1
    BY <2>1, <2>2, <2>3 DEF IInv, Tree, Hubs
  <2>5. m = 1
    BY <2>4, Numerals
  <2>6. hub[1].counter = 1
    BY <2>3, <2>4, CounterIs
  <2>7. ~Attaches(1)
    BY <2>2, <2>3, <2>5, <2>6 DEF IInv, Attaching, AttachingAt
  <2>8. hub[1].pc # "connect"
    BY <1>2, <2>1, <2>2, <2>3, <2>5, <2>6 DEF IInv, Pendings, Doomed, Pending
  <2> QED BY <2>2, <2>5, <2>7, <2>8
<1>3. CASE a = 1
  BY <1>1, <1>2, <1>3
<1>4. CASE a # 1 /\ b = 1
  BY <1>1, <1>2, <1>4
<1>5. CASE a # 1 /\ b # 1
  BY <1>1, <1>2, <1>5
<1> QED BY <1>3, <1>4, <1>5

\* Another hub than the root hub is its only child.
LEMMA TheHub ==
    ASSUME IInv, NEW a \in Addr \ {1}, On(a)
    PROVE  Child(1, 1) = a /\ a \in bitmap /\ Bound(a) /\ dev[a].parent = 1 /\ NPort[Root] = 1
           /\ hub[1].counter = 1 /\ 1 \in 1 .. MaxPort /\ a # NoDev
           /\ \A m \in 1 .. MaxPort : m # 1 => Child(1, m) = NoDev
<1>1. a \in bitmap /\ Bound(a) /\ dev[a].parent = 1 /\ NPort[Root] = 1 /\ a # NoDev
  BY Numerals DEF IInv, Hubs, NoDev
<1>2. PICK m \in 1 .. MaxPort : Child(1, m) = a
  BY <1>1 DEF IInv, Tree
<1>3. m <= hub[1].ports /\ Scans(1) /\ hub[1].ports = 1 /\ 1 \in Addr
  BY <1>1, <1>2, Numerals DEF IInv, Tree, Hubs
<1>4. m = 1
  BY <1>3, Numerals
<1>5. hub[1].counter = 1
  BY <1>3, CounterIs
<1>6. ASSUME NEW k \in 1 .. MaxPort, k # 1 PROVE Child(1, k) = NoDev
  <2>1. ~(k <= hub[1].ports)
    BY <1>3, <1>6, Numerals
  <2> QED BY <1>3, <2>1 DEF IInv, Tree
<1> QED BY <1>1, <1>2, <1>4, <1>5, <1>6

\* There is an address for a device that is attached.
LEMMA Room ==
    ASSUME IInv, OneHub, Roomy, NEW a \in Addr, hub[a].pc = "wait"
    PROVE  bitmap # Addr
<1> SUFFICES ASSUME bitmap = Addr PROVE FALSE
  OBVIOUS
<1>1. Attaches(a) /\ Scans(a) /\ On(a)
  BY DEF IInv, Resets, Attaches, Connecting, Scans, On
<1>2. PICK t \in Things : taddr[t] = a
  BY <1>1 DEF IInv, Attaching, AttachingAt, Present
<1> DEFINE q == <<t, hub[a].counter>>
           h == CHOOSE u \in Things \ {Root} : NPort[u] > 0
           place(c) == CHOOSE n \in 1 .. MaxPort : Child(dev[c].parent, n) = c
           D == bitmap \ {1}
           f == [c \in D |-> <<IF dev[c].parent = 1 THEN Root ELSE h, place(c)>>]
<1>3. q \in Port /\ Child(a, hub[a].counter) = NoDev
  BY <1>1, <1>2, PortsAre DEF IInv, Attaching, AttachingAt
<1>4. ASSUME NEW c \in D
      PROVE  /\ place(c) \in 1 .. MaxPort /\ Child(dev[c].parent, place(c)) = c /\ dev[c].parent \in Addr
             /\ c # NoDev /\ Scans(dev[c].parent) /\ place(c) <= hub[dev[c].parent].ports
  <2>1. dev[c].parent \in Addr /\ \E n \in 1 .. MaxPort : Child(dev[c].parent, n) = c
    BY DEF IInv, Tree
  <2>2. place(c) \in 1 .. MaxPort /\ Child(dev[c].parent, place(c)) = c
    BY <2>1
  <2>3. c # NoDev
    BY Numerals DEF NoDev
  <2> HIDE DEF place
  <2> QED BY <2>1, <2>2, <2>3 DEF IInv, Tree
<1> HIDE DEF place
<1>5. ASSUME NEW b \in Addr \ {1}, Scans(b)
      PROVE  h \in Things /\ h # Root /\ hub[b].ports = NPort[h] /\ b = Child(1, 1)
  <2>1. On(b)
    BY <1>5 DEF Scans, On
  <2>2. PICK u \in Things \ {Root} : NPort[u] > 0 /\ hub[b].ports = NPort[u]
    BY <1>5, <2>1 DEF IInv, Hubs
  <2>3. h \in Things \ {Root} /\ NPort[h] > 0
    BY <2>2
  <2> HIDE DEF h
  <2>4. u = h
    BY <2>2, <2>3 DEF OneHub
  <2> QED BY <2>1, <2>2, <2>3, <2>4, TheHub
<1> HIDE DEF h
<1>6. ASSUME NEW c \in D PROVE f[c] \in Port \ {q}
  <2> DEFINE b == dev[c].parent
             n == place(c)
  <2>1. n \in 1 .. MaxPort /\ Child(b, n) = c /\ b \in Addr /\ c # NoDev /\ Scans(b) /\ n <= hub[b].ports
    BY <1>4
  <2>2. CASE b = 1
    <3>1. f[c] = <<Root, n>> /\ n \in 1 .. NPort[Root]
      BY <2>1, <2>2, Numerals DEF IInv, Hubs
    <3>2. <<Root, n>> \in Port
      BY <3>1, Numerals, PortIs
    <3>3. ASSUME <<Root, n>> = q PROVE FALSE
      <4>1. t = Root /\ n = hub[a].counter
        BY <3>3
      <4>2. a = 1
        BY <4>1, <1>2 DEF IInv, HubsAnswer
      <4> QED BY <4>1, <4>2, <2>1, <2>2, <1>3
    <3> QED BY <3>1, <3>2, <3>3
  <2>3. CASE b # 1
    <3>0. h \in Things /\ h # Root /\ hub[b].ports = NPort[h] /\ b = Child(1, 1)
      BY <2>1, <2>3, <1>5
    <3>1. f[c] = <<h, n>> /\ n \in 1 .. NPort[h]
      BY <2>1, <2>3, <3>0, Numerals
    <3>2. <<h, n>> \in Port
      BY <3>0, <3>1, PortIs
    <3>3. ASSUME <<h, n>> = q PROVE FALSE
      <4>1. t = h /\ n = hub[a].counter
        BY <3>3
      <4>2. a # 1
        BY <4>1, <3>0, <1>2 DEF IInv, HubsAnswer
      <4>3. a = b
        BY <4>2, <1>1, <1>5, <3>0
      <4> QED BY <4>1, <4>3, <2>1, <1>3
    <3> QED BY <3>1, <3>2, <3>3
  <2> QED BY <2>2, <2>3
<1>7. ASSUME NEW c \in D, NEW d \in D, f[c] = f[d] PROVE c = d
  <2>1. place(c) = place(d)
    BY <1>7
  <2>2. (IF dev[c].parent = 1 THEN Root ELSE h) = IF dev[d].parent = 1 THEN Root ELSE h
    BY <1>7
  <2>3. /\ dev[c].parent \in Addr /\ dev[d].parent \in Addr
        /\ Scans(dev[c].parent) /\ Scans(dev[d].parent)
        /\ Child(dev[c].parent, place(c)) = c /\ Child(dev[d].parent, place(d)) = d
    BY <1>4
  <2>4. dev[c].parent = dev[d].parent
    BY <2>2, <2>3, <1>5
  <2> QED BY <2>1, <2>3, <2>4
<1>8. f \in Injection(D, Port \ {q})
  <2>1. f \in [D -> Port \ {q}]
    BY <1>6
  <2> HIDE DEF f, D, q
  <2> QED BY <2>1, <1>7 DEF Injection, IsInjective
<1>9. IsFiniteSet(Port \ {q}) /\ Cardinality(Port \ {q}) = Cardinality(Port) - 1
  BY <1>3, PortFinite, FS_RemoveElement
<1>10. Cardinality(D) <= Cardinality(Port \ {q})
  <2> HIDE DEF f, D, q
  <2> QED BY <1>8, <1>9, FS_Injection
<1>11. Cardinality(D) = MaxAddr - 1
  <2>1. 1 \in Int /\ MaxAddr \in Int /\ MaxAddr >= 1 /\ Addr = 1 .. MaxAddr /\ 1 \in Addr
    BY Numerals
  <2>2. IsFiniteSet(1 .. MaxAddr) /\ Cardinality(1 .. MaxAddr) = IF 1 > MaxAddr THEN 0 ELSE MaxAddr - 1 + 1
    BY <2>1, FS_Interval
  <2>3. IsFiniteSet(Addr) /\ Cardinality(Addr) = MaxAddr
    BY <2>1, <2>2
  <2> QED BY <2>1, <2>3, FS_RemoveElement, ZenonT(40)
<1> HIDE DEF D
<1> QED BY <1>9, <1>10, <1>11, PortFinite, Numerals DEF Roomy

-----------------------------------------------------------------------------
(* The initial states.                                                     *)

LEMMA InitInv == ASSUME Init PROVE IInv
<1>0. /\ MaxAddr \in Nat /\ MaxAddr >= 1 /\ Addr = 1 .. MaxAddr /\ 1 \in Addr
      /\ MaxPort \in Nat /\ MaxPort >= 1 /\ Root \in Things /\ NPort[Root] \in Nat /\ NPort[Root] > 0
  BY Numerals
<1>1. /\ \A t \in Things : taddr[t] = IF t = Root THEN 1 ELSE -1
      /\ bitmap = {1} /\ new_dev = NoDev /\ probe = [pc |-> "idle", cfg |-> 1]
  BY DEF Init, Off
<1>2. ASSUME NEW a \in Addr
      PROVE  /\ dev[a].live = (a = 1) /\ dev[a].devnum = a /\ dev[a].parent = NoDev
             /\ dev[a].ifs = IF a = 1 THEN "bound" ELSE "none"
             /\ \A n \in 1 .. MaxPort : Child(a, n) = NoDev
  BY <1>0 DEF Init, NewDevice, NoChildren, Child
<1>3. ASSUME NEW a \in Addr
      PROVE  /\ hub[a].pc = IF a = 1 THEN "poll" ELSE "off"
             /\ hub[a].ports = IF a = 1 THEN NPort[Root] ELSE 0
             /\ hub[a].counter = 1 /\ hub[a].by = "scan" /\ hub[a].reset = {} /\ hub[a].reconnect = {}
  BY DEF Init, NoHub
<1>4. TypeOK
  <2>1. dev \in [Addr -> Device]
    <3>1. NoChildren \in [1 .. MaxPort -> 0 .. MaxAddr] /\ \A a \in Addr : a \in 0 .. MaxAddr
      BY <1>0 DEF NoChildren, NoDev
    <3>2. ASSUME NEW a \in Addr
          PROVE  /\ [NewDevice(a, NoDev) EXCEPT !.ifs = "bound"] \in Device
                 /\ [NewDevice(a, NoDev) EXCEPT !.live = FALSE] \in Device
      <4>1. a \in 0 .. MaxAddr /\ 0 \in 0 .. MaxAddr
        BY <1>0
      <4>2. NewDevice(a, NoDev) \in Device
        BY <4>1, <3>1 DEF Device, NewDevice, NoDev
      <4> QED BY <4>2 DEF Device
    <3> QED BY <1>0, <3>2 DEF Init
  <2>2. hub \in [Addr -> Hub]
    BY <1>0 DEF Init, Hub, NoHub
  <2>3. plug \in [Port -> (Things \ {Root}) \cup {Nothing}] /\ chg \in [Port -> BOOLEAN]
    BY UsbhAssumption DEF Init
  <2>4. taddr \in [Things -> -2 .. MaxAddr] /\ fuel \in Nat
    BY <1>0, UsbhAssumption DEF Init, Off
  <2>5. bitmap \in SUBSET Addr /\ new_dev \in 0 .. MaxAddr /\ probe \in Probe
    BY <1>0, <1>1 DEF NoDev, Probe
  <2> QED BY <2>1, <2>2, <2>3, <2>4, <2>5 DEF TypeOK
<1>5. Cables
  BY UsbhAssumption DEF Init, Cables
<1>6. Tree
  BY <1>0, <1>1, <1>2 DEF Tree, Bound
<1>7. Hubs
  BY <1>0, <1>1, <1>3 DEF Hubs, Scans, On
<1>8. Numbers
  BY <1>0, <1>1, <1>2 DEF Numbers
<1>9. Resets
  BY <1>3 DEF Resets
<1>10. Attaching
  BY <1>3 DEF Attaching, AttachingAt, Attaches, Connecting
<1>11. Pendings
  BY <1>2 DEF Pendings, Doomed
<1>12. HubsAnswer
  BY <1>0, <1>1 DEF HubsAnswer
<1>13. Placed
  BY <1>0, <1>1 DEF Placed
<1>14. Default
  BY <1>1 DEF Default
<1>15. Linked
  <2>1. \A t \in Things : 1 .. NPort[t] \subseteq 1 .. MaxPort
    BY Numerals
  <2> QED BY <2>1, <1>2 DEF Linked
<1>16. Sampled
  BY <1>3 DEF Sampled
<1> QED BY <1>4, <1>5, <1>6, <1>7, <1>8, <1>9, <1>10, <1>11, <1>12, <1>13, <1>14, <1>15, <1>16 DEF IInv

-----------------------------------------------------------------------------
(* A hub that only moves on.                                               *)

AttachesAs(h) == h.pc \in Connecting /\ h.by = "connect"

\* The hub at a becomes g and nothing else changes.
Moves(a, g) ==
    /\ hub' = [hub EXCEPT ![a] = g]
    /\ UNCHANGED <<plug, chg, taddr, bitmap, dev, new_dev, probe, fuel>>

\* What g may be.
Next1(a, g) ==
    /\ g \in Hub /\ g.pc \notin {"off", "init"}
    /\ g.ports = hub[a].ports /\ g.counter \in 1 .. g.ports
    /\ g.reset \subseteq hub[a].reset /\ g.reconnect \subseteq hub[a].reconnect
    /\ g.pc \in {"reset", "enabled"} /\ g.by = "scan" => g.counter \in g.reset
    /\ g.pc = "wait" => g.by = "connect"

\* It does not begin to attach something, and gives up only what is not at
\* the default address.
Next2(a, g) ==
    /\ AttachesAs(g) =>
         /\ Attaches(a) /\ g.counter = hub[a].counter
         /\ g.again = hub[a].again /\ g.reconnect = hub[a].reconnect
         /\ g.pc = "wait" => \A t \in Things : taddr[t] = a => plug[<<t, g.counter>>] # Nothing
    /\ ~(hub[a].pc = "reset" /\ hub[a].by = "connect")
    /\ Attaches(a) => \/ AttachesAs(g)
                      \/ \A t \in Things : taddr[t] = a =>
                            LET u == plug[<<t, hub[a].counter>>] IN u \in Things => taddr[u] # 0

\* It connects a port only for a reason.
Next3(a, g) ==
    /\ g.pc = "connect" /\ Present(a) => new_dev = NoDev
    /\ g.pc = "connect" /\ g.counter \in g.reconnect => g.again
    /\ g.pc = "connect" \/ (g.pc = "ports" /\ g.sts.change) => Pending(a, g.counter)
    /\ g.pc \in {"ports", "connect"} /\ ~g.sts.connection =>
         \A t \in Things : taddr[t] = a => plug[<<t, g.counter>>] = Nothing

LEMMA HubMoves ==
    ASSUME IInv, NEW a \in Addr, Scans(a), NEW g, Moves(a, g), Next1(a, g), Next2(a, g), Next3(a, g)
    PROVE  IInv'
<1>1. hub \in [Addr -> Hub] /\ dev \in [Addr -> Device]
  BY DEF IInv, TypeOK
<1>2. /\ hub'[a] = g /\ \A b \in Addr : b # a => hub'[b] = hub[b]
      /\ hub' \in [Addr -> Hub]
  BY <1>1 DEF Moves, Next1
<1>3. /\ plug' = plug /\ chg' = chg /\ taddr' = taddr /\ bitmap' = bitmap /\ dev' = dev
      /\ new_dev' = new_dev /\ probe' = probe /\ fuel' = fuel
  BY DEF Moves
<1>4. \A b \in Addr : hub'[b].ports = hub[b].ports /\ On(b)' = On(b) /\ Scans(b)' = Scans(b)
  BY <1>2 DEF On, Scans, Next1
<1>5. \A b : Bound(b)' = Bound(b) /\ (\A n : Child(b, n)' = Child(b, n)) /\ Present(b)' = Present(b)
  BY <1>3 DEF Bound, Child, Present
<1>6. TypeOK'
  BY <1>2, <1>3 DEF IInv, TypeOK
<1>7. Cables'
  BY <1>3 DEF IInv, Cables
<1>8. Tree'
  BY <1>3, <1>4, <1>5 DEF IInv, Tree
<1>9. Hubs'
  <2>1. \A b \in Addr : Scans(b)' => hub'[b].counter \in 1 .. hub'[b].ports
    BY <1>2, <1>4 DEF IInv, Hubs, Next1
  <2>2. 1 \in Addr
    BY Numerals
  <2>3. \A b \in Addr : hub'[b].pc = "init" => hub'[b].counter = 1
    BY <1>2 DEF IInv, Hubs, Next1
  <2> QED BY <2>1, <2>2, <2>3, <1>3, <1>4, <1>5 DEF IInv, Hubs
<1>10. Numbers'
  BY <1>3, <1>5 DEF IInv, Numbers
<1>11. Resets'
  <2>1. \A b \in Addr : hub'[b].reset \subseteq hub[b].reset
    BY <1>2 DEF Next1
  <2> QED BY <2>1, <1>2, <1>3, <1>5 DEF IInv, Resets, Next1
<1>12. \A b \in Addr : \A n : Pending(b, n)' => Pending(b, n)
  <2>1. ASSUME NEW n, Pending(a, n)' PROVE Pending(a, n)
    <3>1. CASE (\E t \in Things : taddr[t] = a /\ chg[<<t, n>>]) \/ n \in g.reconnect
      BY <3>1 DEF Pending, Next1
    <3>2. CASE g.counter = n /\ ((g.pc = "ports" /\ g.sts.change) \/ g.pc = "connect")
      BY <3>2 DEF Next3
    <3> QED BY <2>1, <3>1, <3>2, <1>2, <1>3 DEF Pending
  <2>2. \A b \in Addr : b # a => \A n : Pending(b, n)' = Pending(b, n)
    BY <1>2, <1>3 DEF Pending
  <2> QED BY <2>1, <2>2
<1>13. Attaching'
  <2>1. ASSUME NEW b \in Addr, b # a
        PROVE  /\ hub'[b] = hub[b] /\ Attaches(b)' = Attaches(b) /\ Present(b)' = Present(b)
               /\ \A n : Child(b, n)' = Child(b, n)
    BY <2>1, <1>2, <1>5 DEF Attaches
  <2>2. Attaches(a)' = AttachesAs(g)
    BY <1>2 DEF Attaches, AttachesAs
  <2> SUFFICES ASSUME NEW b \in Addr
        PROVE AttachingAt(b)'
    BY DEF Attaching, AttachingAt
  <2>3. CASE b # a
    BY <2>1, <2>3, <1>3 DEF IInv, Attaching, AttachingAt
  <2>4. CASE b = a
    <3>1. hub'[a].pc = "connect" /\ Present(a)' => new_dev' = NoDev
      BY <1>2, <1>3, <1>5 DEF Next3
    <3>2. ASSUME Attaches(a)'
          PROVE  /\ Present(a)' /\ new_dev' = NoDev /\ Child(a, hub[a].counter)' = NoDev
                 /\ \A t \in Things : taddr'[t] = a =>
                         /\ ~chg'[<<t, hub'[a].counter>>]
                         /\ hub'[a].pc = "wait" => plug'[<<t, hub'[a].counter>>] # Nothing
                 /\ hub'[a].counter \in hub'[a].reconnect => hub'[a].again
      <4>1. /\ Attaches(a) /\ g.counter = hub[a].counter /\ g.again = hub[a].again /\ g.reconnect = hub[a].reconnect
            /\ g.pc = "wait" => \A t \in Things : taddr[t] = a => plug[<<t, g.counter>>] # Nothing
        BY <3>2, <2>2 DEF Next2
      <4>2. hub'[a].counter = hub[a].counter
        BY <4>1, <1>2
      <4>3. Child(a, hub[a].counter)' = Child(a, hub[a].counter)
        BY <4>2, <1>3 DEF Child
      <4> QED BY <4>1, <4>2, <4>3, <1>2, <1>3, <1>5 DEF IInv, Attaching, AttachingAt
    <3>3. hub'[a].pc = "connect" /\ hub'[a].counter \in hub'[a].reconnect => hub'[a].again
      BY <1>2 DEF Next3
    <3> QED BY <2>4, <3>1, <3>2, <3>3 DEF AttachingAt, Attaches, Child
  <2> QED BY <2>3, <2>4
<1>14. Pendings'
  <2> SUFFICES ASSUME NEW b \in Addr, NEW n \in 1 .. MaxPort, Child(b, n)' # NoDev, Pending(b, n)'
        PROVE Doomed(Child(b, n))'
    BY DEF Pendings, Doomed
  <2>1. Child(b, n) # NoDev /\ Pending(b, n) /\ Child(b, n)' = Child(b, n)
    BY <1>5, <1>12
  <2>2. Child(b, n) \in Addr
    BY <2>1, Types DEF IInv
  <2>3. /\ Bound(Child(b, n))
        /\ On(Child(b, n)) => ~Present(Child(b, n))
        /\ \A m \in 1 .. MaxPort : Child(Child(b, n), m) # NoDev => Bound(Child(Child(b, n), m))
    BY <2>1 DEF IInv, Pendings, Doomed
  <2>4. On(Child(b, n))' = On(Child(b, n)) /\ Present(Child(b, n))' = Present(Child(b, n))
    BY <1>2, <1>3, <2>1, <2>2 DEF On, Present, Next1, Scans, Child
  <2> QED BY <1>3, <2>3, <2>4 DEF Doomed, Bound, Child
<1>15. HubsAnswer'
  <2>1. \A t \in Things : taddr[t] \in Addr =>
           On(taddr[t])' = On(taddr[t]) /\ Scans(taddr[t])' = Scans(taddr[t])
           /\ hub'[taddr[t]].ports = hub[taddr[t]].ports
    BY <1>2, <1>3 DEF On, Scans, Next1
  <2> QED BY <2>1, <1>3 DEF IInv, HubsAnswer
<1>16. \A u, t, n, b : Sits(u, t, n, b) => Sits(u, t, n, b)'
  BY <1>3, <1>4 DEF Sits
<1>17. Placed'
  <2> SUFFICES ASSUME NEW u \in Things \ {Root}, taddr'[u] \in Addr, NEW t, NEW n, NEW b, PlacedAt(u, t, n, b)
               PROVE  PlacedAt(u, t, n, b)' /\ t \in Things /\ n \in 1 .. NPort[t] /\ b \in Addr
    BY <1>3 DEF IInv, Placed
  <2>1. Sits(u, t, n, b)' /\ t \in Things /\ n \in 1 .. NPort[t] /\ b \in Addr
    BY <1>16 DEF PlacedAt, Sits
  <2>2. hub[b].pc = "reset" /\ hub[b].by = "connect" => b # a
    BY DEF Next2
  <2> QED BY <2>1, <2>2, <1>2, <1>3, <1>5 DEF PlacedAt
<1>18. Default'
  <2> SUFFICES ASSUME NEW u \in Things, taddr'[u] = 0, NEW t, NEW n, NEW b, DefaultAt(u, t, n, b)
               PROVE  DefaultAt(u, t, n, b)' /\ t \in Things /\ n \in 1 .. NPort[t] /\ b \in Addr
    BY <1>3 DEF IInv, Default
  <2>1. /\ Sits(u, t, n, b)' /\ t \in Things /\ n \in 1 .. NPort[t] /\ b \in Addr
        /\ taddr[t] = b /\ plug[<<t, n>>] = u
    BY <1>16 DEF DefaultAt, Sits
  <2>2. CASE Child(b, n) = new_dev /\ new_dev # NoDev /\ probe.pc # "config"
    BY <2>1, <2>2, <1>3, <1>5 DEF DefaultAt
  <2>3. CASE hub[b].counter = n /\ Attaches(b) /\ b # a
    BY <2>1, <2>3, <1>2 DEF DefaultAt, Attaches
  <2>4. CASE hub[b].counter = n /\ Attaches(b) /\ b = a
    <3>1. AttachesAs(g)
      BY <2>1, <2>4, <1>3 DEF Next2
    <3>2. hub'[b].counter = n /\ Attaches(b)'
      BY <2>4, <3>1, <1>2 DEF Next2, Attaches, AttachesAs
    <3> QED BY <2>1, <3>2 DEF DefaultAt
  <2> QED BY <2>2, <2>3, <2>4 DEF DefaultAt
<1>19. Linked'
  BY <1>3 DEF IInv, Linked, Child, Bound
<1>20. Sampled'
  BY <1>2, <1>3 DEF IInv, Sampled, Next3
<1> QED BY <1>6, <1>7, <1>8, <1>9, <1>10, <1>11, <1>13, <1>14, <1>15, <1>17, <1>18, <1>19, <1>20 DEF IInv

\* What the hub becomes when it goes to the next port, or starts over.
Rests(h, g) ==
    /\ g \in Hub /\ g.ports = h.ports /\ g.counter \in 1 .. g.ports
    /\ g.pc \in {"reset", "status", "poll"}
    /\ g.pc = "reset" => g.by = "scan" /\ g.counter \in g.reset
    /\ g.reset = h.reset /\ g.reconnect \subseteq h.reconnect

LEMMA EnterPortRests ==
    ASSUME NEW h \in Hub, NEW n \in 1 .. h.ports PROVE Rests(h, EnterPort(h, n))
<1>1. h.ports \in Nat /\ n \in Nat
  BY DEF Hub
<1>2. EnterPort(h, n) \in Hub
  BY <1>1 DEF EnterPort, Hub
<1> QED BY <1>1, <1>2 DEF EnterPort, Hub, Rests

LEMMA NextPortRests ==
    ASSUME NEW h \in Hub, h.counter \in 1 .. h.ports PROVE Rests(h, NextPort(h)) /\ NextPort(h).reconnect = h.reconnect
<1>1. h.ports \in Nat /\ h.counter \in Nat
  BY DEF Hub
<1>2. CASE h.counter < h.ports
  <2>1. h.counter + 1 \in 1 .. h.ports
    BY <1>1, <1>2
  <2>2. Rests(h, EnterPort(h, h.counter + 1))
    BY <2>1, EnterPortRests
  <2>3. EnterPort(h, h.counter + 1).reconnect = h.reconnect
    BY DEF EnterPort, Hub
  <2> QED BY <1>2, <2>2, <2>3 DEF NextPort
<1>3. CASE ~(h.counter < h.ports)
  <2> DEFINE g == [h EXCEPT !.pc = "poll"]
  <2>1. /\ g \in Hub /\ g.pc = "poll" /\ g.ports = h.ports /\ g.counter = h.counter
        /\ g.reset = h.reset /\ g.reconnect = h.reconnect
    BY DEF Hub
  <2>2. NextPort(h) = g
    BY <1>3 DEF NextPort
  <2> HIDE DEF g
  <2> QED BY <2>1, <2>2 DEF Rests
<1> QED BY <1>2, <1>3

LEMMA AbandonRests ==
    ASSUME NEW h \in Hub, h.counter \in 1 .. h.ports PROVE Rests(h, Abandon(h)) /\ Abandon(h).pc = "poll"
<1> DEFINE g == Abandon(h)
<1>1. /\ g \in Hub /\ g.pc = "poll" /\ g.ports = h.ports /\ g.counter = h.counter
      /\ g.reset = h.reset /\ g.reconnect = h.reconnect
  BY DEF Hub, Abandon
<1> HIDE DEF g
<1> QED BY <1>1 DEF Rests, g

LEMMA ConnectedRests ==
    ASSUME NEW h \in Hub, h.counter \in 1 .. h.ports
    PROVE  /\ Rests(h, Connected(h))
           /\ Connected(h).reconnect = IF h.again THEN h.reconnect \ {h.counter} ELSE h.reconnect
<1> DEFINE k == [h EXCEPT !.reconnect = IF h.again THEN @ \ {h.counter} ELSE @, !.again = FALSE]
<1>1. /\ k \in Hub /\ k.pc = h.pc /\ k.ports = h.ports /\ k.counter = h.counter
      /\ k.reset = h.reset
      /\ k.reconnect = IF h.again THEN h.reconnect \ {h.counter} ELSE h.reconnect
  BY DEF Hub
<1>2. Connected(h) = NextPort(k)
  BY DEF Connected
<1> HIDE DEF k
<1>3. Rests(k, NextPort(k)) /\ NextPort(k).reconnect = k.reconnect
  BY <1>1, NextPortRests
<1> QED BY <1>1, <1>2, <1>3 DEF Rests

\* These are moves, unless something at the default address is given up.
LEMMA Resting ==
    ASSUME IInv, NEW a \in Addr, Scans(a), NEW g, Rests(hub[a], g),
           ~(hub[a].pc = "reset" /\ hub[a].by = "connect"),
           Attaches(a) => \A t \in Things : taddr[t] = a =>
              LET u == plug[<<t, hub[a].counter>>] IN u \in Things => taddr[u] # 0
    PROVE  Next1(a, g) /\ Next2(a, g) /\ Next3(a, g)
<1>1. Next1(a, g)
  BY DEF Rests, Next1
<1>2. Next2(a, g)
  BY DEF Rests, Next2, AttachesAs, Connecting
<1>3. Next3(a, g)
  BY DEF Rests, Next3
<1> QED BY <1>1, <1>2, <1>3

LEMMA PollInv == ASSUME IInv, NEW a \in Addr, HubPoll(a) PROVE IInv'
<1> DEFINE g == EnterPort(hub[a], 1)
<1>1. hub[a].pc = "poll" /\ Scans(a) /\ hub[a] \in Hub /\ hub \in [Addr -> Hub]
  BY DEF HubPoll, Scans, IInv, TypeOK
<1>2. Moves(a, g)
  BY <1>1 DEF HubPoll, Moves, bus
<1>3. 1 \in 1 .. hub[a].ports
  BY <1>1, CounterIs
<1>4. Rests(hub[a], g)
  BY <1>1, <1>3, EnterPortRests
<1> HIDE DEF g
<1>5. ~Attaches(a)
  BY <1>1 DEF Attaches, Connecting
<1>6. Next1(a, g) /\ Next2(a, g) /\ Next3(a, g)
  BY <1>1, <1>4, <1>5, Resting
<1> QED BY <1>1, <1>2, <1>6, HubMoves

\* A hub whose thing is gone gives up.
LEMMA AbandonInv ==
    ASSUME IInv, NEW a \in Addr, Scans(a), HubAt(a) = {}, Moves(a, Abandon(hub[a]))
    PROVE  IInv'
<1>1. hub[a] \in Hub /\ hub[a].counter \in 1 .. hub[a].ports /\ On(a)
  BY CounterIs DEF Scans, IInv, TypeOK, On
<1>2. ~Attaches(a)
  BY <1>1, HubAtIs DEF IInv, Attaching, AttachingAt
<1> DEFINE g == Abandon(hub[a])
<1>3. Rests(hub[a], g)
  BY <1>1, AbandonRests
<1> HIDE DEF g
<1>4. ~(hub[a].pc = "reset" /\ hub[a].by = "connect")
  BY <1>2 DEF Attaches, Connecting
<1>5. Next1(a, g) /\ Next2(a, g) /\ Next3(a, g)
  BY <1>2, <1>3, <1>4, Resting
<1> QED BY <1>5, HubMoves DEF g

LEMMA StatusInv == ASSUME IInv, OneHub, NEW a \in Addr, HubStatus(a) PROVE IInv'
<1>1. /\ hub[a].pc = "status" /\ Scans(a) /\ On(a) /\ hub[a] \in Hub /\ hub \in [Addr -> Hub]
      /\ hub[a].counter \in 1 .. hub[a].ports
  BY CounterIs DEF HubStatus, Scans, On, IInv, TypeOK
<1>0. PortAt(a) = HubAt(a)
  BY <1>1, PortAtIs
<1>2. CASE HubAt(a) = {}
  <2>1. Moves(a, Abandon(hub[a]))
    BY <1>0, <1>1, <1>2 DEF HubStatus, Moves, bus
  <2> QED BY <1>1, <1>2, <2>1, AbandonInv
<1>3. ASSUME NEW t \in HubAt(a),
             LET p == <<t, hub[a].counter>>
             IN  hub' = [hub EXCEPT ![a].pc = "ports",
                          ![a].sts = [connection |-> plug[p] # Nothing, change |-> chg[p]]]
      PROVE IInv'
  <2> DEFINE p == <<t, hub[a].counter>>
             s == [connection |-> plug[p] # Nothing, change |-> chg[p]]
             g == [hub[a] EXCEPT !.pc = "ports", !.sts = s]
  <2>1. t \in Things /\ taddr[t] = a
    BY <1>1, HubAtIs
  <2>2. p \in Port /\ chg[p] \in BOOLEAN
    BY <1>1, <2>1, PortsAre DEF IInv, TypeOK
  <2>3. hub' = [hub EXCEPT ![a] = g]
    BY <1>1, <1>3
  <2>4. /\ g \in Hub /\ g.pc = "ports" /\ g.sts.change = chg[p] /\ g.counter = hub[a].counter
        /\ g.ports = hub[a].ports /\ g.reset = hub[a].reset /\ g.reconnect = hub[a].reconnect
    BY <1>1, <2>2 DEF Hub
  <2> HIDE DEF g, s
  <2>5. Next1(a, g)
    BY <1>1, <2>4 DEF Next1
  <2>6. Next2(a, g)
    BY <1>1, <2>4 DEF Next2, Attaches, AttachesAs, Connecting
  <2>7. Next3(a, g)
    <3>1. g.sts.connection = (plug[p] # Nothing)
      BY <1>1 DEF Hub, g, s
    <3>2. \A v \in Things : taddr[v] = a => v = t
      BY <1>1, <2>1, OneThing
    <3> QED BY <2>1, <2>4, <3>1, <3>2 DEF Next3, Pending
  <2>8. Moves(a, g)
    BY <2>3 DEF Moves, HubStatus, bus
  <2> QED BY <1>1, <2>5, <2>6, <2>7, <2>8, HubMoves
<1> QED BY <1>0, <1>2, <1>3 DEF HubStatus

LEMMA PortInv == ASSUME IInv, NEW a \in Addr, HubPort(a) PROVE IInv'
<1>1. /\ hub[a].pc = "ports" /\ Scans(a) /\ hub[a] \in Hub /\ hub \in [Addr -> Hub]
      /\ hub[a].counter \in 1 .. hub[a].ports
  BY CounterIs DEF HubPort, Scans, On, IInv, TypeOK
<1> DEFINE n == hub[a].counter
           c == (n \in hub[a].reconnect \/ hub[a].sts.change) /\ new_dev = NoDev
           g == IF c THEN [hub[a] EXCEPT !.pc = "connect", !.again = n \in hub[a].reconnect]
                ELSE NextPort(hub[a])
<1>2. Moves(a, g)
  BY <1>1 DEF HubPort, Moves, bus
<1>3. ~Attaches(a)
  BY <1>1 DEF Attaches, Connecting
<1>4. CASE ~c
  <2>1. Rests(hub[a], g)
    BY <1>1, <1>4, NextPortRests
  <2> HIDE DEF g, c
  <2>2. Next1(a, g) /\ Next2(a, g) /\ Next3(a, g)
    BY <1>1, <1>3, <2>1, Resting
  <2> QED BY <1>1, <1>2, <2>2, HubMoves
<1>5. CASE c
  <2>1. /\ g \in Hub /\ g.pc = "connect" /\ g.again = (n \in hub[a].reconnect) /\ g.counter = n
        /\ g.ports = hub[a].ports /\ g.reset = hub[a].reset /\ g.reconnect = hub[a].reconnect
        /\ g.sts = hub[a].sts
    <3> DEFINE b == n \in hub[a].reconnect
               k == [hub[a] EXCEPT !.pc = "connect", !.again = b]
    <3>1. b \in BOOLEAN
      OBVIOUS
    <3>2. g = k
      BY <1>5
    <3> HIDE DEF b, g
    <3>3. /\ k \in Hub /\ k.pc = "connect" /\ k.again = b /\ k.counter = n
          /\ k.ports = hub[a].ports /\ k.reset = hub[a].reset /\ k.reconnect = hub[a].reconnect
          /\ k.sts = hub[a].sts
      BY <1>1, <3>1 DEF Hub
    <3> QED BY <3>2, <3>3 DEF b
  <2>2. new_dev = NoDev /\ Pending(a, n)
    BY <1>1, <1>5 DEF Pending
  <2> HIDE DEF g, c
  <2>3. Next1(a, g)
    BY <1>1, <2>1 DEF Next1
  <2>4. Next2(a, g)
    BY <1>1, <2>1 DEF Next2, Attaches, AttachesAs, Connecting
  <2>5. Next3(a, g)
    BY <1>1, <2>1, <2>2 DEF Next3, IInv, Sampled
  <2> QED BY <1>1, <1>2, <2>3, <2>4, <2>5, HubMoves
<1> QED BY <1>4, <1>5

LEMMA EnabledInv == ASSUME IInv, OneHub, NEW a \in Addr, HubEnabled(a) PROVE IInv'
<1>1. /\ hub[a].pc = "enabled" /\ Scans(a) /\ On(a) /\ hub[a] \in Hub /\ hub \in [Addr -> Hub]
      /\ hub[a].counter \in 1 .. hub[a].ports /\ hub[a].by \in {"scan", "connect"}
  BY CounterIs DEF HubEnabled, Scans, On, IInv, TypeOK, Hub
<1> DEFINE n == hub[a].counter
           up(t) == plug[<<t, n>>] # Nothing /\ taddr[plug[<<t, n>>]] # Off
           e == \E t \in HubAt(a) : up(t)
           G == CASE e /\ hub[a].by = "connect" -> [hub[a] EXCEPT !.pc = "wait"]
                  [] e /\ hub[a].by = "scan"    -> [hub[a] EXCEPT !.pc = "status", !.reset = @ \ {n}]
                  [] HubAt(a) # {} /\ ~e /\ hub[a].retry < MaxRetry ->
                        [hub[a] EXCEPT !.pc = "reset", !.retry = @ + 1]
                  [] OTHER -> Abandon(hub[a])
<1>0. PortAt(a) = HubAt(a)
  BY <1>1, PortAtIs
<1>2. Moves(a, G)
  BY <1>0, <1>1 DEF HubEnabled, Moves, bus
<1> HIDE DEF e
<1>3. CASE e /\ hub[a].by = "connect"
  <2> DEFINE g == [hub[a] EXCEPT !.pc = "wait"]
  <2>1. Moves(a, g)
    BY <1>2, <1>3
  <2>2. /\ g \in Hub /\ g.pc = "wait" /\ g.by = "connect" /\ g.counter = n /\ g.again = hub[a].again
        /\ g.ports = hub[a].ports /\ g.reset = hub[a].reset /\ g.reconnect = hub[a].reconnect
    BY <1>1, <1>3 DEF Hub
  <2>3. \A t \in Things : taddr[t] = a => plug[<<t, n>>] # Nothing
    BY <1>1, <1>3, HubAtIs, OneThing DEF e
  <2> HIDE DEF g
  <2>4. Next1(a, g)
    BY <1>1, <2>2 DEF Next1
  <2>5. Next2(a, g)
    BY <1>1, <1>3, <2>2, <2>3 DEF Next2, Attaches, AttachesAs, Connecting
  <2>6. Next3(a, g)
    BY <2>2 DEF Next3
  <2> QED BY <1>1, <2>1, <2>4, <2>5, <2>6, HubMoves
<1>4. CASE e /\ hub[a].by = "scan"
  <2> DEFINE g == [hub[a] EXCEPT !.pc = "status", !.reset = @ \ {n}]
  <2>1. Moves(a, g)
    BY <1>2, <1>4
  <2>2. /\ g \in Hub /\ g.pc = "status" /\ g.by = "scan" /\ g.counter = n
        /\ g.ports = hub[a].ports /\ g.reset \subseteq hub[a].reset /\ g.reconnect = hub[a].reconnect
    BY <1>1, <1>4 DEF Hub
  <2> HIDE DEF g
  <2>4. Next1(a, g)
    BY <1>1, <2>2 DEF Next1
  <2>5. Next2(a, g)
    BY <1>1, <1>4, <2>2 DEF Next2, Attaches, AttachesAs, Connecting
  <2>6. Next3(a, g)
    BY <2>2 DEF Next3
  <2> QED BY <1>1, <2>1, <2>4, <2>5, <2>6, HubMoves
<1>5. CASE HubAt(a) # {} /\ ~e /\ hub[a].retry < MaxRetry
  <2> DEFINE g == [hub[a] EXCEPT !.pc = "reset", !.retry = @ + 1]
  <2>1. Moves(a, g)
    BY <1>2, <1>5
  <2>2. /\ g \in Hub /\ g.pc = "reset" /\ g.by = hub[a].by /\ g.counter = n /\ g.again = hub[a].again
        /\ g.ports = hub[a].ports /\ g.reset = hub[a].reset /\ g.reconnect = hub[a].reconnect
    <3>1. hub[a].retry + 1 \in Nat
      BY <1>1 DEF Hub
    <3> QED BY <1>1, <3>1 DEF Hub
  <2>3. hub[a].by = "scan" => n \in hub[a].reset
    BY <1>1 DEF IInv, Resets
  <2> HIDE DEF g
  <2>4. Next1(a, g)
    BY <1>1, <2>2, <2>3 DEF Next1
  <2>5. Next2(a, g)
    BY <1>1, <2>2 DEF Next2, Attaches, AttachesAs, Connecting
  <2>6. Next3(a, g)
    BY <2>2 DEF Next3
  <2> QED BY <1>1, <2>1, <2>4, <2>5, <2>6, HubMoves
<1>6. CASE ~e /\ ~(HubAt(a) # {} /\ ~e /\ hub[a].retry < MaxRetry)
  <2> DEFINE g == Abandon(hub[a])
  <2>1. Moves(a, g)
    BY <1>2, <1>6
  <2>2. Rests(hub[a], g)
    BY <1>1, AbandonRests
  <2>3. \A t \in Things : taddr[t] = a =>
           LET u == plug[<<t, hub[a].counter>>] IN u \in Things => taddr[u] # 0
    <3> SUFFICES ASSUME NEW t \in Things, taddr[t] = a, plug[<<t, n>>] \in Things
                 PROVE taddr[plug[<<t, n>>]] # 0
      OBVIOUS
    <3>1. t \in HubAt(a) /\ plug[<<t, n>>] # Nothing
      BY <1>1, HubAtIs, Numerals
    <3>2. ~up(t)
      BY <1>6, <3>1 DEF e
    <3> QED BY <3>1, <3>2 DEF Off
  <2> HIDE DEF g
  <2>4. Next1(a, g) /\ Next2(a, g) /\ Next3(a, g)
    BY <1>1, <2>2, <2>3, Resting
  <2> QED BY <1>1, <2>1, <2>4, HubMoves
<1> QED BY <1>1, <1>3, <1>4, <1>5, <1>6

-----------------------------------------------------------------------------
(* The initialisation of a hub.                                            *)

\* The hub at a begins to scan its ports, or is gone.
LEMMA InitMoves ==
    ASSUME IInv, OneHub, NEW a \in Addr, hub[a].pc = "init", NEW g \in Hub,
           hub' = [hub EXCEPT ![a] = g], chg' \in [Port -> BOOLEAN],
           \A p \in Port : taddr[p[1]] # a => chg'[p] = chg[p],
           UNCHANGED <<plug, taddr, bitmap, dev, new_dev, probe, fuel>>,
           g.reset = {},
           \/ g.pc = "off" /\ ~Present(a)
           \/ /\ g.pc = "poll" /\ g.counter = 1
              /\ \E t \in Things \ {Root} : NPort[t] > 0 /\ g.ports = NPort[t] /\ taddr[t] = a
    PROVE  IInv'
<1>1. hub \in [Addr -> Hub] /\ dev \in [Addr -> Device]
  BY DEF IInv, TypeOK
<1>2. /\ hub'[a] = g /\ \A b \in Addr : b # a => hub'[b] = hub[b]
      /\ hub' \in [Addr -> Hub]
  BY <1>1
<1>3. /\ plug' = plug /\ taddr' = taddr /\ bitmap' = bitmap /\ dev' = dev
      /\ new_dev' = new_dev /\ probe' = probe /\ fuel' = fuel
  OBVIOUS
<1>4. On(a) /\ ~Scans(a) /\ a # 1 /\ \A n \in 1 .. MaxPort : Child(a, n) = NoDev
  BY DEF On, Scans, IInv, Hubs, Tree
<1>5. \A b : Bound(b)' = Bound(b) /\ (\A n : Child(b, n)' = Child(b, n)) /\ Present(b)' = Present(b)
  BY <1>3 DEF Bound, Child, Present
<1>6. \A b \in Addr : b # a => On(b)' = On(b) /\ Scans(b)' = Scans(b) /\ Attaches(b)' = Attaches(b)
  BY <1>2 DEF On, Scans, Attaches
<1>7. \A t \in Things : \A n \in 1 .. NPort[t] : taddr[t] # a => chg'[<<t, n>>] = chg[<<t, n>>]
  BY PortIs
<1>8. ~Attaches(a)' /\ ~Attaches(a) /\ hub'[a].pc \notin {"connect", "ports", "init"}
  BY <1>2 DEF Attaches, Connecting
<1>9. TypeOK'
  BY <1>2, <1>3 DEF IInv, TypeOK
<1>10. Cables'
  BY <1>3 DEF IInv, Cables
<1>11. Tree'
  <2>1. \A b \in Addr : \A n \in 1 .. MaxPort : Child(b, n) # NoDev => b # a
    BY <1>4
  <2> QED BY <2>1, <1>2, <1>3, <1>5, <1>6 DEF IInv, Tree
<1>12. Hubs'
  <2>1. Scans(1)' /\ hub'[1].ports = NPort[Root]
    BY <1>2, <1>4, <1>6, Numerals DEF IInv, Hubs
  <2>2. \A b \in Addr : Scans(b)' => hub'[b].counter \in 1 .. hub'[b].ports
    <3>1. Scans(a)' => hub'[a].counter \in 1 .. hub'[a].ports
      BY <1>2, Numerals DEF Scans
    <3> QED BY <3>1, <1>2, <1>6 DEF IInv, Hubs
  <2>3. \A b \in Addr : hub'[b].pc = "init" => hub'[b].counter = 1
    BY <1>2, <1>8 DEF IInv, Hubs
  <2>4. ASSUME NEW b \in Addr \ {1}, On(b)'
        PROVE (/\ b \in bitmap /\ dev[b].parent = 1 /\ Bound(b) /\ NPort[Root] = 1
               /\ Scans(b) => \E t \in Things \ {Root} : NPort[t] > 0 /\ hub[b].ports = NPort[t])'
    <3>1. CASE b = a
      <4>1. b \in bitmap /\ dev[b].parent = 1 /\ Bound(b) /\ NPort[Root] = 1
        BY <3>1, <1>4 DEF IInv, Hubs
      <4>2. \E t \in Things \ {Root} : NPort[t] > 0 /\ hub'[b].ports = NPort[t]
        BY <2>4, <3>1, <1>2 DEF On
      <4> QED BY <4>1, <4>2, <1>3, <1>5
    <3>2. CASE b # a
      <4>1. /\ b \in bitmap /\ dev[b].parent = 1 /\ Bound(b) /\ NPort[Root] = 1
            /\ Scans(b) => \E t \in Things \ {Root} : NPort[t] > 0 /\ hub[b].ports = NPort[t]
        BY <2>4, <3>2, <1>6 DEF IInv, Hubs
      <4> QED BY <4>1, <3>2, <1>2, <1>3, <1>5, <1>6
    <3> QED BY <3>1, <3>2
  <2> QED BY <2>1, <2>2, <2>3, <2>4 DEF Hubs
<1>13. Numbers'
  BY <1>3, <1>5 DEF IInv, Numbers
<1>14. Resets'
  BY <1>2, <1>3, <1>5 DEF IInv, Resets
<1>15. Attaching'
  <2> SUFFICES ASSUME NEW b \in Addr
        PROVE AttachingAt(b)'
    BY DEF Attaching, AttachingAt
  <2>1. CASE b = a
    BY <2>1, <1>8 DEF AttachingAt
  <2>2. CASE b # a
    <3>1. hub'[b] = hub[b] /\ Attaches(b)' = Attaches(b) /\ Child(b, hub[b].counter)' = Child(b, hub[b].counter)
      BY <2>2, <1>2, <1>3, <1>6 DEF Child
    <3>2. ASSUME Attaches(b), NEW t \in Things, taddr[t] = b
          PROVE chg'[<<t, hub[b].counter>>] = chg[<<t, hub[b].counter>>]
      <4>1. Scans(b)
        BY <3>2 DEF Attaches, Connecting, Scans
      <4>2. hub[b].counter \in 1 .. NPort[t]
        BY <4>1, <3>2, PortsAre
      <4> QED BY <4>2, <3>2, <2>2, <1>7
    <3> QED BY <3>1, <3>2, <1>3, <1>5 DEF IInv, Attaching, AttachingAt
  <2> QED BY <2>1, <2>2
<1>16. Pendings'
  <2> SUFFICES ASSUME NEW b \in Addr, NEW n \in 1 .. MaxPort, Child(b, n)' # NoDev, Pending(b, n)'
        PROVE Doomed(Child(b, n))'
    BY DEF Pendings, Doomed
  <2>1. Child(b, n) # NoDev /\ Child(b, n)' = Child(b, n) /\ b # a
    BY <1>4, <1>5
  <2>2. Child(b, n) \in Addr /\ Scans(b) /\ n <= hub[b].ports
    BY <2>1, Types DEF IInv, Tree
  <2>3. ASSUME NEW t \in Things, taddr[t] = b PROVE chg'[<<t, n>>] = chg[<<t, n>>]
    <3>1. n \in 1 .. NPort[t]
      BY <2>2, <2>3, PortsAre, Numerals
    <3> QED BY <3>1, <2>1, <2>3, <1>7
  <2>4. Pending(b, n)
    BY <2>1, <2>3, <1>2, <1>3 DEF Pending
  <2>5. /\ Bound(Child(b, n))
        /\ On(Child(b, n)) => ~Present(Child(b, n))
        /\ \A m \in 1 .. MaxPort : Child(Child(b, n), m) # NoDev => Bound(Child(Child(b, n), m))
    BY <2>1, <2>4 DEF IInv, Pendings, Doomed
  <2>6. On(Child(b, n))' => On(Child(b, n))
    BY <1>2, <1>4, <2>1, <2>2 DEF On, Child
  <2>7. Present(Child(b, n))' = Present(Child(b, n))
    BY <1>3 DEF Present, Child
  <2> QED BY <1>3, <2>5, <2>6, <2>7 DEF Doomed, Bound, Child
<1>17. HubsAnswer'
  <2>1. ASSUME NEW t \in Things \ {Root}, taddr'[t] \in Addr, On(taddr[t])'
        PROVE NPort[t] > 0 /\ (Scans(taddr[t])' => hub'[taddr'[t]].ports = NPort[t])
    <3>1. CASE taddr[t] # a
      <4>1. On(taddr[t]) /\ (Scans(taddr[t])' = Scans(taddr[t])) /\ hub'[taddr[t]] = hub[taddr[t]]
        BY <2>1, <3>1, <1>2, <1>3 DEF On, Scans
      <4> QED BY <2>1, <4>1, <1>3 DEF IInv, HubsAnswer
    <3>2. CASE taddr[t] = a
      <4>1. g.pc = "poll"
        BY <2>1, <3>2, <1>2, <1>3 DEF Present, On
      <4>2. PICK v \in Things \ {Root} : NPort[v] > 0 /\ g.ports = NPort[v] /\ taddr[v] = a
        BY <4>1
      <4>3. v = t
        BY <4>2, <3>2, <1>4, OneThing
      <4> QED BY <4>2, <4>3, <3>2, <1>2, <1>3
    <3> QED BY <3>1, <3>2
  <2> QED BY <2>1, <1>3 DEF IInv, HubsAnswer
<1>18. \A u, t, n, b : Sits(u, t, n, b) => Sits(u, t, n, b)' /\ b # a /\ hub'[b] = hub[b]
  BY <1>2, <1>3, <1>4, <1>6 DEF Sits
<1>19. Placed'
  <2> SUFFICES ASSUME NEW u \in Things \ {Root}, taddr'[u] \in Addr, NEW t, NEW n, NEW b, PlacedAt(u, t, n, b)
               PROVE  PlacedAt(u, t, n, b)' /\ t \in Things /\ n \in 1 .. NPort[t] /\ b \in Addr
    BY <1>3 DEF IInv, Placed
  <2>1. Sits(u, t, n, b)
    BY DEF PlacedAt
  <2> QED BY <2>1, <1>3, <1>5, <1>18 DEF PlacedAt, Sits
<1>20. Default'
  <2> SUFFICES ASSUME NEW u \in Things, taddr'[u] = 0, NEW t, NEW n, NEW b, DefaultAt(u, t, n, b)
               PROVE  DefaultAt(u, t, n, b)' /\ t \in Things /\ n \in 1 .. NPort[t] /\ b \in Addr
    BY <1>3 DEF IInv, Default
  <2>1. Sits(u, t, n, b)
    BY DEF DefaultAt
  <2> QED BY <2>1, <1>3, <1>5, <1>6, <1>18 DEF DefaultAt, Sits
<1>21. Linked'
  <2> SUFFICES ASSUME NEW t \in Things, NEW n \in 1 .. NPort[t], taddr[t] \in Addr, ~chg'[<<t, n>>],
                      Child(taddr[t], n) # NoDev
               PROVE  /\ plug[<<t, n>>] # Nothing
                      /\ Bound(Child(taddr[t], n)) => taddr[plug[<<t, n>>]] = Child(taddr[t], n)
    BY <1>3 DEF Linked, Child, Bound
  <2>1. n \in 1 .. MaxPort
    BY Numerals
  <2>2. taddr[t] # a
    BY <1>4, <2>1
  <2>3. ~chg[<<t, n>>]
    BY <2>2, <1>7
  <2> QED BY <2>3 DEF IInv, Linked
<1>22. Sampled'
  BY <1>2, <1>3, <1>8 DEF IInv, Sampled
<1> QED BY <1>9, <1>10, <1>11, <1>12, <1>13, <1>14, <1>15, <1>16, <1>17, <1>19, <1>20, <1>21, <1>22 DEF IInv

LEMMA HubInitInv == ASSUME IInv, OneHub, NEW a \in Addr, HubInit(a) PROVE IInv'
<1>1. hub[a].pc = "init" /\ On(a) /\ hub[a] \in Hub /\ hub[a].counter = 1 /\ hub[a].reset = {} /\ a # 1
      /\ hub \in [Addr -> Hub]
  <2>1. hub[a].pc = "init" /\ On(a) /\ ~Scans(a) /\ hub[a] \in Hub /\ hub[a].counter = 1
        /\ hub \in [Addr -> Hub]
    BY DEF HubInit, On, Scans, IInv, TypeOK, Hubs
  <2>2. hub[a].reset = {}
    BY <2>1 DEF IInv, Resets, Tree
  <2>3. a # 1
    BY <2>1 DEF IInv, Hubs
  <2> QED BY <2>1, <2>2, <2>3
<1>2. ASSUME NEW t \in HubAt(a),
             hub' = [hub EXCEPT ![a].pc = "poll", ![a].ports = NPort[t]],
             chg' = [p \in Port |-> IF p[1] = t THEN plug[p] # Nothing ELSE chg[p]]
      PROVE  IInv'
  <2> DEFINE g == [hub[a] EXCEPT !.pc = "poll", !.ports = NPort[t]]
  <2>1. t \in Things /\ taddr[t] = a
    BY <1>1, HubAtIs
  <2>2. t # Root /\ NPort[t] > 0 /\ NPort[t] \in Nat
    BY <2>1, <1>1, Numerals DEF IInv, HubsAnswer
  <2>3. g \in Hub /\ g.pc = "poll" /\ g.ports = NPort[t] /\ g.counter = 1 /\ g.reset = {}
    BY <1>1, <2>2 DEF Hub
  <2>4. hub' = [hub EXCEPT ![a] = g]
    BY <1>1, <1>2
  <2>5. chg' \in [Port -> BOOLEAN] /\ \A p \in Port : taddr[p[1]] # a => chg'[p] = chg[p]
    BY <1>2, <2>1 DEF IInv, TypeOK
  <2> HIDE DEF g
  <2>6. UNCHANGED <<plug, taddr, bitmap, dev, new_dev, probe, fuel>>
    BY DEF HubInit
  <2> QED BY <1>1, <2>1, <2>2, <2>3, <2>4, <2>5, <2>6, InitMoves
<1>3. ASSUME HubAt(a) = {}, hub' = [hub EXCEPT ![a] = NoHub], chg' = chg
      PROVE  IInv'
  <2>1. NoHub \in Hub /\ NoHub.pc = "off" /\ NoHub.reset = {}
    BY DEF NoHub, Hub
  <2>2. ~Present(a)
    BY <1>1, <1>3, HubAtIs
  <2>3. chg' \in [Port -> BOOLEAN]
    BY <1>3 DEF IInv, TypeOK
  <2>4. UNCHANGED <<plug, taddr, bitmap, dev, new_dev, probe, fuel>>
    BY DEF HubInit
  <2> QED BY <1>1, <1>3, <2>1, <2>2, <2>3, <2>4, InitMoves
<1> QED BY <1>2, <1>3 DEF HubInit

-----------------------------------------------------------------------------
(* The enumeration.                                                        *)

\* The device that is enumerated is no hub yet, and nobody attaches something.
LEMMA NewDevIs ==
    ASSUME IInv, new_dev # NoDev
    PROVE  /\ new_dev \in Addr /\ new_dev \in bitmap /\ new_dev # 1 /\ dev[new_dev].ifs = "none"
           /\ ~Bound(new_dev) /\ ~On(new_dev) /\ ~Scans(new_dev)
           /\ \A b \in Addr : ~Attaches(b) /\ ~(hub[b].pc = "connect" /\ Present(b))
<1>1. new_dev \in bitmap /\ dev[new_dev].ifs = "none" /\ new_dev \in Addr
  BY DEF IInv, Numbers, TypeOK
<1>2. ~Bound(new_dev)
  BY <1>1 DEF Bound
<1>3. new_dev # 1 /\ ~On(new_dev)
  BY <1>1, <1>2 DEF IInv, Tree, Hubs
<1>4. ~Scans(new_dev)
  BY <1>3 DEF On, Scans
<1>5. \A b \in Addr : ~Attaches(b) /\ ~(hub[b].pc = "connect" /\ Present(b))
  BY DEF IInv, Attaching, AttachingAt
<1> QED BY <1>1, <1>2, <1>3, <1>4, <1>5

\* Where the device is: at one port of its parent.
LEMMA ParentIs ==
    ASSUME IInv, NEW c \in bitmap \ {1}
    PROVE  /\ dev[c].parent \in Addr /\ dev[c].parent \in bitmap /\ Scans(dev[c].parent)
           /\ PortOf(c) \in 1 .. hub[dev[c].parent].ports /\ PortOf(c) \in 1 .. MaxPort
           /\ Child(dev[c].parent, PortOf(c)) = c /\ c # NoDev
           /\ \A b \in Addr : \A n \in 1 .. MaxPort : Child(b, n) = c => b = dev[c].parent /\ n = PortOf(c)
<1> DEFINE held == {n \in 1 .. MaxPort : Child(dev[c].parent, n) = c}
<1>1. dev[c].parent \in Addr /\ held # {} /\ c \in Addr /\ c # NoDev
  <2>1. bitmap \subseteq Addr /\ NoDev \notin Addr
    BY Numerals DEF IInv, TypeOK, NoDev
  <2>2. dev[c].parent \in Addr /\ \E n \in 1 .. MaxPort : Child(dev[c].parent, n) = c
    BY DEF IInv, Tree
  <2> QED BY <2>1, <2>2
<1>2. PortOf(c) \in held
  <2>1. PortOf(c) = Min(held)
    BY <1>1 DEF PortOf, Child
  <2>2. held \subseteq Nat
    BY Numerals
  <2> HIDE DEF held
  <2> QED BY <1>1, <2>1, <2>2, LeastNumber
<1>3. PortOf(c) \in 1 .. MaxPort /\ Child(dev[c].parent, PortOf(c)) = c
  BY <1>2
<1>4. dev[c].parent \in bitmap /\ Scans(dev[c].parent) /\ PortOf(c) <= hub[dev[c].parent].ports
  BY <1>1, <1>3 DEF IInv, Tree
<1>5. PortOf(c) \in 1 .. hub[dev[c].parent].ports
  BY <1>1, <1>3, <1>4, CounterIs, Numerals
<1>6. ASSUME NEW b \in Addr, NEW n \in 1 .. MaxPort, Child(b, n) = c
      PROVE  b = dev[c].parent /\ n = PortOf(c)
  <2>1. dev[c].parent = b
    BY <1>1, <1>6 DEF IInv, Tree
  <2> QED BY <1>1, <1>3, <1>6, <2>1 DEF IInv, Tree
<1> QED BY <1>1, <1>3, <1>4, <1>5, <1>6

\* Two devices at a port of one thing are one device.
LEMMA OnePlace ==
    ASSUME IInv, OneHub, NEW c \in bitmap \ {1}, NEW t \in Things, NEW n \in 1 .. NPort[t],
           taddr[t] \in Addr, Child(taddr[t], n) = c,
           NEW v \in Things, NEW m \in 1 .. NPort[v], taddr[v] \in Addr, Child(taddr[v], m) = c
    PROVE  v = t /\ m = n
<1>1. n \in 1 .. MaxPort /\ m \in 1 .. MaxPort
  BY Numerals
<1>2. taddr[t] = taddr[v] /\ n = m /\ Scans(taddr[t])
  BY <1>1, ParentIs
<1>3. On(taddr[t])
  BY <1>2 DEF On, Scans
<1> QED BY <1>2, <1>3, OneThing

\* The device becomes r, without leaving its place.
Refills(r) ==
    /\ dev' = [dev EXCEPT ![new_dev] = r]
    /\ r \in Device /\ r.live = dev[new_dev].live /\ r.parent = dev[new_dev].parent
    /\ r.children = dev[new_dev].children
    /\ r.ifs = "bound" => r.devnum = new_dev

\* The thread goes on with it, or ends.
Goes(r) ==
    /\ probe' \in Probe /\ new_dev' \in {new_dev, NoDev}
    /\ (probe'.pc = "idle") = (new_dev' = NoDev)
    /\ new_dev' # NoDev =>
         /\ r.ifs = "none"
         /\ IF probe'.pc \in {"desc", "reset"} THEN r.devnum = 0 /\ r.temp = new_dev
            ELSE r.devnum = new_dev
    /\ \/ new_dev' # NoDev /\ probe'.pc # "config"
       \/ \A t \in Things : taddr[t] # 0

\* A driver takes it: a hub begins.
Takes(r) ==
    /\ hub' \in [Addr -> Hub]
    /\ \A b \in Addr : b # new_dev => hub'[b] = hub[b]
    /\ \/ hub'[new_dev] = hub[new_dev]
       \/ /\ hub'[new_dev] = [NoHub EXCEPT !.pc = "init"]
          /\ r.ifs = "bound" /\ r.parent = 1 /\ NPort[Root] = 1
          /\ \A t \in Things : taddr[t] = new_dev => NPort[t] > 0
    /\ r.ifs = "bound" =>
         \A t \in Things : \A n \in 1 .. NPort[t] :
            taddr[t] \in Addr /\ Child(taddr[t], n) = new_dev => taddr[plug[<<t, n>>]] = new_dev

LEMMA ProbeMoves ==
    ASSUME IInv, new_dev # NoDev, NEW r, Refills(r), Goes(r), Takes(r),
           \A b \in Addr : hub[b].reset = {},
           UNCHANGED <<plug, chg, taddr, bitmap, fuel>>
    PROVE  IInv'
<1>1. /\ new_dev \in Addr /\ new_dev \in bitmap /\ new_dev # 1 /\ dev[new_dev].ifs = "none"
      /\ ~Bound(new_dev) /\ ~On(new_dev) /\ ~Scans(new_dev)
      /\ \A b \in Addr : ~Attaches(b) /\ ~(hub[b].pc = "connect" /\ Present(b))
  BY NewDevIs
<1>2. hub \in [Addr -> Hub] /\ dev \in [Addr -> Device] /\ bitmap \subseteq Addr
  BY DEF IInv, TypeOK
<1>3. /\ dev'[new_dev] = r /\ \A b \in Addr : b # new_dev => dev'[b] = dev[b]
      /\ dev' \in [Addr -> Device]
  BY <1>1, <1>2 DEF Refills
<1>4. /\ plug' = plug /\ chg' = chg /\ taddr' = taddr /\ bitmap' = bitmap /\ fuel' = fuel
  OBVIOUS
<1>5. \A b \in Addr : /\ dev'[b].live = dev[b].live /\ dev'[b].parent = dev[b].parent
                      /\ dev'[b].children = dev[b].children /\ \A n : Child(b, n)' = Child(b, n)
                      /\ Bound(b) => Bound(b)' /\ dev'[b] = dev[b]
  BY <1>1, <1>3 DEF Refills, Child, Bound
<1>6. \A b \in Addr : /\ hub'[b] = hub[b] \/ (b = new_dev /\ hub'[b] = [NoHub EXCEPT !.pc = "init"])
  BY DEF Takes
<1>7. \A b \in Addr : /\ Scans(b)' = Scans(b) /\ hub'[b].reset = {}
                      /\ Scans(b) => hub'[b] = hub[b]
  BY <1>1, <1>6 DEF NoHub, Scans, On
<1>8. \A b \in Addr : /\ Attaches(b)' = Attaches(b) /\ Present(b)' = Present(b)
                      /\ hub'[b].pc = "connect" => hub[b].pc = "connect"
  BY <1>4, <1>6, <1>1 DEF Attaches, Connecting, NoHub, Present
<1>9. TypeOK'
  <2>1. new_dev' \in 0 .. MaxAddr
    BY <1>1, Numerals DEF Goes, NoDev, Addr
  <2> QED BY <2>1, <1>3, <1>4 DEF IInv, TypeOK, Takes, Goes
<1>10. Cables'
  BY <1>4 DEF IInv, Cables
<1>11. Tree'
  <2>1. \A b \in Addr : \A n \in 1 .. MaxPort : Child(b, n) # NoDev => Child(b, n) \in Addr
    BY Types DEF IInv
  <2>2. bitmap' = {b \in Addr : dev'[b].live}
    BY <1>4, <1>5 DEF IInv, Tree
  <2>3. 1 \in bitmap' /\ dev'[1].parent = NoDev /\ Bound(1)'
    BY <1>2, <1>4, <1>5 DEF IInv, Tree
  <2>4. ASSUME NEW b \in Addr, NEW n \in 1 .. MaxPort, Child(b, n)' # NoDev
        PROVE (/\ Child(b, n) \in bitmap /\ Child(b, n) # 1 /\ dev[Child(b, n)].parent = b
               /\ b \in bitmap /\ Scans(b) /\ n <= hub[b].ports
               /\ \A m \in 1 .. MaxPort : Child(b, m) = Child(b, n) => m = n)'
    <3>1. /\ Child(b, n) \in bitmap /\ Child(b, n) # 1 /\ dev[Child(b, n)].parent = b
          /\ b \in bitmap /\ Scans(b) /\ n <= hub[b].ports
          /\ \A m \in 1 .. MaxPort : Child(b, m) = Child(b, n) => m = n
      BY <2>4, <1>5 DEF IInv, Tree
    <3>2. dev'[Child(b, n)].parent = dev[Child(b, n)].parent
      BY <3>1, <1>2, <1>5
    <3>3. Child(b, n)' = Child(b, n) /\ \A m : Child(b, m)' = Child(b, m)
      BY <1>5
    <3>4. Scans(b)' /\ hub'[b] = hub[b]
      BY <3>1, <1>7
    <3> QED BY <3>1, <3>2, <3>3, <3>4, <1>4
  <2>5. ASSUME NEW c \in bitmap' \ {1}
        PROVE (/\ dev[c].parent \in Addr
               /\ \E n \in 1 .. MaxPort : Child(dev[c].parent, n) = c)'
    <3>1. dev[c].parent \in Addr /\ \E n \in 1 .. MaxPort : Child(dev[c].parent, n) = c
      BY <1>4 DEF IInv, Tree
    <3>2. dev'[c].parent = dev[c].parent
      BY <1>2, <1>4, <1>5
    <3> QED BY <3>1, <3>2, <1>5 DEF Child
  <2> QED BY <2>2, <2>3, <2>4, <2>5 DEF Tree
<1>12. Hubs'
  <2>1. Scans(1)' /\ hub'[1].ports = NPort[Root]
    BY <1>7, Numerals DEF IInv, Hubs
  <2>2. \A b \in Addr : Scans(b)' => hub'[b].counter \in 1 .. hub'[b].ports
    BY <1>7 DEF IInv, Hubs
  <2>3. \A b \in Addr : hub'[b].pc = "init" => hub'[b].counter = 1
    BY <1>6 DEF IInv, Hubs, NoHub
  <2>4. ASSUME NEW b \in Addr \ {1}, On(b)'
        PROVE (/\ b \in bitmap /\ dev[b].parent = 1 /\ Bound(b) /\ NPort[Root] = 1
               /\ Scans(b) => \E t \in Things \ {Root} : NPort[t] > 0 /\ hub[b].ports = NPort[t])'
    <3>1. CASE hub'[b] = hub[b]
      <4>1. On(b)
        BY <2>4, <3>1 DEF On
      <4> QED BY <3>1, <4>1, <1>4, <1>5, <1>7 DEF IInv, Hubs
    <3>2. CASE hub'[b] # hub[b]
      <4>1. b = new_dev /\ r.ifs = "bound" /\ r.parent = 1 /\ NPort[Root] = 1
        BY <3>2 DEF Takes
      <4>2. ~Scans(b)'
        BY <4>1, <1>1, <1>7
      <4> QED BY <4>1, <4>2, <1>1, <1>3, <1>4 DEF Bound
    <3> QED BY <3>1, <3>2
  <2> QED BY <2>1, <2>2, <2>3, <2>4 DEF Hubs
<1>13. Numbers'
  <2>1. (probe'.pc = "idle") = (new_dev' = NoDev)
    BY DEF Goes
  <2>2. new_dev' # NoDev => new_dev' = new_dev /\ new_dev' \in bitmap' /\ dev'[new_dev'].ifs = "none"
    BY <1>1, <1>3, <1>4 DEF Goes
  <2>3. \A b \in bitmap' : Bound(b)' => dev'[b].devnum = b
    BY <1>2, <1>3, <1>4 DEF IInv, Numbers, Bound, Refills
  <2>4. new_dev' # NoDev => IF probe'.pc \in {"desc", "reset"} THEN dev'[new_dev'].devnum = 0 /\ dev'[new_dev'].temp = new_dev'
                            ELSE dev'[new_dev'].devnum = new_dev'
    BY <1>3, <2>2 DEF Goes
  <2>5. \A b \in bitmap' : b = new_dev' => new_dev' # NoDev
    BY <1>2, <1>4, Numerals DEF NoDev
  <2> QED BY <2>1, <2>2, <2>3, <2>4, <2>5 DEF Numbers
<1>14. Resets'
  <2>1. \A b \in Addr : hub'[b].pc \notin {"reset", "enabled", "wait"} \/ hub'[b] = hub[b]
    BY <1>6 DEF NoHub
  <2> QED BY <2>1, <1>7 DEF IInv, Resets
<1>15. Attaching'
  <2>1. \A b \in Addr : ~Attaches(b)' /\ ~(hub'[b].pc = "connect" /\ Present(b)')
    BY <1>1, <1>8
  <2>2. \A b \in Addr : hub'[b].pc = "connect" => hub'[b] = hub[b]
    BY <1>6 DEF NoHub
  <2> QED BY <2>1, <2>2 DEF IInv, Attaching, AttachingAt
<1>16. Pendings'
  <2> SUFFICES ASSUME NEW b \in Addr, NEW n \in 1 .. MaxPort, Child(b, n)' # NoDev, Pending(b, n)'
        PROVE Doomed(Child(b, n))'
    BY DEF Pendings
  <2> DEFINE c == Child(b, n)
  <2>1. c # NoDev /\ c' = c /\ c \in Addr /\ Scans(b) /\ hub'[b] = hub[b]
    BY <1>5, <1>7, Types DEF IInv, Tree
  <2>2. Pending(b, n)
    BY <2>1, <1>4 DEF Pending
  <2>3. Bound(c) /\ (On(c) => ~Present(c)) /\ \A m \in 1 .. MaxPort : Child(c, m) # NoDev => Bound(Child(c, m))
    BY <2>1, <2>2 DEF IInv, Pendings, Doomed
  <2> HIDE DEF c
  <2>4. c # new_dev /\ hub'[c] = hub[c]
    BY <2>1, <2>3, <1>1, <1>6
  <2>5. Bound(c)' /\ (On(c)' => ~Present(c)')
    BY <2>1, <2>3, <2>4, <1>4, <1>5 DEF On, Present, Bound
  <2>6. ASSUME NEW m \in 1 .. MaxPort, Child(c, m)' # NoDev PROVE Bound(Child(c, m))'
    <3>1. Child(c, m)' = Child(c, m) /\ Bound(Child(c, m)) /\ Child(c, m) \in Addr
      BY <2>1, <2>3, <2>6, <1>5, Types DEF Child, IInv
    <3>2. Child(c, m) # new_dev
      BY <3>1, <1>1
    <3> QED BY <2>1, <3>1, <3>2, <1>3, <1>5 DEF Bound, Child
  <2>7. Doomed(c)'
    BY <2>1, <2>5, <2>6 DEF Doomed
  <2> QED BY <2>1, <2>7 DEF c
<1>17. HubsAnswer'
  <2>1. ASSUME NEW t \in Things \ {Root}, taddr'[t] \in Addr, On(taddr[t])'
        PROVE NPort[t] > 0 /\ (Scans(taddr[t])' => hub'[taddr'[t]].ports = NPort[t])
    <3>1. CASE hub'[taddr[t]] = hub[taddr[t]]
      BY <2>1, <3>1, <1>4 DEF IInv, HubsAnswer, On, Scans
    <3>2. CASE hub'[taddr[t]] # hub[taddr[t]]
      <4>1. taddr[t] = new_dev /\ hub'[new_dev] = [NoHub EXCEPT !.pc = "init"]
        BY <2>1, <3>2, <1>4, <1>6
      <4>2. NPort[t] > 0
        BY <3>2, <4>1 DEF Takes
      <4> QED BY <4>1, <4>2, <1>4 DEF Scans, NoHub
    <3> QED BY <3>1, <3>2
  <2> QED BY <2>1, <1>4 DEF IInv, HubsAnswer
<1>18. \A u, t, n, b : Sits(u, t, n, b) => Sits(u, t, n, b)' /\ hub'[b] = hub[b] /\ Child(b, n)' = Child(b, n)
                                           /\ t \in Things /\ n \in 1 .. NPort[t] /\ b \in Addr
  BY <1>4, <1>5, <1>7 DEF Sits
<1>19. Placed'
  <2> SUFFICES ASSUME NEW u \in Things \ {Root}, taddr'[u] \in Addr, NEW t, NEW n, NEW b, PlacedAt(u, t, n, b)
               PROVE  PlacedAt(u, t, n, b)' /\ t \in Things /\ n \in 1 .. NPort[t] /\ b \in Addr
    BY <1>4 DEF IInv, Placed
  <2>1. Sits(u, t, n, b)
    BY DEF PlacedAt
  <2> QED BY <2>1, <1>4, <1>18 DEF PlacedAt
<1>20. Default'
  <2> SUFFICES ASSUME NEW u \in Things, taddr'[u] = 0, NEW t, NEW n, NEW b, DefaultAt(u, t, n, b)
               PROVE  DefaultAt(u, t, n, b)' /\ t \in Things /\ n \in 1 .. NPort[t] /\ b \in Addr
    BY <1>4 DEF IInv, Default
  <2>1. Sits(u, t, n, b)
    BY DEF DefaultAt
  <2>2. Child(b, n) = new_dev
    BY <2>1, <1>1 DEF DefaultAt, Sits
  <2>3. new_dev' = new_dev /\ new_dev' # NoDev /\ probe'.pc # "config"
    BY <1>4 DEF Goes
  <2> QED BY <2>1, <2>2, <2>3, <1>18 DEF DefaultAt
<1>21. Linked'
  <2> SUFFICES ASSUME NEW t \in Things, NEW n \in 1 .. NPort[t], taddr[t] \in Addr, ~chg[<<t, n>>],
                      Child(taddr[t], n) # NoDev
               PROVE  /\ plug[<<t, n>>] # Nothing
                      /\ dev'[Child(taddr[t], n)].ifs = "bound" => taddr[plug[<<t, n>>]] = Child(taddr[t], n)
    BY <1>4, <1>5 DEF Linked, Child, Bound
  <2>1. Child(taddr[t], n) \in Addr
    BY Types, Numerals DEF IInv
  <2>2. CASE Child(taddr[t], n) = new_dev
    BY <2>2, <1>3 DEF IInv, Linked, Takes
  <2>3. CASE Child(taddr[t], n) # new_dev
    BY <2>1, <2>3, <1>3 DEF IInv, Linked, Bound
  <2> QED BY <2>2, <2>3
<1>22. Sampled'
  <2>1. \A b \in Addr : hub'[b].pc \in {"ports", "connect"} => hub'[b] = hub[b]
    BY <1>6 DEF NoHub
  <2> QED BY <2>1, <1>4 DEF IInv, Sampled
<1> QED BY <1>9, <1>10, <1>11, <1>12, <1>13, <1>14, <1>15, <1>16, <1>17, <1>19, <1>20, <1>21, <1>22 DEF IInv

\* The thread works on a device, and waits for a reset only in one place.
LEMMA Probing ==
    ASSUME IInv, probe.pc # "idle"
    PROVE  /\ new_dev # NoDev /\ new_dev \in Addr /\ dev[new_dev] \in Device /\ probe \in Probe
           /\ dev[new_dev].devnum = IF probe.pc \in {"desc", "reset"} THEN 0 ELSE new_dev
           /\ probe.pc \in {"desc", "reset"} => dev[new_dev].temp = new_dev
           /\ dev[new_dev].ifs = "none"
           /\ probe.pc # "reset" => \A b \in Addr : hub[b].reset = {}
<1>1. new_dev # NoDev
  BY DEF IInv, Numbers
<1>2. new_dev \in Addr /\ new_dev \in bitmap /\ dev[new_dev].ifs = "none"
  BY <1>1, NewDevIs
<1> QED BY <1>1, <1>2 DEF IInv, Numbers, TypeOK, Resets

\* Once the address is set nothing is left at the default address.
LEMMA Settled == ASSUME IInv, probe.pc = "config" PROVE \A t \in Things : taddr[t] # 0
<1>1. new_dev # NoDev
  BY Probing
<1>2. \A b \in Addr : ~Attaches(b)
  BY <1>1, NewDevIs
<1> QED BY <1>2 DEF IInv, Default, DefaultAt

LEMMA StartInv == ASSUME IInv, ProbeStart PROVE IInv'
<1> DEFINE r == [dev[new_dev] EXCEPT !.temp = dev[new_dev].devnum, !.devnum = 0]
<1>1. /\ probe.pc = "start" /\ new_dev # NoDev /\ new_dev \in Addr /\ dev[new_dev] \in Device /\ probe \in Probe
      /\ dev[new_dev].devnum = new_dev /\ dev[new_dev].ifs = "none" /\ dev \in [Addr -> Device]
      /\ \A b \in Addr : hub[b].reset = {}
  BY Probing DEF ProbeStart, IInv, TypeOK
<1>2. /\ r.temp = new_dev /\ r.devnum = 0 /\ r.ifs = "none" /\ r.live = dev[new_dev].live
      /\ r.parent = dev[new_dev].parent /\ r.children = dev[new_dev].children
      /\ r \in Device
  <2>1. 0 \in 0 .. MaxAddr
    BY Numerals
  <2> QED BY <1>1, <2>1 DEF Device
<1>3. dev' = [dev EXCEPT ![new_dev] = r]
  BY <1>1 DEF ProbeStart
<1> HIDE DEF r
<1>4. Refills(r)
  BY <1>2, <1>3 DEF Refills
<1>5. probe' \in Probe /\ probe'.pc = "desc" /\ new_dev' = new_dev /\ hub' = hub
  BY <1>1 DEF ProbeStart, Probe
<1>6. Goes(r)
  BY <1>1, <1>2, <1>5 DEF Goes
<1>7. Takes(r)
  BY <1>2, <1>5 DEF Takes, IInv, TypeOK
<1>8. UNCHANGED <<plug, chg, taddr, bitmap, fuel>>
  BY DEF ProbeStart, bus
<1> QED BY <1>1, <1>4, <1>6, <1>7, <1>8, ProbeMoves

LEMMA ProbeResetInv == ASSUME IInv, ProbeReset PROVE IInv'
<1> DEFINE r == [dev[new_dev] EXCEPT !.devnum = dev[new_dev].temp]
<1>1. /\ probe.pc = "reset" /\ new_dev # NoDev /\ new_dev \in Addr /\ dev[new_dev] \in Device /\ probe \in Probe
      /\ dev[new_dev].temp = new_dev /\ dev[new_dev].ifs = "none" /\ dev \in [Addr -> Device]
  BY Probing DEF ProbeReset, IInv, TypeOK
<1>2. \A b \in Addr : hub[b].reset = {}
  <2> SUFFICES ASSUME NEW b \in Addr, NEW n \in hub[b].reset PROVE FALSE
    OBVIOUS
  <2>1. n \in 1 .. MaxPort /\ Child(b, n) = new_dev
    BY DEF IInv, Resets
  <2>2. new_dev \in bitmap \ {1}
    BY <1>1, NewDevIs
  <2>3. b = dev[new_dev].parent /\ n = PortOf(new_dev)
    BY <2>1, <2>2, ParentIs
  <2> QED BY <2>3 DEF ProbeReset
<1>3. /\ r.devnum = new_dev /\ r.ifs = "none" /\ r.live = dev[new_dev].live
      /\ r.parent = dev[new_dev].parent /\ r.children = dev[new_dev].children
      /\ r \in Device
  BY <1>1 DEF Device
<1>4. dev' = [dev EXCEPT ![new_dev] = r]
  BY <1>1 DEF ProbeReset
<1> HIDE DEF r
<1>5. Refills(r)
  BY <1>3, <1>4 DEF Refills
<1>6. probe' \in Probe /\ probe'.pc = "addr" /\ new_dev' = new_dev /\ hub' = hub
  BY <1>1 DEF ProbeReset, Probe
<1>7. Goes(r)
  BY <1>1, <1>3, <1>6 DEF Goes
<1>8. Takes(r)
  BY <1>3, <1>6 DEF Takes, IInv, TypeOK
<1>9. UNCHANGED <<plug, chg, taddr, bitmap, fuel>>
  BY DEF ProbeReset, bus
<1> QED BY <1>1, <1>2, <1>5, <1>7, <1>8, <1>9, ProbeMoves

\* The enumeration ends without a driver.
LEMMA FailInv ==
    ASSUME IInv, probe.pc \notin {"idle", "reset"}, NEW i \in {"none", "freed"}, ProbeFail(i),
           \A t \in Things : taddr[t] # 0, UNCHANGED <<plug, chg, taddr, bitmap, hub, fuel>>
    PROVE  IInv'
<1> DEFINE r == [dev[new_dev] EXCEPT !.ifs = i]
<1>1. /\ new_dev # NoDev /\ new_dev \in Addr /\ dev[new_dev] \in Device /\ probe \in Probe
      /\ dev \in [Addr -> Device]
      /\ \A b \in Addr : hub[b].reset = {}
  BY Probing DEF IInv, TypeOK
<1>2. /\ r.ifs # "bound" /\ r.live = dev[new_dev].live
      /\ r.parent = dev[new_dev].parent /\ r.children = dev[new_dev].children
      /\ r \in Device
  BY <1>1 DEF Device
<1>3. dev' = [dev EXCEPT ![new_dev] = r]
  BY <1>1 DEF ProbeFail
<1> HIDE DEF r
<1>4. Refills(r)
  BY <1>2, <1>3 DEF Refills
<1>5. probe' \in Probe /\ probe'.pc = "idle" /\ new_dev' = NoDev
  BY <1>1 DEF ProbeFail, Probe
<1>6. Goes(r)
  BY <1>1, <1>2, <1>5 DEF Goes
<1>7. Takes(r)
  BY <1>2 DEF Takes, IInv, TypeOK
<1> QED BY <1>1, <1>4, <1>6, <1>7, ProbeMoves

LEMMA ConfigInv == ASSUME IInv, OneHub, ProbeConfig PROVE IInv'
<1> DEFINE who == At(dev[new_dev].devnum)
           more == {t \in who : probe.cfg <= Len(Drivers[t])}
<1>1. /\ probe.pc = "config" /\ new_dev # NoDev /\ new_dev \in Addr /\ dev[new_dev] \in Device /\ probe \in Probe
      /\ dev[new_dev].devnum = new_dev /\ dev[new_dev].ifs = "none" /\ dev \in [Addr -> Device]
      /\ \A b \in Addr : hub[b].reset = {}
  BY Probing DEF ProbeConfig, IInv, TypeOK
<1>2. \A t \in Things : taddr[t] # 0
  BY <1>1, Settled
<1>3. UNCHANGED <<plug, chg, taddr, bitmap, fuel>>
  BY DEF ProbeConfig, bus
<1>4. ASSUME NEW t \in more,
             dev' = [dev EXCEPT ![new_dev].ifs = "bound"],
             hub' = IF NPort[t] = 0 THEN hub ELSE [hub EXCEPT ![new_dev] = [NoHub EXCEPT !.pc = "init"]],
             new_dev' = NoDev, probe' = [probe EXCEPT !.pc = "idle"]
      PROVE  IInv'
  <2> DEFINE r == [dev[new_dev] EXCEPT !.ifs = "bound"]
  <2>1. /\ r.ifs = "bound" /\ r.live = dev[new_dev].live /\ r.devnum = new_dev
        /\ r.parent = dev[new_dev].parent /\ r.children = dev[new_dev].children
        /\ r \in Device
    BY <1>1 DEF Device
  <2>2. dev' = [dev EXCEPT ![new_dev] = r]
    BY <1>1, <1>4
  <2> HIDE DEF r
  <2>3. Refills(r)
    BY <2>1, <2>2 DEF Refills
  <2>4. probe' \in Probe /\ probe'.pc = "idle"
    BY <1>1, <1>4 DEF Probe
  <2>5. Goes(r)
    BY <1>1, <1>2, <1>4, <2>1, <2>4 DEF Goes
  <2>6. t \in Things /\ taddr[t] = new_dev /\ new_dev \in bitmap \ {1}
    BY <1>1, <1>4, NewDevIs DEF At
  <2>7. t # Root
    BY <2>6 DEF IInv, HubsAnswer
  <2>8. PICK v \in Things : \E n \in 1 .. NPort[v] : \E b \in Addr : PlacedAt(t, v, n, b)
    BY <1>1, <2>6, <2>7 DEF IInv, Placed
  <2>9. PICK n \in 1 .. NPort[v] : taddr[v] \in Addr /\ Child(taddr[v], n) = new_dev /\ plug[<<v, n>>] = t
    BY <2>6, <2>8 DEF PlacedAt, Sits
  <2>10. ASSUME NEW x \in Things, NEW m \in 1 .. NPort[x], taddr[x] \in Addr, Child(taddr[x], m) = new_dev
         PROVE  x = v /\ m = n
    BY <2>6, <2>9, <2>10, OnePlace
  <2>11. \A x \in Things : \A m \in 1 .. NPort[x] :
            taddr[x] \in Addr /\ Child(taddr[x], m) = new_dev => taddr[plug[<<x, m>>]] = new_dev
    BY <2>6, <2>9, <2>10
  <2>12. CASE NPort[t] = 0
    <3>1. Takes(r)
      BY <1>4, <2>11, <2>12 DEF Takes, IInv, TypeOK
    <3> QED BY <1>1, <1>3, <2>3, <2>5, <3>1, ProbeMoves
  <2>13. CASE NPort[t] # 0
    <3>1. NPort[t] > 0
      BY <2>6, <2>13, Numerals
    <3>2. NPort[Root] = 1
      BY <2>6, <2>7, <3>1 DEF OneHub
    <3>3. v = Root
      <4> SUFFICES ASSUME v # Root PROVE FALSE
        OBVIOUS
      <4>1. NPort[v] > 0
        BY <2>9, Numerals
      <4>2. v = t
        BY <2>6, <2>7, <3>1, <4>1 DEF OneHub
      <4>3. <<v, n>> \in Port /\ <<v, n>>[1] = v
        BY PortIs
      <4> QED BY <2>9, <4>2, <4>3 DEF IInv, Cables
    <3>4. taddr[v] = 1 /\ n \in 1 .. MaxPort
      BY <3>3, Numerals DEF IInv, HubsAnswer
    <3>5. dev[new_dev].parent = 1
      BY <2>6, <2>9, <3>4, ParentIs
    <3>6. ASSUME NEW x \in Things, taddr[x] = new_dev PROVE NPort[x] > 0
      <4>1. x # Root
        BY <2>6, <3>6 DEF IInv, HubsAnswer
      <4>2. PICK y \in Things : \E m \in 1 .. NPort[y] : \E b \in Addr : PlacedAt(x, y, m, b)
        BY <1>1, <3>6, <4>1 DEF IInv, Placed
      <4>3. PICK m \in 1 .. NPort[y] : taddr[y] \in Addr /\ Child(taddr[y], m) = new_dev /\ plug[<<y, m>>] = x
        BY <2>6, <3>6, <4>2 DEF PlacedAt, Sits
      <4>4. x = t
        BY <2>9, <2>10, <4>3
      <4> QED BY <3>1, <4>4
    <3>7. hub' \in [Addr -> Hub] /\ hub'[new_dev] = [NoHub EXCEPT !.pc = "init"]
          /\ \A b \in Addr : b # new_dev => hub'[b] = hub[b]
      <4>1. [NoHub EXCEPT !.pc = "init"] \in Hub
        BY DEF NoHub, Hub
      <4> DEFINE k == [NoHub EXCEPT !.pc = "init"]
      <4>2. hub \in [Addr -> Hub] /\ hub' = [hub EXCEPT ![new_dev] = k]
        BY <1>4, <2>13 DEF IInv, TypeOK
      <4> HIDE DEF k
      <4>3. hub' \in [Addr -> Hub] /\ hub'[new_dev] = k /\ \A b \in Addr : b # new_dev => hub'[b] = hub[b]
        BY <1>1, <4>1, <4>2 DEF k
      <4> QED BY <4>3 DEF k
    <3>8. Takes(r)
      BY <2>1, <2>11, <3>2, <3>5, <3>6, <3>7 DEF Takes
    <3> QED BY <1>1, <1>3, <2>3, <2>5, <3>8, ProbeMoves
  <2> QED BY <2>12, <2>13
<1>5. ASSUME probe' = [probe EXCEPT !.cfg = @ + 1], UNCHANGED <<dev, hub, new_dev>>
      PROVE  IInv'
  <2> DEFINE r == dev[new_dev]
  <2>1. Refills(r)
    BY <1>1, <1>5 DEF Refills
  <2>2. probe' \in Probe /\ probe'.pc = "config"
    <3>1. probe.cfg \in Nat /\ probe.cfg + 1 \in Nat
      BY <1>1 DEF Probe
    <3> QED BY <1>1, <1>5, <3>1 DEF Probe
  <2>3. Goes(r)
    BY <1>1, <1>2, <1>5, <2>2 DEF Goes
  <2>4. Takes(r)
    BY <1>1, <1>5 DEF Takes, IInv, TypeOK
  <2> QED BY <1>1, <1>3, <2>1, <2>3, <2>4, ProbeMoves
<1>6. ASSUME ProbeFail(IF probe.cfg = 1 THEN "none" ELSE "freed"), hub' = hub PROVE IInv'
  <2>1. PICK i \in {"none", "freed"} : ProbeFail(i)
    BY <1>6
  <2> QED BY <1>1, <1>2, <1>3, <1>6, <2>1, FailInv
<1> QED BY <1>4, <1>5, <1>6 DEF ProbeConfig

\* A bit of a hub is set.
LEMMA AsksInv ==
    ASSUME IInv, hub' \in [Addr -> Hub],
           \A b \in Addr : /\ hub'[b].pc = hub[b].pc /\ hub'[b].ports = hub[b].ports
                           /\ hub'[b].counter = hub[b].counter /\ hub'[b].by = hub[b].by
                           /\ hub'[b].sts = hub[b].sts,
           UNCHANGED <<plug, chg, taddr, bitmap, dev, new_dev>>,
           probe' \in Probe, probe'.pc = "config" => probe.pc = "config", fuel' \in Nat,
           Numbers', Resets', Attaching', Pendings'
    PROVE  IInv'
<1>1. /\ plug' = plug /\ chg' = chg /\ taddr' = taddr /\ bitmap' = bitmap /\ dev' = dev /\ new_dev' = new_dev
  OBVIOUS
<1>2. \A b : Bound(b)' = Bound(b) /\ \A n : Child(b, n)' = Child(b, n)
  BY <1>1 DEF Bound, Child
<1>3. \A b \in Addr : On(b)' = On(b) /\ Scans(b)' = Scans(b) /\ Attaches(b)' = Attaches(b)
  BY DEF On, Scans, Attaches
<1>4. TypeOK' /\ Cables'
  BY <1>1 DEF IInv, TypeOK, Cables
<1>5. Tree'
  BY <1>1, <1>2, <1>3 DEF IInv, Tree
<1>6. Hubs'
  <2>1. 1 \in Addr
    BY Numerals
  <2> QED BY <2>1, <1>1, <1>2, <1>3 DEF IInv, Hubs
<1>7. HubsAnswer'
  <2>1. \A t \in Things : taddr[t] \in Addr =>
           On(taddr[t])' = On(taddr[t]) /\ Scans(taddr[t])' = Scans(taddr[t])
           /\ hub'[taddr[t]].ports = hub[taddr[t]].ports
    BY <1>1 DEF On, Scans
  <2> QED BY <2>1, <1>1 DEF IInv, HubsAnswer
<1>8. \A u, t, n, b : Sits(u, t, n, b) => Sits(u, t, n, b)' /\ t \in Things /\ n \in 1 .. NPort[t] /\ b \in Addr
  BY <1>1, <1>3 DEF Sits
<1>9. Placed'
  <2> SUFFICES ASSUME NEW u \in Things \ {Root}, taddr'[u] \in Addr, NEW t, NEW n, NEW b, PlacedAt(u, t, n, b)
               PROVE  PlacedAt(u, t, n, b)' /\ t \in Things /\ n \in 1 .. NPort[t] /\ b \in Addr
    BY <1>1 DEF IInv, Placed
  <2> QED BY <1>1, <1>2, <1>8 DEF PlacedAt
<1>10. Default'
  <2> SUFFICES ASSUME NEW u \in Things, taddr'[u] = 0, NEW t, NEW n, NEW b, DefaultAt(u, t, n, b)
               PROVE  DefaultAt(u, t, n, b)' /\ t \in Things /\ n \in 1 .. NPort[t] /\ b \in Addr
    BY <1>1 DEF IInv, Default
  <2> QED BY <1>1, <1>2, <1>3, <1>8 DEF DefaultAt
<1>11. Linked'
  BY <1>1 DEF IInv, Linked, Child, Bound
<1>12. Sampled'
  BY <1>1 DEF IInv, Sampled
<1> QED BY <1>4, <1>5, <1>6, <1>7, <1>9, <1>10, <1>11, <1>12 DEF IInv

LEMMA DescInv == ASSUME IInv, ProbeDesc PROVE IInv'
<1>1. /\ probe.pc = "desc" /\ new_dev # NoDev /\ new_dev \in Addr /\ probe \in Probe
      /\ \A b \in Addr : hub[b].reset = {}
      /\ hub \in [Addr -> Hub]
  BY Probing DEF ProbeDesc, IInv, TypeOK
<1>2. UNCHANGED <<plug, chg, taddr, bitmap, fuel>>
  BY DEF ProbeDesc, bus
<1> DEFINE a == dev[new_dev].parent
           n == PortOf(new_dev)
<1>3. ASSUME hub' = [hub EXCEPT ![a].reset = @ \cup {n}],
             probe' = [probe EXCEPT !.pc = "reset"], UNCHANGED <<dev, new_dev>>
      PROVE  IInv'
  <2>1. a \in Addr /\ n \in 1 .. MaxPort /\ Child(a, n) = new_dev
    BY <1>1, NewDevIs, ParentIs
  <2> HIDE DEF a, n
  <2> DEFINE g == [hub[a] EXCEPT !.reset = @ \cup {n}]
  <2>2. /\ g \in Hub /\ g.reset = hub[a].reset \cup {n} /\ g.pc = hub[a].pc /\ g.ports = hub[a].ports
        /\ g.counter = hub[a].counter /\ g.by = hub[a].by /\ g.again = hub[a].again /\ g.sts = hub[a].sts
        /\ g.reconnect = hub[a].reconnect
    <3>1. n \in Nat /\ hub[a] \in Hub
      BY <1>1, <2>1, Numerals
    <3> QED BY <3>1 DEF Hub
  <2>3. hub' = [hub EXCEPT ![a] = g]
    BY <1>1, <1>3
  <2> HIDE DEF g
  <2>4. hub' \in [Addr -> Hub] /\ hub'[a] = g /\ \A b \in Addr : b # a => hub'[b] = hub[b]
    BY <1>1, <2>1, <2>2, <2>3
  <2>5. \A b \in Addr : /\ hub'[b].pc = hub[b].pc /\ hub'[b].ports = hub[b].ports
                        /\ hub'[b].counter = hub[b].counter /\ hub'[b].by = hub[b].by
                        /\ hub'[b].again = hub[b].again /\ hub'[b].sts = hub[b].sts
                        /\ hub'[b].reconnect = hub[b].reconnect
                        /\ hub'[b].reset = IF b = a THEN {n} ELSE {}
    BY <1>1, <2>1, <2>2, <2>4
  <2>6. probe' \in Probe /\ probe'.pc = "reset"
    BY <1>1, <1>3 DEF Probe
  <2>7. /\ plug' = plug /\ chg' = chg /\ taddr' = taddr /\ bitmap' = bitmap /\ dev' = dev /\ new_dev' = new_dev
        /\ fuel' \in Nat
    BY <1>2, <1>3 DEF IInv, TypeOK
  <2>8. Numbers'
    BY <1>1, <2>6, <2>7 DEF IInv, Numbers, Bound
  <2>9. Resets'
    BY <1>1, <2>1, <2>5, <2>6, <2>7 DEF IInv, Resets, Child
  <2>10. \A b \in Addr : Attaches(b)' = Attaches(b) /\ Present(b)' = Present(b)
    BY <2>5, <2>7 DEF Attaches, Present
  <2>11. Attaching'
    BY <2>5, <2>7, <2>10 DEF IInv, Attaching, AttachingAt, Child
  <2>12. Pendings'
    <3> SUFFICES ASSUME NEW b \in Addr, NEW m \in 1 .. MaxPort, Child(b, m)' # NoDev, Pending(b, m)'
                 PROVE  Doomed(Child(b, m))'
      BY DEF Pendings
    <3>1. Child(b, m)' = Child(b, m) /\ Child(b, m) \in Addr
      BY <2>7, Types DEF Child, IInv
    <3>2. Pending(b, m)
      BY <2>5, <2>7 DEF Pending
    <3>3. Doomed(Child(b, m))
      BY <3>1, <3>2 DEF IInv, Pendings
    <3> QED BY <2>5, <2>7, <3>1, <3>3 DEF Doomed, Bound, Present, On, Child
  <2> QED BY <2>4, <2>5, <2>6, <2>7, <2>8, <2>9, <2>11, <2>12, AsksInv
<1>4. ASSUME At(0) = {}, ProbeFail("none"), hub' = hub PROVE IInv'
  <2>1. \A t \in Things : taddr[t] # 0
    BY <1>4 DEF At
  <2>2. "none" \in {"none", "freed"} /\ probe.pc \notin {"idle", "reset"}
    BY <1>1
  <2> QED BY <1>2, <1>4, <2>1, <2>2, FailInv
<1> QED BY <1>3, <1>4 DEF ProbeDesc

LEMMA ReconnectInv == ASSUME IInv, ~rough', NEW a \in Addr, Reconnect(a) PROVE IInv'
<1> DEFINE p == dev[a].parent
           n == PortOf(a)
<1>1. a \in bitmap \ {1} /\ Bound(a) /\ ~On(a)
  BY DEF Reconnect, IInv, Tree, Bound, On
<1>2. p \in Addr /\ n \in 1 .. MaxPort /\ Child(p, n) = a /\ a # NoDev
  BY <1>1, ParentIs
<1>3. /\ hub' = [hub EXCEPT ![p].reconnect = @ \cup {n}] /\ fuel' \in Nat
      /\ plug' = plug /\ chg' = chg /\ taddr' = taddr /\ bitmap' = bitmap /\ dev' = dev /\ new_dev' = new_dev
      /\ probe' = probe /\ ~(hub[p].counter = n /\ hub[p].pc = "connect") /\ hub \in [Addr -> Hub]
  <2>1. fuel' \in Nat
    BY DEF Reconnect, IInv, TypeOK
  <2> QED BY <2>1 DEF Reconnect, bus, Busy, IInv, TypeOK
<1> HIDE DEF p, n
<1> DEFINE g == [hub[p] EXCEPT !.reconnect = @ \cup {n}]
<1>4. /\ g \in Hub /\ g.reset = hub[p].reset /\ g.pc = hub[p].pc /\ g.ports = hub[p].ports
      /\ g.counter = hub[p].counter /\ g.by = hub[p].by /\ g.again = hub[p].again /\ g.sts = hub[p].sts
      /\ g.reconnect = hub[p].reconnect \cup {n}
  <2>1. n \in Nat /\ hub[p] \in Hub
    BY <1>2, <1>3, Numerals
  <2> QED BY <2>1 DEF Hub
<1>5. hub' = [hub EXCEPT ![p] = g]
  BY <1>3
<1> HIDE DEF g
<1>6. hub' \in [Addr -> Hub] /\ hub'[p] = g /\ \A b \in Addr : b # p => hub'[b] = hub[b]
  BY <1>2, <1>3, <1>4, <1>5
<1>7. \A b \in Addr : /\ hub'[b].pc = hub[b].pc /\ hub'[b].ports = hub[b].ports
                      /\ hub'[b].counter = hub[b].counter /\ hub'[b].by = hub[b].by
                      /\ hub'[b].again = hub[b].again /\ hub'[b].sts = hub[b].sts
                      /\ hub'[b].reset = hub[b].reset
                      /\ hub'[b].reconnect = IF b = p THEN hub[b].reconnect \cup {n} ELSE hub[b].reconnect
  BY <1>2, <1>4, <1>6
<1>8. Numbers'
  BY <1>3 DEF IInv, Numbers, Bound
<1>9. Resets'
  BY <1>3, <1>7 DEF IInv, Resets, Child
<1>10. \A b \in Addr : Attaches(b)' = Attaches(b) /\ Present(b)' = Present(b)
  BY <1>3, <1>7 DEF Attaches, Present
<1>11. Attaching'
  <2> SUFFICES ASSUME NEW b \in Addr PROVE AttachingAt(b)'
    BY DEF Attaching
  <2>1. AttachingAt(b)
    BY DEF IInv, Attaching
  <2>2. Attaches(b) \/ hub[b].pc = "connect" => ~(b = p /\ hub[b].counter = n)
    BY <2>1, <1>2, <1>3 DEF AttachingAt
  <2> QED BY <2>1, <2>2, <1>3, <1>7, <1>10 DEF AttachingAt, Child
<1>12. Pendings'
  <2> SUFFICES ASSUME NEW b \in Addr, NEW m \in 1 .. MaxPort, Child(b, m)' # NoDev, Pending(b, m)'
               PROVE  Doomed(Child(b, m))'
    BY DEF Pendings
  <2>1. Child(b, m)' = Child(b, m) /\ Child(b, m) \in Addr
    BY <1>3, Types DEF Child, IInv
  <2>2. Doomed(Child(b, m))
    <3>1. CASE b = p /\ m = n
      <4>1. \A k \in 1 .. MaxPort : Child(a, k) = NoDev
        BY <1>1 DEF IInv, Tree, On, Scans
      <4> QED BY <3>1, <4>1, <1>1, <1>2 DEF Doomed
    <3>2. CASE ~(b = p /\ m = n)
      <4>1. Pending(b, m)
        BY <3>2, <1>3, <1>7 DEF Pending
      <4> QED BY <4>1, <2>1 DEF IInv, Pendings
    <3> QED BY <3>1, <3>2
  <2> QED BY <1>3, <1>7, <2>1, <2>2 DEF Doomed, Bound, Present, On, Child
<1>13. probe' \in Probe
  BY <1>3 DEF IInv, TypeOK
<1> QED BY <1>3, <1>6, <1>7, <1>8, <1>9, <1>11, <1>12, <1>13, AsksInv

\* The thing at the default address gets the address of the device.
LEMMA ProbeAddrInv == ASSUME IInv, OneHub, ProbeAddr PROVE IInv'
<1>1. /\ probe.pc = "addr" /\ new_dev # NoDev /\ new_dev \in Addr /\ probe \in Probe
      /\ dev[new_dev].devnum = new_dev
      /\ \A b \in Addr : hub[b].reset = {}
  BY Probing DEF ProbeAddr
<1>2. UNCHANGED <<plug, chg, bitmap, hub, fuel>>
  BY DEF ProbeAddr
<1>3. CASE At(0) = {}
  <2>1. ProbeFail("none") /\ taddr' = taddr
    BY <1>3 DEF ProbeAddr
  <2>2. \A t \in Things : taddr[t] # 0
    BY <1>3 DEF At
  <2>3. "none" \in {"none", "freed"} /\ probe.pc \notin {"idle", "reset"}
    BY <1>1
  <2> QED BY <1>2, <2>1, <2>2, <2>3, FailInv
<1>4. CASE At(0) # {}
  <2>1. /\ \A t \in Things : taddr'[t] = IF taddr[t] = 0 THEN new_dev ELSE taddr[t]
        /\ taddr' \in [Things -> -2 .. MaxAddr]
        /\ probe' \in Probe /\ probe'.pc = "config"
        /\ plug' = plug /\ chg' = chg /\ bitmap' = bitmap /\ hub' = hub /\ fuel' = fuel
        /\ dev' = dev /\ new_dev' = new_dev
    <3>1. /\ taddr' = [t \in Things |-> IF t \in At(0) THEN new_dev ELSE taddr[t]]
          /\ probe' = [probe EXCEPT !.pc = "config"] /\ dev' = dev /\ new_dev' = new_dev
      BY <1>1, <1>4 DEF ProbeAddr
    <3>2. new_dev \in -2 .. MaxAddr /\ taddr \in [Things -> -2 .. MaxAddr]
      BY <1>1, Numerals DEF IInv, TypeOK
    <3>3. probe' \in Probe /\ probe'.pc = "config"
      BY <1>1, <3>1 DEF Probe
    <3>4. taddr' \in [Things -> -2 .. MaxAddr]
      BY <3>1, <3>2
    <3> QED BY <1>2, <3>1, <3>3, <3>4 DEF At
  <2>2. /\ new_dev \in bitmap \ {1} /\ ~On(new_dev) /\ ~Scans(new_dev)
        /\ \A b \in Addr : ~Attaches(b) /\ ~(hub[b].pc = "connect" /\ Present(b))
        /\ \A n \in 1 .. MaxPort : Child(new_dev, n) = NoDev
    BY <1>1, NewDevIs DEF IInv, Tree
  <2>3. /\ new_dev # 0 /\ 0 \notin Addr
    BY <1>1, Numerals DEF NoDev
  <2>4. \A b : Bound(b)' = Bound(b) /\ \A n : Child(b, n)' = Child(b, n)
    BY <2>1 DEF Bound, Child
  <2>5. \A b \in Addr : On(b)' = On(b) /\ Scans(b)' = Scans(b) /\ Attaches(b)' = Attaches(b)
    BY <2>1 DEF On, Scans, Attaches
  <2>6. \A t \in Things : \A b \in Addr : b # new_dev => (taddr'[t] = b <=> taddr[t] = b)
    BY <2>1, <2>3
  <2>7. \A b \in Addr : b # new_dev => Present(b)' = Present(b)
    BY <2>6 DEF Present
  <2>8. TypeOK' /\ Cables'
    BY <2>1 DEF IInv, TypeOK, Cables
  <2>9. Tree'
    BY <2>1, <2>4, <2>5 DEF IInv, Tree
  <2>10. Hubs'
    <3>1. 1 \in Addr
      BY Numerals
    <3> QED BY <3>1, <2>1, <2>4, <2>5 DEF IInv, Hubs
  <2>11. Numbers'
    BY <1>1, <2>1, <2>4 DEF IInv, Numbers
  <2>12. Resets'
    BY <1>1, <2>1 DEF IInv, Resets
  <2>13. Attaching'
    <3> SUFFICES ASSUME NEW b \in Addr PROVE AttachingAt(b)'
      BY DEF Attaching
    <3>1. ~(hub'[b].pc = "connect" /\ Present(b)')
      <4>1. hub[b].pc = "connect" => b # new_dev
        BY <2>2 DEF On
      <4> QED BY <4>1, <2>1, <2>2, <2>7
    <3>2. AttachingAt(b)
      BY DEF IInv, Attaching
    <3> QED BY <3>1, <3>2, <2>1, <2>2, <2>5 DEF AttachingAt
  <2>14. Pendings'
    <3> SUFFICES ASSUME NEW b \in Addr, NEW m \in 1 .. MaxPort, Child(b, m)' # NoDev, Pending(b, m)'
                 PROVE  Doomed(Child(b, m))'
      BY DEF Pendings
    <3>1. Child(b, m)' = Child(b, m) /\ Child(b, m) \in Addr /\ b # new_dev
      BY <2>1, <2>2, Types DEF Child, IInv
    <3>2. Pending(b, m)
      BY <2>1, <2>6, <3>1 DEF Pending
    <3>3. Doomed(Child(b, m))
      BY <3>1, <3>2 DEF IInv, Pendings
    <3>4. On(Child(b, m)) => Child(b, m) # new_dev
      BY <2>2
    <3>5. On(Child(b, m)) => ~\E t \in Things : taddr'[t] = Child(b, m)
      BY <2>6, <3>1, <3>3, <3>4 DEF Doomed, Present
    <3> QED BY <2>1, <3>1, <3>3, <3>5 DEF Doomed, Bound, Present, On, Child
  <2>15. HubsAnswer'
    <3>1. \A t \in Things : (taddr'[t] = 1) = (t = Root)
      BY <2>2, <2>6, Numerals DEF IInv, HubsAnswer
    <3>2. ASSUME NEW t \in Things \ {Root}, taddr'[t] \in Addr, On(taddr[t])'
          PROVE NPort[t] > 0 /\ (Scans(taddr[t])' => hub'[taddr'[t]].ports = NPort[t])
      <4>1. hub[taddr'[t]].pc # "off"
        BY <3>2, <2>1 DEF On
      <4>2. taddr'[t] # new_dev
        BY <4>1, <2>2 DEF On
      <4>3. taddr'[t] = taddr[t]
        BY <4>2, <2>1
      <4> QED BY <3>2, <4>3, <2>1 DEF IInv, HubsAnswer, On, Scans
    <3> QED BY <3>1, <3>2 DEF HubsAnswer
  <2>16. \A u, t, n, b : Sits(u, t, n, b) => Sits(u, t, n, b)' /\ t \in Things /\ n \in 1 .. NPort[t] /\ b \in Addr
    BY <2>1, <2>3, <2>5 DEF Sits
  <2>17. Placed'
    <3> SUFFICES ASSUME NEW u \in Things \ {Root}, taddr'[u] \in Addr
                 PROVE  \E t \in Things : \E n \in 1 .. NPort[t] : \E b \in Addr : PlacedAt(u, t, n, b)'
      BY DEF Placed
    <3>1. CASE taddr[u] = 0
      <4>1. PICK t, n, b : DefaultAt(u, t, n, b)
        BY <3>1 DEF IInv, Default
      <4>2. Sits(u, t, n, b) /\ Child(b, n) = new_dev
        BY <4>1, <2>2 DEF DefaultAt, Sits
      <4>3. PlacedAt(u, t, n, b)' /\ t \in Things /\ n \in 1 .. NPort[t] /\ b \in Addr
        BY <4>2, <3>1, <2>1, <2>4, <2>16 DEF PlacedAt
      <4> QED BY <4>3
    <3>2. CASE taddr[u] # 0
      <4>1. taddr'[u] = taddr[u]
        BY <3>2, <2>1
      <4>2. PICK t, n, b : PlacedAt(u, t, n, b)
        BY <4>1 DEF IInv, Placed
      <4>3. PlacedAt(u, t, n, b)' /\ t \in Things /\ n \in 1 .. NPort[t] /\ b \in Addr
        BY <4>1, <4>2, <2>1, <2>4, <2>16 DEF PlacedAt
      <4> QED BY <4>3
    <3> QED BY <3>1, <3>2
  <2>18. Default'
    BY <2>1, <2>3 DEF Default
  <2>19. Linked'
    <3> SUFFICES ASSUME NEW t \in Things, NEW n \in 1 .. NPort[t], taddr'[t] \in Addr, ~chg[<<t, n>>],
                        Child(taddr'[t], n) # NoDev
                 PROVE  /\ plug[<<t, n>>] # Nothing
                        /\ Bound(Child(taddr'[t], n)) => taddr'[plug[<<t, n>>]] = Child(taddr'[t], n)
      BY <2>1 DEF Linked, Child, Bound
    <3>1. n \in 1 .. MaxPort
      BY Numerals
    <3>2. taddr'[t] # new_dev
      BY <3>1, <2>2
    <3>3. taddr'[t] = taddr[t]
      BY <3>2, <2>1
    <3>4. /\ plug[<<t, n>>] # Nothing
          /\ Bound(Child(taddr[t], n)) => taddr[plug[<<t, n>>]] = Child(taddr[t], n)
      BY <3>3 DEF IInv, Linked
    <3>5. Child(taddr[t], n) \in Addr /\ plug[<<t, n>>] \in Things
      BY <3>1, <3>3, <3>4, Types DEF IInv
    <3> QED BY <3>3, <3>4, <3>5, <2>1, <2>3
  <2>20. Sampled'
    <3>1. \A b \in Addr : hub[b].pc \in {"ports", "connect"} => b # new_dev
      BY <2>2 DEF On
    <3> QED BY <3>1, <2>1, <2>6 DEF IInv, Sampled
  <2> QED BY <2>8, <2>9, <2>10, <2>11, <2>12, <2>13, <2>14, <2>15, <2>17, <2>18, <2>19, <2>20 DEF IInv
<1> QED BY <1>3, <1>4

-----------------------------------------------------------------------------
(* A port is reset.                                                        *)

\* What is cut off from the bus with u.
Cut(u) == {u} \cup Below(u)

LEMMA CutIs ==
    ASSUME IInv, OneHub, NEW u \in Things \ {Root}
    PROVE  /\ Under(u) = Cut(u) /\ Root \notin Cut(u) /\ u \in Cut(u)
           /\ \A t \in Things : \A n \in 1 .. NPort[t] :
                 /\ plug[<<t, n>>] = u => t \notin Cut(u)
                 /\ plug[<<t, n>>] \in Things /\ plug[<<t, n>>] \notin Cut(u) => t \notin Cut(u)
                 /\ plug[<<t, n>>] \in Cut(u) => plug[<<t, n>>] = u \/ t = u
                 /\ t \in Cut(u) => t = u
<1>1. Under(u) = Cut(u) /\ u \in Cut(u)
  BY UnderIs DEF IInv, Cut
<1>2. \A t \in Things : \A n \in 1 .. NPort[t] : plug[<<t, n>>] \in (Things \ {Root}) \cup {Nothing} /\ <<t, n>> \in Port
  BY PortIs DEF IInv, TypeOK
<1>3. Root \notin Cut(u)
  BY <1>2, Numerals DEF Cut, Below
<1>4. ASSUME NEW t \in Things, NEW n \in 1 .. NPort[t], t \in Cut(u) PROVE t = u
  <2> SUFFICES ASSUME t \in Below(u) PROVE t = u
    BY <1>4 DEF Cut
  <2>1. NPort[t] > 0 /\ NPort[u] > 0 /\ t # Root
    <3>1. NPort[t] \in Nat /\ NPort[u] \in Nat
      BY Numerals
    <3>2. PICK m \in 1 .. NPort[u] : plug[<<u, m>>] = t
      BY DEF Below
    <3>3. NPort[t] > 0 /\ NPort[u] > 0
      BY <3>1, <3>2
    <3> QED BY <1>3, <1>4, <3>3
  <2> QED BY <2>1 DEF OneHub
<1>5. ASSUME NEW t \in Things, NEW n \in 1 .. NPort[t], plug[<<t, n>>] = u, t \in Cut(u) PROVE FALSE
  <2>1. t = u
    BY <1>4, <1>5
  <2>2. plug[<<t, n>>] # <<t, n>>[1]
    BY <1>2 DEF IInv, Cables
  <2> QED BY <1>5, <2>1, <2>2
<1>6. ASSUME NEW t \in Things, NEW n \in 1 .. NPort[t], plug[<<t, n>>] \in Things, plug[<<t, n>>] \notin Cut(u), t \in Cut(u)
      PROVE  FALSE
  <2>1. t = u
    BY <1>4, <1>6
  <2> QED BY <1>6, <2>1 DEF Cut, Below
<1>7. ASSUME NEW t \in Things, NEW n \in 1 .. NPort[t], plug[<<t, n>>] \in Cut(u), plug[<<t, n>>] # u
      PROVE  t = u
  <2>1. PICK m \in 1 .. NPort[u] : plug[<<u, m>>] = plug[<<t, n>>]
    BY <1>7 DEF Cut, Below
  <2>2. plug[<<t, n>>] # Nothing
    BY <1>7, Numerals DEF Cut, Below
  <2>3. <<u, m>> = <<t, n>>
    BY <1>2, <2>1, <2>2 DEF IInv, Cables
  <2> QED BY <2>3
<1> QED BY <1>1, <1>3, <1>4, <1>5, <1>6, <1>7

LEMMA ResetInv == ASSUME IInv, OneHub, NEW a \in Addr, HubReset(a) PROVE IInv'
<1>1. /\ hub[a].pc = "reset" /\ Scans(a) /\ On(a) /\ hub \in [Addr -> Hub] /\ hub[a] \in Hub
      /\ hub[a].by \in {"scan", "connect"}
  BY DEF HubReset, Scans, On, IInv, TypeOK, Hub
<1>2. UNCHANGED <<plug, chg, bitmap, dev, new_dev, probe, fuel>>
  BY DEF HubReset
<1>3. CASE HubAt(a) = {}
  <2>1. Moves(a, Abandon(hub[a]))
    BY <1>1, <1>2, <1>3, PortAtIs DEF HubReset, Moves
  <2> QED BY <1>1, <1>3, <2>1, AbandonInv
<1>4. CASE HubAt(a) # {}
  <2> DEFINE n == hub[a].counter
  <2>1. PICK t \in HubAt(a) :
              LET w == plug[<<t, n>>]
              IN  /\ hub' = [hub EXCEPT ![a].pc = "enabled"]
                  /\ taddr' = [v \in Things |->
                                IF v = w THEN IF w \in Mute THEN Silent ELSE 0
                                ELSE IF w # Nothing /\ v \in Under(w) THEN Off
                                ELSE taddr[v]]
    BY <1>1, <1>4, PortAtIs DEF HubReset
  <2> DEFINE u == plug[<<t, n>>]
             X == IF u = Nothing THEN {} ELSE Cut(u)
  <2>2. t \in Things /\ taddr[t] = a
    BY <1>1, HubAtIs
  <2>3. n \in 1 .. NPort[t] /\ n \in 1 .. MaxPort
    BY <1>1, <2>2, PortsAre
  <2>4. u \in (Things \ {Root}) \cup {Nothing}
    BY <2>2, <2>3, Types DEF IInv
  <2>5. /\ \A v \in Things : v \notin X => taddr'[v] = taddr[v]
        /\ \A v \in Things : v \in X => taddr'[v] \notin Addr /\ (taddr'[v] = 0 => v = u)
        /\ taddr' \in [Things -> -2 .. MaxAddr]
    <3>1. \A v \in Things : taddr'[v] = IF v = u THEN IF u \in Mute THEN -2 ELSE 0
                                       ELSE IF u # Nothing /\ v \in Under(u) THEN -1
                                       ELSE taddr[v]
      BY <2>1 DEF Silent, Off
    <3>2. u # Nothing => Under(u) = Cut(u) /\ u \in Cut(u)
      BY <2>4, CutIs
    <3>3. Addr = 1 .. MaxAddr /\ MaxAddr \in Nat
      BY Numerals
    <3>4. taddr' \in [Things -> -2 .. MaxAddr]
      <4>1. taddr' = [v \in Things |-> taddr'[v]]
        BY <2>1
      <4>2. \A v \in Things : taddr'[v] \in -2 .. MaxAddr
        BY <3>1, <3>3, SMTT(30) DEF IInv, TypeOK
      <4> QED BY <4>1, <4>2
    <3>5. \A v \in Things : v = u => u # Nothing
      BY Numerals
    <3> HIDE DEF u
    <3> QED BY <3>1, <3>2, <3>3, <3>4, <3>5
  <2>6. /\ Root \notin X /\ t \notin X
        /\ \A x \in Things : \A m \in 1 .. NPort[x] :
              /\ plug[<<x, m>>] \in Things /\ plug[<<x, m>>] \notin X => x \notin X
              /\ plug[<<x, m>>] \in X => plug[<<x, m>>] = u \/ x \in X
    <3>1. CASE u = Nothing
      BY <3>1
    <3>2. CASE u # Nothing
      BY <3>2, <2>2, <2>3, <2>4, CutIs
    <3> QED BY <3>1, <3>2
  <2>7. \A x \in Things : \A m \in 1 .. NPort[x] : plug[<<x, m>>] = u /\ u # Nothing => x = t /\ m = n
    BY <2>2, <2>3, PortIs DEF IInv, Cables
  <2> HIDE DEF X, u
  <2> DEFINE g == [hub[a] EXCEPT !.pc = "enabled"]
  <2>8. /\ g \in Hub /\ g.pc = "enabled" /\ g.reset = hub[a].reset /\ g.ports = hub[a].ports
        /\ g.counter = n /\ g.by = hub[a].by /\ g.again = hub[a].again /\ g.sts = hub[a].sts
        /\ g.reconnect = hub[a].reconnect
    BY <1>1 DEF Hub
  <2>9. hub' = [hub EXCEPT ![a] = g]
    BY <1>1, <2>1
  <2> HIDE DEF g
  <2>10. /\ hub' \in [Addr -> Hub] /\ hub'[a] = g /\ \A b \in Addr : b # a => hub'[b] = hub[b]
    BY <1>1, <2>8, <2>9
  <2>11. \A b \in Addr : /\ hub'[b].reset = hub[b].reset /\ hub'[b].ports = hub[b].ports
                         /\ hub'[b].counter = hub[b].counter /\ hub'[b].by = hub[b].by
                         /\ hub'[b].again = hub[b].again /\ hub'[b].sts = hub[b].sts
                         /\ hub'[b].reconnect = hub[b].reconnect
                         /\ hub'[b].pc = IF b = a THEN "enabled" ELSE hub[b].pc
    BY <2>8, <2>10
  <2>12. \A b \in Addr : On(b)' = On(b) /\ Scans(b)' = Scans(b) /\ Attaches(b)' = Attaches(b)
    BY <1>1, <2>11 DEF On, Scans, Attaches, Connecting
  <2>13. \A b : Bound(b)' = Bound(b) /\ \A m : Child(b, m)' = Child(b, m)
    BY <1>2 DEF Bound, Child
  <2>14. \A v \in Things : taddr'[v] \in Addr => v \notin X /\ taddr'[v] = taddr[v]
    BY <2>5
  <2>15. \A b \in Addr : Present(b)' => Present(b)
    BY <2>14 DEF Present
  <2>16. hub[a].by = "scan" => n \in hub[a].reset /\ Child(a, n) = new_dev /\ new_dev # NoDev /\ probe.pc = "reset"
    BY <1>1 DEF IInv, Resets
  <2>17. hub[a].by = "connect" => Attaches(a) /\ Child(a, n) = NoDev
    BY <1>1 DEF IInv, Attaching, AttachingAt, Attaches, Connecting
  <2>18. TypeOK' /\ Cables'
    BY <1>2, <2>5, <2>10 DEF IInv, TypeOK, Cables
  <2>19. Tree'
    BY <1>2, <2>11, <2>12, <2>13 DEF IInv, Tree
  <2>20. Hubs'
    <3>1. 1 \in Addr
      BY Numerals
    <3>2. \A b \in Addr : hub'[b].pc = "init" => hub[b].pc = "init"
      BY <2>11
    <3> QED BY <3>1, <3>2, <1>2, <2>11, <2>12, <2>13 DEF IInv, Hubs
  <2>21. Numbers'
    BY <1>2, <2>13 DEF IInv, Numbers
  <2>22. Resets'
    <3> SUFFICES ASSUME NEW b \in Addr
                 PROVE (/\ \A m \in hub[b].reset : /\ m \in 1 .. MaxPort /\ Child(b, m) = new_dev
                                                   /\ new_dev # NoDev /\ probe.pc = "reset"
                        /\ hub[b].pc \in {"reset", "enabled"} /\ hub[b].by = "scan" => hub[b].counter \in hub[b].reset
                        /\ hub[b].pc = "wait" => hub[b].by = "connect")'
      BY DEF Resets
    <3>1. /\ \A m \in hub[b].reset : /\ m \in 1 .. MaxPort /\ Child(b, m) = new_dev
                                     /\ new_dev # NoDev /\ probe.pc = "reset"
          /\ hub[b].pc \in {"reset", "enabled"} /\ hub[b].by = "scan" => hub[b].counter \in hub[b].reset
          /\ hub[b].pc = "wait" => hub[b].by = "connect"
      BY DEF IInv, Resets
    <3> QED BY <3>1, <1>1, <1>2, <2>11, <2>13
  <2>23. Attaching'
    <3> SUFFICES ASSUME NEW b \in Addr PROVE AttachingAt(b)'
      BY DEF Attaching
    <3>1. AttachingAt(b)
      BY DEF IInv, Attaching
    <3>2. Attaches(b) => Present(b)'
      <4> SUFFICES ASSUME Attaches(b) PROVE Present(b)'
        OBVIOUS
      <4>1. new_dev = NoDev
        BY <3>1 DEF AttachingAt
      <4>2. hub[a].by = "connect"
        BY <1>1, <4>1, <2>16
      <4>3. b = a
        BY <4>2, <2>17, Alone
      <4> QED BY <4>3, <2>2, <2>5, <2>6 DEF Present
    <3>3. \A x \in Things : taddr'[x] = b => taddr[x] = b
      BY <2>14
    <3> QED BY <3>1, <3>2, <3>3, <1>2, <2>11, <2>12, <2>13, <2>15 DEF AttachingAt
  <2>24. Pendings'
    <3> SUFFICES ASSUME NEW b \in Addr, NEW m \in 1 .. MaxPort, Child(b, m)' # NoDev, Pending(b, m)'
                 PROVE  Doomed(Child(b, m))'
      BY DEF Pendings
    <3>1. Child(b, m)' = Child(b, m) /\ Child(b, m) \in Addr
      BY <1>2, <2>13, Types DEF IInv
    <3>2. \A x \in Things : taddr'[x] = b => taddr[x] = b
      BY <2>14
    <3>3. Pending(b, m)
      BY <1>2, <2>11, <3>2 DEF Pending
    <3>4. Doomed(Child(b, m))
      BY <3>1, <3>3 DEF IInv, Pendings
    <3>5. \A x \in Things : taddr'[x] = Child(b, m) => taddr[x] = Child(b, m)
      BY <2>14, <3>1
    <3>6. hub'[Child(b, m)].pc # "off" => On(Child(b, m))
      BY <1>1, <2>11, <3>1 DEF On
    <3> QED BY <1>2, <3>1, <3>4, <3>5, <3>6 DEF Doomed, Bound, Present, On, Child
  <2>25. HubsAnswer'
    <3>1. \A x \in Things : (taddr'[x] = 1) = (x = Root)
      BY <2>5, <2>6, <2>14, Numerals DEF IInv, HubsAnswer
    <3>2. ASSUME NEW x \in Things \ {Root}, taddr'[x] \in Addr, On(taddr[x])'
          PROVE NPort[x] > 0 /\ (Scans(taddr[x])' => hub'[taddr'[x]].ports = NPort[x])
      <4>1. taddr'[x] = taddr[x] /\ taddr[x] \in Addr
        BY <3>2, <2>14
      <4>2. On(taddr[x]) /\ (Scans(taddr[x])' => Scans(taddr[x])) /\ hub'[taddr[x]].ports = hub[taddr[x]].ports
        BY <3>2, <4>1, <1>1, <2>11 DEF On, Scans
      <4> QED BY <3>2, <4>1, <4>2 DEF IInv, HubsAnswer
    <3> QED BY <3>1, <3>2 DEF HubsAnswer
  <2>26. \A v, x, m, b : Sits(v, x, m, b) /\ v \in Things /\ v \notin X
             => Sits(v, x, m, b)' /\ x \in Things /\ m \in 1 .. NPort[x] /\ b \in Addr
    BY <1>2, <2>5, <2>6, <2>12 DEF Sits
  <2>27. Placed'
    <3> SUFFICES ASSUME NEW v \in Things \ {Root}, taddr'[v] \in Addr
                 PROVE  \E x \in Things : \E m \in 1 .. NPort[x] : \E b \in Addr : PlacedAt(v, x, m, b)'
      BY DEF Placed
    <3>1. v \notin X /\ taddr'[v] = taddr[v]
      BY <2>14
    <3>2. PICK x, m, b : PlacedAt(v, x, m, b)
      BY <3>1 DEF IInv, Placed
    <3>3. Sits(v, x, m, b)' /\ x \in Things /\ m \in 1 .. NPort[x] /\ b \in Addr
      BY <3>1, <3>2, <2>26 DEF PlacedAt
    <3>4. hub[b].counter = m /\ hub[b].pc = "reset" => b # a
      <4> SUFFICES ASSUME hub[a].counter = m, b = a PROVE FALSE
        OBVIOUS
      <4>1. taddr[x] = a /\ plug[<<x, m>>] = v
        BY <3>2 DEF PlacedAt, Sits
      <4>2. x = t
        BY <1>1, <2>2, <3>3, <4>1, OneThing
      <4>3. v = u
        BY <4>1, <4>2 DEF u
      <4>4. u \in X
        BY <4>3, Numerals DEF X, Cut
      <4> QED BY <3>1, <4>3, <4>4
    <3>5. PlacedAt(v, x, m, b)'
      BY <3>1, <3>2, <3>3, <3>4, <1>2, <2>11, <2>13 DEF PlacedAt
    <3> QED BY <3>3, <3>5
  <2>28. Default'
    <3> SUFFICES ASSUME NEW v \in Things, taddr'[v] = 0
                 PROVE  \E x \in Things : \E m \in 1 .. NPort[x] : \E b \in Addr : DefaultAt(v, x, m, b)'
      BY DEF Default
    <3>1. CASE v \in X
      <4>1. v = u /\ taddr'[t] = a
        BY <3>1, <2>2, <2>5, <2>6
      <4>2. PICK m \in 1 .. NPort[t] : m = n
        BY <2>3
      <4>3. plug[<<t, m>>] = v
        BY <4>1, <4>2 DEF u
      <4>4. Sits(v, t, m, a)'
        BY <1>1, <1>2, <2>2, <2>12, <4>1, <4>3 DEF Sits
      <4>5. \/ hub'[a].counter = m /\ Attaches(a)'
            \/ Child(a, m)' = new_dev' /\ new_dev' # NoDev /\ probe'.pc # "config"
        BY <1>1, <1>2, <2>11, <2>12, <2>13, <2>16, <2>17, <4>2
      <4>6. DefaultAt(v, t, m, a)'
        BY <4>4, <4>5 DEF DefaultAt
      <4> QED BY <4>6, <2>2
    <3>2. CASE v \notin X
      <4>1. PICK x, m, b : DefaultAt(v, x, m, b)
        BY <3>2, <2>5 DEF IInv, Default
      <4>2. Sits(v, x, m, b)' /\ x \in Things /\ m \in 1 .. NPort[x] /\ b \in Addr
        BY <3>2, <4>1, <2>26 DEF DefaultAt
      <4>3. DefaultAt(v, x, m, b)'
        BY <4>1, <4>2, <1>2, <2>11, <2>12, <2>13 DEF DefaultAt
      <4> QED BY <4>2, <4>3
    <3> QED BY <3>1, <3>2
  <2>29. Linked'
    <3> SUFFICES ASSUME NEW x \in Things, NEW m \in 1 .. NPort[x], taddr'[x] \in Addr, ~chg[<<x, m>>],
                        Child(taddr'[x], m) # NoDev
                 PROVE  /\ plug[<<x, m>>] # Nothing
                        /\ Bound(Child(taddr'[x], m)) => taddr'[plug[<<x, m>>]] = Child(taddr'[x], m)
      BY <1>2 DEF Linked, Child, Bound
    <3>1. x \notin X /\ taddr'[x] = taddr[x]
      BY <2>14
    <3>2. /\ plug[<<x, m>>] # Nothing
          /\ Bound(Child(taddr[x], m)) => taddr[plug[<<x, m>>]] = Child(taddr[x], m)
      BY <3>1 DEF IInv, Linked
    <3>3. plug[<<x, m>>] \in Things
      BY <3>2, Types DEF IInv
    <3>4. ASSUME Bound(Child(taddr[x], m)) PROVE plug[<<x, m>>] \notin X
      <4> SUFFICES ASSUME plug[<<x, m>>] \in X PROVE FALSE
        OBVIOUS
      <4>1. plug[<<x, m>>] = u
        BY <3>1, <2>6
      <4>2. x = t /\ m = n
        BY <3>2, <4>1, <2>7
      <4>3. Child(a, n) # NoDev /\ Bound(Child(a, n))
        BY <3>1, <3>4, <4>2, <2>2
      <4>4. Child(a, n) = new_dev /\ new_dev # NoDev
        BY <4>3, <1>1, <2>16, <2>17
      <4> QED BY <4>3, <4>4, NewDevIs
    <3> QED BY <3>1, <3>2, <3>3, <3>4, <2>5
  <2>30. Sampled'
    <3>1. \A b \in Addr : \A x \in Things : taddr'[x] = b => taddr[x] = b
      BY <2>14
    <3>2. \A b \in Addr : hub'[b].pc \in {"ports", "connect"} => hub'[b].pc = hub[b].pc
      BY <2>11
    <3> QED BY <3>1, <3>2, <1>2, <2>11 DEF IInv, Sampled
  <2> QED BY <2>18, <2>19, <2>20, <2>21, <2>22, <2>23, <2>24, <2>25, <2>27, <2>28, <2>29, <2>30 DEF IInv
<1> QED BY <1>3, <1>4

-----------------------------------------------------------------------------
(* A device is attached.                                                   *)

LEMMA AttachInv == ASSUME IInv, OneHub, Roomy, NEW a \in Addr, HubAttach(a) PROVE IInv'
<1>1. hub[a].pc = "wait" /\ new_dev = NoDev /\ bitmap # Addr /\ bitmap \subseteq Addr
  BY Room DEF HubAttach, IInv, TypeOK
<1>2. PICK n : n = hub[a].counter
  OBVIOUS
<1>3. PICK d : d = Min(Addr \ bitmap)
  OBVIOUS
<1>4. d \in Addr /\ d \notin bitmap
  <2>1. Addr \ bitmap \subseteq Nat /\ Addr \ bitmap # {}
    <3>1. Addr \subseteq Nat
      BY Numerals
    <3>2. Addr \ bitmap # {}
      BY <1>1
    <3> QED BY <3>1, <3>2
  <2> QED BY <1>3, <2>1, LeastNumber
<1>5. /\ bitmap' = bitmap \cup {d} /\ new_dev' = d /\ probe' = [pc |-> "start", cfg |-> 1]
      /\ dev' = [dev EXCEPT ![d] = NewDevice(d, a), ![a].children[n] = d]
      /\ hub' = [hub EXCEPT ![a] = Connected(hub[a])]
      /\ plug' = plug /\ chg' = chg /\ taddr' = taddr /\ fuel' = fuel
  BY <1>1, <1>2, <1>3 DEF HubAttach, bus
<1>6. /\ Attaches(a) /\ Scans(a) /\ On(a) /\ hub \in [Addr -> Hub] /\ dev \in [Addr -> Device]
  BY <1>1 DEF IInv, Resets, Attaches, Connecting, Scans, On, TypeOK
<1>7. /\ Present(a) /\ Child(a, n) = NoDev
      /\ \A t \in Things : taddr[t] = a => ~chg[<<t, n>>] /\ plug[<<t, n>>] # Nothing
      /\ n \in hub[a].reconnect => hub[a].again
  BY <1>1, <1>2, <1>6 DEF IInv, Attaching, AttachingAt
<1>8. /\ a \in bitmap /\ a # d /\ d # 1 /\ d # NoDev /\ NoDev \notin Addr
      /\ n \in 1 .. hub[a].ports /\ n \in 1 .. MaxPort
  <2>1. a \in bitmap /\ 1 \in bitmap
    BY <1>6, HubAtIs DEF IInv, Tree
  <2>2. n \in 1 .. hub[a].ports /\ n \in 1 .. MaxPort
    BY <1>2, <1>6, CounterIs
  <2> QED BY <2>1, <2>2, <1>4, Types DEF IInv
<1> DEFINE g == Connected(hub[a])
           r == [dev[a] EXCEPT !.children[n] = d]
<1>9. Rests(hub[a], g) /\ n \notin g.reconnect
  <2>1. hub[a].counter \in 1 .. hub[a].ports /\ hub[a] \in Hub
    BY <1>2, <1>6, <1>8
  <2> QED BY <2>1, <1>2, <1>7, ConnectedRests
<1> HIDE DEF g
<1>10. hub' \in [Addr -> Hub] /\ hub'[a] = g /\ \A b \in Addr : b # a => hub'[b] = hub[b]
  BY <1>5, <1>6, <1>9 DEF Rests, g
<1>11. /\ r \in Device /\ r.live = dev[a].live /\ r.parent = dev[a].parent /\ r.devnum = dev[a].devnum
       /\ r.temp = dev[a].temp /\ r.ifs = dev[a].ifs
       /\ \A m \in 1 .. MaxPort : r.children[m] = IF m = n THEN d ELSE dev[a].children[m]
  <2>1. dev[a] \in Device /\ d \in 0 .. MaxAddr
    BY <1>4, <1>6, Types DEF IInv
  <2>2. dev[a].children \in [1 .. MaxPort -> 0 .. MaxAddr]
    BY <2>1 DEF Device
  <2> DEFINE c == [dev[a].children EXCEPT ![n] = d]
  <2>3. c \in [1 .. MaxPort -> 0 .. MaxAddr] /\ \A m \in 1 .. MaxPort : c[m] = IF m = n THEN d ELSE dev[a].children[m]
    BY <2>1, <2>2, <1>8
  <2>4. r = [dev[a] EXCEPT !.children = c]
    BY <2>1 DEF Device
  <2> HIDE DEF c, r
  <2> QED BY <2>1, <2>3, <2>4 DEF Device
<1>12. NewDevice(d, a) \in Device
  <2>1. d \in 0 .. MaxAddr /\ a \in 0 .. MaxAddr /\ 0 \in 0 .. MaxAddr
    BY <1>4, Numerals
  <2>2. NoChildren \in [1 .. MaxPort -> 0 .. MaxAddr]
    BY <2>1 DEF NoChildren, NoDev
  <2> QED BY <2>1, <2>2 DEF NewDevice, Device
<1>13. /\ dev'[d] = NewDevice(d, a) /\ dev'[a] = r /\ \A b \in Addr : b # a /\ b # d => dev'[b] = dev[b]
       /\ dev' \in [Addr -> Device]
  <2> DEFINE f == [dev EXCEPT ![d] = NewDevice(d, a)]
  <2>1. f \in [Addr -> Device] /\ f[d] = NewDevice(d, a) /\ \A b \in Addr : b # d => f[b] = dev[b]
    BY <1>4, <1>6, <1>12
  <2>2. f[a] = dev[a]
    BY <2>1, <1>8
  <2>3. dev' = [f EXCEPT ![a] = [f[a] EXCEPT !.children[n] = d]]
    BY <1>5
  <2>4. dev' = [f EXCEPT ![a] = r]
    BY <2>2, <2>3
  <2> HIDE DEF f, r
  <2> QED BY <2>1, <2>4, <1>4, <1>8, <1>11
<1> HIDE DEF r
<1>14. /\ dev'[d].live = TRUE /\ dev'[d].parent = a /\ dev'[d].devnum = d /\ dev'[d].ifs = "none"
       /\ \A b \in Addr : b # d => /\ dev'[b].live = dev[b].live /\ dev'[b].parent = dev[b].parent
                                  /\ dev'[b].devnum = dev[b].devnum /\ dev'[b].ifs = dev[b].ifs
  BY <1>11, <1>13 DEF NewDevice
<1>15. /\ ~Bound(d)' /\ \A b \in Addr : b # d => Bound(b)' = Bound(b)
       /\ \A b \in Addr : \A m \in 1 .. MaxPort :
             Child(b, m)' = IF b = d THEN NoDev ELSE IF b = a /\ m = n THEN d ELSE Child(b, m)
  <2>1. \A m \in 1 .. MaxPort : dev'[d].children[m] = NoDev
    BY <1>13 DEF NewDevice, NoChildren
  <2> QED BY <2>1, <1>8, <1>11, <1>13, <1>14 DEF Bound, Child
<1>16. /\ \A m \in 1 .. MaxPort : Child(d, m) = NoDev
       /\ \A b \in Addr : \A m \in 1 .. MaxPort : Child(b, m) # d
       /\ ~On(d)
  BY <1>4, <1>8 DEF IInv, Tree, Hubs
<1>17. \A b \in Addr : On(b)' = On(b) /\ Scans(b)' = Scans(b) /\ hub'[b].ports = hub[b].ports
  BY <1>6, <1>9, <1>10 DEF On, Scans, Rests
<1>18. \A b \in Addr : /\ ~Attaches(b)' /\ ~(hub'[b].pc = "connect" /\ Present(b))
                       /\ Attaches(b) => b = a
                       /\ b = a => hub'[b].pc \notin {"connect", "ports"}
  <2>1. ~Attaches(a)' /\ hub'[a].pc \notin {"connect", "ports"}
    BY <1>9, <1>10 DEF Attaches, Connecting, Rests
  <2>2. \A b \in Addr : Attaches(b) \/ (hub[b].pc = "connect" /\ Present(b)) => b = a
    BY <1>6, Alone
  <2> QED BY <2>1, <2>2, <1>10 DEF Attaches
<1>19. Present(a)' = Present(a) /\ \A b : Present(b)' = Present(b)
  BY <1>5 DEF Present
<1>20. TypeOK'
  <2>1. probe' \in Probe /\ new_dev' \in 0 .. MaxAddr /\ bitmap' \subseteq Addr
    BY <1>1, <1>4, <1>5, Numerals DEF Probe
  <2> QED BY <2>1, <1>5, <1>10, <1>13 DEF IInv, TypeOK
<1>21. Cables'
  BY <1>5 DEF IInv, Cables
<1>22. Tree'
  <2>1. bitmap' = {b \in Addr : dev'[b].live}
    <3>1. \A b \in Addr : b \in bitmap <=> dev[b].live
      BY DEF IInv, Tree
    <3>2. \A b \in Addr : b \in bitmap' <=> dev'[b].live
      BY <3>1, <1>5, <1>14
    <3> QED BY <3>2, <1>1, <1>4, <1>5
  <2>2. 1 \in bitmap' /\ dev'[1].parent = NoDev /\ Bound(1)'
    BY <1>5, <1>8, <1>14, <1>15, Numerals DEF IInv, Tree
  <2>3. ASSUME NEW b \in Addr, NEW m \in 1 .. MaxPort, Child(b, m)' # NoDev
        PROVE (/\ Child(b, m) \in bitmap /\ Child(b, m) # 1 /\ dev[Child(b, m)].parent = b
               /\ b \in bitmap /\ Scans(b) /\ m <= hub[b].ports
               /\ \A k \in 1 .. MaxPort : Child(b, k) = Child(b, m) => k = m)'
    <3>1. b # d
      BY <2>3, <1>15
    <3>2. CASE b = a /\ m = n
      <4>1. Child(b, m)' = d
        BY <3>1, <3>2, <1>15
      <4>2. \A k \in 1 .. MaxPort : Child(b, k)' = d => k = m
        BY <3>1, <3>2, <1>15, <1>16
      <4>3. m <= hub'[b].ports
        BY <3>2, <1>6, <1>8, <1>17, CounterIs
      <4> QED BY <3>2, <4>1, <4>2, <4>3, <1>5, <1>6, <1>8, <1>14, <1>17, ZenonT(40)
    <3>3. CASE ~(b = a /\ m = n)
      <4>1. Child(b, m)' = Child(b, m) /\ Child(b, m) # d /\ Child(b, m) # NoDev
        BY <2>3, <3>1, <3>3, <1>15, <1>16
      <4>2. /\ Child(b, m) \in bitmap /\ Child(b, m) # 1 /\ dev[Child(b, m)].parent = b
            /\ b \in bitmap /\ Scans(b) /\ m <= hub[b].ports
            /\ \A k \in 1 .. MaxPort : Child(b, k) = Child(b, m) => k = m
        BY <4>1 DEF IInv, Tree
      <4>3. \A k \in 1 .. MaxPort : Child(b, k)' = Child(b, m) => k = m
        BY <3>1, <4>1, <4>2, <1>15
      <4>4. dev'[Child(b, m)].parent = b
        BY <4>1, <4>2, <1>1, <1>14
      <4> QED BY <4>1, <4>2, <4>3, <4>4, <1>5, <1>17
    <3> QED BY <3>2, <3>3
  <2>4. ASSUME NEW c \in bitmap' \ {1}
        PROVE (/\ dev[c].parent \in Addr
               /\ \E m \in 1 .. MaxPort : Child(dev[c].parent, m) = c)'
    <3>1. CASE c = d
      <4>1. dev'[c].parent = a /\ Child(a, n)' = c
        BY <3>1, <1>8, <1>14, <1>15
      <4> QED BY <4>1, <1>8 DEF Child
    <3>2. CASE c # d
      <4>1. c \in bitmap \ {1} /\ c \in Addr /\ c # NoDev
        BY <3>2, <1>1, <1>5, <1>8
      <4>2. dev[c].parent \in Addr
        BY <4>1 DEF IInv, Tree
      <4>3. PICK m \in 1 .. MaxPort : Child(dev[c].parent, m) = c
        BY <4>1 DEF IInv, Tree
      <4>4. dev[c].parent # d /\ ~(dev[c].parent = a /\ m = n)
        BY <4>1, <4>3, <1>7, <1>16
      <4>5. PICK b \in Addr : b = dev[c].parent
        BY <4>2
      <4>6. Child(b, m)' = c /\ dev'[c].parent = b
        BY <3>2, <4>1, <4>3, <4>4, <4>5, <1>14, <1>15
      <4> QED BY <4>6 DEF Child
    <3> QED BY <3>1, <3>2
  <2> QED BY <2>1, <2>2, <2>3, <2>4 DEF Tree
<1>23. Hubs'
  <2>1. Scans(1)' /\ hub'[1].ports = NPort[Root]
    BY <1>17, Numerals DEF IInv, Hubs
  <2>2. \A b \in Addr : Scans(b)' => hub'[b].counter \in 1 .. hub'[b].ports
    BY <1>9, <1>10, <1>17 DEF IInv, Hubs, Rests
  <2>3. \A b \in Addr : hub'[b].pc = "init" => hub'[b].counter = 1
    BY <1>9, <1>10 DEF IInv, Hubs, Rests
  <2>4. ASSUME NEW b \in Addr \ {1}, On(b)'
        PROVE (/\ b \in bitmap /\ dev[b].parent = 1 /\ Bound(b) /\ NPort[Root] = 1
               /\ Scans(b) => \E t \in Things \ {Root} : NPort[t] > 0 /\ hub[b].ports = NPort[t])'
    <3>1. On(b) /\ b # d
      BY <2>4, <1>16, <1>17
    <3>2. /\ b \in bitmap /\ dev[b].parent = 1 /\ Bound(b) /\ NPort[Root] = 1
          /\ Scans(b) => \E t \in Things \ {Root} : NPort[t] > 0 /\ hub[b].ports = NPort[t]
      BY <3>1 DEF IInv, Hubs
    <3>3. dev'[b].parent = 1 /\ Bound(b)' /\ b \in bitmap'
      BY <3>1, <3>2, <1>5, <1>14, <1>15
    <3> QED BY <3>2, <3>3, <1>17
  <2> QED BY <2>1, <2>2, <2>3, <2>4 DEF Hubs
<1>24. Numbers'
  <2>1. \A b \in bitmap' : Bound(b)' => dev'[b].devnum = b
    <3> SUFFICES ASSUME NEW b \in bitmap', Bound(b)' PROVE dev'[b].devnum = b
      OBVIOUS
    <3>1. CASE b = d
      BY <3>1, <1>14
    <3>2. CASE b # d
      <4>1. b \in bitmap /\ b \in Addr
        BY <3>2, <1>1, <1>5
      <4>2. Bound(b) /\ dev'[b].devnum = dev[b].devnum
        BY <3>2, <4>1, <1>14, <1>15
      <4> QED BY <4>1, <4>2 DEF IInv, Numbers
    <3> QED BY <3>1, <3>2
  <2>2. probe'.pc = "start" /\ new_dev' = d /\ d \in bitmap'
    BY <1>5
  <2> QED BY <2>1, <2>2, <1>8, <1>14 DEF Numbers
<1>25. Resets'
  <2>1. \A b \in Addr : hub[b].reset = {}
    BY <1>1 DEF IInv, Resets
  <2>2. \A b \in Addr : hub'[b].reset = {} /\ hub'[a].pc \notin {"reset", "enabled", "wait"}
    BY <2>1, <1>9, <1>10 DEF Rests
  <2> QED BY <2>2, <1>10 DEF IInv, Resets
<1>26. Attaching'
  BY <1>10, <1>18, <1>19 DEF IInv, Attaching, AttachingAt
<1>27. Pendings'
  <2> SUFFICES ASSUME NEW b \in Addr, NEW m \in 1 .. MaxPort, Child(b, m)' # NoDev, Pending(b, m)'
               PROVE  Doomed(Child(b, m))'
    BY DEF Pendings
  <2>1. Pending(b, m) /\ ~(b = a /\ m = n)
    <3>1. CASE b = a
      <4>1. (\E t \in Things : taddr[t] = a /\ chg[<<t, m>>]) \/ m \in g.reconnect
        BY <3>1, <1>5, <1>10, <1>18 DEF Pending
      <4>2. m # n
        BY <4>1, <1>7, <1>9
      <4> QED BY <3>1, <4>1, <4>2, <1>9 DEF Pending, Rests
    <3>2. CASE b # a
      BY <3>2, <1>5, <1>10 DEF Pending
    <3> QED BY <3>1, <3>2
  <2>2. b # d /\ Child(b, m)' = Child(b, m)
    BY <2>1, <1>15
  <2>3. PICK c : c = Child(b, m)
    OBVIOUS
  <2>4. Doomed(c) /\ c \in Addr /\ c # d
    BY <2>1, <2>2, <2>3, <1>16, Types DEF IInv, Pendings
  <2>5. c # a
    BY <2>4, <1>6, <1>7 DEF Doomed
  <2>6. Bound(c)' /\ (On(c)' => ~Present(c)')
    BY <2>4, <1>15, <1>17, <1>19 DEF Doomed
  <2>7. ASSUME NEW k \in 1 .. MaxPort, Child(c, k)' # NoDev PROVE Bound(Child(c, k))'
    <3>1. Child(c, k)' = Child(c, k) /\ Child(c, k) # d
      BY <2>4, <2>5, <1>15, <1>16
    <3>2. PICK e \in Addr : e = Child(c, k)
      BY <2>4, <2>7, <3>1, Types DEF IInv
    <3>3. Bound(e)' /\ Child(c, k)' = e
      BY <2>4, <2>7, <3>1, <3>2, <1>15 DEF Doomed
    <3> QED BY <3>3 DEF Bound
  <2>8. Doomed(c)' /\ Child(b, m)' = c
    BY <2>2, <2>3, <2>6, <2>7 DEF Doomed
  <2> QED BY <2>8
<1>28. HubsAnswer'
  <2>1. \A t \in Things : taddr[t] \in Addr =>
           On(taddr[t])' = On(taddr[t]) /\ Scans(taddr[t])' = Scans(taddr[t])
           /\ hub'[taddr[t]].ports = hub[taddr[t]].ports
    BY <1>5, <1>6, <1>9, <1>10 DEF On, Scans, Rests
  <2> QED BY <2>1, <1>5 DEF IInv, HubsAnswer
<1>29. \A u, t, m, b : Sits(u, t, m, b) =>
          Sits(u, t, m, b)' /\ t \in Things /\ m \in 1 .. NPort[t] /\ b \in Addr /\ m \in 1 .. MaxPort
  BY <1>5, <1>17, Numerals DEF Sits
<1>30. Placed'
  <2> SUFFICES ASSUME NEW u \in Things \ {Root}, taddr[u] \in Addr, NEW t, NEW m, NEW b, PlacedAt(u, t, m, b)
               PROVE  PlacedAt(u, t, m, b)' /\ t \in Things /\ m \in 1 .. NPort[t] /\ b \in Addr
    BY <1>5 DEF IInv, Placed
  <2>1. Sits(u, t, m, b)' /\ t \in Things /\ m \in 1 .. NPort[t] /\ b \in Addr /\ m \in 1 .. MaxPort
    BY <1>29 DEF PlacedAt
  <2>2. ~(hub[b].pc = "reset" /\ hub[b].by = "connect")
    BY <2>1, <1>1, <1>18 DEF Attaches, Connecting
  <2>3. Child(b, m) = taddr[u]
    BY <2>2 DEF PlacedAt
  <2>4. Child(b, m)' = Child(b, m)
    BY <2>1, <2>3, <1>7, <1>8, <1>15, <1>16
  <2> QED BY <2>1, <2>3, <2>4, <1>5 DEF PlacedAt
<1>31. Default'
  <2> SUFFICES ASSUME NEW u \in Things, taddr[u] = 0, NEW t, NEW m, NEW b, DefaultAt(u, t, m, b)
               PROVE  DefaultAt(u, t, m, b)' /\ t \in Things /\ m \in 1 .. NPort[t] /\ b \in Addr
    BY <1>5 DEF IInv, Default
  <2>1. Sits(u, t, m, b)' /\ t \in Things /\ m \in 1 .. NPort[t] /\ b \in Addr /\ m \in 1 .. MaxPort
    BY <1>29 DEF DefaultAt
  <2>2. b = a /\ m = n
    BY <2>1, <1>1, <1>2, <1>18 DEF DefaultAt
  <2>3. Child(b, m)' = new_dev' /\ new_dev' # NoDev /\ probe'.pc # "config"
    BY <2>2, <1>5, <1>8, <1>15
  <2> QED BY <2>1, <2>3 DEF DefaultAt
<1>32. Linked'
  <2> SUFFICES ASSUME NEW t \in Things, NEW m \in 1 .. NPort[t], taddr'[t] \in Addr, ~chg'[<<t, m>>],
                      Child(taddr[t], m)' # NoDev
               PROVE  /\ plug'[<<t, m>>] # Nothing
                      /\ Bound(Child(taddr[t], m))' => taddr'[plug'[<<t, m>>]] = Child(taddr[t], m)'
    BY DEF Linked
  <2>1. PICK b \in Addr : b = taddr[t]
    BY <1>5
  <2>2. m \in 1 .. MaxPort /\ Child(taddr[t], m)' = Child(b, m)' /\ b # d
    BY <2>1, <1>5, <1>15, Numerals DEF Child
  <2>3. CASE b = a /\ m = n
    <3>1. Child(taddr[t], m)' = d
      BY <2>2, <2>3, <1>15
    <3>2. ~Bound(Child(taddr[t], m))'
      BY <3>1, <1>15 DEF Bound
    <3> QED BY <3>2, <2>1, <2>3, <1>5, <1>7
  <2>4. CASE ~(b = a /\ m = n)
    <3>1. Child(taddr[t], m)' = Child(b, m) /\ Child(b, m) # NoDev
      BY <2>2, <2>4, <1>15
    <3>2. PICK c \in Addr : c = Child(b, m)
      BY <2>2, <3>1, Types DEF IInv
    <3>3. c # d
      BY <2>2, <3>2, <1>16
    <3>4. Bound(Child(taddr[t], m))' => Bound(c)
      <4>1. Bound(Child(taddr[t], m))' = Bound(c)'
        BY <3>1, <3>2 DEF Bound
      <4> QED BY <4>1, <3>3, <1>15
    <3>5. plug[<<t, m>>] # Nothing /\ (Bound(c) => taddr[plug[<<t, m>>]] = c)
      BY <2>1, <3>1, <3>2, <1>5 DEF IInv, Linked
    <3> QED BY <3>1, <3>2, <3>4, <3>5, <1>5
  <2> QED BY <2>3, <2>4
<1>33. Sampled'
  BY <1>5, <1>10, <1>18 DEF IInv, Sampled
<1> QED BY <1>20, <1>21, <1>22, <1>23, <1>24, <1>25, <1>26, <1>27, <1>28, <1>30, <1>31, <1>32, <1>33 DEF IInv

-----------------------------------------------------------------------------
(* A port is connected: what was there is disconnected before.             *)

LEMMA GoneIs ==
    ASSUME IInv, OneHub, Roomy, NEW a \in Addr, NEW n \in 1 .. MaxPort
    PROVE  /\ Child(a, n) = NoDev => Gone(a, n) = {}
           /\ Child(a, n) # NoDev => Child(a, n) \in Gone(a, n)
           /\ Gone(a, n) \subseteq bitmap \ {1} /\ a \notin Gone(a, n)
           /\ \A b \in Gone(a, n) :
                 /\ b # Child(a, n) => ~On(b) /\ \E m \in 1 .. MaxPort : Child(Child(a, n), m) = b
           /\ \A b \in Addr : \A m \in 1 .. MaxPort : Child(b, m) # NoDev =>
                 (Child(b, m) \in Gone(a, n) <=> b \in Gone(a, n) \/ (b = a /\ m = n))
<1>1. CASE Child(a, n) = NoDev
  <2>1. Gone(a, n) = {}
    BY <1>1 DEF Gone, Child
  <2> QED BY <1>1, <2>1
<1>2. CASE Child(a, n) # NoDev
  <2> DEFINE c == Child(a, n)
             G == Gone(a, n)
  <2>1. /\ c \in bitmap /\ c # 1 /\ dev[c].parent = a /\ Scans(a) /\ c \in Addr
    BY <1>2, Types DEF IInv, Tree
  <2>2. Gone(a, n) = Family(c)
    BY <1>2 DEF Gone, Child
  <2>3. G = {c} \cup Kids(c) \cup Below2(c)
    BY <2>1, <2>2, FamilyIs
  <2>4. On(a) /\ (a # 1 => dev[a].parent = 1)
    BY <2>1 DEF IInv, Hubs, On, Scans
  <2> HIDE DEF c, G
  <2>5. ASSUME NEW k \in Kids(c)
        PROVE  /\ k \in bitmap \ {1} /\ dev[k].parent = c /\ ~On(k) /\ k # NoDev /\ k \in Addr
               /\ \E m \in 1 .. MaxPort : Child(c, m) = k
               /\ \A m \in 1 .. MaxPort : Child(k, m) = NoDev
    <3>1. k \in Addr /\ k # NoDev
      BY Types DEF Kids, IInv
    <3>2. PICK m \in 1 .. MaxPort : Child(c, m) = k
      BY DEF Kids
    <3>3. k \in bitmap \ {1} /\ dev[k].parent = c
      BY <2>1, <3>1, <3>2 DEF IInv, Tree
    <3>4. ~On(k)
      BY <2>1, <3>1, <3>3 DEF IInv, Hubs
    <3>5. \A j \in 1 .. MaxPort : Child(k, j) = NoDev
      BY <3>1, <3>4 DEF IInv, Tree, On, Scans
    <3> QED BY <3>1, <3>2, <3>3, <3>4, <3>5
  <2>6. Below2(c) = {}
    BY <2>5, Types DEF Below2, Kids, IInv
  <2>7. G = {c} \cup Kids(c)
    BY <2>3, <2>6
  <2>8. a \notin G
    BY <2>1, <2>4, <2>5, <2>7
  <2>9. G \subseteq bitmap \ {1} /\ c \in G
    BY <2>1, <2>5, <2>7
  <2>10. \A b \in G : b # c => ~On(b) /\ \E m \in 1 .. MaxPort : Child(c, m) = b
    BY <2>5, <2>7
  <2>11. ASSUME NEW b \in Addr, NEW m \in 1 .. MaxPort, Child(b, m) # NoDev
         PROVE  Child(b, m) \in G <=> b \in G \/ (b = a /\ m = n)
    <3>1. Child(b, m) \in Addr
      BY <2>11, Types DEF IInv
    <3>2. ASSUME Child(b, m) = c PROVE b = a /\ m = n
      <4>1. c \in bitmap \ {1} /\ Child(a, n) = c
        BY <2>1 DEF c
      <4> QED BY <3>2, <4>1, ParentIs
    <3>3. ASSUME Child(b, m) \in Kids(c) PROVE b = c
      <4>1. dev[Child(b, m)].parent = c
        BY <3>3, <2>5
      <4>2. dev[Child(b, m)].parent = b
        BY <2>11 DEF IInv, Tree
      <4> QED BY <4>1, <4>2
    <3>4. ASSUME b \in G PROVE Child(b, m) \in G
      <4>1. b = c
        BY <2>5, <2>7, <2>11, <3>4
      <4> QED BY <4>1, <3>1, <2>7 DEF Kids
    <3>5. b = a /\ m = n => Child(b, m) = c
      BY DEF c
    <3> QED BY <3>2, <3>3, <3>4, <3>5, <2>7
  <2> QED BY <1>2, <2>8, <2>9, <2>10, <2>11 DEF c, G
<1> QED BY <1>1, <1>2

\* Those that go have drivers, and none of them is a hub that works.
LEMMA GoneDoomed ==
    ASSUME IInv, OneHub, Roomy, NEW a \in Addr, NEW n \in 1 .. MaxPort, Pending(a, n)
    PROVE  \A b \in Gone(a, n) : Bound(b) /\ dev[b].devnum = b /\ (On(b) => ~Present(b))
<1> SUFFICES ASSUME NEW b \in Gone(a, n)
             PROVE  Bound(b) /\ dev[b].devnum = b /\ (On(b) => ~Present(b))
  OBVIOUS
<1>1. Child(a, n) # NoDev /\ b \in bitmap /\ b # NoDev
  BY GoneIs, Types DEF IInv, TypeOK
<1>2. Doomed(Child(a, n))
  BY <1>1 DEF IInv, Pendings
<1>3. Bound(b) /\ (On(b) => ~Present(b))
  <2>1. CASE b = Child(a, n)
    BY <1>2, <2>1 DEF Doomed
  <2>2. CASE b # Child(a, n)
    BY <1>1, <1>2, <2>2, GoneIs DEF Doomed
  <2> QED BY <2>1, <2>2
<1> QED BY <1>1, <1>3 DEF IInv, Numbers

LEMMA ConnectInv == ASSUME IInv, OneHub, Roomy, NEW a \in Addr, HubConnect(a) PROVE IInv'
<1>1. /\ hub[a].pc = "connect" /\ Scans(a) /\ On(a) /\ hub \in [Addr -> Hub] /\ hub[a] \in Hub
      /\ dev \in [Addr -> Device] /\ bitmap \subseteq Addr
  BY DEF HubConnect, Scans, On, IInv, TypeOK
<1>2. UNCHANGED <<plug, taddr, new_dev, probe, fuel>>
  BY DEF HubConnect
<1>3. CASE HubAt(a) = {}
  <2>1. Moves(a, Abandon(hub[a]))
    BY <1>1, <1>2, <1>3, PortAtIs DEF HubConnect, Moves
  <2> QED BY <1>1, <1>3, <2>1, AbandonInv
<1>4. CASE HubAt(a) # {}
  <2>1. PICK n : n = hub[a].counter
    OBVIOUS
  <2>2. PICK G : G = Gone(a, n)
    OBVIOUS
  <2>3. PICK g : g = IF hub[a].sts.connection
                     THEN [hub[a] EXCEPT !.pc = "reset", !.by = "connect", !.retry = 0]
                     ELSE Connected(hub[a])
    OBVIOUS
  <2>4. PICK t \in HubAt(a) :
                /\ chg' = [chg EXCEPT ![<<t, n>>] = FALSE]
                /\ dev' = DevAfter(a, n)
                /\ bitmap' = BitmapAfter(a, n)
                /\ hub' = [b \in Addr |-> IF b \in G THEN NoHub ELSE IF b # a THEN hub[b] ELSE g]
    BY <1>1, <1>4, <2>1, <2>2, <2>3, PortAtIs DEF HubConnect
  <2>5. t \in Things /\ taddr[t] = a /\ Present(a) /\ new_dev = NoDev
    <3>1. t \in Things /\ taddr[t] = a
      BY <1>1, HubAtIs
    <3>2. Present(a)
      BY <3>1 DEF Present
    <3> QED BY <1>1, <3>1, <3>2 DEF IInv, Attaching, AttachingAt
  <2>6. n \in 1 .. NPort[t] /\ n \in 1 .. MaxPort /\ <<t, n>> \in Port /\ n \in 1 .. hub[a].ports
    BY <1>1, <2>1, <2>5, PortsAre
  <2>7. Pending(a, n)
    BY <1>1, <2>1 DEF Pending
  <2>8. /\ G \subseteq bitmap \ {1} /\ a \notin G
        /\ \A b \in G : Bound(b) /\ dev[b].devnum = b /\ (On(b) => ~Present(b))
        /\ Child(a, n) # NoDev => Child(a, n) \in G
        /\ \A b \in Addr : \A m \in 1 .. MaxPort : Child(b, m) # NoDev =>
                 (Child(b, m) \in G <=> b \in G \/ (b = a /\ m = n))
    BY <2>2, <2>6, <2>7, GoneIs, GoneDoomed
  <2>9. /\ \A b \in Addr : Attaches(b) \/ (hub[b].pc = "connect" /\ Present(b)) => b = a
        /\ \A b \in Addr : ~Attaches(b) /\ hub[b].reset = {}
    <3>1. \A b \in Addr : Attaches(b) \/ (hub[b].pc = "connect" /\ Present(b)) => b = a
      BY <1>1, <2>5, Alone
    <3>2. ~Attaches(a)
      BY <1>1 DEF Attaches, Connecting
    <3> QED BY <3>1, <3>2, <2>5 DEF IInv, Resets
  <2>10. /\ g \in Hub /\ g.ports = hub[a].ports /\ g.counter \in 1 .. g.ports /\ g.reset = {}
         /\ g.reconnect \subseteq hub[a].reconnect /\ g.pc \in {"reset", "status", "poll"}
         /\ g.pc = "reset" => /\ g.by = "connect" /\ g.counter = n /\ g.again = hub[a].again
                              /\ g.reconnect = hub[a].reconnect
         /\ hub[a].sts.connection => g.pc = "reset"
    <3>1. CASE hub[a].sts.connection
      <4>1. g = [hub[a] EXCEPT !.pc = "reset", !.by = "connect", !.retry = 0]
        BY <2>3, <3>1
      <4>2. /\ g \in Hub /\ g.ports = hub[a].ports /\ g.counter = hub[a].counter /\ g.reset = hub[a].reset
            /\ g.reconnect = hub[a].reconnect /\ g.pc = "reset" /\ g.by = "connect" /\ g.again = hub[a].again
        BY <1>1, <4>1 DEF Hub
      <4> QED BY <4>2, <2>1, <2>6, <2>9
    <3>2. CASE ~hub[a].sts.connection
      <4>1. g = Connected(hub[a])
        BY <2>3, <3>2
      <4>2. Rests(hub[a], g)
        BY <1>1, <2>1, <2>6, <4>1, ConnectedRests
      <4> QED BY <3>2, <4>2, <2>9 DEF Rests
    <3> QED BY <3>1, <3>2
  <2>11. /\ \A b \in Addr : hub'[b] = IF b \in G THEN NoHub ELSE IF b # a THEN hub[b] ELSE g
         /\ hub' \in [Addr -> Hub]
    <3>1. NoHub \in Hub
      BY DEF NoHub, Hub
    <3> QED BY <1>1, <2>4, <2>10, <3>1
  <2>12. /\ \A b \in Addr : /\ dev'[b].live = IF b \in G THEN FALSE ELSE dev[b].live
                            /\ dev'[b].parent = dev[b].parent /\ dev'[b].devnum = dev[b].devnum
                            /\ dev'[b].ifs = dev[b].ifs /\ dev'[b] \in Device
                            /\ \A m \in 1 .. MaxPort :
                                 Child(b, m)' = IF b \in G \/ (b = a /\ m = n) THEN NoDev ELSE Child(b, m)
         /\ dev' \in [Addr -> Device]
    <3>0. dev' = [b \in Addr |->
                   IF b \in G THEN [dev[b] EXCEPT !.live = FALSE, !.children = NoChildren]
                   ELSE IF b = a THEN [dev[b] EXCEPT !.children[n] = NoDev]
                   ELSE dev[b]]
      BY <2>2, <2>4 DEF DevAfter
    <3>1. ASSUME NEW b \in Addr
          PROVE  /\ dev'[b].live = IF b \in G THEN FALSE ELSE dev[b].live
                 /\ dev'[b].parent = dev[b].parent /\ dev'[b].devnum = dev[b].devnum
                 /\ dev'[b].ifs = dev[b].ifs /\ dev'[b] \in Device
                 /\ \A m \in 1 .. MaxPort :
                       dev'[b].children[m] = IF b \in G \/ (b = a /\ m = n) THEN NoDev ELSE dev[b].children[m]
      <4>1. dev[b] \in Device /\ dev[b].children \in [1 .. MaxPort -> 0 .. MaxAddr] /\ NoDev \in 0 .. MaxAddr
        BY <1>1, Types DEF Device, IInv
      <4>2. CASE b \in G
        <5>1. dev'[b] = [dev[b] EXCEPT !.live = FALSE, !.children = NoChildren]
          BY <3>0, <4>2
        <5>2. NoChildren \in [1 .. MaxPort -> 0 .. MaxAddr] /\ \A m \in 1 .. MaxPort : NoChildren[m] = NoDev
          BY <4>1 DEF NoChildren
        <5> QED BY <4>1, <4>2, <5>1, <5>2 DEF Device
      <4>3. CASE b = a
        <5> DEFINE c == [dev[b].children EXCEPT ![n] = NoDev]
        <5>1. dev'[b] = [dev[b] EXCEPT !.children = c]
          BY <3>0, <4>1, <4>3, <2>8 DEF Device
        <5>2. c \in [1 .. MaxPort -> 0 .. MaxAddr]
              /\ \A m \in 1 .. MaxPort : c[m] = IF m = n THEN NoDev ELSE dev[b].children[m]
          BY <4>1, <2>6
        <5> HIDE DEF c
        <5> QED BY <4>1, <4>3, <5>1, <5>2, <2>8 DEF Device
      <4>4. CASE b \notin G /\ b # a
        BY <3>0, <4>1, <4>4
      <4> QED BY <4>2, <4>3, <4>4
    <3>2. dev' \in [Addr -> Device]
      <4>1. dev' = [b \in Addr |-> dev'[b]]
        BY <3>0
      <4> QED BY <3>1, <4>1
    <3> QED BY <3>1, <3>2 DEF Child
  <2>13. bitmap' = bitmap \ G
    <3>1. {dev[b].devnum : b \in G} = G
      BY <2>8
    <3> QED BY <3>1, <2>2, <2>4 DEF BitmapAfter
  <2>14. /\ \A p \in Port : chg'[p] => chg[p]
         /\ chg' \in [Port -> BOOLEAN] /\ ~chg'[<<t, n>>]
         /\ \A p \in Port : p # <<t, n>> => chg'[p] = chg[p]
    BY <2>4, <2>6 DEF IInv, TypeOK
  <2>15. \A b \in Addr : Bound(b)' = Bound(b) /\ Present(b)' = Present(b)
    BY <1>2, <2>12 DEF Bound, Present
  <2>16. \A b \in Addr : b \notin G => On(b)' = On(b) /\ Scans(b)' = Scans(b) /\ hub'[b].ports = hub[b].ports
    BY <1>1, <2>10, <2>11 DEF On, Scans
  <2>17. \A b \in G : ~On(b)' /\ ~Scans(b)' /\ hub'[b].reset = {} /\ b \in Addr /\ hub'[b].pc = "off"
    BY <1>1, <2>8, <2>11 DEF On, Scans, NoHub
  <2>18. \A x \in Things : taddr[x] = a => x = t
    BY <1>1, <2>5, OneThing
  <2>19. \A u \in Things : taddr[u] # 0
    BY <2>5, <2>9 DEF IInv, Default, DefaultAt
  <2>20. TypeOK'
    BY <1>1, <1>2, <2>11, <2>12, <2>13, <2>14 DEF IInv, TypeOK
  <2>21. Cables'
    BY <1>2 DEF IInv, Cables
  <2>22. Tree'
    <3>1. bitmap' = {b \in Addr : dev'[b].live}
      <4>1. \A b \in Addr : b \in bitmap <=> dev[b].live
        BY DEF IInv, Tree
      <4>2. \A b \in Addr : b \in bitmap' <=> dev'[b].live
        BY <4>1, <2>12, <2>13
      <4> QED BY <4>2, <1>1, <2>13
    <3>2. 1 \in bitmap' /\ dev'[1].parent = NoDev /\ Bound(1)'
      BY <2>8, <2>12, <2>13, <2>15, Numerals DEF IInv, Tree
    <3>3. ASSUME NEW b \in Addr, NEW m \in 1 .. MaxPort, Child(b, m)' # NoDev
          PROVE (/\ Child(b, m) \in bitmap /\ Child(b, m) # 1 /\ dev[Child(b, m)].parent = b
                 /\ b \in bitmap /\ Scans(b) /\ m <= hub[b].ports
                 /\ \A k \in 1 .. MaxPort : Child(b, k) = Child(b, m) => k = m)'
      <4>1. Child(b, m)' = Child(b, m) /\ b \notin G /\ ~(b = a /\ m = n) /\ Child(b, m) # NoDev
        BY <3>3, <2>12
      <4>2. /\ Child(b, m) \in bitmap /\ Child(b, m) # 1 /\ dev[Child(b, m)].parent = b
            /\ b \in bitmap /\ Scans(b) /\ m <= hub[b].ports
            /\ \A k \in 1 .. MaxPort : Child(b, k) = Child(b, m) => k = m
        BY <4>1 DEF IInv, Tree
      <4>3. Child(b, m) \notin G
        BY <4>1, <2>8
      <4>4. \A k \in 1 .. MaxPort : Child(b, k)' = Child(b, m) => k = m
        BY <4>1, <4>2, <2>12
      <4>5. dev'[Child(b, m)].parent = b
        BY <4>2, <1>1, <2>12
      <4> QED BY <4>1, <4>2, <4>3, <4>4, <4>5, <2>13, <2>16
    <3>4. ASSUME NEW c \in bitmap' \ {1}
          PROVE (/\ dev[c].parent \in Addr
                 /\ \E m \in 1 .. MaxPort : Child(dev[c].parent, m) = c)'
      <4>1. c \in bitmap \ {1} /\ c \in Addr /\ c # NoDev /\ c \notin G
        BY <1>1, <2>13, Types DEF IInv
      <4>2. PICK b \in Addr : b = dev[c].parent
        BY <4>1 DEF IInv, Tree
      <4>3. PICK m \in 1 .. MaxPort : Child(b, m) = c
        BY <4>1, <4>2 DEF IInv, Tree
      <4>4. b \notin G /\ ~(b = a /\ m = n)
        BY <4>1, <4>3, <2>8
      <4>5. Child(b, m)' = c /\ dev'[c].parent = b
        BY <4>1, <4>2, <4>3, <4>4, <2>12
      <4> QED BY <4>5 DEF Child
    <3> QED BY <3>1, <3>2, <3>3, <3>4 DEF Tree
  <2>23. Hubs'
    <3>1. Scans(1)' /\ hub'[1].ports = NPort[Root]
      BY <2>8, <2>16, Numerals DEF IInv, Hubs
    <3>2. \A b \in Addr : Scans(b)' => hub'[b].counter \in 1 .. hub'[b].ports
      <4>1. \A b \in Addr : Scans(b)' => b \notin G
        BY <2>17
      <4> QED BY <4>1, <2>10, <2>11, <2>16 DEF IInv, Hubs
    <3>3. \A b \in Addr : hub'[b].pc = "init" => hub'[b].counter = 1
      <4>1. \A b \in Addr : hub'[b].pc = "init" => hub'[b] = hub[b]
        BY <2>10, <2>11, <2>17
      <4> QED BY <4>1 DEF IInv, Hubs
    <3>4. ASSUME NEW b \in Addr \ {1}, On(b)'
          PROVE (/\ b \in bitmap /\ dev[b].parent = 1 /\ Bound(b) /\ NPort[Root] = 1
                 /\ Scans(b) => \E x \in Things \ {Root} : NPort[x] > 0 /\ hub[b].ports = NPort[x])'
      <4>1. b \notin G /\ On(b)
        BY <3>4, <2>16, <2>17
      <4>2. /\ b \in bitmap /\ dev[b].parent = 1 /\ Bound(b) /\ NPort[Root] = 1
            /\ Scans(b) => \E x \in Things \ {Root} : NPort[x] > 0 /\ hub[b].ports = NPort[x]
        BY <4>1 DEF IInv, Hubs
      <4>3. dev'[b].parent = 1 /\ Bound(b)' /\ b \in bitmap'
        BY <4>1, <4>2, <2>12, <2>13, <2>15
      <4> QED BY <4>1, <4>2, <4>3, <2>16
    <3> QED BY <3>1, <3>2, <3>3, <3>4 DEF Hubs
  <2>24. Numbers'
    <3>1. \A b \in bitmap' : b \in bitmap /\ b \in Addr /\ b # NoDev
      BY <1>1, <2>13, Types DEF IInv
    <3>2. \A b \in bitmap' : Bound(b)' => dev'[b].devnum = b
      BY <3>1, <2>12, <2>15 DEF IInv, Numbers
    <3> QED BY <3>1, <3>2, <1>2, <2>5 DEF IInv, Numbers
  <2>25. Resets'
    <3>1. \A b \in Addr : hub'[b].reset = {}
      BY <2>9, <2>10, <2>11, <2>17
    <3>2. \A b \in Addr : /\ hub'[b].pc \in {"reset", "enabled"} => hub'[b].by # "scan"
                          /\ hub'[b].pc # "wait"
      <4>1. \A b \in Addr : hub[b].pc \in {"reset", "enabled"} => hub[b].by # "scan"
        BY <2>9 DEF IInv, Resets
      <4>2. \A b \in Addr : hub[b].pc # "wait"
        BY <2>9 DEF IInv, Resets, Attaches, Connecting
      <4> QED BY <4>1, <4>2, <2>10, <2>11, <2>17
    <3> QED BY <3>1, <3>2 DEF Resets
  <2>26. Attaching'
    <3> SUFFICES ASSUME NEW b \in Addr PROVE AttachingAt(b)'
      BY DEF Attaching
    <3>1. AttachingAt(b)
      BY DEF IInv, Attaching
    <3>2. CASE b \in G
      BY <3>2, <2>17 DEF AttachingAt, Attaches, Connecting
    <3>3. CASE b \notin G /\ b # a
      <4>1. hub'[b] = hub[b] /\ ~Attaches(b)'
        BY <3>3, <2>9, <2>11 DEF Attaches
      <4> QED BY <3>1, <4>1, <1>2, <2>5 DEF AttachingAt
    <3>4. CASE b = a
      <4>1. hub'[a] = g /\ hub'[a].pc # "connect" /\ hub'[a].pc # "wait"
        BY <2>8, <2>10, <2>11
      <4>2. Attaches(a)' => g.counter = n /\ g.again = hub[a].again /\ g.reconnect = hub[a].reconnect
        BY <4>1, <2>10 DEF Attaches, Connecting
      <4>3. Child(a, n)' = NoDev
        BY <2>6, <2>12
      <4>4. Attaches(a)' => Child(a, hub[a].counter)' = NoDev
        BY <4>1, <4>2, <4>3 DEF Child
      <4>5. \A x \in Things : taddr'[x] = a => ~chg'[<<x, n>>]
        BY <1>2, <2>14, <2>18
      <4> QED BY <3>1, <3>4, <4>1, <4>2, <4>4, <4>5, <1>1, <1>2, <2>1, <2>5, <2>15 DEF AttachingAt
    <3> QED BY <3>2, <3>3, <3>4
  <2>27. Pendings'
    <3> SUFFICES ASSUME NEW b \in Addr, NEW m \in 1 .. MaxPort, Child(b, m)' # NoDev, Pending(b, m)'
                 PROVE  Doomed(Child(b, m))'
      BY DEF Pendings
    <3>1. Child(b, m)' = Child(b, m) /\ b \notin G /\ ~(b = a /\ m = n) /\ Child(b, m) # NoDev
      BY <2>12
    <3>2. PICK c \in Addr : c = Child(b, m)
      BY <3>1, Types DEF IInv
    <3>3. Scans(b) /\ m <= hub[b].ports
      BY <3>1 DEF IInv, Tree
    <3>4. Pending(b, m)
      <4>1. ASSUME NEW x \in Things, taddr[x] = b, chg'[<<x, m>>] PROVE chg[<<x, m>>]
        <5>1. m \in 1 .. NPort[x]
          BY <3>3, <4>1, PortsAre, Numerals
        <5>2. <<x, m>> \in Port
          BY <5>1, PortIs
        <5> QED BY <5>2, <4>1, <2>14
      <4>2. CASE b # a
        BY <3>1, <4>1, <4>2, <1>2, <2>11 DEF Pending
      <4>3. CASE b = a
        <5>1. hub'[b] = g
          BY <3>1, <4>3, <2>11
        <5> QED BY <4>1, <4>3, <5>1, <1>2, <2>10 DEF Pending
      <4> QED BY <4>2, <4>3
    <3>5. Doomed(c) /\ c \notin G
      BY <3>1, <3>2, <3>4, <2>8 DEF IInv, Pendings
    <3>6. Bound(c)' /\ (On(c)' => ~Present(c)')
      BY <3>2, <3>5, <2>15, <2>16 DEF Doomed
    <3>7. ASSUME NEW k \in 1 .. MaxPort, Child(c, k)' # NoDev PROVE Bound(Child(c, k))'
      <4>1. Child(c, k)' = Child(c, k) /\ Child(c, k) # NoDev
        BY <3>2, <3>7, <2>12
      <4>2. PICK e \in Addr : e = Child(c, k)
        BY <3>2, <4>1, Types DEF IInv
      <4>3. Bound(e)' /\ Child(c, k)' = e
        BY <3>5, <4>1, <4>2, <2>15 DEF Doomed
      <4> QED BY <4>3 DEF Bound
    <3>8. Doomed(c)' /\ Child(b, m)' = c
      BY <3>1, <3>2, <3>6, <3>7 DEF Doomed
    <3> QED BY <3>8
  <2>28. HubsAnswer'
    <3>1. ASSUME NEW x \in Things \ {Root}, taddr'[x] \in Addr, On(taddr[x])'
          PROVE NPort[x] > 0 /\ (Scans(taddr[x])' => hub'[taddr'[x]].ports = NPort[x])
      <4>1. PICK b \in Addr : b = taddr[x] /\ taddr'[x] = b
        BY <3>1, <1>2
      <4>2. On(b)' /\ (Scans(taddr[x])' => Scans(b)')
        BY <3>1, <4>1 DEF On, Scans
      <4>3. On(b) /\ (Scans(b)' => Scans(b) /\ hub'[b].ports = hub[b].ports)
        BY <4>2, <2>16, <2>17
      <4>4. NPort[x] > 0 /\ (Scans(b) => hub[b].ports = NPort[x])
        BY <3>1, <4>1, <4>3 DEF IInv, HubsAnswer
      <4> QED BY <4>1, <4>2, <4>3, <4>4
    <3> QED BY <3>1, <1>2 DEF IInv, HubsAnswer
  <2>29. Placed'
    <3> SUFFICES ASSUME NEW u \in Things \ {Root}, taddr[u] \in Addr, NEW x, NEW m, NEW b, PlacedAt(u, x, m, b)
                 PROVE  PlacedAt(u, x, m, b)' /\ x \in Things /\ m \in 1 .. NPort[x] /\ b \in Addr
      BY <1>2 DEF IInv, Placed
    <3>1. /\ x \in Things /\ m \in 1 .. NPort[x] /\ plug[<<x, m>>] = u /\ taddr[x] = b /\ b \in Addr /\ Scans(b)
          /\ m \in 1 .. MaxPort
      BY Numerals DEF PlacedAt, Sits
    <3>2. Child(b, m) = taddr[u] /\ Child(b, m) # NoDev
      BY <3>1, <2>9, Types DEF PlacedAt, Attaches, Connecting, IInv
    <3>3. b \notin G
      BY <3>1, <2>8 DEF Present, On, Scans
    <3>4. Sits(u, x, m, b)'
      BY <3>1, <3>3, <1>2, <2>16 DEF Sits
    <3>5. CASE b = a /\ m = n
      <4>1. x = t
        BY <3>1, <3>5, <2>18
      <4>2. plug[<<t, n>>] # Nothing
        BY <3>1, <3>5, <4>1, Numerals
      <4>3. hub[a].sts.connection
        BY <4>2, <1>1, <2>1, <2>5 DEF IInv, Sampled
      <4>4. hub'[b].counter = m /\ hub'[b].pc = "reset" /\ hub'[b].by = "connect"
        BY <3>3, <3>5, <4>3, <2>10, <2>11
      <4>5. taddr'[u] \notin bitmap'
        BY <3>2, <3>5, <1>2, <2>8, <2>13
      <4> QED BY <3>1, <3>4, <4>4, <4>5 DEF PlacedAt
    <3>6. CASE ~(b = a /\ m = n)
      <4>1. Child(b, m)' = Child(b, m)
        BY <3>1, <3>3, <3>6, <2>12
      <4> QED BY <3>1, <3>2, <3>4, <4>1, <1>2 DEF PlacedAt
    <3> QED BY <3>5, <3>6
  <2>30. Default'
    BY <1>2, <2>19 DEF Default
  <2>31. Linked'
    <3> SUFFICES ASSUME NEW x \in Things, NEW m \in 1 .. NPort[x], taddr'[x] \in Addr, ~chg'[<<x, m>>],
                        Child(taddr[x], m)' # NoDev
                 PROVE  /\ plug'[<<x, m>>] # Nothing
                        /\ Bound(Child(taddr[x], m))' => taddr'[plug'[<<x, m>>]] = Child(taddr[x], m)'
      BY DEF Linked
    <3>1. PICK b \in Addr : b = taddr[x]
      BY <1>2
    <3>2. m \in 1 .. MaxPort /\ Child(taddr[x], m)' = Child(b, m)' /\ <<x, m>> \in Port
      BY <3>1, <1>2, Numerals, PortIs DEF Child
    <3>3. Child(taddr[x], m)' = Child(b, m) /\ Child(b, m) # NoDev /\ ~(b = a /\ m = n)
      BY <3>2, <2>12
    <3>4. ~chg[<<x, m>>]
      <4>1. <<x, m>> # <<t, n>>
        BY <3>1, <3>3, <2>5
      <4> QED BY <3>2, <4>1, <2>14
    <3>5. PICK c \in Addr : c = Child(b, m)
      BY <3>2, <3>3, Types DEF IInv
    <3>6. Bound(Child(taddr[x], m))' => Bound(c)
      <4>1. Bound(Child(taddr[x], m))' = Bound(c)'
        BY <3>3, <3>5 DEF Bound
      <4> QED BY <4>1, <2>15
    <3>7. plug[<<x, m>>] # Nothing /\ (Bound(c) => taddr[plug[<<x, m>>]] = c)
      BY <3>1, <3>3, <3>4, <3>5 DEF IInv, Linked
    <3> QED BY <3>3, <3>5, <3>6, <3>7, <1>2
  <2>32. Sampled'
    <3>1. \A b \in Addr : hub'[b].pc \in {"ports", "connect"} => hub'[b] = hub[b]
      BY <2>10, <2>11, <2>17
    <3> QED BY <3>1, <1>2 DEF IInv, Sampled
  <2> QED BY <2>20, <2>21, <2>22, <2>23, <2>24, <2>25, <2>26, <2>27, <2>28, <2>29, <2>30, <2>31, <2>32 DEF IInv
<1> QED BY <1>3, <1>4

-----------------------------------------------------------------------------
(* Cables.                                                                 *)

\* The hub at a is one of those that a cable at a port of its thing spares.
LEMMA ScannersAre ==
    ASSUME IInv, NEW a \in Addr, Scans(a), NEW t \in Things, taddr[t] = a, NEW n
    PROVE  a \in Scanners(<<t, n>>)
<1>1. On(a)
  BY DEF On, Scans
<1>2. t \in HubAt(a)
  BY <1>1, HubAtIs
<1> QED BY <1>2 DEF Scanners, Scans

\* Software does not see a cable.
LEMMA SoftInv ==
    ASSUME IInv, UNCHANGED soft, plug' \in [Port -> (Things \ {Root}) \cup {Nothing}],
           chg' \in [Port -> BOOLEAN], taddr' \in [Things -> -2 .. MaxAddr], fuel' \in Nat,
           Cables', Attaching', Pendings', HubsAnswer', Placed', Default', Linked', Sampled'
    PROVE  IInv'
<1>1. bitmap' = bitmap /\ dev' = dev /\ new_dev' = new_dev /\ probe' = probe /\ hub' = hub
  BY DEF soft
<1>2. TypeOK'
  BY <1>1 DEF IInv, TypeOK
<1>3. Tree'
  BY <1>1 DEF IInv, Tree, Child, Bound, Scans
<1>4. Hubs'
  BY <1>1 DEF IInv, Hubs, On, Scans, Bound
<1>5. Numbers' /\ Resets'
  BY <1>1 DEF IInv, Numbers, Resets, Bound, Child
<1> QED BY <1>2, <1>3, <1>4, <1>5 DEF IInv

LEMMA PlugInv ==
    ASSUME IInv, OneHub, ~rough', NEW p \in Port, NEW u \in Things \ {Root}, Plug(p, u)
    PROVE  IInv'
<1>1. PICK t \in Things : \E m \in 1 .. NPort[t] : p = <<t, m>>
  BY PortIs
<1>2. PICK n \in 1 .. NPort[t] : p = <<t, n>>
  BY <1>1
<1>3. /\ plug[p] = Nothing /\ (\A q \in Port : plug[q] # u) /\ t \notin Under(u)
      /\ \A a \in Scanners(p) : /\ ~Busy(a, n, Connecting)
                                /\ ~(Busy(a, n, {"ports", "connect"}) /\ ~hub[a].sts.connection)
  BY <1>2 DEF Plug, PlugSpares
<1>4. /\ plug' = [plug EXCEPT ![p] = u] /\ chg' = [chg EXCEPT ![p] = TRUE]
      /\ fuel' = fuel - 1 /\ fuel > 0 /\ taddr' = taddr
      /\ bitmap' = bitmap /\ dev' = dev /\ new_dev' = new_dev /\ probe' = probe /\ hub' = hub
  BY DEF Plug, soft
<1>5. /\ plug \in [Port -> (Things \ {Root}) \cup {Nothing}] /\ chg \in [Port -> BOOLEAN] /\ fuel \in Nat
      /\ taddr \in [Things -> -2 .. MaxAddr]
  BY DEF IInv, TypeOK
<1>6. /\ plug'[p] = u /\ chg'[p] = TRUE
      /\ \A q \in Port : q # p => plug'[q] = plug[q] /\ chg'[q] = chg[q]
      /\ plug' \in [Port -> (Things \ {Root}) \cup {Nothing}]
      /\ chg' \in [Port -> BOOLEAN] /\ fuel' \in Nat /\ taddr' \in [Things -> -2 .. MaxAddr]
  BY <1>4, <1>5
<1>7. \A x \in Things : \A m \in 1 .. NPort[x] : <<x, m>> \in Port /\ (<<x, m>> = p <=> x = t /\ m = n)
  BY <1>2, PortIs
<1>8. \A b : /\ Bound(b)' = Bound(b) /\ (\A m : Child(b, m)' = Child(b, m)) /\ Present(b)' = Present(b)
             /\ On(b)' = On(b) /\ Scans(b)' = Scans(b) /\ Attaches(b)' = Attaches(b)
  BY <1>4 DEF Bound, Child, Present, On, Scans, Attaches
<1>9. Cables'
  <2>1. u # t
    <3>1. u \in Under(u)
      BY CutIs
    <3> QED BY <1>3, <3>1
  <2>2. \A q, r \in Port : plug'[q] = plug'[r] /\ plug'[q] # Nothing => q = r
    BY <1>3, <1>6 DEF IInv, Cables
  <2>3. \A q \in Port : plug'[q] # q[1]
    BY <2>1, <1>2, <1>6 DEF IInv, Cables
  <2> QED BY <2>2, <2>3 DEF Cables
<1>10. ASSUME NEW a \in Addr, Scans(a), NEW x \in Things, taddr[x] = a, <<x, hub[a].counter>> = p
       PROVE  /\ hub[a].pc \notin Connecting
              /\ hub[a].pc \in {"ports", "connect"} => hub[a].sts.connection
  <2>1. a \in Scanners(p)
    BY <1>10, ScannersAre
  <2>2. hub[a].counter = n
    BY <1>2, <1>10
  <2> QED BY <1>3, <2>1, <2>2 DEF Busy
<1>11. Attaching'
  <2> SUFFICES ASSUME NEW a \in Addr PROVE AttachingAt(a)'
    BY DEF Attaching
  <2>1. AttachingAt(a)
    BY DEF IInv, Attaching
  <2>2. ASSUME Attaches(a), NEW x \in Things, taddr[x] = a
        PROVE  chg'[<<x, hub[a].counter>>] = chg[<<x, hub[a].counter>>] /\ plug'[<<x, hub[a].counter>>] = plug[<<x, hub[a].counter>>]
    <3>1. Scans(a) /\ hub[a].pc \in Connecting
      BY <2>2 DEF Attaches, Connecting, Scans
    <3>2. <<x, hub[a].counter>> \in Port
      BY <2>2, <3>1, PortsAre
    <3>3. <<x, hub[a].counter>> # p
      BY <2>2, <3>1, <1>10
    <3> QED BY <3>2, <3>3, <1>6
  <2>3. /\ hub' = hub /\ new_dev' = new_dev /\ taddr' = taddr
        /\ Child(a, hub[a].counter)' = Child(a, hub[a].counter)
        /\ Present(a)' = Present(a) /\ Attaches(a)' = Attaches(a)
    BY <1>4, <1>8 DEF Child
  <2>4. Attaches(a) => \A x \in Things : taddr[x] = a =>
           /\ ~chg'[<<x, hub[a].counter>>]
           /\ hub[a].pc = "wait" => plug'[<<x, hub[a].counter>>] # Nothing
    BY <2>1, <2>2 DEF AttachingAt
  <2> QED BY <2>1, <2>3, <2>4 DEF AttachingAt
<1>12. Pendings'
  <2> SUFFICES ASSUME NEW b \in Addr, NEW m \in 1 .. MaxPort, Child(b, m)' # NoDev, Pending(b, m)'
               PROVE  Doomed(Child(b, m))'
    BY DEF Pendings
  <2>1. Child(b, m)' = Child(b, m) /\ Child(b, m) # NoDev /\ Scans(b) /\ m <= hub[b].ports
    BY <1>8 DEF IInv, Tree
  <2>2. ASSUME NEW x \in Things, taddr[x] = b, chg'[<<x, m>>] PROVE chg[<<x, m>>]
    <3>1. m \in 1 .. NPort[x]
      BY <2>1, <2>2, PortsAre, Numerals
    <3>2. CASE <<x, m>> = p
      BY <2>1, <2>2, <3>1, <3>2, <1>3 DEF IInv, Linked
    <3>3. CASE <<x, m>> # p
      BY <2>2, <3>1, <3>3, <1>6, <1>7
    <3> QED BY <3>2, <3>3
  <2>3. Pending(b, m)
    BY <2>2, <1>4 DEF Pending
  <2>4. Doomed(Child(b, m))
    BY <2>1, <2>3 DEF IInv, Pendings
  <2> QED BY <2>1, <2>4, <1>4 DEF Doomed, Bound, Present, On, Child
<1>13. HubsAnswer'
  BY <1>4 DEF IInv, HubsAnswer, On, Scans
<1>14. ASSUME NEW v \in Things, NEW x, NEW m, NEW b, Sits(v, x, m, b)
       PROVE  Sits(v, x, m, b)' /\ x \in Things /\ m \in 1 .. NPort[x] /\ b \in Addr
  <2>1. <<x, m>> \in Port /\ <<x, m>> # p /\ x \in Things /\ m \in 1 .. NPort[x]
    BY <1>3, <1>7, <1>14, Numerals DEF Sits
  <2> QED BY <2>1, <1>4, <1>6, <1>14 DEF Sits, Scans
<1>15. Placed'
  <2> SUFFICES ASSUME NEW v \in Things \ {Root}, taddr'[v] \in Addr, NEW x, NEW m, NEW b, PlacedAt(v, x, m, b)
               PROVE  PlacedAt(v, x, m, b)' /\ x \in Things /\ m \in 1 .. NPort[x] /\ b \in Addr
    BY <1>4 DEF IInv, Placed
  <2>1. Sits(v, x, m, b)
    BY DEF PlacedAt
  <2> QED BY <2>1, <1>4, <1>8, <1>14 DEF PlacedAt
<1>16. Default'
  <2> SUFFICES ASSUME NEW v \in Things, taddr'[v] = 0, NEW x, NEW m, NEW b, DefaultAt(v, x, m, b)
               PROVE  DefaultAt(v, x, m, b)' /\ x \in Things /\ m \in 1 .. NPort[x] /\ b \in Addr
    BY <1>4 DEF IInv, Default
  <2>1. Sits(v, x, m, b)
    BY DEF DefaultAt
  <2> QED BY <2>1, <1>4, <1>8, <1>14 DEF DefaultAt
<1>17. Linked'
  <2> SUFFICES ASSUME NEW x \in Things, NEW m \in 1 .. NPort[x], taddr[x] \in Addr, ~chg'[<<x, m>>],
                      Child(taddr[x], m) # NoDev
               PROVE  /\ plug'[<<x, m>>] # Nothing
                      /\ Bound(Child(taddr[x], m)) => taddr[plug'[<<x, m>>]] = Child(taddr[x], m)
    BY <1>4 DEF Linked, Child, Bound
  <2>1. <<x, m>> # p /\ <<x, m>> \in Port
    BY <1>6, <1>7
  <2> QED BY <2>1, <1>6 DEF IInv, Linked
<1>18. Sampled'
  <2> SUFFICES ASSUME NEW a \in Addr, hub[a].pc \in {"ports", "connect"}, ~hub[a].sts.connection,
                      NEW x \in Things, taddr[x] = a
               PROVE  plug'[<<x, hub[a].counter>>] = Nothing
    BY <1>4 DEF Sampled
  <2>1. Scans(a)
    BY DEF Scans
  <2>2. <<x, hub[a].counter>> \in Port
    BY <2>1, PortsAre
  <2>3. <<x, hub[a].counter>> # p
    BY <2>1, <1>10
  <2>4. plug[<<x, hub[a].counter>>] = Nothing
    BY DEF IInv, Sampled
  <2> QED BY <2>2, <2>3, <2>4, <1>6
<1>19. UNCHANGED soft
  BY <1>4 DEF soft
<1> QED BY <1>6, <1>9, <1>11, <1>12, <1>13, <1>15, <1>16, <1>17, <1>18, <1>19, SoftInv

LEMMA UnplugInv ==
    ASSUME IInv, OneHub, Roomy, ~rough', NEW p \in Port, Unplug(p)
    PROVE  IInv'
<1>1. PICK t \in Things : \E m \in 1 .. NPort[t] : p = <<t, m>>
  BY PortIs
<1>2. PICK n \in 1 .. NPort[t] : p = <<t, n>>
  BY <1>1
<1>3. PICK u : u = plug[p]
  OBVIOUS
<1>4. /\ u # Nothing
      /\ \A a \in Scanners(p) : ~Busy(a, n, Connecting) /\ \A b \in Gone(a, n) : Quiet(b)
  BY <1>2, <1>3 DEF Unplug, UnplugSpares
<1>5. /\ plug \in [Port -> (Things \ {Root}) \cup {Nothing}] /\ chg \in [Port -> BOOLEAN] /\ fuel \in Nat
      /\ taddr \in [Things -> -2 .. MaxAddr]
  BY DEF IInv, TypeOK
<1>6. u \in Things \ {Root} /\ n \in 1 .. MaxPort
  BY <1>3, <1>4, <1>5, Numerals
<1>7. PICK X : X = Cut(u)
  OBVIOUS
<1>8. /\ Under(u) = X /\ Root \notin X /\ u \in X /\ t \notin X
      /\ \A x \in Things : \A m \in 1 .. NPort[x] :
            /\ plug[<<x, m>>] \in Things /\ plug[<<x, m>>] \notin X => x \notin X
            /\ plug[<<x, m>>] \in X => plug[<<x, m>>] = u \/ x = u
            /\ x \in X => x = u
  BY <1>2, <1>3, <1>6, <1>7, CutIs
<1>9. /\ taddr' = [x \in Things |-> IF x \in X THEN Off ELSE taddr[x]]
      /\ plug' = [plug EXCEPT ![p] = Nothing] /\ chg' = [chg EXCEPT ![p] = TRUE]
      /\ fuel' = fuel - 1 /\ fuel > 0
      /\ bitmap' = bitmap /\ dev' = dev /\ new_dev' = new_dev /\ probe' = probe /\ hub' = hub
  BY <1>3, <1>8 DEF Unplug, soft
<1>10. /\ plug'[p] = Nothing /\ chg'[p] = TRUE
       /\ \A q \in Port : q # p => plug'[q] = plug[q] /\ chg'[q] = chg[q]
       /\ plug' \in [Port -> (Things \ {Root}) \cup {Nothing}]
       /\ chg' \in [Port -> BOOLEAN] /\ fuel' \in Nat
  BY <1>5, <1>9
<1>11. /\ taddr' \in [Things -> -2 .. MaxAddr]
       /\ \A x \in Things : x \notin X => taddr'[x] = taddr[x]
       /\ \A x \in Things : taddr'[x] \in Addr \/ taddr'[x] = 0 => x \notin X /\ taddr'[x] = taddr[x]
  <2>1. \A x \in Things : taddr'[x] = IF x \in X THEN -1 ELSE taddr[x]
    BY <1>9 DEF Off
  <2>2. MaxAddr \in Nat /\ Addr = 1 .. MaxAddr
    BY Numerals
  <2>3. taddr' \in [Things -> -2 .. MaxAddr]
    BY <1>5, <1>9, <2>2 DEF Off
  <2> QED BY <2>1, <2>2, <2>3
<1>12. \A x \in Things : \A m \in 1 .. NPort[x] :
          /\ <<x, m>> \in Port /\ (<<x, m>> = p <=> x = t /\ m = n)
          /\ plug[<<x, m>>] = u => <<x, m>> = p
  <2>1. \A x \in Things : \A m \in 1 .. NPort[x] : <<x, m>> \in Port
    BY PortIs
  <2> QED BY <2>1, <1>2, <1>3, <1>4 DEF IInv, Cables
<1>13. \A b : /\ Bound(b)' = Bound(b) /\ (\A m : Child(b, m)' = Child(b, m))
              /\ On(b)' = On(b) /\ Scans(b)' = Scans(b) /\ Attaches(b)' = Attaches(b)
  BY <1>9 DEF Bound, Child, On, Scans, Attaches
<1>14. \A b \in Addr : Present(b)' => Present(b)
  BY <1>11 DEF Present
<1>15. ASSUME NEW a \in Addr, Attaches(a), NEW x \in Things, taddr[x] = a
       PROVE  /\ x \notin X /\ <<x, hub[a].counter>> # p /\ <<x, hub[a].counter>> \in Port
  <2>1. Scans(a) /\ hub[a].pc \in Connecting
    BY <1>15 DEF Attaches, Connecting, Scans
  <2>2. hub[a].counter \in 1 .. NPort[x] /\ <<x, hub[a].counter>> \in Port
    BY <1>15, <2>1, PortsAre
  <2>3. <<x, hub[a].counter>> # p
    <3> SUFFICES ASSUME <<x, hub[a].counter>> = p PROVE FALSE
      OBVIOUS
    <3>1. a \in Scanners(p)
      BY <1>15, <2>1, ScannersAre
    <3>2. hub[a].counter = n
      BY <1>2
    <3> QED BY <1>4, <2>1, <3>1, <3>2 DEF Busy
  <2>4. x \notin X
    <3> SUFFICES ASSUME x = u PROVE FALSE
      BY <2>2, <1>8
    <3>1. PICK y, m, b : PlacedAt(u, y, m, b)
      BY <1>6, <1>15 DEF IInv, Placed
    <3>2. y \in Things /\ m \in 1 .. NPort[y] /\ plug[<<y, m>>] = u /\ taddr[y] = b /\ b \in Addr /\ Scans(b)
      BY <3>1 DEF PlacedAt, Sits
    <3>3. y = t /\ m = n
      BY <3>2, <1>12
    <3>4. b \in Scanners(p)
      BY <3>2, <3>3, <1>2, ScannersAre
    <3>5. Child(b, n) = a
      BY <3>1, <3>3, <3>4, <1>4, <1>15 DEF PlacedAt, Busy, Connecting
    <3>6. a # NoDev
      BY Types DEF IInv
    <3>7. a \in Gone(b, n)
      BY <3>2, <3>5, <3>6, <1>6, GoneIs
    <3> QED BY <3>4, <3>7, <1>4, <2>1 DEF Quiet
  <2> QED BY <2>2, <2>3, <2>4
<1>16. Cables'
  <2>1. \A q, r \in Port : plug'[q] = plug'[r] /\ plug'[q] # Nothing => q = r
    BY <1>10 DEF IInv, Cables
  <2>2. ASSUME NEW q \in Port PROVE plug'[q] # q[1]
    <3>1. q[1] \in Things /\ Nothing \notin Things
      BY PortIs, UsbhAssumption
    <3>2. plug'[q] = Nothing \/ plug'[q] = plug[q]
      BY <1>10
    <3>3. plug[q] # q[1]
      BY DEF IInv, Cables
    <3> QED BY <3>1, <3>2, <3>3
  <2> QED BY <2>1, <2>2 DEF Cables
<1>17. Attaching'
  <2> SUFFICES ASSUME NEW a \in Addr PROVE AttachingAt(a)'
    BY DEF Attaching
  <2>1. AttachingAt(a)
    BY DEF IInv, Attaching
  <2>2. ASSUME Attaches(a), NEW x \in Things, taddr'[x] = a
        PROVE  /\ taddr[x] = a /\ chg'[<<x, hub[a].counter>>] = chg[<<x, hub[a].counter>>]
               /\ plug'[<<x, hub[a].counter>>] = plug[<<x, hub[a].counter>>]
    BY <2>2, <1>10, <1>11, <1>15
  <2>3. Attaches(a) => Present(a)'
    <3> SUFFICES ASSUME Attaches(a) PROVE Present(a)'
      OBVIOUS
    <3>1. PICK x \in Things : taddr[x] = a
      BY <2>1 DEF AttachingAt, Present
    <3> QED BY <3>1, <1>11, <1>15 DEF Present
  <2>4. /\ hub' = hub /\ new_dev' = new_dev
        /\ Child(a, hub[a].counter)' = Child(a, hub[a].counter)
        /\ (Present(a)' => Present(a)) /\ Attaches(a)' = Attaches(a)
    BY <1>9, <1>13, <1>14 DEF Child
  <2>5. Attaches(a) => \A x \in Things : taddr'[x] = a =>
           /\ ~chg'[<<x, hub[a].counter>>]
           /\ hub[a].pc = "wait" => plug'[<<x, hub[a].counter>>] # Nothing
    BY <2>1, <2>2 DEF AttachingAt
  <2> QED BY <2>1, <2>3, <2>4, <2>5 DEF AttachingAt
<1>18. Pendings'
  <2> SUFFICES ASSUME NEW b \in Addr, NEW m \in 1 .. MaxPort, Child(b, m)' # NoDev, Pending(b, m)'
               PROVE  Doomed(Child(b, m))'
    BY DEF Pendings
  <2>1. PICK c : c = Child(b, m)
    OBVIOUS
  <2>2. Child(b, m)' = c /\ c # NoDev /\ c \in Addr /\ Scans(b) /\ m <= hub[b].ports /\ c \in bitmap \ {1}
    BY <2>1, <1>13, Types DEF IInv, Tree
  <2>3. CASE Pending(b, m)
    <3>1. Doomed(c)
      BY <2>1, <2>2, <2>3 DEF IInv, Pendings
    <3>2. Doomed(c)'
      BY <2>2, <3>1, <1>9, <1>13, <1>14 DEF Doomed, Child, Bound
    <3> QED BY <2>2, <3>2
  <2>4. CASE ~Pending(b, m)
    <3>1. PICK x \in Things : taddr'[x] = b /\ chg'[<<x, m>>]
      BY <2>4, <1>9 DEF Pending
    <3>2. taddr[x] = b
      BY <3>1, <1>11
    <3>3. m \in 1 .. NPort[x]
      BY <2>2, <3>2, PortsAre, Numerals
    <3>4. x = t /\ m = n
      BY <2>4, <3>1, <3>2, <3>3, <1>10, <1>12 DEF Pending
    <3>5. b \in Scanners(p)
      BY <2>2, <3>2, <3>4, <1>2, ScannersAre
    <3>6. \A e \in Gone(b, n) : Bound(e)
      BY <3>5, <1>4 DEF Quiet, Bound
    <3>7. c \in Gone(b, n)
      BY <2>1, <2>2, <3>4, GoneIs
    <3>8. \A k \in 1 .. MaxPort : Child(c, k) # NoDev => Bound(Child(c, k))
      BY <2>2, <3>4, <3>6, <3>7, GoneIs
    <3>9. ASSUME Present(c)' PROVE FALSE
      <4>1. PICK y \in Things : taddr'[y] = c
        BY <3>9 DEF Present
      <4>2. y \notin X /\ taddr[y] = c
        BY <2>2, <4>1, <1>11
      <4>3. y # Root
        BY <2>2, <4>2 DEF IInv, HubsAnswer
      <4>4. PICK z, k, e : PlacedAt(y, z, k, e)
        BY <2>2, <4>2, <4>3 DEF IInv, Placed
      <4>5. /\ z \in Things /\ k \in 1 .. NPort[z] /\ plug[<<z, k>>] = y /\ taddr[z] = e /\ e \in Addr
            /\ Child(e, k) = c
        BY <2>2, <4>2, <4>4 DEF PlacedAt, Sits
      <4>6. z = t /\ k = n
        BY <2>1, <2>2, <3>2, <3>3, <3>4, <4>5, OnePlace
      <4> QED BY <4>2, <4>5, <4>6, <1>2, <1>3, <1>8
    <3>10. Bound(c)' /\ \A k \in 1 .. MaxPort : Child(c, k)' # NoDev => Bound(Child(c, k))'
      BY <3>6, <3>7, <3>8, <1>9 DEF Child, Bound
    <3>11. Doomed(c)'
      BY <3>9, <3>10 DEF Doomed
    <3> QED BY <2>2, <3>11
  <2> QED BY <2>3, <2>4
<1>19. HubsAnswer'
  <2>1. \A x \in Things : (taddr'[x] = 1) = (x = Root)
    BY <1>8, <1>11, Numerals DEF IInv, HubsAnswer
  <2>2. \A x \in Things \ {Root} : taddr'[x] \in Addr => taddr'[x] = taddr[x]
    BY <1>11
  <2> QED BY <2>1, <2>2, <1>9 DEF IInv, HubsAnswer, On, Scans
<1>20. ASSUME NEW v \in Things, v \notin X, NEW x, NEW m, NEW b, Sits(v, x, m, b)
       PROVE  Sits(v, x, m, b)' /\ x \in Things /\ m \in 1 .. NPort[x] /\ b \in Addr
  <2>1. x \in Things /\ m \in 1 .. NPort[x] /\ plug[<<x, m>>] = v /\ taddr[x] = b /\ b \in Addr /\ Scans(b)
    BY <1>20 DEF Sits
  <2>2. x \notin X
    BY <2>1, <1>8, <1>20
  <2>3. <<x, m>> # p /\ <<x, m>> \in Port
    BY <2>1, <1>3, <1>8, <1>12, <1>20
  <2> QED BY <2>1, <2>2, <2>3, <1>10, <1>11, <1>13 DEF Sits
<1>21. Placed'
  <2> SUFFICES ASSUME NEW v \in Things \ {Root}, taddr'[v] \in Addr
               PROVE  \E x \in Things : \E m \in 1 .. NPort[x] : \E b \in Addr : PlacedAt(v, x, m, b)'
    BY DEF Placed
  <2>1. v \notin X /\ taddr'[v] = taddr[v]
    BY <1>11
  <2>2. PICK x, m, b : PlacedAt(v, x, m, b)
    BY <2>1 DEF IInv, Placed
  <2>3. Sits(v, x, m, b)' /\ x \in Things /\ m \in 1 .. NPort[x] /\ b \in Addr
    BY <2>1, <2>2, <1>20 DEF PlacedAt
  <2>4. PlacedAt(v, x, m, b)'
    BY <2>1, <2>2, <2>3, <1>9, <1>13 DEF PlacedAt
  <2> QED BY <2>3, <2>4
<1>22. Default'
  <2> SUFFICES ASSUME NEW v \in Things, taddr'[v] = 0
               PROVE  \E x \in Things : \E m \in 1 .. NPort[x] : \E b \in Addr : DefaultAt(v, x, m, b)'
    BY DEF Default
  <2>1. v \notin X /\ taddr[v] = 0
    BY <1>11
  <2>2. PICK x, m, b : DefaultAt(v, x, m, b)
    BY <2>1 DEF IInv, Default
  <2>3. Sits(v, x, m, b)' /\ x \in Things /\ m \in 1 .. NPort[x] /\ b \in Addr
    BY <2>1, <2>2, <1>20 DEF DefaultAt
  <2>4. DefaultAt(v, x, m, b)'
    BY <2>2, <2>3, <1>9, <1>13 DEF DefaultAt
  <2> QED BY <2>3, <2>4
<1>23. Linked'
  <2> SUFFICES ASSUME NEW x \in Things, NEW m \in 1 .. NPort[x], taddr'[x] \in Addr, ~chg'[<<x, m>>],
                      Child(taddr'[x], m) # NoDev
               PROVE  /\ plug'[<<x, m>>] # Nothing
                      /\ Bound(Child(taddr'[x], m)) => taddr'[plug'[<<x, m>>]] = Child(taddr'[x], m)
    BY <1>9 DEF Linked, Child, Bound
  <2>1. <<x, m>> # p /\ <<x, m>> \in Port /\ x \notin X /\ taddr'[x] = taddr[x]
    BY <1>10, <1>11, <1>12
  <2>2. plug'[<<x, m>>] = plug[<<x, m>>] /\ chg'[<<x, m>>] = chg[<<x, m>>]
    BY <2>1, <1>10
  <2>3. /\ plug[<<x, m>>] # Nothing
        /\ Bound(Child(taddr[x], m)) => taddr[plug[<<x, m>>]] = Child(taddr[x], m)
    BY <2>1, <2>2 DEF IInv, Linked
  <2>4. plug[<<x, m>>] \in Things /\ plug[<<x, m>>] \notin X
    BY <2>1, <2>3, <1>5, <1>8, <1>12
  <2> QED BY <2>1, <2>2, <2>3, <2>4, <1>11
<1>24. Sampled'
  <2> SUFFICES ASSUME NEW a \in Addr, hub[a].pc \in {"ports", "connect"}, ~hub[a].sts.connection,
                      NEW x \in Things, taddr'[x] = a
               PROVE  plug'[<<x, hub[a].counter>>] = Nothing
    BY <1>9 DEF Sampled
  <2>1. Scans(a) /\ taddr[x] = a
    BY <1>11 DEF Scans
  <2>2. <<x, hub[a].counter>> \in Port
    BY <2>1, PortsAre
  <2>3. plug[<<x, hub[a].counter>>] = Nothing
    BY <2>1 DEF IInv, Sampled
  <2> QED BY <2>2, <2>3, <1>10
<1>25. UNCHANGED soft
  BY <1>9 DEF soft
<1> QED BY <1>10, <1>11, <1>16, <1>17, <1>18, <1>19, <1>21, <1>22, <1>23, <1>24, <1>25, SoftInv

-----------------------------------------------------------------------------
(* Every step keeps the invariant.                                         *)

LEMMA NextInv == ASSUME IInv, OneHub, Roomy, ~rough', [Next]_vars PROVE IInv'
<1>1. CASE \E a \in Addr : HubStep(a)
  <2>1. PICK a \in Addr : HubStep(a)
    BY <1>1
  <2>2. CASE HubInit(a)
    BY <2>2, HubInitInv
  <2>3. CASE HubPoll(a)
    BY <2>3, PollInv
  <2>4. CASE HubStatus(a)
    BY <2>4, StatusInv
  <2>5. CASE HubPort(a)
    BY <2>5, PortInv
  <2>6. CASE HubConnect(a)
    BY <2>6, ConnectInv
  <2>7. CASE HubReset(a)
    BY <2>7, ResetInv
  <2>8. CASE HubEnabled(a)
    BY <2>8, EnabledInv
  <2>9. CASE HubAttach(a)
    BY <2>9, AttachInv
  <2> QED BY <2>1, <2>2, <2>3, <2>4, <2>5, <2>6, <2>7, <2>8, <2>9 DEF HubStep
<1>2. CASE ProbeStep
  <2>1. CASE ProbeStart
    BY <2>1, StartInv
  <2>2. CASE ProbeDesc
    BY <2>2, DescInv
  <2>3. CASE ProbeReset
    BY <2>3, ProbeResetInv
  <2>4. CASE ProbeAddr
    BY <2>4, ProbeAddrInv
  <2>5. CASE ProbeConfig
    BY <2>5, ConfigInv
  <2> QED BY <1>2, <2>1, <2>2, <2>3, <2>4, <2>5 DEF ProbeStep
<1>3. CASE Env
  <2>1. ASSUME NEW p \in Port, Unplug(p) PROVE IInv'
    BY <2>1, UnplugInv
  <2>2. ASSUME NEW p \in Port, NEW t \in Things \ {Root}, Plug(p, t) PROVE IInv'
    BY <2>2, PlugInv
  <2>3. ASSUME NEW a \in Addr, Reconnect(a) PROVE IInv'
    BY <2>3, ReconnectInv
  <2> QED BY <1>3, <2>1, <2>2, <2>3 DEF Env
<1>4. CASE UNCHANGED vars
  <2>1. /\ plug' = plug /\ chg' = chg /\ taddr' = taddr /\ bitmap' = bitmap /\ dev' = dev
        /\ new_dev' = new_dev /\ probe' = probe /\ hub' = hub /\ fuel' = fuel
    BY <1>4 DEF vars
  <2>2. \A b : /\ Bound(b)' = Bound(b) /\ (\A n : Child(b, n)' = Child(b, n)) /\ Present(b)' = Present(b)
               /\ On(b)' = On(b) /\ Scans(b)' = Scans(b) /\ Attaches(b)' = Attaches(b)
    BY <2>1 DEF Bound, Child, Present, On, Scans, Attaches
  <2>3. Cables' /\ HubsAnswer' /\ Sampled'
    BY <2>1 DEF IInv, Cables, HubsAnswer, On, Scans, Sampled
  <2>4. Attaching'
    <3> SUFFICES ASSUME NEW a \in Addr PROVE AttachingAt(a)'
      BY DEF Attaching
    <3>1. AttachingAt(a)
      BY DEF IInv, Attaching
    <3>2. Child(a, hub[a].counter)' = Child(a, hub[a].counter)
      BY <2>1 DEF Child
    <3> QED BY <3>1, <3>2, <2>1, <2>2 DEF AttachingAt
  <2>5. Pendings'
    <3>1. \A a, n : Pending(a, n)' = Pending(a, n)
      BY <2>1 DEF Pending
    <3>2. \A c : Doomed(c)' = Doomed(c)
      BY <2>2 DEF Doomed
    <3>3. Pendings
      BY DEF IInv
    <3> QED BY <2>2, <3>1, <3>2, <3>3 DEF Pendings
  <2>6. \A u, t, n, a : Sits(u, t, n, a)' = Sits(u, t, n, a)
    BY <2>1 DEF Sits, Scans
  <2>7. Placed'
    <3>1. \A u, t, n, a : PlacedAt(u, t, n, a) => PlacedAt(u, t, n, a)'
      BY <2>1, <2>2, <2>6 DEF PlacedAt
    <3> QED BY <2>1, <3>1 DEF IInv, Placed
  <2>8. Default'
    <3>1. \A u, t, n, a : DefaultAt(u, t, n, a) => DefaultAt(u, t, n, a)'
      BY <2>1, <2>2, <2>6 DEF DefaultAt
    <3> QED BY <2>1, <3>1 DEF IInv, Default
  <2>9. Linked'
    BY <2>1 DEF IInv, Linked, Child, Bound
  <2>10. /\ plug' \in [Port -> (Things \ {Root}) \cup {Nothing}] /\ chg' \in [Port -> BOOLEAN]
         /\ taddr' \in [Things -> -2 .. MaxAddr] /\ fuel' \in Nat /\ UNCHANGED soft
    BY <2>1 DEF IInv, TypeOK, soft
  <2> QED BY <2>3, <2>4, <2>5, <2>7, <2>8, <2>9, <2>10, SoftInv
<1> QED BY <1>1, <1>2, <1>3, <1>4 DEF Next

\* The invariant holds until a cable is moved in one of the windows.
LEMMA IInvHolds == ASSUME OneHub, Roomy PROVE Spec => [](rough \/ IInv)
<1>1. Init => rough \/ IInv
  BY InitInv
<1>2. (rough \/ IInv) /\ [Next]_vars => (rough \/ IInv)'
  <2> SUFFICES ASSUME rough \/ IInv, [Next]_vars, ~rough' PROVE IInv'
    OBVIOUS
  <2>1. ~rough
    BY DEF Next, HubStep, HubInit, HubPoll, HubStatus, HubPort, HubConnect, HubReset, HubEnabled,
           HubAttach, ProbeStep, ProbeStart, ProbeDesc, ProbeReset, ProbeAddr, ProbeConfig,
           Env, Plug, Unplug, Reconnect, vars
  <2> QED BY <2>1, NextInv
<1> QED BY <1>1, <1>2, PTL DEF Spec

-----------------------------------------------------------------------------
(* What the invariant says.                                                *)

LEMMA ExactNow == ASSUME IInv, OneHub, Roomy PROVE AddressesExact
<1>1. 1 \in Addr /\ 1 \in bitmap /\ bitmap = {a \in Addr : dev[a].live}
  BY Numerals DEF IInv, Tree
<1>2. Family(1) = {1} \cup Kids(1) \cup Below2(1)
  BY <1>1, FamilyIs
<1>3. \A a \in Addr : Kids(a) \subseteq bitmap
  BY Types DEF Kids, IInv, Tree
<1>4. Kids(1) \subseteq Addr /\ Below2(1) \subseteq bitmap
  BY <1>3 DEF Kids, Below2
<1>5. ASSUME NEW c \in bitmap \ {1} PROVE c \in Kids(1) \cup Below2(1)
  <2>1. PICK a : a = dev[c].parent
    OBVIOUS
  <2>2. PICK n : n = PortOf(c)
    OBVIOUS
  <2>3. a \in Addr /\ n \in 1 .. MaxPort /\ Child(a, n) = c /\ c # NoDev /\ c \in Addr
    BY <2>1, <2>2, <1>1, ParentIs
  <2>4. c \in Kids(a)
    BY <2>3 DEF Kids
  <2>5. CASE a = 1
    BY <2>4, <2>5
  <2>6. CASE a # 1
    <3>1. Child(1, 1) = a /\ 1 \in 1 .. MaxPort
      BY <2>3, <2>6, NotDeep, Numerals
    <3>2. a \in Kids(1)
      BY <2>3, <3>1 DEF Kids
    <3> QED BY <2>3, <2>4, <3>2 DEF Below2
  <2> QED BY <2>5, <2>6
<1> QED BY <1>1, <1>2, <1>3, <1>4, <1>5 DEF AddressesExact

LEMMA RightNow == ASSUME IInv, OneHub PROVE DriverTalksToItsDevice
<1> SUFFICES ASSUME NEW c \in bitmap \ {1}, Bound(c), NEW t \in HubAt(dev[c].parent),
                    ~chg[<<t, PortOf(c)>>]
             PROVE  At(c) = {plug[<<t, PortOf(c)>>]}
  BY DEF DriverTalksToItsDevice, Bound
<1>1. PICK a : a = dev[c].parent
  OBVIOUS
<1>2. PICK n : n = PortOf(c)
  OBVIOUS
<1>3. a \in Addr /\ Scans(a) /\ n \in 1 .. hub[a].ports /\ Child(a, n) = c /\ c # NoDev /\ c \in Addr
  BY <1>1, <1>2, ParentIs DEF IInv, TypeOK
<1>4. t \in Things /\ taddr[t] = a
  BY <1>1, <1>3, HubAtIs DEF On, Scans
<1>5. n \in 1 .. NPort[t]
  BY <1>3, <1>4, PortsAre
<1>6. plug[<<t, n>>] # Nothing /\ taddr[plug[<<t, n>>]] = c
  BY <1>2, <1>3, <1>4, <1>5 DEF IInv, Linked
<1>7. plug[<<t, n>>] \in Things
  <2>1. <<t, n>> \in Port
    BY <1>4, <1>5, PortIs
  <2> QED BY <2>1, <1>6 DEF IInv, TypeOK
<1>8. ASSUME NEW y \in Things, taddr[y] = c PROVE y = plug[<<t, n>>]
  <2>1. y # Root
    BY <1>8 DEF IInv, HubsAnswer
  <2>2. PICK z, k, e : PlacedAt(y, z, k, e)
    BY <2>1, <1>3, <1>8 DEF IInv, Placed
  <2>3. /\ z \in Things /\ k \in 1 .. NPort[z] /\ plug[<<z, k>>] = y /\ taddr[z] = e /\ e \in Addr
        /\ Child(e, k) = c
    BY <2>2, <1>8 DEF PlacedAt, Sits
  <2>4. z = t /\ k = n
    BY <2>3, <1>3, <1>4, <1>5, OnePlace
  <2> QED BY <2>3, <2>4
<1> QED BY <1>2, <1>6, <1>7, <1>8 DEF At

-----------------------------------------------------------------------------
(* The device under enumeration, with any number of hubs and whatever the  *)
(* cables do: it is enough that a hub which is past the check of new_dev   *)
(* is the only one, and finds nobody under enumeration.                    *)

\* The counter of a hub is a port, and a hub that waits is past the check.
Counters ==
    \A a \in Addr : /\ hub[a].counter \in 1 .. MaxPort /\ hub[a].ports <= MaxPort
                    /\ hub[a].pc = "wait" => hub[a].by = "connect"

\* The device of a hub driver exists and keeps its address.
KnownHubs == \A a \in Addr : On(a) => a \in bitmap /\ dev[a].live

\* A device gives back its own address or none.
KnownNumbers ==
    /\ \A a \in Addr : dev[a].devnum \in {0, a}
    /\ new_dev # NoDev => /\ probe.pc = "start" => dev[new_dev].devnum = new_dev
                          /\ probe.pc \in {"desc", "reset"} => dev[new_dev].temp = new_dev

\* The device under enumeration is known to a hub that works.
Held(c) ==
    /\ c \in bitmap /\ dev[c].live
    /\ dev[c].parent \in Addr /\ Scans(dev[c].parent)
    /\ \E n \in 1 .. MaxPort : Child(dev[c].parent, n) = c
NewHeld == (probe.pc = "idle") = (new_dev = NoDev) /\ (new_dev # NoDev => Held(new_dev))

OnePast ==
    /\ \A a, b \in Addr : Past(a) /\ Past(b) => a = b
    /\ \A a \in Addr : Past(a) => new_dev = NoDev

Own == TypeOK /\ Counters /\ KnownHubs /\ KnownNumbers /\ NewHeld /\ OnePast

PastAs(g) == g.pc = "connect" \/ (g.pc \in Connecting /\ g.by = "connect")

\* What a hub h may become.
Fits(h, g) ==
    /\ g \in Hub /\ g.counter \in 1 .. MaxPort /\ g.ports <= MaxPort
    /\ g.pc = "wait" => g.by = "connect"
    /\ h.pc \notin {"off", "init"} => g.pc \notin {"off", "init"}
    /\ g.pc # "off" => h.pc # "off"

LEMMA EnterPortFits ==
    ASSUME NEW h \in Hub, NEW n \in 1 .. MaxPort, h.ports <= MaxPort, h.pc # "off"
    PROVE  Fits(h, EnterPort(h, n)) /\ ~PastAs(EnterPort(h, n)) /\ EnterPort(h, n).pc \notin {"off", "init"}
<1> DEFINE g == EnterPort(h, n)
<1>1. n \in Nat
  BY Numerals
<1>2. /\ g \in Hub /\ g.counter = n /\ g.ports = h.ports /\ g.by = "scan" /\ g.pc \in {"reset", "status"}
  BY <1>1 DEF EnterPort, Hub
<1> HIDE DEF g
<1> QED BY <1>2 DEF Fits, PastAs, g

LEMMA AbandonFits ==
    ASSUME NEW h \in Hub, h.counter \in 1 .. MaxPort, h.ports <= MaxPort, h.pc # "off"
    PROVE  Fits(h, Abandon(h)) /\ ~PastAs(Abandon(h)) /\ Abandon(h).pc \notin {"off", "init"}
<1> DEFINE g == Abandon(h)
<1>1. g \in Hub /\ g.counter = h.counter /\ g.ports = h.ports /\ g.pc = "poll"
  BY DEF Abandon, Hub
<1> HIDE DEF g
<1> QED BY <1>1 DEF Fits, PastAs, Connecting, g

LEMMA NextPortFits ==
    ASSUME NEW h \in Hub, h.counter \in 1 .. MaxPort, h.ports <= MaxPort, h.pc # "off"
    PROVE  Fits(h, NextPort(h)) /\ ~PastAs(NextPort(h)) /\ NextPort(h).pc \notin {"off", "init"}
<1>1. CASE h.counter < h.ports
  <2>1. h.counter + 1 \in 1 .. MaxPort
    BY <1>1, Numerals DEF Hub
  <2> QED BY <1>1, <2>1, EnterPortFits DEF NextPort
<1>2. CASE ~(h.counter < h.ports)
  <2> DEFINE g == [h EXCEPT !.pc = "poll"]
  <2>1. g \in Hub /\ g.counter = h.counter /\ g.ports = h.ports /\ g.pc = "poll"
    BY DEF Hub
  <2>2. NextPort(h) = g
    BY <1>2 DEF NextPort
  <2> HIDE DEF g
  <2> QED BY <2>1, <2>2 DEF Fits, PastAs, Connecting
<1> QED BY <1>1, <1>2

LEMMA ConnectedFits ==
    ASSUME NEW h \in Hub, h.counter \in 1 .. MaxPort, h.ports <= MaxPort, h.pc \notin {"off", "init"}
    PROVE  Fits(h, Connected(h)) /\ ~PastAs(Connected(h)) /\ Connected(h).pc \notin {"off", "init"}
<1> DEFINE k == [h EXCEPT !.reconnect = IF h.again THEN @ \ {h.counter} ELSE @, !.again = FALSE]
<1>1. k \in Hub /\ k.pc = h.pc /\ k.ports = h.ports /\ k.counter = h.counter
  BY DEF Hub
<1>2. Connected(h) = NextPort(k)
  BY DEF Connected
<1> HIDE DEF k
<1>3. Fits(k, NextPort(k)) /\ ~PastAs(NextPort(k)) /\ NextPort(k).pc \notin {"off", "init"}
  BY <1>1, NextPortFits
<1> QED BY <1>1, <1>2, <1>3 DEF Fits

\* Only one hub changes.
LEMMA OwnMoves ==
    ASSUME Own, NEW a \in Addr, NEW g, hub' = [hub EXCEPT ![a] = g], Fits(hub[a], g),
           PastAs(g) => PastAs(hub[a]) \/ (new_dev = NoDev /\ \A b \in Addr \ {a} : ~Past(b)),
           UNCHANGED <<bitmap, dev, new_dev, probe>>,
           plug' \in [Port -> (Things \ {Root}) \cup {Nothing}], chg' \in [Port -> BOOLEAN],
           taddr' \in [Things -> -2 .. MaxAddr], fuel' \in Nat
    PROVE  Own'
<1>1. /\ bitmap' = bitmap /\ dev' = dev /\ new_dev' = new_dev /\ probe' = probe
      /\ hub \in [Addr -> Hub] /\ dev \in [Addr -> Device]
  BY DEF Own, TypeOK
<1>2. hub'[a] = g /\ (\A b \in Addr : b # a => hub'[b] = hub[b]) /\ hub' \in [Addr -> Hub]
  BY <1>1 DEF Fits
<1>3. TypeOK'
  BY <1>1, <1>2 DEF Own, TypeOK
<1>4. Counters'
  BY <1>2 DEF Own, Counters, Fits
<1>5. KnownHubs'
  BY <1>1, <1>2 DEF Own, KnownHubs, On, Fits
<1>6. KnownNumbers'
  BY <1>1 DEF Own, KnownNumbers
<1>7. NewHeld'
  <2>1. \A b \in Addr : Scans(b) => Scans(b)'
    BY <1>2 DEF Scans, Fits
  <2>2. \A c, n : Child(c, n)' = Child(c, n)
    BY <1>1 DEF Child
  <2>3. \A c : Held(c) => Held(c)'
    BY <1>1, <2>1, <2>2 DEF Held
  <2> QED BY <1>1, <2>3 DEF Own, NewHeld
<1>8. OnePast'
  <2>1. \A b \in Addr : b # a => Past(b)' = Past(b)
    BY <1>2 DEF Past
  <2>2. Past(a)' = PastAs(g) /\ Past(a) = PastAs(hub[a])
    BY <1>2 DEF Past, PastAs
  <2> QED BY <1>1, <2>1, <2>2 DEF Own, OnePast
<1> QED BY <1>3, <1>4, <1>5, <1>6, <1>7, <1>8 DEF Own

\* What the invariant says of one hub.
LEMMA OwnHub ==
    ASSUME Own, NEW a \in Addr
    PROVE  /\ hub \in [Addr -> Hub] /\ hub[a] \in Hub /\ hub[a].counter \in 1 .. MaxPort
           /\ hub[a].ports <= MaxPort /\ (hub[a].pc = "wait" => hub[a].by = "connect")
           /\ plug \in [Port -> (Things \ {Root}) \cup {Nothing}] /\ chg \in [Port -> BOOLEAN]
           /\ taddr \in [Things -> -2 .. MaxAddr] /\ fuel \in Nat
           /\ Past(a) = PastAs(hub[a])
BY DEF Own, TypeOK, Counters, Past, PastAs

LEMMA InitOwn == ASSUME Own, NEW a \in Addr, HubInit(a) PROVE Own'
<1>1. hub[a].pc = "init" /\ UNCHANGED <<plug, taddr, bitmap, dev, new_dev, probe, fuel>>
  BY DEF HubInit
<1>2. ASSUME NEW t \in HubAt(a), hub' = [hub EXCEPT ![a].pc = "poll", ![a].ports = NPort[t]],
             chg' = [p \in Port |-> IF p[1] = t THEN plug[p] # Nothing ELSE chg[p]]
      PROVE  Own'
  <2> DEFINE g == [hub[a] EXCEPT !.pc = "poll", !.ports = NPort[t]]
  <2>1. t \in Things /\ NPort[t] \in Nat /\ NPort[t] <= MaxPort
    BY MaxPortIs, UsbhAssumption DEF HubAt, At
  <2>2. hub' = [hub EXCEPT ![a] = g]
    BY <1>2, OwnHub
  <2>3. g \in Hub /\ g.pc = "poll" /\ g.ports = NPort[t] /\ g.counter = hub[a].counter
    BY <2>1, OwnHub DEF Hub
  <2> HIDE DEF g
  <2>4. Fits(hub[a], g) /\ ~PastAs(g)
    BY <1>1, <2>1, <2>3, OwnHub DEF Fits, PastAs, Connecting
  <2>5. chg' \in [Port -> BOOLEAN]
    BY <1>2, OwnHub
  <2> QED BY <1>1, <2>2, <2>4, <2>5, OwnHub, OwnMoves
<1>3. ASSUME hub' = [hub EXCEPT ![a] = NoHub], chg' = chg PROVE Own'
  <2>1. NoHub \in Hub /\ NoHub.pc = "off" /\ NoHub.counter = 1 /\ NoHub.ports = 0
    BY DEF NoHub, Hub
  <2>2. Fits(hub[a], NoHub) /\ ~PastAs(NoHub)
    BY <1>1, <2>1, Numerals DEF Fits, PastAs, Connecting
  <2> QED BY <1>1, <1>3, <2>2, OwnHub, OwnMoves
<1> QED BY <1>2, <1>3 DEF HubInit

LEMMA PollOwn == ASSUME Own, NEW a \in Addr, HubPoll(a) PROVE Own'
<1>1. /\ hub[a].pc = "poll" /\ hub' = [hub EXCEPT ![a] = EnterPort(hub[a], 1)]
      /\ UNCHANGED <<plug, chg, taddr, bitmap, dev, new_dev, probe, fuel>>
  BY DEF HubPoll, bus
<1>2. Fits(hub[a], EnterPort(hub[a], 1)) /\ ~PastAs(EnterPort(hub[a], 1))
  <2>1. 1 \in 1 .. MaxPort
    BY Numerals
  <2> QED BY <1>1, <2>1, OwnHub, EnterPortFits
<1> QED BY <1>1, <1>2, OwnHub, OwnMoves

LEMMA AbandonOwn ==
    ASSUME Own, NEW a \in Addr, On(a), hub' = [hub EXCEPT ![a] = Abandon(hub[a])],
           UNCHANGED <<plug, chg, taddr, bitmap, dev, new_dev, probe, fuel>>
    PROVE  Own'
<1>1. Fits(hub[a], Abandon(hub[a])) /\ ~PastAs(Abandon(hub[a]))
  BY OwnHub, AbandonFits DEF On
<1> QED BY <1>1, OwnHub, OwnMoves

LEMMA StatusOwn == ASSUME Own, NEW a \in Addr, HubStatus(a) PROVE Own'
<1>1. hub[a].pc = "status" /\ UNCHANGED <<plug, chg, taddr, bitmap, dev, new_dev, probe, fuel>>
  BY DEF HubStatus, bus
<1>2. CASE hub' = [hub EXCEPT ![a] = Abandon(hub[a])]
  BY <1>1, <1>2, AbandonOwn DEF On
<1>3. ASSUME NEW t \in PortAt(a), NEW s,
             s = [connection |-> plug[<<t, hub[a].counter>>] # Nothing,
                  change |-> chg[<<t, hub[a].counter>>]],
             hub' = [hub EXCEPT ![a].pc = "ports", ![a].sts = s]
      PROVE  Own'
  <2> DEFINE g == [hub[a] EXCEPT !.pc = "ports", !.sts = s]
  <2>1. s \in [connection : BOOLEAN, change : BOOLEAN]
    BY <1>3, OwnHub DEF PortAt
  <2>2. hub' = [hub EXCEPT ![a] = g]
    BY <1>3, OwnHub
  <2>3. g \in Hub /\ g.pc = "ports" /\ g.ports = hub[a].ports /\ g.counter = hub[a].counter
    <3>1. hub[a] \in Hub
      BY OwnHub
    <3> QED BY <2>1, <3>1 DEF Hub
  <2> HIDE DEF g
  <2>4. Fits(hub[a], g) /\ ~PastAs(g)
    BY <1>1, <2>3, OwnHub DEF Fits, PastAs, Connecting
  <2> QED BY <1>1, <2>2, <2>4, OwnHub, OwnMoves
<1> QED BY <1>2, <1>3 DEF HubStatus

\* The check of new_dev.
LEMMA PortOwn == ASSUME Own, NEW a \in Addr, HubPort(a), ~crowded' PROVE Own'
<1>1. hub[a].pc = "ports" /\ UNCHANGED <<plug, chg, taddr, bitmap, dev, new_dev, probe, fuel>>
  BY DEF HubPort, bus
<1> DEFINE b == hub[a].counter \in hub[a].reconnect
           c == (b \/ hub[a].sts.change) /\ new_dev = NoDev
           g == [hub[a] EXCEPT !.pc = "connect", !.again = b]
<1>2. CASE c
  <2>1. hub' = [hub EXCEPT ![a] = g]
    BY <1>2 DEF HubPort
  <2>2. b \in BOOLEAN
    OBVIOUS
  <2>3. new_dev = NoDev /\ \A e \in Addr \ {a} : ~Past(e)
    BY <1>2 DEF HubPort
  <2> HIDE DEF b, c
  <2>4. g \in Hub /\ g.pc = "connect" /\ g.ports = hub[a].ports /\ g.counter = hub[a].counter
    BY <2>2, OwnHub DEF Hub
  <2> HIDE DEF g
  <2>5. Fits(hub[a], g)
    BY <1>1, <2>4, OwnHub DEF Fits
  <2> QED BY <1>1, <2>1, <2>3, <2>5, OwnHub, OwnMoves
<1>3. CASE ~c
  <2>1. hub' = [hub EXCEPT ![a] = NextPort(hub[a])]
    BY <1>3 DEF HubPort
  <2>2. Fits(hub[a], NextPort(hub[a])) /\ ~PastAs(NextPort(hub[a]))
    BY <1>1, OwnHub, NextPortFits
  <2> QED BY <1>1, <2>1, <2>2, OwnHub, OwnMoves
<1> QED BY <1>2, <1>3

LEMMA ResetOwn == ASSUME Own, NEW a \in Addr, HubReset(a) PROVE Own'
<1>1. hub[a].pc = "reset" /\ UNCHANGED <<plug, chg, bitmap, dev, new_dev, probe, fuel>>
  BY DEF HubReset
<1>2. CASE PortAt(a) = {}
  <2>1. hub' = [hub EXCEPT ![a] = Abandon(hub[a])] /\ taddr' = taddr
    BY <1>2 DEF HubReset
  <2> QED BY <1>1, <2>1, AbandonOwn DEF On
<1>3. CASE PortAt(a) # {}
  <2> DEFINE g == [hub[a] EXCEPT !.pc = "enabled"]
  <2>1. hub' = [hub EXCEPT ![a] = g]
    BY <1>3, OwnHub DEF HubReset
  <2>2. PICK u : taddr' = [v \in Things |-> IF v = u THEN IF u \in Mute THEN Silent ELSE 0
                                           ELSE IF u # Nothing /\ v \in Under(u) THEN Off
                                           ELSE taddr[v]]
    BY <1>3 DEF HubReset
  <2>3. taddr' \in [Things -> -2 .. MaxAddr]
    BY <2>2, OwnHub, Numerals DEF Silent, Off
  <2>4. g \in Hub /\ g.pc = "enabled" /\ g.ports = hub[a].ports /\ g.counter = hub[a].counter /\ g.by = hub[a].by
    BY OwnHub DEF Hub
  <2> HIDE DEF g
  <2>5. Fits(hub[a], g) /\ (PastAs(g) => PastAs(hub[a]))
    BY <1>1, <2>4, OwnHub DEF Fits, PastAs, Connecting
  <2> QED BY <1>1, <2>1, <2>3, <2>5, OwnHub, OwnMoves
<1> QED BY <1>2, <1>3

LEMMA EnabledOwn == ASSUME Own, NEW a \in Addr, HubEnabled(a) PROVE Own'
<1>1. hub[a].pc = "enabled" /\ UNCHANGED <<plug, chg, taddr, bitmap, dev, new_dev, probe, fuel>>
  BY DEF HubEnabled, bus
<1>2. hub[a] \in Hub /\ hub[a].by \in {"scan", "connect"} /\ hub[a].retry \in Nat
  BY OwnHub DEF Hub
<1> DEFINE n == hub[a].counter
           g1 == [hub[a] EXCEPT !.pc = "wait"]
           g2 == [hub[a] EXCEPT !.pc = "status", !.reset = @ \ {n}]
           g3 == [hub[a] EXCEPT !.pc = "reset", !.retry = @ + 1]
<1>3. \/ hub' = [hub EXCEPT ![a] = g1] /\ hub[a].by = "connect"
      \/ hub' = [hub EXCEPT ![a] = g2]
      \/ hub' = [hub EXCEPT ![a] = g3]
      \/ hub' = [hub EXCEPT ![a] = Abandon(hub[a])]
  <2> DEFINE e == \E t \in PortAt(a) : /\ plug[<<t, n>>] # Nothing
                                       /\ taddr[plug[<<t, n>>]] # Off
             G == CASE e /\ hub[a].by = "connect" -> g1
                    [] e /\ hub[a].by = "scan" -> g2
                    [] PortAt(a) # {} /\ ~e /\ hub[a].retry < MaxRetry -> g3
                    [] OTHER -> Abandon(hub[a])
  <2>1. hub' = [hub EXCEPT ![a] = G]
    BY DEF HubEnabled
  <2> HIDE DEF e, g1, g2, g3
  <2>2. (G = g1 /\ hub[a].by = "connect") \/ G = g2 \/ G = g3 \/ G = Abandon(hub[a])
    BY <1>2
  <2> HIDE DEF G
  <2> QED BY <2>1, <2>2
<1>4. CASE hub' = [hub EXCEPT ![a] = g1] /\ hub[a].by = "connect"
  <2>1. g1 \in Hub /\ g1.pc = "wait" /\ g1.ports = hub[a].ports /\ g1.counter = n /\ g1.by = hub[a].by
    BY <1>2 DEF Hub
  <2>2. hub' = [hub EXCEPT ![a] = g1]
    BY <1>4
  <2> HIDE DEF g1
  <2>3. Fits(hub[a], g1) /\ PastAs(hub[a])
    BY <1>1, <1>4, <2>1, OwnHub DEF Fits, PastAs, Connecting
  <2> QED BY <1>1, <2>2, <2>3, OwnHub, OwnMoves
<1>5. CASE hub' = [hub EXCEPT ![a] = g2]
  <2>1. g2 \in Hub /\ g2.pc = "status" /\ g2.ports = hub[a].ports /\ g2.counter = n
    BY <1>2 DEF Hub
  <2> HIDE DEF g2
  <2>2. Fits(hub[a], g2) /\ ~PastAs(g2)
    BY <1>1, <2>1, OwnHub DEF Fits, PastAs, Connecting
  <2> QED BY <1>1, <1>5, <2>2, OwnHub, OwnMoves
<1>6. CASE hub' = [hub EXCEPT ![a] = g3]
  <2>1. hub[a].retry + 1 \in Nat
    BY <1>2
  <2>2. g3 \in Hub /\ g3.pc = "reset" /\ g3.ports = hub[a].ports /\ g3.counter = n /\ g3.by = hub[a].by
    BY <1>2, <2>1 DEF Hub
  <2> HIDE DEF g3
  <2>3. Fits(hub[a], g3) /\ (PastAs(g3) => PastAs(hub[a]))
    BY <1>1, <2>2, OwnHub DEF Fits, PastAs, Connecting
  <2> QED BY <1>1, <1>6, <2>3, OwnHub, OwnMoves
<1>7. CASE hub' = [hub EXCEPT ![a] = Abandon(hub[a])]
  BY <1>1, <1>7, AbandonOwn DEF On
<1> QED BY <1>3, <1>4, <1>5, <1>6, <1>7

\* The hub clears the change, and disconnects what was there: nobody is enumerated.
LEMMA ConnectOwn == ASSUME Own, NEW a \in Addr, HubConnect(a) PROVE Own'
<1>1. hub[a].pc = "connect" /\ UNCHANGED <<plug, taddr, new_dev, probe, fuel>>
  BY DEF HubConnect
<1>2. Past(a) /\ new_dev = NoDev /\ \A b \in Addr \ {a} : ~Past(b)
  BY <1>1 DEF Past, Own, OnePast
<1>3. CASE hub' = [hub EXCEPT ![a] = Abandon(hub[a])] /\ UNCHANGED <<chg, dev, bitmap>>
  BY <1>1, <1>3, AbandonOwn DEF On
<1>4. ASSUME NEW t \in PortAt(a), NEW n, n = hub[a].counter, NEW G, G = Gone(a, n),
             chg' = [chg EXCEPT ![<<t, n>>] = FALSE], dev' = DevAfter(a, n), bitmap' = BitmapAfter(a, n),
             hub' = [b \in Addr |->
                     IF b \in G THEN NoHub
                     ELSE IF b # a THEN hub[b]
                     ELSE IF hub[a].sts.connection
                          THEN [hub[a] EXCEPT !.pc = "reset", !.by = "connect", !.retry = 0]
                          ELSE Connected(hub[a])]
      PROVE  Own'
  <2>1. G \subseteq Addr
    BY <1>4 DEF Gone, Family
  <2>2. /\ hub \in [Addr -> Hub] /\ dev \in [Addr -> Device] /\ bitmap \in SUBSET Addr
        /\ hub[a] \in Hub /\ n \in 1 .. MaxPort /\ hub[a].ports <= MaxPort
    BY <1>4, OwnHub DEF Own, TypeOK
  <2>3. NoChildren \in [1 .. MaxPort -> 0 .. MaxAddr]
    BY Numerals DEF NoChildren, NoDev
  <2>4. \A b \in Addr : /\ dev'[b] \in Device /\ dev'[b].devnum = dev[b].devnum
                        /\ b \notin G => dev'[b].live = dev[b].live
    <3> SUFFICES ASSUME NEW b \in Addr
                 PROVE  /\ dev'[b] \in Device /\ dev'[b].devnum = dev[b].devnum
                        /\ b \notin G => dev'[b].live = dev[b].live
      OBVIOUS
    <3>1. dev[b] \in Device
      BY <2>2
    <3>0. dev' = DevAfter(a, n) /\ G = Gone(a, n)
      BY <1>4
    <3>2. CASE b \in G
      <4> DEFINE d == [dev[b] EXCEPT !.live = FALSE, !.children = NoChildren]
      <4>1. dev'[b] = d
        BY <3>0, <3>2 DEF DevAfter
      <4>2. d \in Device /\ d.devnum = dev[b].devnum
        BY <2>3, <3>1 DEF Device
      <4> HIDE DEF d
      <4> QED BY <3>2, <4>1, <4>2
    <3>3. CASE b \notin G /\ b = a
      <4> DEFINE k == [dev[b].children EXCEPT ![n] = NoDev]
                 d == [dev[b] EXCEPT !.children = k]
      <4>1. dev'[b] = d
        BY <3>0, <3>1, <3>3 DEF DevAfter, Device
      <4>2. k \in [1 .. MaxPort -> 0 .. MaxAddr]
        <5>1. dev[b].children \in [1 .. MaxPort -> 0 .. MaxAddr] /\ NoDev \in 0 .. MaxAddr
          BY <3>1, Numerals DEF Device, NoDev
        <5> QED BY <5>1
      <4> HIDE DEF k
      <4>3. d \in Device /\ d.devnum = dev[b].devnum /\ d.live = dev[b].live
        BY <3>1, <4>2 DEF Device
      <4> HIDE DEF d
      <4> QED BY <4>1, <4>3
    <3>4. CASE b \notin G /\ b # a
      BY <3>0, <3>1, <3>4 DEF DevAfter
    <3> QED BY <3>2, <3>3, <3>4
  <2>5. dev' \in [Addr -> Device]
    <3>0. dev' = DevAfter(a, n)
      BY <1>4
    <3>1. dev' = [b \in Addr |-> dev'[b]]
      BY <3>0 DEF DevAfter
    <3> QED BY <2>4, <3>1
  <2>6. bitmap' \in SUBSET Addr /\ \A b \in bitmap : b \notin G => b \in bitmap'
    <3>1. \A c \in G : dev[c].devnum \in {0, c}
      BY <2>1 DEF Own, KnownNumbers
    <3>2. bitmap' = bitmap \ {dev[c].devnum : c \in G}
      BY <1>4 DEF BitmapAfter
    <3>3. \A b \in bitmap : b # 0
      BY <2>2, Numerals
    <3> QED BY <2>2, <3>1, <3>2, <3>3
  <2>7. NoHub \in Hub /\ NoHub.pc = "off" /\ NoHub.counter = 1 /\ NoHub.ports = 0
    BY DEF NoHub, Hub
  <2> DEFINE g == IF hub[a].sts.connection
                  THEN [hub[a] EXCEPT !.pc = "reset", !.by = "connect", !.retry = 0]
                  ELSE Connected(hub[a])
  <2>8. Fits(hub[a], g)
    <3>1. CASE hub[a].sts.connection
      <4> DEFINE k == [hub[a] EXCEPT !.pc = "reset", !.by = "connect", !.retry = 0]
      <4>1. k \in Hub /\ k.pc = "reset" /\ k.counter = n /\ k.ports = hub[a].ports
        BY <1>4, <2>2 DEF Hub
      <4>2. g = k
        BY <3>1
      <4> HIDE DEF k, g
      <4> QED BY <1>1, <2>2, <4>1, <4>2 DEF Fits
    <3>2. CASE ~hub[a].sts.connection
      <4>1. Fits(hub[a], Connected(hub[a]))
        BY <1>1, <1>4, <2>2, ConnectedFits
      <4> QED BY <3>2, <4>1
    <3> QED BY <3>1, <3>2
  <2>9. \A b \in Addr : hub'[b] = IF b \in G THEN NoHub ELSE IF b # a THEN hub[b] ELSE g
    BY <1>4
  <2> HIDE DEF g
  <2>10. hub' \in [Addr -> Hub]
    <3>1. \A b \in Addr : hub'[b] \in Hub
      BY <2>2, <2>7, <2>8, <2>9 DEF Fits
    <3>2. hub' = [b \in Addr |-> hub'[b]]
      BY <1>4
    <3> QED BY <3>1, <3>2
  <2>11. TypeOK'
    <3>1. chg' \in [Port -> BOOLEAN]
      BY <1>4, OwnHub
    <3> QED BY <1>1, <2>5, <2>6, <2>10, <3>1 DEF Own, TypeOK
  <2>12. Counters'
    <3>1. 1 \in 1 .. MaxPort /\ 0 <= MaxPort
      BY Numerals
    <3> QED BY <2>7, <2>8, <2>9, <3>1 DEF Own, Counters, Fits
  <2>13. KnownHubs'
    <3> SUFFICES ASSUME NEW b \in Addr, On(b)' PROVE b \in bitmap' /\ dev'[b].live
      BY DEF KnownHubs
    <3>1. b \notin G
      BY <2>7, <2>9 DEF On
    <3>2. On(b)
      BY <1>1, <2>9, <3>1 DEF On
    <3> QED BY <2>4, <2>6, <3>1, <3>2 DEF Own, KnownHubs
  <2>14. KnownNumbers' /\ NewHeld'
    BY <1>1, <1>2, <2>4 DEF Own, KnownNumbers, NewHeld
  <2>15. OnePast'
    <3>1. \A b \in Addr : b # a => ~Past(b)'
      BY <1>2, <2>7, <2>9 DEF Past, Connecting
    <3> QED BY <1>1, <1>2, <3>1 DEF OnePast
  <2> QED BY <2>11, <2>12, <2>13, <2>14, <2>15 DEF Own
<1> QED BY <1>3, <1>4 DEF HubConnect

\* The device is allocated and handed over by the only hub that is past the check.
LEMMA AttachOwn == ASSUME Own, NEW a \in Addr, HubAttach(a) PROVE Own'
<1>1. hub[a].pc = "wait" /\ new_dev = NoDev /\ UNCHANGED <<plug, chg, taddr, fuel>>
  BY DEF HubAttach, bus
<1>2. CASE bitmap = Addr
  <2>1. hub' = [hub EXCEPT ![a] = Abandon(hub[a])] /\ UNCHANGED <<bitmap, dev, new_dev, probe>>
    BY <1>2 DEF HubAttach
  <2> QED BY <1>1, <2>1, AbandonOwn DEF On
<1>3. CASE bitmap # Addr
  <2>1. PICK d : d = Min(Addr \ bitmap)
    OBVIOUS
  <2>2. PICK n : n = hub[a].counter
    OBVIOUS
  <2>3. /\ bitmap' = bitmap \cup {d} /\ new_dev' = d /\ probe' = [pc |-> "start", cfg |-> 1]
        /\ dev' = [dev EXCEPT ![d] = NewDevice(d, a), ![a].children[n] = d]
        /\ hub' = [hub EXCEPT ![a] = Connected(hub[a])]
    BY <1>3, <2>1, <2>2 DEF HubAttach
  <2>4. /\ hub \in [Addr -> Hub] /\ dev \in [Addr -> Device] /\ bitmap \in SUBSET Addr
        /\ hub[a] \in Hub /\ n \in 1 .. MaxPort /\ hub[a].ports <= MaxPort /\ hub[a].by = "connect"
    BY <1>1, <2>2, OwnHub DEF Own, TypeOK
  <2>5. d \in Addr \ bitmap
    <3>1. Addr \ bitmap \subseteq Nat
      BY Numerals
    <3>2. Addr \ bitmap # {}
      BY <1>3, <2>4
    <3> QED BY <2>1, <3>1, <3>2, LeastNumber
  <2>6. a \in bitmap /\ dev[a].live /\ a # d
    BY <1>1, <2>5 DEF Own, KnownHubs, On
  <2> DEFINE k == [dev[a].children EXCEPT ![n] = d]
             e == [dev[a] EXCEPT !.children = k]
  <2>7. dev'[d] = NewDevice(d, a) /\ dev'[a] = e /\ (\A b \in Addr : b # d /\ b # a => dev'[b] = dev[b])
    BY <2>3, <2>4, <2>5, <2>6
  <2>8. k \in [1 .. MaxPort -> 0 .. MaxAddr] /\ k[n] = d
    <3>1. dev[a].children \in [1 .. MaxPort -> 0 .. MaxAddr]
      BY <2>4 DEF Device
    <3>2. d \in 0 .. MaxAddr
      BY <2>5, Numerals
    <3> QED BY <2>4, <3>1, <3>2
  <2> HIDE DEF k
  <2>9. e \in Device /\ e.live = dev[a].live /\ e.devnum = dev[a].devnum /\ e.children = k
    BY <2>4, <2>8 DEF Device
  <2> HIDE DEF e
  <2>10. /\ NewDevice(d, a) \in Device /\ NewDevice(d, a).live /\ NewDevice(d, a).devnum = d
         /\ NewDevice(d, a).parent = a
    <3>1. NoChildren \in [1 .. MaxPort -> 0 .. MaxAddr] /\ d \in 0 .. MaxAddr /\ a \in 0 .. MaxAddr /\ 0 \in 0 .. MaxAddr
      BY <2>5, Numerals DEF NoChildren, NoDev
    <3> QED BY <3>1 DEF NewDevice, Device
  <2>11. PICK g : g = Connected(hub[a])
    OBVIOUS
  <2>12. Fits(hub[a], g) /\ ~PastAs(g) /\ g.pc \notin {"off", "init"}
    BY <1>1, <2>2, <2>4, <2>11, ConnectedFits
  <2>13. hub'[a] = g /\ (\A b \in Addr : b # a => hub'[b] = hub[b]) /\ hub' \in [Addr -> Hub]
    BY <2>3, <2>4, <2>11, <2>12 DEF Fits
  <2>14. TypeOK'
    <3>1. dev' \in [Addr -> Device]
      <4>1. \A b \in Addr : dev'[b] \in Device
        BY <2>4, <2>7, <2>9, <2>10
      <4>2. dev' = [b \in Addr |-> dev'[b]]
        BY <2>3, <2>4
      <4> QED BY <4>1, <4>2
    <3>2. probe' \in Probe /\ bitmap' \in SUBSET Addr /\ new_dev' \in 0 .. MaxAddr
      BY <2>3, <2>4, <2>5, Numerals DEF Probe
    <3> QED BY <1>1, <2>13, <3>1, <3>2 DEF Own, TypeOK
  <2>15. Counters'
    BY <2>12, <2>13 DEF Own, Counters, Fits
  <2>16. KnownHubs'
    <3> SUFFICES ASSUME NEW b \in Addr, On(b)' PROVE b \in bitmap' /\ dev'[b].live
      BY DEF KnownHubs
    <3>1. On(b)
      BY <1>1, <2>13 DEF On
    <3>2. b \in bitmap /\ dev[b].live
      BY <3>1 DEF Own, KnownHubs
    <3> QED BY <2>3, <2>5, <2>7, <2>9, <3>2
  <2>17. KnownNumbers'
    <3>1. \A b \in Addr : dev'[b].devnum \in {0, b}
      BY <2>7, <2>9, <2>10 DEF Own, KnownNumbers
    <3>2. probe'.pc = "start" /\ dev'[new_dev'].devnum = new_dev'
      BY <2>3, <2>7, <2>10
    <3> QED BY <3>1, <3>2 DEF KnownNumbers
  <2>18. NewHeld'
    <3>1. probe'.pc # "idle" /\ new_dev' # NoDev
      BY <2>3, <2>5, Numerals DEF NoDev
    <3>2. Held(d)'
      <4>1. d \in bitmap' /\ dev'[d].live /\ dev'[d].parent = a
        BY <2>3, <2>7, <2>10
      <4>2. Scans(a)'
        BY <2>12, <2>13 DEF Scans
      <4>3. Child(a, n)' = d
        BY <2>7, <2>8, <2>9 DEF Child
      <4> QED BY <2>4, <4>1, <4>2, <4>3 DEF Held
    <3> QED BY <2>3, <3>1, <3>2 DEF NewHeld
  <2>19. OnePast'
    <3>1. Past(a)
      BY <1>1, <2>4 DEF Past, Connecting
    <3>2. \A b \in Addr : ~Past(b)'
      BY <2>12, <2>13, <3>1 DEF Own, OnePast, Past, PastAs
    <3> QED BY <3>2 DEF OnePast
  <2> QED BY <2>14, <2>15, <2>16, <2>17, <2>18, <2>19 DEF Own
<1> QED BY <1>2, <1>3

\* The thread works on a device that is known.
LEMMA ProbeHas ==
    ASSUME Own, new_dev \in {a \in Addr : dev[a].live}
    PROVE  /\ new_dev \in Addr /\ dev[new_dev] \in Device /\ dev \in [Addr -> Device] /\ Held(new_dev)
           /\ hub \in [Addr -> Hub] /\ probe \in Probe /\ \A a \in Addr : ~Past(a)
<1>1. new_dev # NoDev
  BY Numerals DEF NoDev
<1> QED BY <1>1 DEF Own, TypeOK, NewHeld, OnePast

\* The device changes, but not its place.
LEMMA ProbeOwn ==
    ASSUME Own, new_dev \in {a \in Addr : dev[a].live}, NEW e \in Device,
           dev' = [dev EXCEPT ![new_dev] = e], e.live = TRUE, e.devnum \in {0, new_dev},
           e.parent = dev[new_dev].parent, e.children = dev[new_dev].children,
           probe' \in Probe, taddr' \in [Things -> -2 .. MaxAddr],
           \/ /\ new_dev' = new_dev /\ probe'.pc # "idle"
              /\ probe'.pc = "start" => e.devnum = new_dev
              /\ probe'.pc \in {"desc", "reset"} => e.temp = new_dev
           \/ new_dev' = NoDev /\ probe'.pc = "idle",
           UNCHANGED <<plug, chg, bitmap, hub, fuel>>
    PROVE  Own'
<1>1. /\ new_dev \in Addr /\ dev \in [Addr -> Device] /\ Held(new_dev) /\ \A a \in Addr : ~Past(a)
  BY ProbeHas
<1>2. dev'[new_dev] = e /\ (\A b \in Addr : b # new_dev => dev'[b] = dev[b]) /\ dev' \in [Addr -> Device]
  BY <1>1
<1>3. \A b \in Addr : /\ dev'[b].live = dev[b].live /\ dev'[b].parent = dev[b].parent
                      /\ dev'[b].children = dev[b].children
  <2>1. dev[new_dev].live = TRUE
    BY <1>1 DEF Device
  <2> QED BY <1>2, <2>1
<1>4. TypeOK'
  <2>1. new_dev' \in 0 .. MaxAddr
    BY <1>1, Numerals DEF NoDev
  <2> QED BY <1>2, <2>1 DEF Own, TypeOK
<1>5. Counters' /\ KnownHubs'
  BY <1>3 DEF Own, Counters, KnownHubs, On
<1>6. KnownNumbers'
  <2>1. \A b \in Addr : dev'[b].devnum \in {0, b}
    BY <1>2 DEF Own, KnownNumbers
  <2> QED BY <1>2, <2>1 DEF KnownNumbers
<1>7. NewHeld'
  <2>1. CASE new_dev' = NoDev /\ probe'.pc = "idle"
    BY <2>1 DEF NewHeld
  <2>2. CASE new_dev' = new_dev /\ probe'.pc # "idle"
    <3>1. PICK p \in Addr : p = dev[new_dev].parent
      BY <1>1 DEF Held
    <3>2. PICK n \in 1 .. MaxPort : Child(p, n) = new_dev
      BY <1>1, <3>1 DEF Held
    <3>3. dev'[new_dev].parent = p /\ Child(p, n)' = new_dev /\ Scans(p)' /\ dev'[new_dev].live
      BY <1>1, <1>2, <1>3, <3>1, <3>2 DEF Held, Child, Scans
    <3>4. Held(new_dev)'
      <4>1. new_dev \in bitmap'
        BY <1>1 DEF Held
      <4> QED BY <2>2, <3>1, <3>3, <4>1 DEF Held
    <3>5. new_dev # NoDev
      BY <1>1, Numerals DEF NoDev
    <3> QED BY <2>2, <3>4, <3>5 DEF NewHeld
  <2> QED BY <2>1, <2>2
<1>8. OnePast'
  <2>1. \A b \in Addr : ~Past(b)'
    BY <1>1 DEF Past
  <2> QED BY <2>1 DEF OnePast
<1> QED BY <1>4, <1>5, <1>6, <1>7, <1>8 DEF Own

\* The enumeration fails.
LEMMA FailOwn ==
    ASSUME Own, new_dev \in {a \in Addr : dev[a].live}, NEW ifs \in {"none", "freed"}, ProbeFail(ifs),
           taddr' = taddr, UNCHANGED <<plug, chg, bitmap, hub, fuel>>
    PROVE  Own'
<1> DEFINE e == [dev[new_dev] EXCEPT !.ifs = ifs]
<1>1. dev' = [dev EXCEPT ![new_dev] = e] /\ new_dev' = NoDev /\ probe' = [probe EXCEPT !.pc = "idle"]
  BY ProbeHas DEF ProbeFail
<1>2. /\ e \in Device /\ e.live = dev[new_dev].live /\ e.devnum = dev[new_dev].devnum
      /\ e.parent = dev[new_dev].parent /\ e.children = dev[new_dev].children
  BY ProbeHas DEF Device
<1>3. probe' \in Probe /\ probe'.pc = "idle"
  BY <1>1, ProbeHas DEF Probe
<1>4. dev[new_dev].live = TRUE /\ dev[new_dev].devnum \in {0, new_dev}
  BY ProbeHas DEF Device, Own, KnownNumbers
<1>5. taddr' \in [Things -> -2 .. MaxAddr]
  BY DEF Own, TypeOK
<1> HIDE DEF e
<1> QED BY <1>1, <1>2, <1>3, <1>4, <1>5, ProbeOwn

LEMMA ProbeStartOwn == ASSUME Own, new_dev \in {a \in Addr : dev[a].live}, ProbeStart PROVE Own'
<1> DEFINE e == [dev[new_dev] EXCEPT !.temp = dev[new_dev].devnum, !.devnum = 0]
<1>1. /\ probe.pc = "start" /\ dev' = [dev EXCEPT ![new_dev] = e] /\ probe' = [probe EXCEPT !.pc = "desc"]
      /\ UNCHANGED <<plug, chg, taddr, bitmap, new_dev, hub, fuel>>
  BY ProbeHas DEF ProbeStart, bus
<1>2. new_dev # NoDev
  BY Numerals DEF NoDev
<1>3. dev[new_dev].devnum = new_dev /\ dev[new_dev].live = TRUE
  BY <1>1, <1>2, ProbeHas DEF Own, KnownNumbers, Device
<1>4. /\ e \in Device /\ e.live = dev[new_dev].live /\ e.devnum = 0 /\ e.temp = dev[new_dev].devnum
      /\ e.parent = dev[new_dev].parent /\ e.children = dev[new_dev].children
  <2>1. 0 \in 0 .. MaxAddr
    BY Numerals
  <2>2. dev[new_dev] \in Device
    BY ProbeHas
  <2> QED BY <2>1, <2>2 DEF Device
<1>5. probe' \in Probe /\ probe'.pc = "desc"
  BY <1>1, ProbeHas DEF Probe
<1>6. taddr' \in [Things -> -2 .. MaxAddr]
  BY <1>1 DEF Own, TypeOK
<1> HIDE DEF e
<1> QED BY <1>1, <1>3, <1>4, <1>5, <1>6, ProbeOwn

LEMMA ProbeResetOwn == ASSUME Own, new_dev \in {a \in Addr : dev[a].live}, ProbeReset PROVE Own'
<1> DEFINE e == [dev[new_dev] EXCEPT !.devnum = dev[new_dev].temp]
<1>1. /\ probe.pc = "reset" /\ dev' = [dev EXCEPT ![new_dev] = e] /\ probe' = [probe EXCEPT !.pc = "addr"]
      /\ UNCHANGED <<plug, chg, taddr, bitmap, new_dev, hub, fuel>>
  BY ProbeHas DEF ProbeReset, bus
<1>2. new_dev # NoDev
  BY Numerals DEF NoDev
<1>3. dev[new_dev].temp = new_dev /\ dev[new_dev].live = TRUE
  BY <1>1, <1>2, ProbeHas DEF Own, KnownNumbers, Device
<1>4. /\ e \in Device /\ e.live = dev[new_dev].live /\ e.devnum = dev[new_dev].temp
      /\ e.parent = dev[new_dev].parent /\ e.children = dev[new_dev].children
  BY ProbeHas DEF Device
<1>5. probe' \in Probe /\ probe'.pc = "addr"
  BY <1>1, ProbeHas DEF Probe
<1>6. taddr' \in [Things -> -2 .. MaxAddr]
  BY <1>1 DEF Own, TypeOK
<1> HIDE DEF e
<1> QED BY <1>1, <1>3, <1>4, <1>5, <1>6, ProbeOwn

LEMMA ProbeAddrOwn == ASSUME Own, new_dev \in {a \in Addr : dev[a].live}, ProbeAddr PROVE Own'
<1>1. probe.pc = "addr" /\ UNCHANGED <<plug, chg, bitmap, hub, fuel>>
  BY DEF ProbeAddr
<1>2. CASE At(0) = {}
  BY <1>1, <1>2, FailOwn DEF ProbeAddr
<1>3. CASE At(0) # {}
  <2>1. /\ taddr' = [t \in Things |-> IF t \in At(0) THEN dev[new_dev].devnum ELSE taddr[t]]
        /\ probe' = [probe EXCEPT !.pc = "config"] /\ dev' = dev /\ new_dev' = new_dev
    BY <1>3 DEF ProbeAddr
  <2>2. dev[new_dev].live = TRUE /\ dev[new_dev].devnum \in {0, new_dev}
    BY ProbeHas DEF Device, Own, KnownNumbers
  <2>3. taddr' \in [Things -> -2 .. MaxAddr]
    <3>1. dev[new_dev].devnum \in -2 .. MaxAddr
      BY <2>2, Numerals
    <3> QED BY <2>1, <3>1 DEF Own, TypeOK
  <2>4. probe' \in Probe /\ probe'.pc = "config"
    BY <2>1, ProbeHas DEF Probe
  <2>5. dev' = [dev EXCEPT ![new_dev] = dev[new_dev]] /\ dev[new_dev] \in Device
    BY <2>1, ProbeHas
  <2> QED BY <1>1, <2>1, <2>2, <2>3, <2>4, <2>5, ProbeOwn
<1> QED BY <1>2, <1>3

LEMMA PortOfHeld == ASSUME NEW c, Held(c) PROVE PortOf(c) \in 1 .. MaxPort
<1> DEFINE H == {n \in 1 .. MaxPort : dev[dev[c].parent].children[n] = c}
<1>1. H # {} /\ H \subseteq Nat /\ H \subseteq 1 .. MaxPort
  BY Numerals DEF Held, Child
<1>2. PortOf(c) = Min(H)
  BY <1>1 DEF PortOf
<1> HIDE DEF H
<1> QED BY <1>1, <1>2, LeastNumber

\* The hub is asked to reset the port.
LEMMA ProbeDescOwn == ASSUME Own, new_dev \in {a \in Addr : dev[a].live}, ProbeDesc PROVE Own'
<1>1. probe.pc = "desc" /\ UNCHANGED <<plug, chg, taddr, bitmap, fuel>>
  BY DEF ProbeDesc, bus
<1>2. CASE ProbeFail("none") /\ UNCHANGED hub
  BY <1>1, <1>2, FailOwn
<1>3. CASE /\ hub' = [hub EXCEPT ![dev[new_dev].parent].reset = @ \cup {PortOf(new_dev)}]
           /\ probe' = [probe EXCEPT !.pc = "reset"] /\ UNCHANGED <<dev, new_dev>>
  <2>1. PICK a \in Addr : a = dev[new_dev].parent
    BY ProbeHas DEF Held
  <2>2. PICK n \in 1 .. MaxPort : n = PortOf(new_dev)
    BY ProbeHas, PortOfHeld
  <2> DEFINE g == [hub[a] EXCEPT !.reset = @ \cup {n}]
  <2>3. hub' = [hub EXCEPT ![a] = g]
    BY <1>3, <2>1, <2>2, ProbeHas
  <2>4. n \in Nat /\ hub[a] \in Hub
    BY Numerals, ProbeHas
  <2>5. /\ g \in Hub /\ g.pc = hub[a].pc /\ g.by = hub[a].by /\ g.counter = hub[a].counter
        /\ g.ports = hub[a].ports
    BY <2>4 DEF Hub
  <2> HIDE DEF g
  <2>6. /\ hub' \in [Addr -> Hub]
        /\ \A b \in Addr : /\ hub'[b].pc = hub[b].pc /\ hub'[b].by = hub[b].by
                           /\ hub'[b].counter = hub[b].counter /\ hub'[b].ports = hub[b].ports
    BY <2>3, <2>5, ProbeHas
  <2>7. probe' \in Probe /\ probe'.pc = "reset"
    BY <1>3, ProbeHas DEF Probe
  <2>8. dev' = dev /\ new_dev' = new_dev /\ new_dev # NoDev
    BY <1>3, Numerals DEF NoDev
  <2>9. TypeOK'
    BY <1>1, <2>6, <2>7, <2>8 DEF Own, TypeOK
  <2>10. Counters'
    BY <2>6 DEF Own, Counters
  <2>11. KnownHubs'
    BY <1>1, <2>6, <2>8 DEF Own, KnownHubs, On
  <2>12. KnownNumbers'
    BY <1>1, <2>7, <2>8 DEF Own, KnownNumbers
  <2>13. NewHeld'
    <3>1. \A b \in Addr : Scans(b)' = Scans(b)
      BY <2>6 DEF Scans
    <3>2. \A b, m : Child(b, m)' = Child(b, m)
      BY <2>8 DEF Child
    <3>3. Held(new_dev)'
      BY <1>1, <2>8, <3>1, <3>2, ProbeHas DEF Held
    <3> QED BY <2>7, <2>8, <3>3 DEF NewHeld
  <2>14. OnePast'
    <3>1. \A b \in Addr : ~Past(b)'
      BY <2>6, ProbeHas DEF Past
    <3> QED BY <3>1 DEF OnePast
  <2> QED BY <2>9, <2>10, <2>11, <2>12, <2>13, <2>14 DEF Own
<1> QED BY <1>2, <1>3 DEF ProbeDesc

LEMMA ProbeConfigOwn == ASSUME Own, new_dev \in {a \in Addr : dev[a].live}, ProbeConfig PROVE Own'
<1>1. probe.pc = "config" /\ UNCHANGED <<plug, chg, taddr, bitmap, fuel>>
  BY DEF ProbeConfig, bus
<1>2. dev[new_dev].live = TRUE /\ dev[new_dev].devnum \in {0, new_dev} /\ probe \in Probe
  BY ProbeHas DEF Device, Own, KnownNumbers
<1>3. taddr' \in [Things -> -2 .. MaxAddr]
  BY <1>1 DEF Own, TypeOK
<1>4. ASSUME NEW ifs \in {"none", "freed"}, ProbeFail(ifs), UNCHANGED hub PROVE Own'
  BY <1>1, <1>4, FailOwn
<1>5. CASE probe' = [probe EXCEPT !.cfg = @ + 1] /\ UNCHANGED <<dev, hub, new_dev>>
  <2>1. probe' \in Probe /\ probe'.pc = "config"
    BY <1>1, <1>2, <1>5 DEF Probe
  <2>2. dev' = [dev EXCEPT ![new_dev] = dev[new_dev]] /\ dev[new_dev] \in Device
    BY <1>5, ProbeHas
  <2> QED BY <1>1, <1>2, <1>3, <1>5, <2>1, <2>2, ProbeOwn
<1>6. ASSUME NEW t,
             dev' = [dev EXCEPT ![new_dev].ifs = "bound"],
             hub' = IF NPort[t] = 0 THEN hub ELSE [hub EXCEPT ![new_dev] = [NoHub EXCEPT !.pc = "init"]],
             new_dev' = NoDev, probe' = [probe EXCEPT !.pc = "idle"]
      PROVE  Own'
  <2> DEFINE e == [dev[new_dev] EXCEPT !.ifs = "bound"]
             g == [NoHub EXCEPT !.pc = "init"]
  <2>1. dev' = [dev EXCEPT ![new_dev] = e]
    BY <1>6, ProbeHas
  <2>2. e \in Device /\ e.live = dev[new_dev].live /\ e.devnum = dev[new_dev].devnum
    BY ProbeHas DEF Device
  <2>3. g \in Hub /\ g.pc = "init" /\ g.counter = 1 /\ g.ports = 0
    BY DEF NoHub, Hub
  <2>4. hub' = hub \/ hub' = [hub EXCEPT ![new_dev] = g]
    BY <1>6
  <2> HIDE DEF e, g
  <2>5. /\ dev' \in [Addr -> Device]
        /\ \A b \in Addr : dev'[b].live = dev[b].live /\ dev'[b].devnum = dev[b].devnum
    BY <2>1, <2>2, ProbeHas
  <2>6. /\ hub' \in [Addr -> Hub]
        /\ \A b \in Addr : hub'[b] = hub[b] \/ (b = new_dev /\ hub'[b] = g)
    BY <2>3, <2>4, ProbeHas
  <2>7. probe' \in Probe /\ probe'.pc = "idle"
    BY <1>2, <1>6 DEF Probe
  <2>8. TypeOK'
    <3>1. new_dev' \in 0 .. MaxAddr
      BY <1>6, Numerals DEF NoDev
    <3> QED BY <1>1, <2>5, <2>6, <2>7, <3>1 DEF Own, TypeOK
  <2>9. Counters'
    <3>1. 1 \in 1 .. MaxPort /\ 0 <= MaxPort
      BY Numerals
    <3> QED BY <2>3, <2>6, <3>1 DEF Own, Counters
  <2>10. KnownHubs'
    BY <1>1, <1>2, <2>5, <2>6, ProbeHas DEF Own, KnownHubs, On, Held
  <2>11. KnownNumbers' /\ NewHeld'
    BY <1>6, <2>5, <2>7 DEF Own, KnownNumbers, NewHeld
  <2>12. OnePast'
    <3>1. \A b \in Addr : ~Past(b)'
      BY <2>3, <2>6, ProbeHas DEF Past, Connecting
    <3> QED BY <3>1 DEF OnePast
  <2> QED BY <2>8, <2>9, <2>10, <2>11, <2>12 DEF Own
<1> QED BY <1>4, <1>5, <1>6 DEF ProbeConfig

\* Cables and drivers.
LEMMA EnvOwn == ASSUME Own, Env PROVE Own'
<1>1. ASSUME UNCHANGED soft, plug' \in [Port -> (Things \ {Root}) \cup {Nothing}], chg' \in [Port -> BOOLEAN],
             taddr' \in [Things -> -2 .. MaxAddr], fuel' \in Nat
      PROVE  Own'
  <2>1. bitmap' = bitmap /\ dev' = dev /\ new_dev' = new_dev /\ probe' = probe /\ hub' = hub
    BY <1>1 DEF soft
  <2>2. TypeOK' /\ Counters' /\ KnownNumbers'
    BY <1>1, <2>1 DEF Own, TypeOK, Counters, KnownNumbers
  <2>3. KnownHubs' /\ OnePast'
    BY <2>1 DEF Own, KnownHubs, On, OnePast, Past
  <2>4. NewHeld'
    BY <2>1 DEF Own, NewHeld, Held, Scans, Child
  <2> QED BY <2>2, <2>3, <2>4 DEF Own
<1>2. /\ plug \in [Port -> (Things \ {Root}) \cup {Nothing}] /\ chg \in [Port -> BOOLEAN]
      /\ taddr \in [Things -> -2 .. MaxAddr] /\ fuel \in Nat
  BY DEF Own, TypeOK
<1>3. ASSUME NEW p \in Port, Unplug(p) PROVE Own'
  <2>1. taddr' \in [Things -> -2 .. MaxAddr]
    <3>1. \A x \in Things : taddr[x] \in -2 .. MaxAddr
      BY <1>2
    <3>2. Off \in -2 .. MaxAddr
      BY Numerals DEF Off
    <3> QED BY <1>3, <3>1, <3>2 DEF Unplug
  <2>2. plug' \in [Port -> (Things \ {Root}) \cup {Nothing}] /\ chg' \in [Port -> BOOLEAN] /\ fuel' \in Nat
    BY <1>2, <1>3 DEF Unplug
  <2> QED BY <1>1, <1>3, <2>1, <2>2 DEF Unplug
<1>4. ASSUME NEW p \in Port, NEW t \in Things \ {Root}, Plug(p, t) PROVE Own'
  <2>1. /\ plug' \in [Port -> (Things \ {Root}) \cup {Nothing}] /\ chg' \in [Port -> BOOLEAN] /\ fuel' \in Nat
        /\ taddr' = taddr
    BY <1>2, <1>4 DEF Plug
  <2> QED BY <1>1, <1>2, <1>4, <2>1 DEF Plug
<1>5. ASSUME NEW a \in Addr, Reconnect(a) PROVE Own'
  <2>1. PICK b : b = dev[a].parent
    OBVIOUS
  <2>2. PICK n : n = PortOf(a)
    OBVIOUS
  <2>3. b \in Addr
    BY <1>5, <2>1, Numerals DEF Reconnect, Own, TypeOK, Device, NoDev
  <2>4. n \in Nat
    <3> DEFINE H == {m \in 1 .. MaxPort : dev[dev[a].parent].children[m] = a}
    <3>1. n = IF H = {} THEN 0 ELSE Min(H)
      BY <2>2 DEF PortOf
    <3>2. H \subseteq Nat
      BY Numerals
    <3> HIDE DEF H
    <3> QED BY <3>1, <3>2, LeastNumber
  <2> DEFINE g == [hub[b] EXCEPT !.reconnect = @ \cup {n}]
  <2>5. hub' = [hub EXCEPT ![b] = g]
    BY <1>5, <2>1, <2>2 DEF Reconnect
  <2>6. /\ g \in Hub /\ g.pc = hub[b].pc /\ g.by = hub[b].by /\ g.counter = hub[b].counter
        /\ g.ports = hub[b].ports
    <3>1. hub[b] \in Hub
      BY <2>3, OwnHub
    <3> QED BY <2>4, <3>1 DEF Hub
  <2> HIDE DEF g
  <2>7. Fits(hub[b], g) /\ (PastAs(g) => PastAs(hub[b]))
    BY <2>3, <2>6, OwnHub DEF Fits, PastAs
  <2>8. fuel' \in Nat /\ UNCHANGED <<plug, chg, taddr, bitmap, dev, new_dev, probe>>
    BY <1>2, <1>5 DEF Reconnect, bus
  <2> QED BY <1>2, <2>3, <2>5, <2>7, <2>8, OwnMoves
<1> QED BY <1>3, <1>4, <1>5 DEF Env

LEMMA OwnInit == ASSUME Init PROVE Own
<1>1. 1 \in Addr /\ 1 \in 1 .. MaxPort /\ 0 <= MaxPort /\ NPort[Root] \in Nat /\ NPort[Root] <= MaxPort
  BY Numerals, MaxPortIs, UsbhAssumption
<1>2. /\ new_dev = NoDev /\ probe = [pc |-> "idle", cfg |-> 1] /\ bitmap = {1}
      /\ fuel \in Nat /\ plug = Boot /\ chg \in [Port -> BOOLEAN]
  BY UsbhAssumption DEF Init
<1>3. taddr \in [Things -> -2 .. MaxAddr]
  BY Numerals DEF Init, Off
<1>4. dev \in [Addr -> Device] /\ dev[1].live /\ \A a \in Addr : dev[a].devnum = a
  <2>1. NoChildren \in [1 .. MaxPort -> 0 .. MaxAddr] /\ 0 \in 0 .. MaxAddr
    BY Numerals DEF NoChildren, NoDev
  <2>2. \A a \in Addr : a \in 0 .. MaxAddr
    BY Numerals
  <2> DEFINE D1 == [NewDevice(1, NoDev) EXCEPT !.ifs = "bound"]
             D(a) == [NewDevice(a, NoDev) EXCEPT !.live = FALSE]
  <2>3. D1 \in Device /\ D1.live /\ D1.devnum = 1
    BY <1>1, <2>1, <2>2 DEF NewDevice, Device, NoDev
  <2>4. \A a \in Addr : D(a) \in Device /\ D(a).devnum = a
    BY <2>1, <2>2 DEF NewDevice, Device, NoDev
  <2>5. dev = [a \in Addr |-> IF a = 1 THEN D1 ELSE D(a)]
    BY DEF Init
  <2> HIDE DEF D1, D
  <2> QED BY <1>1, <2>3, <2>4, <2>5
<1>5. /\ hub \in [Addr -> Hub]
      /\ \A a \in Addr : /\ hub[a].counter = 1 /\ hub[a].ports <= MaxPort
                         /\ hub[a].pc = IF a = 1 THEN "poll" ELSE "off"
  <2> DEFINE H == [NoHub EXCEPT !.pc = "poll", !.ports = NPort[Root]]
  <2>1. H \in Hub /\ H.counter = 1 /\ H.ports = NPort[Root] /\ H.pc = "poll"
    BY <1>1 DEF NoHub, Hub
  <2>2. NoHub \in Hub /\ NoHub.counter = 1 /\ NoHub.ports = 0 /\ NoHub.pc = "off"
    BY DEF NoHub, Hub
  <2>3. hub = [a \in Addr |-> IF a = 1 THEN H ELSE NoHub]
    BY DEF Init
  <2> HIDE DEF H
  <2> QED BY <1>1, <2>1, <2>2, <2>3
<1>6. TypeOK
  <2>1. new_dev \in 0 .. MaxAddr /\ probe \in Probe /\ bitmap \in SUBSET Addr
    BY <1>1, <1>2, Numerals DEF NoDev, Probe
  <2> QED BY <1>2, <1>3, <1>4, <1>5, <2>1, UsbhAssumption DEF TypeOK
<1>7. Counters
  BY <1>1, <1>5 DEF Counters
<1>8. KnownHubs
  BY <1>2, <1>4, <1>5 DEF KnownHubs, On
<1>9. KnownNumbers /\ NewHeld
  BY <1>2, <1>4 DEF KnownNumbers, NewHeld
<1>10. OnePast
  BY <1>5 DEF OnePast, Past, Connecting
<1> QED BY <1>6, <1>7, <1>8, <1>9, <1>10 DEF Own

LEMMA OwnNext == ASSUME Own, [Next]_vars, ~crowded' PROVE Own'
<1>1. ASSUME NEW a \in Addr, HubStep(a) PROVE Own'
  BY <1>1, InitOwn, PollOwn, StatusOwn, PortOwn, ConnectOwn, ResetOwn, EnabledOwn, AttachOwn DEF HubStep
<1>2. CASE ProbeStep
  BY <1>2, ProbeStartOwn, ProbeDescOwn, ProbeResetOwn, ProbeAddrOwn, ProbeConfigOwn DEF ProbeStep
<1>3. CASE Env
  BY <1>3, EnvOwn
<1>4. CASE UNCHANGED vars
  <2>1. /\ plug' = plug /\ chg' = chg /\ taddr' = taddr /\ fuel' = fuel
        /\ bitmap' = bitmap /\ dev' = dev /\ new_dev' = new_dev /\ probe' = probe /\ hub' = hub
    BY <1>4 DEF vars
  <2>2. TypeOK' /\ Counters' /\ KnownNumbers'
    BY <2>1 DEF Own, TypeOK, Counters, KnownNumbers
  <2>3. KnownHubs' /\ OnePast'
    BY <2>1 DEF Own, KnownHubs, On, OnePast, Past
  <2>4. NewHeld'
    BY <2>1 DEF Own, NewHeld, Held, Scans, Child
  <2> QED BY <2>2, <2>3, <2>4 DEF Own
<1> QED BY <1>1, <1>2, <1>3, <1>4 DEF Next

-----------------------------------------------------------------------------
(* vsfusbh.c:43 and 263: until a cable is moved in one of the windows      *)
(* named at Plug, the bitmap of addresses names the devices that exist,    *)
(* and those are the ones the root hub reaches through its children: no    *)
(* address leaks when a hub is disconnected with what is below it, and     *)
(* none is given twice.                                                    *)
THEOREM AddressesAreExact ==
    ASSUME OneHub, Roomy
    PROVE  Spec => []AddressesExact
<1>1. rough \/ IInv => AddressesExact
  BY ExactNow DEF AddressesExact, Undisturbed
<1> QED BY IInvHolds, <1>1, PTL

(* vsfusbh.c:756, vsfusbh_HUB.c:161: until then, a device with a driver,   *)
(* at a port that reports no change, is the thing plugged in there, and    *)
(* nobody else answers at its address, also when the address was used by   *)
(* another device before.                                                  *)
THEOREM DriversAreRight ==
    ASSUME OneHub, Roomy
    PROVE  Spec => []DriverTalksToItsDevice
<1>1. rough \/ IInv => DriverTalksToItsDevice
  BY RightNow DEF DriverTalksToItsDevice, Undisturbed
<1> QED BY IInvHolds, <1>1, PTL

(* vsfusbh.c:666, vsfusbh_HUB.c:257: with any number of hubs, and whatever *)
(* is plugged and pulled, and when, the device that the enumeration thread *)
(* works on over all its waits exists and is held by a port of a hub that  *)
(* works, until two hubs have been past the check of new_dev at once.      *)
THEOREM NewDeviceIsOwned == Spec => [](~crowded => NewDevOwned)
<1>1. Init => crowded \/ Own
  BY OwnInit
<1>2. (crowded \/ Own) /\ [Next]_vars => (crowded \/ Own)'
  <2> SUFFICES ASSUME crowded \/ Own, [Next]_vars, ~crowded' PROVE Own'
    OBVIOUS
  <2>1. ~crowded
    BY DEF Next, HubStep, HubInit, HubPoll, HubStatus, HubPort, HubConnect, HubReset, HubEnabled,
           HubAttach, ProbeStep, ProbeStart, ProbeDesc, ProbeReset, ProbeAddr, ProbeConfig,
           Env, Plug, Unplug, Reconnect, vars
  <2> QED BY <2>1, OwnNext
<1>3. Own => NewDevOwned
  <2> SUFFICES ASSUME Own, new_dev # NoDev
               PROVE  LET d == dev[new_dev]
                      IN  d.live /\ dev[d.parent].live /\ hub[d.parent].pc # "off" /\ PortOf(new_dev) # 0
    BY DEF NewDevOwned, Own, NewHeld
  <2>1. Held(new_dev)
    BY DEF Own, NewHeld
  <2>2. PortOf(new_dev) \in 1 .. MaxPort
    BY <2>1, PortOfHeld
  <2>3. PortOf(new_dev) # 0
    BY <2>2, Numerals
  <2>4. dev[new_dev].live /\ dev[new_dev].parent \in Addr /\ On(dev[new_dev].parent)
    BY <2>1 DEF Held, On, Scans
  <2> QED BY <2>3, <2>4 DEF Own, KnownHubs, On
<1> QED BY <1>1, <1>2, <1>3, PTL DEF Spec
=============================================================================
