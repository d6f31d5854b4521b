----------------------------- MODULE UsbdProofs -----------------------------
(***************************************************************************)
(* Proofs about the control endpoint of module Usbd, for every set of      *)
(* requests, packet size and number of faults, with a host that gives the  *)
(* device time to take its events (Patient) and does not send more data    *)
(* than the device has room for (Fitting).                                 *)
(*                                                                         *)
(* The argument: the queue holds the events of one request, or of the last *)
(* packet of one and the SETUP of the next, followed by bus resets.  For   *)
(* each of the few contents it can have (Phase) one part says what the     *)
(* device must be like to take these events, and another what holds as     *)
(* long as no reset is on its way, when the host still talks to the device *)
(* (live).                                                                 *)
(***************************************************************************)
EXTENDS Usbd, SequenceTheorems, TLAPS

\* A request that sends data to the device finds a buffer that is long enough.
Fitting == \A r \in Requests : r.dir = "out" => r.wLength <= r.size

Request == [dir : {"in", "out"}, wLength : Nat, size : Nat, ok : BOOLEAN, act : Acts, value : Nat]
Ident == [id : Nat, r : Request]
Data == Seq(Nat \X Nat)
Device ==
    [req : Ident, rx : [what : {"empty", "setup", "data"}, n : Nat, id : Nat, r : Request],
     armed : Data \cup {None}, outen : BOOLEAN, stall : BOOLEAN, address : Nat,
     configured : BOOLEAN, configuration : Nat,
     in : [on : BOOLEAN, size : Nat, pos : Nat, zlp : BOOLEAN, fin : {"none", "end"}],
     out : [on : BOOLEAN, size : Nat, fin : {"none", "status", "end"}],
     inh : BOOLEAN, outh : BOOLEAN, store : Data, proc : Seq([req : Ident, data : Data]),
     bug : {"none", "size", "null"}]
Host ==
    [st : {"idle", "data", "status", "lost"}, req : Ident, got : Data, sent : Nat,
     done : Seq(Nat), addr : Nat, config : Nat \cup {Unknown, Unset}, faults : Nat,
     clean : BOOLEAN]

\* The requests that have taken effect are those that the host has seen end,
\* or lack the last of them.
Ids(d) == [i \in 1..Len(d.proc) |-> d.proc[i].req.id]
Even(h, d) == h.done = Ids(d)
Owed(h, d) == h.done = Append(Ids(d), d.req.id)

\* What UsbdAssumption and Fitting say of a request.
Legal(r) == /\ r.dir = "in" => r.wLength > 0
            /\ r.act # "none" => r.dir = "out" /\ r.wLength = 0
            /\ r.dir = "out" => r.wLength <= r.size

Total(r) == Least(r.size, r.wLength)
SetupPacket(req) == [what |-> "setup", n |-> 1, id |-> req.id, r |-> req.r]

-----------------------------------------------------------------------------
(* What the device must be like to take the events that wait.              *)

\* The empty packet that confirms a request without or after OUT data is out.
Confirms(d) ==
    /\ d.inh /\ d.in.on /\ d.in.size = 0 /\ ~d.in.zlp /\ d.in.fin = "end"
    /\ d.req.r.dir = "out" /\ d.store = Units(d.req.id, 0, d.req.r.wLength)

\* Packets of an answer go out.
Sends(d) == d.inh /\ d.in.on /\ d.in.fin = "none" /\ d.req.r.dir = "in"

\* The empty packet that ends a request with IN data is expected.
Awaits(d) ==
    /\ d.outh /\ d.out.on /\ d.out.size = 0 /\ d.out.fin = "end" /\ d.rx = Empty
    /\ d.req.r.dir = "in"

\* OUT data is expected, and what has come is stored.
Takes(d) ==
    /\ d.outh /\ d.out.on /\ d.out.fin = "status"
    /\ d.req.r.dir = "out" /\ d.req.r.act = "none"
    /\ Len(d.store) + d.out.size = d.req.r.wLength /\ d.out.size > 0
    /\ d.store = Units(d.req.id, 0, Len(d.store))

\* A packet of it has come.
Taken(h, d) ==
    LET n == Least(EpSize, d.out.size)
    IN  d.rx = [what |-> "data", n |-> n, id |-> d.req.id, r |-> NoRequest]

-----------------------------------------------------------------------------
(* What holds between host and device as long as no reset is on its way.   *)

SameAddress(h, d) == d.address = h.addr
SameConfig(h, d) ==
    /\ h.config = Unset => ~d.configured
    /\ h.config \in Nat => d.configured /\ d.configuration = h.config

\* The same, once the request that the host has ended takes effect.
WillAgree(h, d) ==
    /\ IF d.req.r.act = "address" THEN d.req.r.value = h.addr ELSE SameAddress(h, d)
    /\ IF d.req.r.act = "config" THEN d.req.r.value = h.config ELSE SameConfig(h, d)

\* The host has asked and nothing has come back.
Fresh(h) ==
    /\ h.st = (IF h.req.r.wLength > 0 THEN "data" ELSE "status")
    /\ h.got = <<>> /\ h.sent = 0
Silent(d) == d.armed = None /\ ~d.outen

\* A request that may set the address has done so when its SETUP came.
AskedAddress(h, d) == h.req.r.act # "address" => SameAddress(h, d)

Refused(h, d) ==
    Fresh(h) /\ Silent(d) /\ d.stall /\ AskedAddress(h, d) /\ SameConfig(h, d)

\* The next c units of the answer are ready.
Offers(h, d, c) ==
    LET t == Total(h.req.r)
        g == Len(h.got)
    IN  /\ d.armed = Units(h.req.id, g, c)
        /\ g + c <= t /\ d.in.pos = g + c /\ d.in.size = t - (g + c)
        /\ IF c = EpSize THEN d.in.zlp = (t < h.req.r.wLength) ELSE g + c = t

Reads(h, d) ==
    /\ h.req = d.req /\ h.req.r.dir = "in" /\ d.outen /\ ~d.stall /\ Awaits(d)
    /\ SameAddress(h, d) /\ SameConfig(h, d)

Answering(h, d) ==
    /\ Reads(h, d) /\ Sends(d) /\ h.st = "data"
    /\ h.got = Units(h.req.id, 0, Len(h.got))
    /\ \E c \in 0..EpSize : Offers(h, d, c)

Answered(h, d) ==
    Reads(h, d) /\ h.st = "status" /\ h.got = Reply(h.req.id, h.req.r)

\* A full packet of the answer, not its last, has gone.
Halfway(h, d) ==
    LET t == Total(h.req.r)
        g == Len(h.got)
    IN  /\ h.st = "data" /\ d.armed = None
        /\ h.got = Units(h.req.id, 0, g)
        /\ g <= t /\ g < h.req.r.wLength /\ d.in.pos = g /\ d.in.size = t - g
        /\ d.in.zlp = (t < h.req.r.wLength)

Writes(h, d) ==
    /\ h.req = d.req /\ d.armed = None /\ ~d.stall
    /\ SameAddress(h, d) /\ SameConfig(h, d)

Asking(h, d) ==
    Writes(h, d) /\ h.st = "data" /\ Takes(d) /\ d.rx = Empty /\ d.outen /\ h.sent = Len(d.store)

\* The device is ready to confirm.
Ready(h, d) ==
    /\ h.req = d.req /\ h.st = "status" /\ d.armed = <<>> /\ ~d.outen /\ ~d.stall /\ Confirms(d)
    /\ AskedAddress(h, d)
    /\ h.req.r.act # "config" => SameConfig(h, d)

-----------------------------------------------------------------------------
(* The contents of the queue before the resets.                            *)

Rest(h, d, live) ==
    /\ Even(h, d)
    /\ live => \/ h.st = "idle" /\ SameAddress(h, d) /\ SameConfig(h, d)
               \/ h.st = "lost"
               \/ Refused(h, d) \/ Answering(h, d) \/ Answered(h, d)
               \/ Asking(h, d) \/ Ready(h, d)

Starts(h, d) == Fresh(h) /\ Silent(d) /\ ~d.stall

Starting(h, d, live) ==
    /\ Even(h, d) /\ d.rx = SetupPacket(h.req)
    /\ live => Starts(h, d) /\ AskedAddress(h, d) /\ SameConfig(h, d)

Closing(h, d, live) ==
    /\ Owed(h, d) /\ Confirms(d)
    /\ live => h.st = "idle" /\ WillAgree(h, d)

ClosingStarting(h, d, live) ==
    /\ Owed(h, d) /\ Confirms(d) /\ d.rx = SetupPacket(h.req)
    /\ live => /\ Starts(h, d)
               /\ h.req.r.act # "address" =>
                     IF d.req.r.act = "address" THEN d.req.r.value = h.addr ELSE SameAddress(h, d)
               /\ IF d.req.r.act = "config" THEN d.req.r.value = h.config ELSE SameConfig(h, d)

Sending(h, d, live) ==
    /\ Even(h, d) /\ Sends(d)
    /\ live => Reads(h, d) /\ (Halfway(h, d) \/ Answered(h, d))

SendingEnding(h, d, live) ==
    /\ Owed(h, d) /\ Sends(d) /\ Awaits(d)
    /\ live => h.st = "idle" /\ SameAddress(h, d) /\ SameConfig(h, d)

Ending(h, d, live) ==
    /\ Owed(h, d) /\ Awaits(d)
    /\ live => h.st = "idle" /\ SameAddress(h, d) /\ SameConfig(h, d)

Receiving(h, d, live) ==
    /\ Even(h, d) /\ Takes(d) /\ Taken(h, d)
    /\ live => /\ Writes(h, d) /\ ~d.outen /\ h.sent = Len(d.store) + d.rx.n
               /\ h.st = IF h.sent = h.req.r.wLength THEN "status" ELSE "data"

Phase(b, h, d, live) ==
    \/ b = <<>> /\ Rest(h, d, live)
    \/ b = <<"SETUP">> /\ Starting(h, d, live)
    \/ b = <<"IN">> /\ Closing(h, d, live)
    \/ b = <<"IN", "SETUP">> /\ ClosingStarting(h, d, live)
    \/ b = <<"IN">> /\ Sending(h, d, live)
    \/ b = <<"IN", "OUT">> /\ SendingEnding(h, d, live)
    \/ b = <<"OUT">> /\ Ending(h, d, live)
    \/ b = <<"OUT">> /\ Receiving(h, d, live)

Bases == {<<>>, <<"SETUP">>, <<"IN">>, <<"IN", "SETUP">>, <<"IN", "OUT">>, <<"OUT">>}
Resets == Seq({"RESET"})

\* Until it has been reset the device keeps what the host has forgotten.
Forgotten(h) == h.st = "idle" /\ h.addr = 0 /\ h.config = Unset

DataKept(d) ==
    \A i \in 1..Len(d.proc) :
        LET p == d.proc[i].req
        IN  p.r.dir = "out" => d.proc[i].data = Units(p.id, 0, p.r.wLength)

TypeOK == host \in Host /\ dev \in Device /\ Legal(host.req.r) /\ Legal(dev.req.r)

IInv ==
    /\ TypeOK
    /\ dev.bug = "none" /\ DataKept(dev)
    /\ \E b \in Bases, r \in Resets :
          /\ q = b \o r
          /\ Phase(b, host, dev, r = <<>>)
          /\ r # <<>> => Forgotten(host)

-----------------------------------------------------------------------------
(* Sequences.                                                              *)

IsUnits(id, a, n, s) ==
    s \in Data /\ Len(s) = n /\ \A i \in 1..n : s[i] = <<id, a + i>>

\* n units of a request from a position on.
LEMMA UnitsFacts ==
    ASSUME NEW id \in Nat, NEW a \in Nat, NEW n \in Nat
    PROVE  /\ Units(id, a, n) \in Data /\ Len(Units(id, a, n)) = n
           /\ IsUnits(id, a, n, Units(id, a, n))
           /\ n = 0 => Units(id, a, n) = <<>>
<1>1. \A i \in 1..n : <<id, a + i>> \in Nat \X Nat
  OBVIOUS
<1>2. [i \in 1..n |-> <<id, a + i>>] \in Seq(Nat \X Nat)
  BY <1>1, SeqDef
<1>3. Len([i \in 1..n |-> <<id, a + i>>]) = n
  BY <1>2, LenProperties
<1>4. n = 0 => [i \in 1..n |-> <<id, a + i>>] = <<>>
  BY <1>2, <1>3, EmptySeq
<1> QED BY <1>2, <1>3, <1>4 DEF Units, Data, IsUnits

\* Units that follow each other.
Joined(id, a, n, b, m, c) == Units(id, a, n) \o Units(id, b, m) = Units(id, a, c)

\* Two pieces that follow each other are one.
LEMMA UnitsJoin ==
    ASSUME NEW id \in Nat, NEW a \in Nat, NEW n \in Nat, NEW m \in Nat,
           NEW b \in Nat, b = a + n, NEW c \in Nat, c = n + m
    PROVE  Joined(id, a, n, b, m, c)
<1> DEFINE s == Units(id, a, n)
           t == Units(id, b, m)
           u == Units(id, a, c)
<1>1. /\ s \in Data /\ Len(s) = n /\ \A i \in 1..n : s[i] = <<id, a + i>>
      /\ t \in Data /\ Len(t) = m /\ \A i \in 1..m : t[i] = <<id, b + i>>
      /\ u \in Data /\ Len(u) = c /\ \A i \in 1..c : u[i] = <<id, a + i>>
  <2>1. IsUnits(id, a, n, s) /\ IsUnits(id, b, m, t) /\ IsUnits(id, a, c, u)
    BY UnitsFacts
  <2> HIDE DEF s, t, u
  <2> QED BY <2>1 DEF IsUnits
<1> HIDE DEF s, t, u
<1>2. s \o t \in Seq(Nat \X Nat) /\ Len(s \o t) = n + m
  BY <1>1, ConcatProperties DEF Data
<1>3. \A i \in 1..(n + m) : (s \o t)[i] = IF i <= n THEN s[i] ELSE t[i - n]
  BY <1>1, ConcatProperties DEF Data
<1>4. \A i \in 1..(n + m) : (s \o t)[i] = u[i]
  <2> TAKE i \in 1..(n + m)
  <2>1. CASE i <= n
    <3>1. i \in 1..n
      BY <2>1
    <3> QED BY <3>1, <2>1, <1>1, <1>3
  <2>2. CASE ~(i <= n)
    <3>1. i - n \in 1..m /\ b + (i - n) = a + i
      BY <2>2
    <3> QED BY <3>1, <2>2, <1>1, <1>3
  <2> QED BY <2>1, <2>2
<1>5. s \o t = u
  BY <1>1, <1>2, <1>4, SeqEqual DEF Data
<1> QED BY <1>5 DEF s, t, u, Joined

\* The same, from the start.
LEMMA UnitsGrow ==
    ASSUME NEW id \in Nat, NEW n \in Nat, NEW m \in Nat, NEW c \in Nat, c = n + m
    PROVE  /\ Joined(id, 0, n, n, m, c)
           /\ Units(id, 0, c) \in Data /\ Len(Units(id, 0, c)) = c
<1>1. 0 \in Nat /\ n = 0 + n
  OBVIOUS
<1>2. Joined(id, 0, n, n, m, c)
  BY <1>1, UnitsJoin
<1>3. Units(id, 0, c) \in Data /\ Len(Units(id, 0, c)) = c
  BY <1>1, UnitsFacts
<1> QED BY <1>2, <1>3

\* A sequence is a prefix of a longer one that agrees with it.
LEMMA PrefixByElements ==
    ASSUME NEW S, NEW s \in Seq(S), NEW t \in Seq(S), Len(s) <= Len(t),
           \A i \in 1..Len(s) : s[i] = t[i]
    PROVE  IsPrefix(s, t)
<1>1. Len(s) \in Nat /\ Len(t) \in Nat
  BY LenProperties
<1>2. /\ \A i \in 1 .. Len(s) : s[i] \in S /\ t[i] \in S
      /\ 1 \in Int /\ Len(s) \in Int
  BY <1>1, ElementOfSeq
<1>3. /\ SubSeq(s, 1, Len(s)) \in Seq(S) /\ SubSeq(t, 1, Len(s)) \in Seq(S)
      /\ Len(SubSeq(s, 1, Len(s))) = Len(SubSeq(t, 1, Len(s)))
      /\ Len(SubSeq(s, 1, Len(s))) <= Len(s)
      /\ \A i \in 1 .. Len(s) - 1 + 1 : SubSeq(s, 1, Len(s))[i] = s[1 + i - 1]
      /\ \A i \in 1 .. Len(s) - 1 + 1 : SubSeq(t, 1, Len(s))[i] = t[1 + i - 1]
  BY <1>1, <1>2, SubSeqProperties
<1>4. SubSeq(s, 1, Len(s)) = SubSeq(t, 1, Len(s))
  BY <1>1, <1>3, SeqEqual
<1> QED BY <1>4 DEF IsPrefix

\* What has been sent is the beginning of what is to be sent.
LEMMA UnitsPrefix ==
    ASSUME NEW id \in Nat, NEW m \in Nat, NEW n \in Nat, m <= n
    PROVE  IsPrefix(Units(id, 0, m), Units(id, 0, n))
<1> DEFINE s == Units(id, 0, m)
           t == Units(id, 0, n)
<1>1. /\ s \in Seq(Nat \X Nat) /\ Len(s) = m /\ \A i \in 1..m : s[i] = <<id, 0 + i>>
      /\ t \in Seq(Nat \X Nat) /\ Len(t) = n /\ \A i \in 1..n : t[i] = <<id, 0 + i>>
  <2>1. 0 \in Nat
    OBVIOUS
  <2>2. IsUnits(id, 0, m, s) /\ IsUnits(id, 0, n, t)
    BY <2>1, UnitsFacts
  <2> HIDE DEF s, t
  <2> QED BY <2>2 DEF IsUnits, Data
<1> HIDE DEF s, t
<1>2. \A i \in 1..Len(s) : s[i] = t[i]
  BY SMTT(60), <1>1
<1>3. IsPrefix(s, t)
  BY <1>1, <1>2, PrefixByElements
<1> QED BY <1>3 DEF s, t

\* The first element of two sequences put together.
LEMMA TailOfConcat ==
    ASSUME NEW S, NEW s \in Seq(S), NEW t \in Seq(S), s # <<>>
    PROVE  s \o t # <<>> /\ Head(s \o t) = Head(s) /\ Tail(s \o t) = Tail(s) \o t
<1>1. /\ Len(s) \in Nat \ {0} /\ Len(t) \in Nat /\ Tail(s) \in Seq(S) /\ Len(Tail(s)) = Len(s) - 1
      /\ \A i \in 1 .. Len(Tail(s)) : Tail(s)[i] = s[i + 1]
  BY LenProperties, EmptySeq, HeadTailProperties
<1>2. /\ s \o t \in Seq(S) /\ Len(s \o t) = Len(s) + Len(t)
      /\ \A i \in 1 .. Len(s) + Len(t) : (s \o t)[i] = IF i <= Len(s) THEN s[i] ELSE t[i - Len(s)]
  BY ConcatProperties
<1>3. s \o t # <<>>
  BY <1>1, <1>2, EmptySeq
<1>4. /\ Tail(s \o t) \in Seq(S) /\ Len(Tail(s \o t)) = Len(s) + Len(t) - 1
      /\ \A i \in 1 .. Len(Tail(s \o t)) : Tail(s \o t)[i] = (s \o t)[i + 1]
  BY <1>2, <1>3, HeadTailProperties
<1>5. /\ Tail(s) \o t \in Seq(S) /\ Len(Tail(s) \o t) = Len(Tail(s)) + Len(t)
      /\ \A i \in 1 .. Len(Tail(s)) + Len(t) :
            (Tail(s) \o t)[i] = IF i <= Len(Tail(s)) THEN Tail(s)[i] ELSE t[i - Len(Tail(s))]
  BY <1>1, ConcatProperties
<1>6. \A i \in 1 .. Len(Tail(s \o t)) : Tail(s \o t)[i] = (Tail(s) \o t)[i]
  <2> TAKE i \in 1 .. Len(Tail(s \o t))
  <2>1. i + 1 \in 1 .. Len(s) + Len(t) /\ i \in 1 .. Len(Tail(s)) + Len(t) /\ i + 1 - Len(s) = i - Len(Tail(s))
    BY <1>1, <1>4
  <2> QED BY <2>1, <1>1, <1>2, <1>4, <1>5
<1>7. Tail(s \o t) = Tail(s) \o t
  BY <1>1, <1>4, <1>5, <1>6, SeqEqual
<1>8. Head(s \o t) = (s \o t)[1] /\ Head(s) = s[1]
  OBVIOUS
<1> QED BY <1>1, <1>2, <1>3, <1>7, <1>8

Event == {"IN", "OUT", "SETUP", "RESET"}

\* Both parts of the queue hold events.
LEMMA QueueParts ==
    ASSUME NEW b \in Bases, NEW r \in Resets
    PROVE  b \in Seq(Event) /\ r \in Seq(Event)
<1>1. b \in Seq(Event)
  <2>1. "IN" \in Event /\ "OUT" \in Event /\ "SETUP" \in Event
    BY DEF Event
  <2> HIDE DEF Event
  <2>2. /\ <<>> \in Seq(Event) /\ <<"IN">> \in Seq(Event) /\ <<"OUT">> \in Seq(Event)
        /\ <<"SETUP">> \in Seq(Event)
    BY <2>1
  <2>3. <<"IN", "SETUP">> \in Seq(Event) /\ <<"IN", "OUT">> \in Seq(Event)
    BY <2>1
  <2> QED BY <2>2, <2>3 DEF Bases
<1>2. {"RESET"} \subseteq Event
  BY DEF Event
<1> QED BY <1>1, <1>2, SeqMonotonic DEF Resets

\* The first event is taken from what waits before the resets, or is a reset.
LEMMA QueueTakes ==
    ASSUME NEW b \in Bases, NEW r \in Resets
    PROVE  /\ b # <<>> => b \o r # <<>> /\ Head(b \o r) = Head(b) /\ Tail(b \o r) = Tail(b) \o r
           /\ <<>> \o r = r
           /\ r # <<>> => Head(r) = "RESET" /\ Tail(r) \in Resets
<1>1. b \in Seq(Event) /\ r \in Seq(Event)
  BY QueueParts
<1>2. <<>> \o r = r
  BY <1>1, ConcatEmptySeq
<1>3. r # <<>> => Head(r) = "RESET" /\ Tail(r) \in Resets
  BY HeadTailProperties DEF Resets
<1> QED BY <1>1, <1>2, <1>3, TailOfConcat

\* A reset joins the others, and other events come when there is none.
LEMMA QueueAppends ==
    ASSUME NEW b \in Bases, NEW r \in Resets
    PROVE  /\ Append(b \o r, "RESET") = b \o Append(r, "RESET")
           /\ Append(r, "RESET") \in Resets /\ Append(r, "RESET") # <<>>
           /\ b \o <<>> = b /\ <<>> \in Resets
<1>1. b \in Seq(Event) /\ r \in Seq(Event) /\ <<"RESET">> \in Seq(Event)
  BY QueueParts DEF Event
<1>2. (b \o r) \o <<"RESET">> = b \o (r \o <<"RESET">>)
  BY <1>1, ConcatAssociative
<1>3. Append(b \o r, "RESET") = (b \o r) \o <<"RESET">> /\ Append(r, "RESET") = r \o <<"RESET">>
  BY <1>1, AppendIsConcat, ConcatProperties DEF Event
<1>4. Append(r, "RESET") \in Resets /\ Append(r, "RESET") # <<>>
  BY AppendProperties DEF Resets
<1>5. b \o <<>> = b /\ <<>> \in Resets
  BY <1>1, ConcatEmptySeq DEF Resets
<1> QED BY <1>2, <1>3, <1>4, <1>5

\* A queue that holds one event that is no reset.
LEMMA QueueIsShort ==
    ASSUME NEW b \in Bases, NEW r \in Resets, b \o r = <<>> \/ b \o r = <<"IN">>
    PROVE  r = <<>> /\ b = b \o r
<1>1. b \in Seq(Event) /\ r \in Seq(Event)
  BY QueueParts
<1>2. /\ Len(b) \in Nat /\ Len(r) \in Nat /\ Len(b \o r) = Len(b) + Len(r)
      /\ \A i \in 1 .. Len(b) + Len(r) : (b \o r)[i] = IF i <= Len(b) THEN b[i] ELSE r[i - Len(b)]
  BY <1>1, ConcatProperties, LenProperties
<1>3. ASSUME r # <<>> PROVE FALSE
  <2>1. Len(r) > 0 /\ r[1] = "RESET"
    BY <1>2, <1>3, EmptySeq, ElementOfSeq DEF Resets
  <2>2. b \o r = <<"IN">> /\ Len(b) = 0 /\ (b \o r)[1] = "IN"
    <3>1. Len(<<>>) = 0 /\ Len(<<"IN">>) = 1 /\ <<"IN">>[1] = "IN"
      OBVIOUS
    <3>2. b \o r = <<"IN">>
      BY <1>2, <2>1, <3>1
    <3> QED BY <1>2, <2>1, <3>1, <3>2
  <2>3. (b \o r)[1] = r[1]
    BY <1>2, <2>1, <2>2
  <2> QED BY <2>1, <2>2, <2>3
<1> QED BY <1>1, <1>3, ConcatEmptySeq

-----------------------------------------------------------------------------
(* The operations on the device.                                           *)

SameWire(d, e) == e.armed = d.armed /\ e.outen = d.outen /\ e.stall = d.stall
SameState(d, e) ==
    e.address = d.address /\ e.configured = d.configured /\ e.configuration = d.configuration
SameIn(d, e) == e.in = d.in /\ e.inh = d.inh
SameOut(d, e) == e.out = d.out /\ e.outh = d.outh
SameWork(d, e) == e.req = d.req /\ e.store = d.store /\ e.proc = d.proc /\ e.bug = d.bug

Took(d, e) ==
    /\ e.address = IF d.req.r.act = "address" THEN d.req.r.value ELSE d.address
    /\ e.configured = IF d.req.r.act = "config" THEN TRUE ELSE d.configured
    /\ e.configuration = IF d.req.r.act = "config" THEN d.req.r.value ELSE d.configuration

Processed(d, e) ==
    /\ e \in Device /\ Took(d, e)
    /\ e.proc = Append(d.proc, [req |-> d.req, data |-> d.store])
    /\ e.req = d.req /\ e.store = d.store /\ e.bug = d.bug /\ e.rx = d.rx
    /\ SameWire(d, e) /\ SameIn(d, e) /\ SameOut(d, e)

\* vsfusbd_ctrl_process.
LEMMA CtrlProcessIs ==
    ASSUME NEW d \in Device, NEW e, e = CtrlProcess(d)
    PROVE  Processed(d, e)
<1> DEFINE rec == [req |-> d.req, data |-> d.store]
           p == Append(d.proc, rec)
           a == [d EXCEPT !.proc = p]
<1>1. rec \in [req : Ident, data : Data] /\ d.proc \in Seq([req : Ident, data : Data])
  BY DEF Device
<1>2. p \in Seq([req : Ident, data : Data])
  BY <1>1, AppendProperties
<1>3. d.req.r.value \in Nat
  BY DEF Device, Ident, Request
<1>4. e = CASE d.req.r.act = "address" -> [a EXCEPT !.address = d.req.r.value]
            [] d.req.r.act = "config"  -> [a EXCEPT !.configuration = d.req.r.value, !.configured = TRUE]
            [] OTHER -> a
  BY DEF CtrlProcess
<1> HIDE DEF p
<1>5. /\ a \in Device /\ a.proc = p /\ a.req = d.req /\ a.store = d.store /\ a.bug = d.bug
      /\ a.rx = d.rx /\ SameWire(d, a) /\ SameIn(d, a) /\ SameOut(d, a) /\ SameState(d, a)
  BY <1>2 DEF Device, SameWire, SameIn, SameOut, SameState
<1> HIDE DEF a
<1>6. CASE d.req.r.act = "address"
  <2>1. e = [a EXCEPT !.address = d.req.r.value]
    BY <1>4, <1>6
  <2>2. /\ e \in Device /\ e.address = d.req.r.value /\ e.configured = a.configured
        /\ e.configuration = a.configuration /\ e.rx = a.rx
        /\ SameWork(a, e) /\ SameWire(a, e) /\ SameIn(a, e) /\ SameOut(a, e)
    BY <1>3, <1>5, <2>1 DEF Device, SameWire, SameIn, SameOut, SameWork
  <2> QED BY <1>5, <1>6, <2>2 DEF Processed, Took, SameWork, SameWire, SameIn, SameOut, SameState, p
<1>7. CASE d.req.r.act = "config"
  <2>1. e = [a EXCEPT !.configuration = d.req.r.value, !.configured = TRUE]
    BY <1>4, <1>7
  <2>2. /\ e \in Device /\ e.address = a.address /\ e.configured = TRUE
        /\ e.configuration = d.req.r.value /\ e.rx = a.rx
        /\ SameWork(a, e) /\ SameWire(a, e) /\ SameIn(a, e) /\ SameOut(a, e)
    BY ZenonT(60), <1>3, <1>5, <2>1 DEF Device, SameWire, SameIn, SameOut, SameWork
  <2> QED BY <1>5, <1>7, <2>2 DEF Processed, Took, SameWork, SameWire, SameIn, SameOut, SameState, p
<1>8. CASE d.req.r.act # "address" /\ d.req.r.act # "config"
  <2>1. e = a
    BY <1>4, <1>8
  <2> QED BY <1>5, <1>8, <2>1 DEF Processed, Took, SameWork, SameWire, SameIn, SameOut, SameState, p
<1> QED BY <1>6, <1>7, <1>8

\* A request that has taken effect is in the history, with its data.
LEMMA ProcessedCounts ==
    ASSUME NEW d \in Device, NEW e, Processed(d, e), DataKept(d),
           d.req.r.dir = "out" => d.store = Units(d.req.id, 0, d.req.r.wLength)
    PROVE  DataKept(e) /\ Ids(e) = Append(Ids(d), d.req.id)
<1> DEFINE rec == [req |-> d.req, data |-> d.store]
           R == [req : Ident, data : Data]
<1>1. /\ rec \in R /\ d.proc \in Seq(R) /\ d.req.id \in Nat
      /\ \A i \in 1..Len(d.proc) : d.proc[i] \in R /\ d.proc[i].req.id \in Nat
  <2>1. rec \in R /\ d.proc \in Seq(R) /\ d.req.id \in Nat
    BY DEF Device, Ident
  <2>2. \A i \in 1..Len(d.proc) : d.proc[i] \in R
    BY <2>1, ElementOfSeq
  <2> QED BY <2>1, <2>2 DEF Ident
<1>2. /\ Len(d.proc) \in Nat /\ Len(e.proc) = Len(d.proc) + 1
      /\ \A i \in 1..Len(d.proc) : e.proc[i] = d.proc[i]
      /\ e.proc[Len(d.proc) + 1] = rec
  <2>1. e.proc = Append(d.proc, rec)
    BY DEF Processed
  <2> QED BY <1>1, <2>1, AppendProperties, LenProperties
<1>3. \A i \in 1..Len(e.proc) : i \in 1..Len(d.proc) \/ i = Len(d.proc) + 1
  BY <1>2
<1>4. DataKept(e)
  <2> SUFFICES ASSUME NEW i \in 1..Len(e.proc), e.proc[i].req.r.dir = "out"
               PROVE  e.proc[i].data = Units(e.proc[i].req.id, 0, e.proc[i].req.r.wLength)
    BY DEF DataKept
  <2>1. CASE i \in 1..Len(d.proc)
    BY <1>2, <2>1 DEF DataKept
  <2>2. CASE i = Len(d.proc) + 1
    BY <1>2, <2>2
  <2> QED BY <1>3, <2>1, <2>2
<1>5. Ids(d) \in Seq(Nat) /\ Len(Ids(d)) = Len(d.proc) /\ \A i \in 1..Len(d.proc) : Ids(d)[i] = d.proc[i].req.id
  <2>1. [i \in 1..Len(d.proc) |-> d.proc[i].req.id] \in Seq(Nat)
    BY <1>1, <1>2, SeqDef
  <2> QED BY <1>2, <2>1, LenProperties DEF Ids
<1>6. /\ Append(Ids(d), d.req.id) \in Seq(Nat) /\ Len(Append(Ids(d), d.req.id)) = Len(d.proc) + 1
      /\ \A i \in 1..Len(d.proc) : Append(Ids(d), d.req.id)[i] = d.proc[i].req.id
      /\ Append(Ids(d), d.req.id)[Len(d.proc) + 1] = d.req.id
  BY <1>1, <1>5, AppendProperties
<1> DEFINE x == Append(Ids(d), d.req.id)
<1> HIDE DEF x
<1>7. \A i \in 1..Len(e.proc) : e.proc[i].req.id = x[i]
  <2>1. \A i \in 1..Len(d.proc) : e.proc[i].req.id = x[i]
    BY <1>2, <1>6 DEF x
  <2>2. e.proc[Len(d.proc) + 1].req.id = x[Len(d.proc) + 1]
    BY <1>2, <1>6 DEF x
  <2> QED BY <1>3, <2>1, <2>2
<1>8. Ids(e) \in Seq(Nat) /\ Len(Ids(e)) = Len(e.proc) /\ \A i \in 1..Len(e.proc) : Ids(e)[i] = e.proc[i].req.id
  <2>0. \A i \in 1..Len(e.proc) : e.proc[i].req.id \in Nat
    BY <1>1, <1>2, <1>3
  <2>1. [i \in 1..Len(e.proc) |-> e.proc[i].req.id] \in Seq(Nat)
    BY <1>2, <2>0, SeqDef
  <2> QED BY <1>2, <2>1, LenProperties DEF Ids
<1>9. Ids(e) = Append(Ids(d), d.req.id)
  <2>1. x \in Seq(Nat) /\ Len(x) = Len(e.proc)
    BY <1>2, <1>6 DEF x
  <2>2. Ids(e) = x
    BY <1>7, <1>8, <2>1, SeqEqual
  <2> QED BY <2>2 DEF x
<1> QED BY <1>4, <1>9

InRec == [on : BOOLEAN, size : Nat, pos : Nat, zlp : BOOLEAN, fin : {"none", "end"}]
OutRec == [on : BOOLEAN, size : Nat, fin : {"none", "status", "end"}]

SameButIn(d, e) ==
    /\ e.rx = d.rx /\ e.outen = d.outen /\ e.stall = d.stall
    /\ SameWork(d, e) /\ SameState(d, e) /\ SameOut(d, e)
SameButOut(d, e) ==
    /\ e.rx = d.rx /\ e.armed = d.armed /\ e.stall = d.stall
    /\ SameWork(d, e) /\ SameState(d, e) /\ SameIn(d, e)

\* A field of one side of the endpoint is set.
LEMMA SetIn ==
    ASSUME NEW d \in Device, NEW x \in InRec, NEW e, e = [d EXCEPT !.in = x]
    PROVE  e \in Device /\ e.in = x /\ e.inh = d.inh /\ e.armed = d.armed /\ SameButIn(d, e)
BY DEF Device, InRec, SameButIn, SameWork, SameState, SameOut

\* A packet is made ready.
LEMMA SetArmed ==
    ASSUME NEW d \in Device, NEW y \in Data, NEW e, e = [d EXCEPT !.armed = y]
    PROVE  e \in Device /\ e.in = d.in /\ e.inh = d.inh /\ e.armed = y /\ SameButIn(d, e)
BY DEF Device, InRec, SameButIn, SameWork, SameState, SameOut

\* The transfer of the OUT side is set.
LEMMA SetOut ==
    ASSUME NEW d \in Device, NEW x \in OutRec, NEW e, e = [d EXCEPT !.out = x]
    PROVE  e \in Device /\ e.out = x /\ e.outh = d.outh /\ e.outen = d.outen /\ SameButOut(d, e)
BY DEF Device, OutRec, SameButOut, SameWork, SameState, SameIn

\* The OUT side is set with its handler, and opened or closed.
LEMMA SetOutHandler ==
    ASSUME NEW d \in Device, NEW x \in OutRec, NEW y \in BOOLEAN, NEW a \in BOOLEAN,
           NEW e, e = [d EXCEPT !.out = x, !.outh = y, !.outen = a]
    PROVE  e \in Device /\ e.out = x /\ e.outh = y /\ e.outen = a /\ SameButOut(d, e)
BY DEF Device, OutRec, SameButOut, SameWork, SameState, SameIn

\* Two steps that touch only the IN side.
LEMMA SameInTwice ==
    ASSUME NEW d, NEW a, NEW e, SameButIn(d, a), SameButIn(a, e)
    PROVE  SameButIn(d, e)
BY DEF SameButIn, SameWork, SameState, SameOut

\* Two steps that touch only the OUT side.
LEMMA SameOutTwice ==
    ASSUME NEW d, NEW a, NEW e, SameButOut(d, a), SameButOut(a, e)
    PROVE  SameButOut(d, e)
BY DEF SameButOut, SameWork, SameState, SameIn

\* The parts of a device.
LEMMA SideFacts ==
    ASSUME NEW d \in Device
    PROVE  /\ d.in \in InRec /\ d.out \in OutRec /\ d.inh \in BOOLEAN /\ d.outh \in BOOLEAN
           /\ d.armed \in Data \cup {None} /\ d.outen \in BOOLEAN
BY DEF Device, InRec, OutRec

\* vsfusbd_ep_send of an empty packet.
LEMMA SendEmpty ==
    ASSUME NEW d \in Device, d.in.size = 0, NEW e, e = EpSend(d)
    PROVE  /\ e \in Device /\ SameButIn(d, e) /\ e.armed = <<>>
           /\ e.inh /\ e.in = [d.in EXCEPT !.on = TRUE]
<1> DEFINE x == [d.in EXCEPT !.on = TRUE]
           a == [d EXCEPT !.in = x, !.inh = TRUE]
<1>1. x \in InRec /\ x.size = d.in.size
  BY SideFacts DEF InRec
<1>2. <<>> \in Data
  BY DEF Data
<1>3. e = [a EXCEPT !.armed = <<>>]
  <2>1. ~(d.in.size > 0)
    OBVIOUS
  <2> QED BY Zenon, <2>1 DEF EpSend
<1> HIDE DEF x
<1>0. a = [d EXCEPT !.in = x, !.inh = TRUE]
  OBVIOUS
<1> HIDE DEF a
<1>4. a \in Device /\ a.in = x /\ a.inh = TRUE /\ SameButIn(d, a)
  BY <1>0, <1>1 DEF Device, InRec, SameButIn, SameWork, SameState, SameOut
<1>5. e \in Device /\ e.in = a.in /\ e.inh = a.inh /\ e.armed = <<>> /\ SameButIn(a, e)
  BY <1>2, <1>3, <1>4, SetArmed
<1>6. SameButIn(d, e)
  BY <1>4, <1>5, SameInTwice
<1> QED BY <1>4, <1>5, <1>6 DEF x

\* The empty packet that confirms a request is ready.
Confirming(d, e) ==
    /\ e \in Device /\ SameButIn(d, e) /\ e.armed = <<>>
    /\ e.inh /\ e.in.on /\ e.in.size = 0 /\ ~e.in.zlp /\ e.in.fin = "end"

\* vsfusbd_setup_status_callback of a request to the device.
LEMMA StatusToHost ==
    ASSUME NEW d \in Device, d.req.r.dir = "out", NEW e, e = SetupStatus(d)
    PROVE  Confirming(d, e)
<1> DEFINE x == [d.in EXCEPT !.size = 0, !.zlp = FALSE, !.fin = "end"]
           a == [d EXCEPT !.in = x]
<1>1. x \in InRec /\ x.size = 0 /\ x.zlp = FALSE /\ x.fin = "end"
  BY SideFacts DEF InRec
<1>2. e = EpSend(a)
  BY DEF SetupStatus
<1> HIDE DEF x
<1>3. a \in Device /\ a.in = x /\ SameButIn(d, a)
  BY <1>1, SetIn
<1> HIDE DEF a
<1>4. /\ e \in Device /\ SameButIn(a, e) /\ e.armed = <<>>
      /\ e.inh /\ e.in = [x EXCEPT !.on = TRUE]
  BY <1>1, <1>2, <1>3, SendEmpty
<1>5. e.in.on /\ e.in.size = 0 /\ ~e.in.zlp /\ e.in.fin = "end"
  BY <1>1, <1>4 DEF InRec
<1>6. SameButIn(d, e)
  BY <1>3, <1>4, SameInTwice
<1> QED BY <1>4, <1>5, <1>6 DEF Confirming

\* A transfer that takes n units of OUT data, or the empty status packet.
RecvOf(d, n, f) == EpRecv([d EXCEPT !.out.size = n, !.out.fin = f])
Receives(d, n, f, e) ==
    /\ e \in Device /\ SameButOut(d, e)
    /\ e.out.on /\ e.out.size = n /\ e.out.fin = f /\ e.outh /\ e.outen

\* What vsfusbd_ep_recv leaves.
LEMMA ReceiveIs ==
    ASSUME NEW d \in Device, NEW n \in Nat, NEW f \in {"none", "status", "end"},
           NEW e, e = RecvOf(d, n, f)
    PROVE  Receives(d, n, f, e)
<1> DEFINE x == [d.out EXCEPT !.size = n, !.fin = f]
           a == [d EXCEPT !.out = x]
           y == [a.out EXCEPT !.on = TRUE]
<1>1. x \in OutRec /\ x.size = n /\ x.fin = f
  BY SideFacts DEF OutRec
<1>2. e = [a EXCEPT !.out = y, !.outh = TRUE, !.outen = TRUE]
  BY DEF EpRecv, RecvOf
<1> HIDE DEF x
<1>3. a \in Device /\ a.out = x /\ SameButOut(d, a)
  BY <1>1, SetOut
<1>4. y \in OutRec /\ y.on /\ y.size = n /\ y.fin = f
  BY <1>1, <1>3 DEF OutRec
<1> HIDE DEF a, y
<1>5. e \in Device /\ e.out = y /\ e.outh = TRUE /\ e.outen = TRUE /\ SameButOut(a, e)
  BY <1>2, <1>3, <1>4, SetOutHandler
<1>6. SameButOut(d, e)
  BY <1>3, <1>5, SameOutTwice
<1> QED BY <1>4, <1>5, <1>6 DEF Receives

\* The device expects the empty packet that ends a request with IN data.
LEMMA StatusFromHost ==
    ASSUME NEW d \in Device, d.req.r.dir = "in", d.rx = Empty, NEW e, e = SetupStatus(d)
    PROVE  e \in Device /\ Awaits(e) /\ e.outen /\ SameButOut(d, e)
<1>1. e = RecvOf(d, 0, "end")
  BY DEF SetupStatus, RecvOf
<1>2. Receives(d, 0, "end", e)
  BY <1>1, ReceiveIs
<1> QED BY <1>2 DEF Receives, Awaits, SameButOut, SameWork

\* Least of two numbers.
LEMMA LeastFacts ==
    ASSUME NEW a \in Nat, NEW b \in Nat
    PROVE  Least(a, b) \in Nat /\ Least(a, b) <= a /\ Least(a, b) <= b /\ (Least(a, b) = a \/ Least(a, b) = b)
BY DEF Least

\* vsfusbd_on_IN_do with data left: the next packet.
LEMMA PacketReady ==
    ASSUME NEW d \in Device, d.in.size > 0, NEW e, e = OnIn(d),
           NEW c, c = Least(d.in.size, EpSize)
    PROVE  /\ e \in Device /\ SameButIn(d, e) /\ e.inh = d.inh /\ c \in Nat
           /\ e.in.on = d.in.on /\ e.in.fin = d.in.fin
           /\ e.in.size = d.in.size - c /\ e.in.pos = d.in.pos + c
           /\ e.in.zlp = (d.in.zlp /\ ~(d.in.size - c = 0 /\ c < EpSize))
           /\ e.armed = Units(d.req.id, d.in.pos, c)
<1>1. /\ d.in \in InRec /\ d.in.size \in Nat /\ d.in.pos \in Nat /\ d.in.zlp \in BOOLEAN
      /\ d.req.id \in Nat /\ EpSize \in Nat
  BY SideFacts, UsbdAssumption DEF Device, Ident, InRec
<1>2. c \in Nat /\ c <= d.in.size
  BY <1>1, LeastFacts
<1> DEFINE z == d.in.zlp /\ ~(d.in.size - c = 0 /\ c < EpSize)
           x == [d.in EXCEPT !.size = d.in.size - c, !.pos = d.in.pos + c, !.zlp = z]
           u == Units(d.req.id, d.in.pos, c)
<1>3. e = [d EXCEPT !.in = x, !.armed = u]
  BY Zenon DEF OnIn
<1>4. z \in BOOLEAN /\ d.in.size - c \in Nat /\ d.in.pos + c \in Nat
  BY <1>1, <1>2
<1>5. u \in Data
  BY <1>1, <1>2, UnitsFacts
<1> HIDE DEF z, u
<1>6. /\ x \in InRec /\ x.on = d.in.on /\ x.fin = d.in.fin /\ x.size = d.in.size - c
      /\ x.pos = d.in.pos + c /\ x.zlp = z
  BY <1>1, <1>4 DEF InRec
<1> HIDE DEF x
<1>7. e \in Device /\ e.in = x /\ e.inh = d.inh /\ e.armed = u /\ SameButIn(d, e)
  <2>1. x \in InRec /\ u \in Data
    BY <1>5, <1>6
  <2> DEFINE a == [d EXCEPT !.in = x]
  <2>2. e = [a EXCEPT !.armed = u]
    BY Zenon, <1>3
  <2>3. a \in Device /\ a.in = x /\ a.inh = d.inh /\ SameButIn(d, a)
    BY <2>1, SetIn
  <2> HIDE DEF a
  <2>4. e \in Device /\ e.in = a.in /\ e.inh = a.inh /\ e.armed = u /\ SameButIn(a, e)
    BY <2>1, <2>2, <2>3, SetArmed
  <2>5. SameButIn(d, e)
    BY <2>3, <2>4, SameInTwice
  <2> QED BY <2>3, <2>4, <2>5
<1> QED BY <1>2, <1>6, <1>7 DEF z, u

\* vsfusbd_on_IN_do at the end of data that needs an empty packet.
LEMMA EmptyReady ==
    ASSUME NEW d \in Device, d.in.size = 0, d.in.zlp, NEW e, e = OnIn(d)
    PROVE  /\ e \in Device /\ SameButIn(d, e) /\ e.inh = d.inh
           /\ e.in.on = d.in.on /\ e.in.fin = d.in.fin /\ e.in.size = 0 /\ e.in.pos = d.in.pos
           /\ e.armed = <<>>
<1>1. d.in \in InRec /\ <<>> \in Data /\ ~(d.in.size > 0)
  BY SideFacts DEF Data
<1> DEFINE x == [d.in EXCEPT !.zlp = FALSE]
<1>3. e = [d EXCEPT !.in = x, !.armed = <<>>]
  BY Zenon, <1>1 DEF OnIn
<1>6. x \in InRec /\ x.on = d.in.on /\ x.fin = d.in.fin /\ x.size = d.in.size /\ x.pos = d.in.pos
  BY <1>1 DEF InRec
<1> HIDE DEF x
<1>7. e \in Device /\ e.in = x /\ e.inh = d.inh /\ e.armed = <<>> /\ SameButIn(d, e)
  BY ZenonT(60), <1>1, <1>3, <1>6 DEF Device, InRec, SameButIn, SameWork, SameState, SameOut
<1> QED BY <1>6, <1>7

\* vsfusbd_on_IN_do at the end: the transfer is over.
LEMMA SendOver ==
    ASSUME NEW d \in Device, d.in.size = 0, ~d.in.zlp, NEW e, e = OnIn(d)
    PROVE  \E a : /\ a \in Device /\ SameButIn(d, a) /\ a.armed = d.armed
                  /\ d.in.fin = "end" => e = CtrlProcess(a)
                  /\ d.in.fin # "end" => e = a
<1> DEFINE x == [d.in EXCEPT !.on = FALSE]
           a == [d EXCEPT !.in = x, !.inh = FALSE]
<1>1. ~(d.in.size > 0)
  OBVIOUS
<1>2. e = IF d.in.fin = "end" THEN CtrlProcess(a) ELSE a
  BY Zenon, <1>1 DEF OnIn, CancelSend
<1>3. x \in InRec
  BY SideFacts DEF InRec
<1> HIDE DEF x
<1>0. a = [d EXCEPT !.in = x, !.inh = FALSE]
  OBVIOUS
<1> HIDE DEF a
<1>4. a \in Device /\ SameButIn(d, a) /\ a.armed = d.armed
  BY <1>0, <1>3 DEF Device, InRec, SameButIn, SameWork, SameState, SameOut
<1> QED BY <1>2, <1>4

\* The confirmation has gone: the request takes effect.
Effect(d, e) ==
    /\ e \in Device /\ Took(d, e) /\ DataKept(e) /\ Ids(e) = Append(Ids(d), d.req.id)
    /\ e.req = d.req /\ e.rx = d.rx /\ e.bug = d.bug /\ e.store = d.store /\ SameWire(d, e)

\* vsfusbd_on_IN_do after the confirmation.
LEMMA ConfirmedTakesEffect ==
    ASSUME NEW d \in Device, Confirms(d), DataKept(d), NEW e, e = OnIn(d)
    PROVE  Effect(d, e)
<1>1. d.in.size = 0 /\ ~d.in.zlp /\ d.in.fin = "end"
  BY DEF Confirms
<1>2. PICK a : a \in Device /\ SameButIn(d, a) /\ a.armed = d.armed /\ e = CtrlProcess(a)
  BY <1>1, SendOver
<1>3. Processed(a, e)
  BY <1>2, CtrlProcessIs
<1>4. /\ a.req = d.req /\ a.proc = d.proc /\ a.store = d.store /\ a.rx = d.rx /\ a.bug = d.bug
      /\ SameState(d, a) /\ SameWire(d, a)
  BY <1>2 DEF SameButIn, SameWork, SameWire
<1>5. DataKept(a) /\ Ids(a) = Ids(d)
  BY <1>4 DEF DataKept, Ids
<1>6. a.req.r.dir = "out" => a.store = Units(a.req.id, 0, a.req.r.wLength)
  BY <1>4 DEF Confirms
<1>7. DataKept(e) /\ Ids(e) = Append(Ids(a), a.req.id)
  BY <1>2, <1>3, <1>5, <1>6, ProcessedCounts
<1>8. Took(d, e)
  BY <1>3, <1>4 DEF Processed, Took, SameState
<1> QED BY <1>3, <1>4, <1>5, <1>7, <1>8 DEF Effect, Processed, SameWire

\* A packet of an answer has gone, and the rest of the device stays.
LEMMA SentGoesOn ==
    ASSUME NEW d \in Device, Sends(d), NEW e, e = OnIn(d)
    PROVE  e \in Device /\ SameButIn(d, e)
<1>0. d.in.size \in Nat /\ d.in.zlp \in BOOLEAN
  BY DEF Device
<1>1. CASE d.in.size > 0
  BY <1>1, PacketReady
<1>2. CASE d.in.size = 0 /\ d.in.zlp
  BY <1>2, EmptyReady
<1>3. CASE d.in.size = 0 /\ ~d.in.zlp
  BY <1>3, SendOver DEF Sends
<1> QED BY <1>0, <1>1, <1>2, <1>3

\* The next packet of an answer is the next piece of it.
LEMMA NextPiece ==
    ASSUME NEW h \in Host, NEW d \in Device, Sends(d), h.req = d.req, NEW g \in Nat, g = Len(h.got),
           g <= Total(h.req.r), d.in.pos = g, d.in.size = Total(h.req.r) - g,
           d.in.zlp = (Total(h.req.r) < h.req.r.wLength),
           d.in.size > 0 \/ d.in.zlp, NEW e, e = OnIn(d)
    PROVE  Sends(e) /\ \E c \in 0..EpSize : Offers(h, e, c)
<1> DEFINE t == Total(h.req.r)
           w == h.req.r.wLength
<1>0. t \in Nat /\ w \in Nat /\ EpSize \in Nat \ {0} /\ h.req.id \in Nat
  BY UsbdAssumption, LeastFacts DEF Total, Host, Ident, Request
<1>1. CASE d.in.size > 0
  <2> DEFINE c == Least(d.in.size, EpSize)
  <2>1. /\ e \in Device /\ SameButIn(d, e) /\ e.inh = d.inh /\ c \in Nat
        /\ e.in.on = d.in.on /\ e.in.fin = d.in.fin
        /\ e.in.size = d.in.size - c /\ e.in.pos = d.in.pos + c
        /\ e.in.zlp = (d.in.zlp /\ ~(d.in.size - c = 0 /\ c < EpSize))
        /\ e.armed = Units(d.req.id, d.in.pos, c)
    BY <1>1, PacketReady
  <2>2. c <= t - g /\ c <= EpSize /\ (c = t - g \/ c = EpSize) /\ c \in Nat
    <3>1. d.in.size \in Nat /\ d.in.size = t - g
      BY <1>0
    <3> HIDE DEF t
    <3> QED BY <1>0, <3>1, LeastFacts
  <2> HIDE DEF c, t, w
  <2>3. c \in 0..EpSize /\ e.armed = Units(h.req.id, g, c) /\ g + c <= t /\ e.in.pos = g + c
        /\ e.in.size = t - (g + c)
    BY <1>0, <2>1, <2>2 DEF t
  <2>4. c = EpSize => e.in.zlp = (t < w)
    <3> SUFFICES ASSUME c = EpSize PROVE e.in.zlp = (t < w)
      OBVIOUS
    <3>1. ~(c < EpSize)
      BY <1>0
    <3>2. d.in.zlp = (t < w)
      BY DEF t, w
    <3>3. e.in.zlp = (d.in.zlp /\ ~(d.in.size - c = 0 /\ c < EpSize))
      BY <2>1
    <3>4. d.in.zlp \in BOOLEAN
      BY DEF Device
    <3> QED BY <3>1, <3>2, <3>3, <3>4
  <2>5. c # EpSize => g + c = t
    BY <1>0, <2>2
  <2>6. Offers(h, e, c)
    BY <2>3, <2>4, <2>5 DEF Offers, t, w
  <2>7. Sends(e)
    BY <2>1 DEF Sends, SameButIn, SameWork
  <2> QED BY <2>3, <2>6, <2>7
<1>2. CASE ~(d.in.size > 0)
  <2>1. d.in.size = 0 /\ d.in.zlp /\ t = g
    BY <1>0, <1>2
  <2>2. /\ e \in Device /\ SameButIn(d, e) /\ e.inh = d.inh
        /\ e.in.on = d.in.on /\ e.in.fin = d.in.fin /\ e.in.size = 0 /\ e.in.pos = d.in.pos
        /\ e.armed = <<>>
    BY <2>1, EmptyReady
  <2> HIDE DEF t
  <2>3. Units(h.req.id, g, 0) = <<>>
    BY <1>0, UnitsFacts
  <2>4. /\ e.armed = Units(h.req.id, g, 0) /\ g + 0 <= t /\ e.in.pos = g + 0
        /\ e.in.size = t - (g + 0) /\ g + 0 = t /\ 0 # EpSize
    BY <1>0, <2>1, <2>2, <2>3 DEF t
  <2>5. Offers(h, e, 0)
    BY <2>4 DEF Offers, t
  <2>6. Sends(e)
    BY <2>2 DEF Sends, SameButIn, SameWork
  <2>7. 0 \in 0..EpSize
    BY <1>0
  <2> QED BY <2>5, <2>6, <2>7
<1> QED BY <1>1, <1>2

\* An empty receive buffer is a receive buffer.
LEMMA NothingThere == Empty \in [what : {"empty", "setup", "data"}, n : Nat, id : Nat, r : Request]
BY DEF Empty, NoRequest, Request, Acts

\* What vsfusbd_on_OUT_do does with a packet that fits, and what it leaves to
\* the end of the transfer.
Stored(d, left) ==
    [d EXCEPT !.rx = Empty, !.out.size = left,
              !.store = @ \o Units(d.rx.id, Len(d.store), d.rx.n)]
OutOff(d) == [d EXCEPT !.out.on = FALSE, !.outh = FALSE]

\* vsfusbd_on_OUT_do with a packet that fits.
LEMMA OnOutIs ==
    ASSUME NEW d \in Device, NEW left \in Nat, left = d.out.size - d.rx.n, NEW e, e = OnOut(d)
    PROVE  /\ left = 0 \/ d.rx.n < EpSize => e = CancelRecv(Stored(d, left))
           /\ ~(left = 0 \/ d.rx.n < EpSize) => e = [Stored(d, left) EXCEPT !.outen = TRUE]
<1>1. ~(left < 0)
  OBVIOUS
<1> QED BY Zenon, <1>1 DEF OnOut, Stored

\* The end of an OUT transfer calls what was set up for it.
LEMMA CancelRecvIs ==
    ASSUME NEW d, NEW e, e = CancelRecv(d)
    PROVE  /\ d.out.fin = "status" => e = SetupStatus(OutOff(d))
           /\ d.out.fin = "end" => e = CtrlProcess(OutOff(d))
BY DEF CancelRecv, OutOff

Kept(d, left, a) ==
    /\ a \in Device /\ a.rx = Empty /\ a.outh = d.outh
    /\ a.out.on = d.out.on /\ a.out.size = left /\ a.out.fin = d.out.fin
    /\ a.store = d.store \o Units(d.rx.id, Len(d.store), d.rx.n)
    /\ a.req = d.req /\ a.proc = d.proc /\ a.bug = d.bug
    /\ SameWire(d, a) /\ SameState(d, a) /\ SameIn(d, a)

\* What the stored packet leaves.
LEMMA KeptIs ==
    ASSUME NEW d \in Device, NEW left \in Nat, NEW a, a = Stored(d, left)
    PROVE  Kept(d, left, a)
<1> DEFINE u == d.store \o Units(d.rx.id, Len(d.store), d.rx.n)
           x == [d.out EXCEPT !.size = left]
           b == [d EXCEPT !.rx = Empty]
           c == [b EXCEPT !.out = x]
<1>1. d.store \in Data /\ Len(d.store) \in Nat /\ d.rx.id \in Nat /\ d.rx.n \in Nat
  BY LenProperties DEF Device, Data
<1>2. u \in Data
  BY <1>1, UnitsFacts, ConcatProperties DEF Data
<1>3. x \in OutRec /\ x.on = d.out.on /\ x.size = left /\ x.fin = d.out.fin
  BY SideFacts DEF OutRec
<1>4. /\ b \in Device /\ b.rx = Empty /\ b.out = d.out /\ b.store = d.store /\ b.outh = d.outh
      /\ b.req = d.req /\ b.proc = d.proc /\ b.bug = d.bug
      /\ SameWire(d, b) /\ SameState(d, b) /\ SameIn(d, b)
  BY NothingThere DEF Device, SameWire, SameState, SameIn
<1>5. a = [c EXCEPT !.store = u]
  <2>1. a = [[b EXCEPT !.out = [b.out EXCEPT !.size = left]] EXCEPT !.store = u]
    <3>1. [b EXCEPT !.out = [b.out EXCEPT !.size = left]].store = d.store
      BY <1>4 DEF Device
    <3> QED BY <3>1 DEF Stored
  <2> QED BY <1>4, <2>1
<1> HIDE DEF b, u, x
<1>6. c \in Device /\ c.out = x /\ c.outh = b.outh /\ c.outen = b.outen /\ SameButOut(b, c)
  BY <1>3, <1>4, SetOut
<1> HIDE DEF c
<1>7. /\ a \in Device /\ a.store = u /\ a.out = c.out /\ a.outh = c.outh /\ a.rx = c.rx
      /\ a.req = c.req /\ a.proc = c.proc /\ a.bug = c.bug
      /\ SameWire(c, a) /\ SameState(c, a) /\ SameIn(c, a)
  BY ZenonT(60), <1>2, <1>5, <1>6 DEF Device, SameWire, SameState, SameIn
<1> QED BY <1>3, <1>4, <1>6, <1>7 DEF Kept, SameButOut, SameWork, SameWire, SameState, SameIn, u

\* The transfer is taken off the endpoint.
LEMMA RecvOver ==
    ASSUME NEW a \in Device, NEW b, b = OutOff(a)
    PROVE  /\ b \in Device /\ b.rx = a.rx /\ SameWire(a, b) /\ SameWork(a, b) /\ SameState(a, b)
           /\ SameIn(a, b)
<1> DEFINE x == [a.out EXCEPT !.on = FALSE]
           c == [a EXCEPT !.out = x]
<1>1. x \in OutRec
  BY SideFacts DEF OutRec
<1>2. b = [c EXCEPT !.outh = FALSE]
  BY DEF OutOff
<1> HIDE DEF x
<1>3. c \in Device /\ c.outen = a.outen /\ SameButOut(a, c)
  BY <1>1, SetOut
<1> HIDE DEF c
<1>4. /\ b \in Device /\ b.rx = c.rx /\ SameWire(c, b) /\ SameWork(c, b) /\ SameState(c, b)
      /\ SameIn(c, b)
  BY <1>2, <1>3 DEF Device, SameWire, SameWork, SameState, SameIn
<1> QED BY <1>3, <1>4 DEF SameButOut, SameWire, SameWork, SameState, SameIn

\* The status packet of a request with IN data has come: it takes effect.
LEMMA EndedTakesEffect ==
    ASSUME NEW d \in Device, Awaits(d), DataKept(d), NEW e, e = OnOut(d)
    PROVE  Effect(d, e)
<1> DEFINE a == Stored(d, 0)
           b == OutOff(a)
<1>1. d.rx = Empty /\ d.rx.n = 0 /\ d.rx.id = 0 /\ d.out.size = 0 /\ d.out.fin = "end"
  BY DEF Awaits, Empty
<1>2. Kept(d, 0, a)
  <2>1. 0 \in Nat
    OBVIOUS
  <2> QED BY <2>1, KeptIs
<1>3. a.store = d.store
  <2>1. d.store \in Data /\ Len(d.store) \in Nat
    BY LenProperties DEF Device, Data
  <2>2. Units(d.rx.id, Len(d.store), d.rx.n) = <<>>
    BY <1>1, <2>1, UnitsFacts
  <2>3. d.store \o <<>> = d.store
    BY <2>1, ConcatEmptySeq DEF Data
  <2> QED BY <1>2, <2>2, <2>3 DEF Kept
<1>4. e = CancelRecv(a)
  <2>1. 0 = d.out.size - d.rx.n
    BY <1>1
  <2> QED BY <2>1, OnOutIs
<1>5. a.out.fin = "end"
  BY <1>1, <1>2 DEF Kept
<1> HIDE DEF a
<1>6. e = CtrlProcess(b)
  BY <1>4, <1>5, CancelRecvIs
<1>7. /\ b \in Device /\ b.rx = a.rx /\ SameWire(a, b) /\ SameWork(a, b) /\ SameState(a, b)
      /\ SameIn(a, b)
  BY <1>2, RecvOver DEF Kept
<1> HIDE DEF b
<1>8. Processed(b, e)
  BY <1>6, <1>7, CtrlProcessIs
<1>9. /\ b.req = d.req /\ b.proc = d.proc /\ b.store = d.store /\ b.rx = d.rx /\ b.bug = d.bug
      /\ SameState(d, b) /\ SameWire(d, b)
  BY <1>1, <1>2, <1>3, <1>7 DEF Kept, SameWork, SameState, SameWire
<1>10. DataKept(b) /\ Ids(b) = Ids(d)
  BY <1>9 DEF DataKept, Ids
<1>11. DataKept(e) /\ Ids(e) = Append(Ids(b), b.req.id)
  <2>1. b.req.r.dir # "out"
    BY <1>9 DEF Awaits
  <2> QED BY <1>7, <1>8, <1>10, <2>1, ProcessedCounts
<1>12. Took(d, e)
  BY <1>8, <1>9 DEF Processed, Took, SameState
<1> QED BY <1>8, <1>9, <1>10, <1>11, <1>12 DEF Effect, Processed, SameWire

\* A packet of OUT data is stored; the last one is confirmed.
Received(d, e) ==
    /\ e \in Device /\ e.req = d.req /\ e.proc = d.proc /\ e.bug = d.bug /\ e.stall = d.stall
    /\ SameState(d, e) /\ e.rx = Empty
    /\ \/ /\ Confirms(e) /\ e.armed = <<>> /\ e.outen = d.outen
          /\ Len(d.store) + d.rx.n = d.req.r.wLength
       \/ /\ Takes(e) /\ e.outen /\ e.armed = d.armed
          /\ Len(e.store) = Len(d.store) + d.rx.n /\ Len(e.store) < d.req.r.wLength

\* vsfusbd_on_OUT_do with a packet of OUT data.
LEMMA ReceivedGoesOn ==
    ASSUME NEW h, NEW d \in Device, Takes(d), Taken(h, d), NEW e, e = OnOut(d)
    PROVE  Received(d, e)
<1> DEFINE n == Least(EpSize, d.out.size)
           l == Len(d.store)
           w == d.req.r.wLength
           left == d.out.size - n
           a == Stored(d, left)
<1>1. /\ d.store \in Data /\ l \in Nat /\ d.req.id \in Nat /\ d.out.size \in Nat
      /\ EpSize \in Nat \ {0} /\ w \in Nat
  BY UsbdAssumption, LenProperties DEF Device, Data, Ident, Request
<1>2. d.rx.n = n /\ d.rx.id = d.req.id
  BY DEF Taken
<1>3. /\ n \in Nat /\ left \in Nat /\ (n < EpSize => left = 0)
      /\ l + n + left = w
  <2>1. n \in Nat /\ n <= d.out.size /\ (n = EpSize \/ n = d.out.size)
    BY <1>1, LeastFacts
  <2>2. l + d.out.size = w
    BY DEF Takes
  <2> HIDE DEF n, l, w
  <2> QED BY <1>1, <2>1, <2>2
<1> HIDE DEF n, l, w
<1>0. left = d.out.size - d.rx.n
  BY <1>2
<1> HIDE DEF left
<1>4. Kept(d, left, a)
  BY <1>3, KeptIs
<1>5. /\ left = 0 => e = CancelRecv(a)
      /\ left # 0 => e = [a EXCEPT !.outen = TRUE]
  BY <1>0, <1>2, <1>3, OnOutIs
<1> HIDE DEF a
<1>6. a.store = Units(d.req.id, 0, l + n) /\ Len(a.store) = l + n
  <2>1. d.store = Units(d.req.id, 0, l)
    BY DEF Takes, l
  <2>2. a.store = d.store \o Units(d.req.id, l, n)
    BY <1>2, <1>4 DEF Kept, l
  <2>3. l + n \in Nat
    BY <1>1, <1>3
  <2>4. Joined(d.req.id, 0, l, l, n, l + n) /\ Len(Units(d.req.id, 0, l + n)) = l + n
    BY <1>1, <1>3, <2>3, UnitsGrow
  <2> QED BY <2>1, <2>2, <2>4 DEF Joined
<1>7. /\ a \in Device /\ a.rx = Empty /\ a.outh = d.outh /\ a.out.on = d.out.on
      /\ a.out.size = left /\ a.out.fin = d.out.fin
      /\ a.req = d.req /\ a.proc = d.proc /\ a.bug = d.bug
      /\ SameWire(d, a) /\ SameState(d, a)
  BY <1>4 DEF Kept
<1>8. CASE left = 0
  <2> DEFINE b == OutOff(a)
  <2>1. e = SetupStatus(b)
    BY <1>5, <1>7, <1>8, CancelRecvIs DEF Takes
  <2>2. /\ b \in Device /\ b.rx = a.rx /\ SameWire(a, b) /\ SameWork(a, b) /\ SameState(a, b)
        /\ SameIn(a, b)
    BY <1>7, RecvOver
  <2> HIDE DEF b
  <2>3. b.req.r.dir = "out"
    BY <1>7, <2>2 DEF SameWork, Takes
  <2>4. Confirming(b, e)
    BY <2>1, <2>2, <2>3, StatusToHost
  <2>5. l + n = w
    BY <1>1, <1>3, <1>8
  <2>6. e.store = a.store /\ e.req = d.req /\ e.req.r.dir = "out"
    BY <1>7, <2>2, <2>3, <2>4 DEF Confirming, SameButIn, SameWork
  <2>7. Confirms(e)
    BY <1>6, <2>4, <2>5, <2>6 DEF Confirming, Confirms, w
  <2>8. /\ e \in Device /\ e.req = d.req /\ e.proc = d.proc /\ e.bug = d.bug /\ e.stall = d.stall
        /\ SameState(d, e) /\ e.rx = Empty /\ e.armed = <<>> /\ e.outen = d.outen
    BY <1>7, <2>2, <2>4 DEF Confirming, SameButIn, SameWork, SameState, SameWire
  <2> QED BY <1>2, <2>5, <2>7, <2>8 DEF Received, l, w
<1>9. CASE left # 0
  <2>1. e = [a EXCEPT !.outen = TRUE]
    BY <1>5, <1>9
  <2>2. /\ e \in Device /\ e.outen = TRUE /\ e.armed = a.armed /\ e.stall = a.stall
        /\ e.rx = a.rx /\ SameWork(a, e) /\ SameState(a, e) /\ SameOut(a, e)
    BY <1>7, <2>1 DEF Device, SameWork, SameState, SameOut
  <2>3. /\ e \in Device /\ e.req = d.req /\ e.proc = d.proc /\ e.bug = d.bug /\ e.stall = d.stall
        /\ SameState(d, e) /\ e.rx = Empty /\ e.armed = d.armed /\ e.outen
        /\ e.store = a.store /\ e.out = a.out /\ e.outh = a.outh
    BY <1>7, <2>2 DEF SameWork, SameState, SameWire, SameOut
  <2>4. Len(e.store) = l + n /\ l + n < w /\ l + n + left = w /\ left > 0
    BY <1>1, <1>3, <1>6, <1>9, <2>3
  <2>5. Takes(e)
    BY <1>6, <1>7, <2>3, <2>4 DEF Takes, w
  <2> QED BY <1>2, <2>3, <2>4, <2>5 DEF Received, l, w
<1> QED BY <1>8, <1>9

\* get_setup and vsfusbd_ctrl_prepare.
Prepared(d, b) ==
    /\ b \in Device /\ b.req = [id |-> d.rx.id, r |-> d.rx.r] /\ b.rx = Empty /\ b.store = <<>>
    /\ b.proc = d.proc /\ b.bug = d.bug /\ SameWire(d, b)
    /\ b.address = d.address /\ b.configuration = d.configuration
    /\ b.configured = (d.configured /\ d.rx.r.act # "config")

\* What the preparation of a request leaves.
LEMMA PrepareIs ==
    ASSUME NEW d \in Device, NEW b, b = Prepare(d)
    PROVE  Prepared(d, b)
<1> DEFINE i == [id |-> d.rx.id, r |-> d.rx.r]
           y == (d.configured /\ d.rx.r.act # "config")
           a == [d EXCEPT !.req = i, !.rx = Empty]
<1>1. i \in Ident /\ y \in BOOLEAN /\ <<>> \in Data
  BY DEF Device, Ident, Data
<1>2. b = [a EXCEPT !.store = <<>>, !.configured = y]
  BY DEF Prepare
<1> HIDE DEF i, y
<1>3. /\ a \in Device /\ a.req = i /\ a.rx = Empty /\ a.proc = d.proc /\ a.bug = d.bug
      /\ SameWire(d, a) /\ SameState(d, a)
  BY <1>1, NothingThere DEF Device, SameWire, SameState
<1> HIDE DEF a
<1>4. /\ b \in Device /\ b.req = a.req /\ b.rx = a.rx /\ b.store = <<>> /\ b.proc = a.proc
      /\ b.bug = a.bug /\ SameWire(a, b) /\ b.address = a.address
      /\ b.configuration = a.configuration /\ b.configured = y
  BY ZenonT(60), <1>1, <1>2, <1>3 DEF Device, SameWire
<1> QED BY <1>3, <1>4 DEF Prepared, SameWire, SameState, i, y

\* The SETUP packet of the host's request.
LEMMA SetupFacts ==
    ASSUME NEW h \in Host, NEW d \in Device, d.rx = SetupPacket(h.req)
    PROVE  /\ d.rx.what = "setup" /\ d.rx.id = h.req.id /\ d.rx.r = h.req.r
           /\ [id |-> d.rx.id, r |-> d.rx.r] = h.req
           /\ h.req \in Ident /\ h.req.r \in Request /\ h.req.id \in Nat
           /\ h.req.r.wLength \in Nat /\ h.req.r.size \in Nat /\ h.req.r.dir \in {"in", "out"}
<1>1. d.rx.what = "setup" /\ d.rx.id = h.req.id /\ d.rx.r = h.req.r
  BY DEF SetupPacket
<1>2. h.req \in Ident
  BY DEF Host
<1>3. h.req.r \in Request /\ h.req.id \in Nat /\ [id |-> h.req.id, r |-> h.req.r] = h.req
  BY <1>2 DEF Ident
<1> QED BY <1>1, <1>2, <1>3 DEF Request

\* What every handling of a SETUP packet gives.
Begun(h, d, e) == e \in Device /\ e.req = h.req /\ e.proc = d.proc /\ e.bug = d.bug

\* A request that is refused stalls the endpoint.
LEMMA SetupRefused ==
    ASSUME NEW h \in Host, NEW d \in Device, d.rx = SetupPacket(h.req), ~Accepts(d),
           NEW e, e = OnSetup(d)
    PROVE  /\ Begun(h, d, e)
           /\ Starts(h, d) /\ AskedAddress(h, d) /\ SameConfig(h, d) => Refused(h, e)
<1>1. /\ d.rx.what = "setup" /\ [id |-> d.rx.id, r |-> d.rx.r] = h.req /\ h.req \in Ident
  BY SetupFacts
<1>2. e = [d EXCEPT !.req = h.req, !.rx = Empty, !.stall = TRUE]
  BY <1>1 DEF OnSetup
<1>3. /\ e \in Device /\ e.req = h.req /\ e.proc = d.proc /\ e.bug = d.bug /\ e.stall = TRUE
      /\ e.armed = d.armed /\ e.outen = d.outen /\ SameState(d, e)
  BY ZenonT(60), <1>1, <1>2, NothingThere DEF Device, SameState
<1> QED BY <1>3 DEF Begun, Starts, Refused, Silent, AskedAddress, SameAddress, SameConfig, SameState

\* No data: the empty packet that confirms is ready.
LEMMA SetupNoData ==
    ASSUME NEW h \in Host, NEW d \in Device, d.rx = SetupPacket(h.req), Accepts(d), Legal(h.req.r),
           h.req.r.wLength = 0, NEW e, e = OnSetup(d)
    PROVE  /\ Begun(h, d, e)
           /\ Starts(h, d) /\ AskedAddress(h, d) /\ SameConfig(h, d) => Ready(h, e)
<1> DEFINE b == Prepare(d)
<1>1. Prepared(d, b)
  BY PrepareIs
<1>2. /\ d.rx.r = h.req.r /\ [id |-> d.rx.id, r |-> d.rx.r] = h.req /\ h.req.id \in Nat
      /\ h.req.r.dir \in {"in", "out"}
  BY SetupFacts
<1>3. e = SetupStatus(b)
  BY <1>2 DEF OnSetup
<1> HIDE DEF b
<1>4. b \in Device /\ b.req = h.req /\ b.req.r.dir = "out"
  <2>1. h.req.r.dir = "out"
    BY <1>2 DEF Legal
  <2> QED BY <1>1, <1>2, <2>1 DEF Prepared
<1>5. Confirming(b, e)
  BY <1>3, <1>4, StatusToHost
<1>6. /\ e \in Device /\ e.req = h.req /\ e.proc = d.proc /\ e.bug = d.bug /\ e.store = <<>>
      /\ e.address = d.address /\ e.configuration = d.configuration
      /\ e.configured = (d.configured /\ h.req.r.act # "config")
      /\ e.armed = <<>> /\ e.outen = d.outen /\ e.rx = Empty /\ e.stall = d.stall
  BY <1>1, <1>2, <1>4, <1>5 DEF Prepared, Confirming, SameButIn, SameWork, SameState, SameWire
<1>7. Confirms(e)
  <2>1. 0 \in Nat /\ Units(h.req.id, 0, 0) = <<>>
    BY <1>2, UnitsFacts
  <2> QED BY <1>4, <1>5, <1>6, <2>1 DEF Confirms, Confirming
<1>8. Begun(h, d, e)
  BY <1>6 DEF Begun
<1>9. ASSUME Starts(h, d), AskedAddress(h, d), SameConfig(h, d) PROVE Ready(h, e)
  <2>1. h.st = "status" /\ ~e.outen /\ ~e.stall
    BY <1>6, <1>9 DEF Starts, Fresh, Silent
  <2>2. AskedAddress(h, e)
    BY <1>6, <1>9 DEF AskedAddress, SameAddress
  <2>3. h.req.r.act # "config" => SameConfig(h, e)
    BY <1>6, <1>9 DEF SameConfig
  <2> QED BY <1>6, <1>7, <2>1, <2>2, <2>3 DEF Ready
<1> QED BY <1>8, <1>9

\* OUT data is expected.
LEMMA SetupOutData ==
    ASSUME NEW h \in Host, NEW d \in Device, d.rx = SetupPacket(h.req), Accepts(d), Legal(h.req.r),
           h.req.r.wLength # 0, h.req.r.dir = "out", NEW e, e = OnSetup(d)
    PROVE  /\ Begun(h, d, e)
           /\ Starts(h, d) /\ AskedAddress(h, d) /\ SameConfig(h, d) => Asking(h, e)
<1> DEFINE b == Prepare(d)
           w == h.req.r.wLength
<1>1. Prepared(d, b)
  BY PrepareIs
<1>2. /\ d.rx.r = h.req.r /\ [id |-> d.rx.id, r |-> d.rx.r] = h.req /\ h.req.id \in Nat
      /\ w \in Nat /\ w > 0 /\ h.req.r.size \in Nat
  BY SetupFacts
<1>3. e = DataStage(b)
  BY <1>2 DEF OnSetup
<1> HIDE DEF b
<1>4. b \in Device /\ b.req = h.req /\ b.req.r.dir = "out" /\ h.req.r.act = "none"
  BY <1>1, <1>2 DEF Prepared, Legal
<1>5. Least(h.req.r.size, w) = w
  BY <1>2 DEF Least, Legal
<1>6. e = RecvOf(b, w, "status")
  <2>1. Least(b.req.r.size, b.req.r.wLength) = w
    BY <1>4, <1>5
  <2> HIDE DEF w
  <2> QED BY Zenon, <1>3, <1>4, <2>1 DEF DataStage, RecvOf
<1>7. /\ e \in Device /\ SameButOut(b, e)
      /\ e.out.on /\ e.out.size = w /\ e.out.fin = "status" /\ e.outh /\ e.outen
  <2>1. Receives(b, w, "status", e)
    BY <1>2, <1>4, <1>6, ReceiveIs
  <2> QED BY <2>1 DEF Receives
<1>8. /\ e.req = h.req /\ e.proc = d.proc /\ e.bug = d.bug /\ e.store = <<>>
      /\ e.address = d.address /\ e.configuration = d.configuration
      /\ e.configured = d.configured /\ e.armed = d.armed /\ e.rx = Empty /\ e.stall = d.stall
  <2>1. d.configured \in BOOLEAN
    BY DEF Device
  <2>2. b.configured = d.configured
    BY <1>1, <1>2, <1>4, <2>1 DEF Prepared
  <2> QED BY <1>1, <1>4, <1>7, <2>2 DEF Prepared, SameButOut, SameWork, SameState, SameWire
<1>9. Takes(e)
  <2>1. Units(h.req.id, 0, 0) = <<>> /\ Len(<<>>) = 0 /\ 0 + w = w
    BY <1>2, UnitsFacts
  <2> QED BY <1>2, <1>4, <1>7, <1>8, <2>1 DEF Takes, w
<1>10. ASSUME Starts(h, d), AskedAddress(h, d), SameConfig(h, d) PROVE Asking(h, e)
  <2>1. h.st = "data" /\ h.sent = 0 /\ e.armed = None /\ ~e.stall
    BY <1>2, <1>8, <1>10 DEF Starts, Fresh, Silent
  <2>2. SameAddress(h, e) /\ SameConfig(h, e)
    BY <1>4, <1>8, <1>10 DEF SameConfig, AskedAddress, SameAddress
  <2>3. h.sent = Len(e.store)
    BY <1>8, <2>1
  <2> QED BY <1>7, <1>8, <1>9, <2>1, <2>2, <2>3 DEF Asking, Writes
<1> QED BY <1>7, <1>8, <1>10 DEF Begun

\* vsfusbd_ep_send of data: the transfer starts and its first packet is ready.
LEMMA SendData ==
    ASSUME NEW d \in Device, d.in.size > 0, NEW e, e = EpSend(d)
    PROVE  \E a : /\ a \in Device /\ SameButIn(d, a) /\ a.inh = TRUE /\ a.in.on = TRUE
                  /\ a.in.size = d.in.size /\ a.in.pos = d.in.pos /\ a.in.zlp = d.in.zlp
                  /\ a.in.fin = d.in.fin /\ e = OnIn(a)
<1> DEFINE x == [d.in EXCEPT !.on = TRUE]
           a == [d EXCEPT !.in = x, !.inh = TRUE]
<1>1. e = OnIn(a)
  BY Zenon DEF EpSend
<1>2. /\ x \in InRec /\ x.on = TRUE /\ x.size = d.in.size /\ x.pos = d.in.pos /\ x.zlp = d.in.zlp
      /\ x.fin = d.in.fin
  BY SideFacts DEF InRec
<1> HIDE DEF x
<1>0. a = [d EXCEPT !.in = x, !.inh = TRUE]
  OBVIOUS
<1> HIDE DEF a
<1>3. a \in Device /\ a.in = x /\ a.inh = TRUE /\ SameButIn(d, a)
  BY <1>0, <1>2 DEF Device, InRec, SameButIn, SameWork, SameState, SameOut
<1> QED BY <1>1, <1>2, <1>3

\* The transfer of an answer starts.
Begins(b, c) ==
    LET t == Total(b.req.r)
    IN  /\ c \in Device /\ SameButIn(b, c) /\ c.armed = b.armed
        /\ c.in.on = TRUE /\ c.in.size = t /\ c.in.pos = 0
        /\ c.in.zlp = (t < b.req.r.wLength) /\ c.in.fin = "none"

\* The data stage of a request with IN data.
LEMMA DataStageIn ==
    ASSUME NEW b \in Device, b.req.r.dir = "in", NEW e, e = DataStage(b)
    PROVE  \E c : Begins(b, c) /\ e = SetupStatus(EpSend(c))
<1> DEFINE t == Total(b.req.r)
           z == (t < b.req.r.wLength)
           x == [on |-> TRUE, size |-> t, pos |-> 0, zlp |-> z, fin |-> "none"]
           c == [b EXCEPT !.in = x]
<1>1. b.req.r.dir # "out"
  OBVIOUS
<1>2. e = SetupStatus(EpSend(c))
  BY Zenon, <1>1 DEF DataStage, Total
<1>3. t \in Nat /\ z \in BOOLEAN
  <2>1. b.req.r.size \in Nat /\ b.req.r.wLength \in Nat
    BY DEF Device, Ident, Request
  <2>2. t \in Nat
    BY <2>1, LeastFacts DEF Total
  <2> QED BY <2>1, <2>2
<1> HIDE DEF t, z
<1>4. /\ x \in InRec /\ x.on = TRUE /\ x.size = t /\ x.pos = 0 /\ x.zlp = z /\ x.fin = "none"
  BY <1>3 DEF InRec
<1> HIDE DEF x
<1>5. c \in Device /\ c.in = x /\ c.armed = b.armed /\ SameButIn(b, c)
  BY <1>4, SetIn
<1> HIDE DEF c
<1>6. Begins(b, c)
  BY <1>4, <1>5 DEF Begins, t, z
<1> QED BY <1>2, <1>6

\* IN data is ready, and the status packet is expected already.
LEMMA SetupInData ==
    ASSUME NEW h \in Host, NEW d \in Device, d.rx = SetupPacket(h.req), Accepts(d), Legal(h.req.r),
           h.req.r.dir = "in", NEW e, e = OnSetup(d)
    PROVE  /\ Begun(h, d, e)
           /\ Starts(h, d) /\ AskedAddress(h, d) /\ SameConfig(h, d) => Answering(h, e)
<1> DEFINE b == Prepare(d)
           t == Total(h.req.r)
           w == h.req.r.wLength
<1>1. Prepared(d, b)
  BY PrepareIs
<1>2. /\ d.rx.r = h.req.r /\ [id |-> d.rx.id, r |-> d.rx.r] = h.req /\ h.req.id \in Nat
      /\ w \in Nat /\ w # 0 /\ t \in Nat /\ h.req.r.act = "none" /\ EpSize \in Nat \ {0}
  <2>1. h.req.r.size \in Nat /\ w \in Nat /\ w > 0
    BY SetupFacts DEF Legal
  <2>2. t \in Nat
    BY <2>1, LeastFacts DEF Total
  <2> QED BY <2>1, <2>2, SetupFacts, UsbdAssumption DEF Legal
<1>3. e = DataStage(b)
  BY <1>2 DEF OnSetup
<1> HIDE DEF b, t, w
<1>4. b \in Device /\ b.req = h.req /\ b.rx = Empty
  BY <1>1, <1>2 DEF Prepared
<1>5. PICK c : Begins(b, c) /\ e = SetupStatus(EpSend(c))
  BY <1>3, <1>4, DataStageIn
<1> DEFINE f == EpSend(c)
<1>6. /\ c \in Device /\ SameButIn(b, c) /\ c.in.on = TRUE /\ c.in.size = t /\ c.in.pos = 0
      /\ c.in.zlp = (t < w) /\ c.in.fin = "none" /\ c.req = h.req
  BY <1>4, <1>5 DEF Begins, SameButIn, SameWork, t, w
<1>7. f \in Device /\ SameButIn(c, f) /\ (h.got = <<>> => Sends(f) /\ \E n \in 0..EpSize : Offers(h, f, n))
  <2>1. CASE t = 0
    <3>1. /\ f \in Device /\ SameButIn(c, f) /\ f.armed = <<>>
          /\ f.inh /\ f.in = [c.in EXCEPT !.on = TRUE]
      BY <1>6, <2>1, SendEmpty
    <3> HIDE DEF f
    <3>2. f.in.on /\ f.in.size = 0 /\ f.in.pos = 0 /\ f.in.fin = "none"
      BY <1>6, <2>1, <3>1, SideFacts DEF InRec
    <3>3. Sends(f)
      BY <1>6, <3>1, <3>2 DEF Sends, SameButIn, SameWork
    <3>4. ASSUME h.got = <<>> PROVE Offers(h, f, 0)
      <4>1. Len(h.got) = 0 /\ 0 # EpSize /\ Units(h.req.id, 0, 0) = <<>>
        BY <1>2, <3>4, UnitsFacts
      <4>2. Total(h.req.r) = 0
        BY <2>1 DEF t
      <4>3. /\ f.armed = Units(h.req.id, Len(h.got), 0) /\ Len(h.got) + 0 = 0
        BY <3>1, <4>1
      <4>4. 0 - (0 + 0) = 0 /\ 0 + 0 <= 0
        OBVIOUS
      <4> QED BY <3>2, <4>1, <4>2, <4>3, <4>4 DEF Offers
    <3>5. 0 \in 0..EpSize
      BY <1>2
    <3> QED BY <3>1, <3>3, <3>4, <3>5
  <2>2. CASE t # 0
    <3>1. PICK a : /\ a \in Device /\ SameButIn(c, a) /\ a.inh = TRUE /\ a.in.on = TRUE
                   /\ a.in.size = c.in.size /\ a.in.pos = c.in.pos /\ a.in.zlp = c.in.zlp
                   /\ a.in.fin = c.in.fin /\ f = OnIn(a)
      <4>1. c.in.size > 0
        BY <1>2, <1>6, <2>2
      <4> QED BY <1>6, <4>1, SendData
    <3> HIDE DEF f
    <3>2. Sends(a) /\ a.req = h.req
      BY <1>6, <3>1 DEF Sends, SameButIn, SameWork
    <3>3. f \in Device /\ SameButIn(a, f)
      BY <3>1, <3>2, SentGoesOn
    <3>4. SameButIn(c, f)
      BY <3>1, <3>3, SameInTwice
    <3>5. ASSUME h.got = <<>> PROVE Sends(f) /\ \E n \in 0..EpSize : Offers(h, f, n)
      <4>1. /\ 0 = Len(h.got) /\ 0 <= Total(h.req.r) /\ a.in.pos = 0
            /\ a.in.size = Total(h.req.r) - 0 /\ a.in.size > 0
        BY <1>2, <1>6, <2>2, <3>1, <3>5 DEF t
      <4>2. a.in.zlp = (Total(h.req.r) < h.req.r.wLength)
        BY <1>6, <3>1 DEF t, w
      <4> QED BY <3>1, <3>2, <4>1, <4>2, NextPiece
    <3> QED BY <3>3, <3>4, <3>5
  <2> QED BY <2>1, <2>2
<1> HIDE DEF f
<1>8. f.req = h.req /\ f.rx = Empty
  BY <1>4, <1>6, <1>7 DEF SameButIn, SameWork
<1>9. e \in Device /\ Awaits(e) /\ e.outen /\ SameButOut(f, e)
  BY <1>5, <1>7, <1>8, StatusFromHost DEF f
<1>10. /\ e.req = h.req /\ e.proc = d.proc /\ e.bug = d.bug /\ e.armed = f.armed /\ e.in = f.in
       /\ e.inh = f.inh /\ e.stall = d.stall
       /\ e.address = b.address /\ e.configuration = b.configuration /\ e.configured = b.configured
  BY <1>1, <1>6, <1>7, <1>8, <1>9 DEF Prepared, SameButIn, SameButOut, SameWork, SameState, SameIn, SameWire
<1>11. ASSUME Starts(h, d), AskedAddress(h, d), SameConfig(h, d) PROVE Answering(h, e)
  <2>1. h.st = "data" /\ h.got = <<>> /\ ~e.stall
    BY <1>2, <1>10, <1>11 DEF Starts, Fresh, w
  <2>2. d.configured \in BOOLEAN
    BY DEF Device
  <2>3. /\ e.address = d.address /\ e.configuration = d.configuration
        /\ e.configured = d.configured
    BY <1>1, <1>2, <1>10, <2>2 DEF Prepared
  <2>4. SameAddress(h, e) /\ SameConfig(h, e)
    BY <1>2, <1>11, <2>3 DEF SameConfig, AskedAddress, SameAddress
  <2>5. Sends(e)
    BY <1>7, <1>8, <1>10, <2>1 DEF Sends
  <2>6. \E n \in 0..EpSize : Offers(h, e, n)
    BY <1>7, <1>10, <2>1 DEF Offers
  <2>7. h.got = Units(h.req.id, 0, Len(h.got))
    <3>1. Units(h.req.id, 0, 0) = <<>> /\ Len(<<>>) = 0
      BY <1>2, UnitsFacts
    <3> QED BY <2>1, <3>1
  <2> QED BY <1>9, <1>10, <2>1, <2>4, <2>5, <2>6, <2>7 DEF Answering, Reads
<1> QED BY <1>9, <1>10, <1>11 DEF Begun

\* vsfusbd_on_SETUP: the request is refused, or under way.
LEMMA SetupHandled ==
    ASSUME NEW h \in Host, NEW d \in Device, d.rx = SetupPacket(h.req), Legal(h.req.r),
           NEW e, e = OnSetup(d)
    PROVE  /\ Begun(h, d, e)
           /\ Starts(h, d) /\ AskedAddress(h, d) /\ SameConfig(h, d) =>
                 Refused(h, e) \/ Ready(h, e) \/ Asking(h, e) \/ Answering(h, e)
<1>1. h.req.r.dir \in {"in", "out"}
  BY SetupFacts
<1>2. CASE ~Accepts(d)
  BY <1>2, SetupRefused
<1>3. CASE Accepts(d) /\ h.req.r.dir = "in"
  BY <1>3, SetupInData
<1>4. CASE Accepts(d) /\ h.req.r.dir = "out" /\ h.req.r.wLength = 0
  BY <1>4, SetupNoData
<1>5. CASE Accepts(d) /\ h.req.r.dir = "out" /\ h.req.r.wLength # 0
  BY <1>5, SetupOutData
<1> QED BY <1>1, <1>2, <1>3, <1>4, <1>5

-----------------------------------------------------------------------------
(* What the device does with an event keeps the phases in step.            *)

Good(h, d, e) == e \in Device /\ DataKept(e) /\ e.bug = d.bug /\ (e.req = d.req \/ e.req = h.req)

\* Nothing new has taken effect.
LEMMA SameHistory ==
    ASSUME NEW h, NEW d, NEW e, e.proc = d.proc
    PROVE  (DataKept(d) => DataKept(e)) /\ (Even(h, d) => Even(h, e))
BY DEF DataKept, Even, Ids

\* vsfusbd_on_RESET.
LEMMA ResetHandled ==
    ASSUME NEW h \in Host, NEW d \in Device, DataKept(d), Even(h, d), Forgotten(h),
           NEW live, NEW e, e = OnReset(d)
    PROVE  Good(h, d, e) /\ Rest(h, e, live)
<1> DEFINE x == [d.in EXCEPT !.on = FALSE]
           y == [d.out EXCEPT !.on = FALSE]
           a == [d EXCEPT !.in = x, !.out = y, !.inh = TRUE, !.outh = TRUE]
<1>1. e = [a EXCEPT !.configured = FALSE, !.configuration = 0, !.rx = Empty, !.address = 0]
  BY Zenon DEF OnReset
<1>2. x \in InRec /\ y \in OutRec
  BY SideFacts DEF InRec, OutRec
<1> HIDE DEF x, y
<1>0. a = [d EXCEPT !.in = x, !.out = y, !.inh = TRUE, !.outh = TRUE]
  OBVIOUS
<1> HIDE DEF a
<1>3. a \in Device /\ a.req = d.req /\ a.proc = d.proc /\ a.bug = d.bug
  BY <1>0, <1>2 DEF Device, InRec, OutRec
<1>4. /\ e \in Device /\ e.req = a.req /\ e.proc = a.proc /\ e.bug = a.bug
      /\ e.configured = FALSE /\ e.address = 0
  <2> DEFINE b == [a EXCEPT !.configured = FALSE, !.configuration = 0]
             c == [b EXCEPT !.rx = Empty]
  <2>1. e = [c EXCEPT !.address = 0]
    BY Zenon, <1>1
  <2>2. b \in Device /\ b.req = a.req /\ b.proc = a.proc /\ b.bug = a.bug /\ b.configured = FALSE
    BY <1>3 DEF Device
  <2> HIDE DEF b
  <2>3. c \in Device /\ c.req = b.req /\ c.proc = b.proc /\ c.bug = b.bug /\ c.configured = FALSE
    BY <2>2, NothingThere DEF Device
  <2> HIDE DEF c
  <2>4. e.req = c.req /\ e.proc = c.proc /\ e.bug = c.bug /\ e.configured = c.configured /\ e.address = 0
    BY <2>1, <2>3 DEF Device
  <2>5. e \in Device
    <3>1. 0 \in Nat
      OBVIOUS
    <3> QED BY ZenonT(60), <2>1, <2>3, <3>1 DEF Device
  <2> QED BY <2>2, <2>3, <2>4, <2>5
<1>5. Even(h, e) /\ DataKept(e)
  BY <1>3, <1>4, SameHistory
<1>6. SameAddress(h, e) /\ SameConfig(h, e)
  BY <1>4 DEF Forgotten, SameAddress, SameConfig, Unset
<1> QED BY <1>3, <1>4, <1>5, <1>6 DEF Good, Rest, Forgotten

\* SETUP, with nothing before it.
LEMMA StartingHandled ==
    ASSUME NEW h \in Host, NEW d \in Device, Legal(h.req.r), DataKept(d),
           NEW live, Starting(h, d, live), NEW e, e = OnSetup(d)
    PROVE  Good(h, d, e) /\ Rest(h, e, live)
<1>1. /\ Begun(h, d, e)
      /\ Starts(h, d) /\ AskedAddress(h, d) /\ SameConfig(h, d) =>
            Refused(h, e) \/ Ready(h, e) \/ Asking(h, e) \/ Answering(h, e)
  BY SetupHandled DEF Starting
<1>2. DataKept(e) /\ Even(h, e)
  BY <1>1, SameHistory DEF Begun, Starting
<1> QED BY <1>1, <1>2 DEF Good, Rest, Starting, Begun

\* The request that the host has seen confirmed takes effect.
LEMMA AgreedAfter ==
    ASSUME NEW h \in Host, NEW d \in Device, NEW e, Took(d, e)
    PROVE  /\ (IF d.req.r.act = "address" THEN d.req.r.value = h.addr ELSE SameAddress(h, d))
                 => SameAddress(h, e)
           /\ (IF d.req.r.act = "config" THEN d.req.r.value = h.config ELSE SameConfig(h, d))
                 => SameConfig(h, e)
<1>1. d.req.r.value \in Nat /\ Unset \notin Nat
  BY DEF Device, Ident, Request, Unset
<1>2. (IF d.req.r.act = "address" THEN d.req.r.value = h.addr ELSE SameAddress(h, d))
         => SameAddress(h, e)
  BY DEF Took, SameAddress
<1>3. (IF d.req.r.act = "config" THEN d.req.r.value = h.config ELSE SameConfig(h, d))
         => SameConfig(h, e)
  BY <1>1 DEF Took, SameConfig
<1> QED BY <1>2, <1>3

\* IN, the confirmation of the last request.
LEMMA ClosingHandled ==
    ASSUME NEW h \in Host, NEW d \in Device, DataKept(d),
           NEW live, Closing(h, d, live), NEW e, e = OnIn(d)
    PROVE  Good(h, d, e) /\ Rest(h, e, live)
<1>1. Effect(d, e)
  BY ConfirmedTakesEffect DEF Closing
<1>2. Even(h, e)
  BY <1>1 DEF Closing, Owed, Even, Effect
<1>3. live => h.st = "idle" /\ SameAddress(h, e) /\ SameConfig(h, e)
  BY <1>1, AgreedAfter DEF Closing, WillAgree, Effect
<1> QED BY <1>1, <1>2, <1>3 DEF Good, Rest, Effect

\* IN, the confirmation, with the next SETUP behind it.
LEMMA ClosingStartingHandled ==
    ASSUME NEW h \in Host, NEW d \in Device, DataKept(d),
           NEW live, ClosingStarting(h, d, live), NEW e, e = OnIn(d)
    PROVE  Good(h, d, e) /\ Starting(h, e, live)
<1>1. Effect(d, e)
  BY ConfirmedTakesEffect DEF ClosingStarting
<1>2. Even(h, e) /\ e.rx = SetupPacket(h.req)
  BY <1>1 DEF ClosingStarting, Owed, Even, Effect
<1>3. live => AskedAddress(h, e) /\ SameConfig(h, e)
  BY <1>1, AgreedAfter DEF ClosingStarting, AskedAddress, Effect
<1>4. live => Starts(h, e)
  BY <1>1 DEF ClosingStarting, Starts, Silent, Effect, SameWire
<1> QED BY <1>1, <1>2, <1>3, <1>4 DEF Good, Starting, Effect

\* IN, a packet of an answer.
LEMMA SendingHandled ==
    ASSUME NEW h \in Host, NEW d \in Device, DataKept(d),
           NEW live, Sending(h, d, live), NEW e, e = OnIn(d)
    PROVE  Good(h, d, e) /\ Rest(h, e, live)
<1>1. e \in Device /\ SameButIn(d, e) /\ Sends(d)
  BY SentGoesOn DEF Sending
<1>2. DataKept(e) /\ Even(h, e)
  BY <1>1, SameHistory DEF Sending, SameButIn, SameWork
<1>3. Reads(h, d) => Reads(h, e)
  BY <1>1 DEF Reads, Awaits, SameAddress, SameConfig, SameButIn, SameWork, SameState, SameOut
<1>4. ASSUME Reads(h, d), Halfway(h, d) PROVE Answering(h, e)
  <2> DEFINE t == Total(h.req.r)
             w == h.req.r.wLength
             g == Len(h.got)
  <2>1. g \in Nat /\ w \in Nat /\ t \in Nat
    <3>1. h.req.r.size \in Nat /\ w \in Nat /\ h.got \in Data
      BY DEF Host, Ident, Request
    <3> QED BY <3>1, LeastFacts, LenProperties DEF Total, Data
  <2>2. /\ h.st = "data" /\ h.got = Units(h.req.id, 0, g) /\ g <= t /\ g < w
        /\ d.in.pos = g /\ d.in.size = t - g /\ d.in.zlp = (t < w) /\ h.req = d.req
    BY <1>4 DEF Halfway, Reads
  <2>3. d.in.size > 0 \/ d.in.zlp
    <3> HIDE DEF t, w, g
    <3>1. CASE t < w
      BY Zenon, <2>2, <3>1
    <3>2. CASE ~(t < w)
      BY <2>1, <2>2, <3>2
    <3> QED BY <3>1, <3>2
  <2>4. Sends(e) /\ \E c \in 0..EpSize : Offers(h, e, c)
    BY <1>1, <2>1, <2>2, <2>3, NextPiece
  <2> QED BY <1>3, <1>4, <2>2, <2>4 DEF Answering
<1>5. Answered(h, d) => Answered(h, e)
  BY <1>3 DEF Answered
<1> QED BY <1>1, <1>2, <1>4, <1>5 DEF Good, Rest, Sending, SameButIn, SameWork

\* IN, the last packet of an answer, with the status behind it.
LEMMA SendingEndingHandled ==
    ASSUME NEW h \in Host, NEW d \in Device, DataKept(d),
           NEW live, SendingEnding(h, d, live), NEW e, e = OnIn(d)
    PROVE  Good(h, d, e) /\ Ending(h, e, live)
<1>1. e \in Device /\ SameButIn(d, e)
  BY SentGoesOn DEF SendingEnding
<1>2. DataKept(e) /\ Owed(h, e)
  BY <1>1 DEF DataKept, Owed, Ids, SendingEnding, SameButIn, SameWork
<1>3. Awaits(e)
  BY <1>1 DEF SendingEnding, Awaits, SameButIn, SameWork, SameOut
<1>4. live => h.st = "idle" /\ SameAddress(h, e) /\ SameConfig(h, e)
  BY <1>1 DEF SendingEnding, SameAddress, SameConfig, SameButIn, SameState
<1> QED BY <1>1, <1>2, <1>3, <1>4 DEF Good, Ending, SameButIn, SameWork

\* OUT, the status of a request with IN data.
LEMMA EndingHandled ==
    ASSUME NEW h \in Host, NEW d \in Device, Legal(d.req.r), DataKept(d),
           NEW live, Ending(h, d, live), NEW e, e = OnOut(d)
    PROVE  Good(h, d, e) /\ Rest(h, e, live)
<1>1. Effect(d, e)
  BY EndedTakesEffect DEF Ending
<1>2. Even(h, e)
  BY <1>1 DEF Ending, Owed, Even, Effect
<1>3. d.req.r.act = "none"
  BY DEF Ending, Awaits, Legal
<1>4. live => h.st = "idle" /\ SameAddress(h, e) /\ SameConfig(h, e)
  BY <1>1, <1>3, AgreedAfter DEF Ending, Effect
<1> QED BY <1>1, <1>2, <1>4 DEF Good, Rest, Effect

\* OUT, a packet of data.
LEMMA ReceivingHandled ==
    ASSUME NEW h \in Host, NEW d \in Device, DataKept(d),
           NEW live, Receiving(h, d, live), NEW e, e = OnOut(d)
    PROVE  Good(h, d, e) /\ Rest(h, e, live)
<1>1. Received(d, e)
  BY ReceivedGoesOn DEF Receiving
<1>2. DataKept(e) /\ Even(h, e)
  BY <1>1, SameHistory DEF Received, Receiving
<1>3. ASSUME live PROVE Ready(h, e) \/ Asking(h, e)
  <2>1. /\ Writes(h, d) /\ ~d.outen /\ h.sent = Len(d.store) + d.rx.n
        /\ h.st = IF h.sent = h.req.r.wLength THEN "status" ELSE "data"
    BY <1>3 DEF Receiving
  <2>2. e.req = h.req /\ ~e.stall /\ SameAddress(h, e) /\ SameConfig(h, e) /\ h.req = d.req
    BY <1>1, <2>1 DEF Received, Writes, SameAddress, SameConfig, SameState
  <2>3. CASE /\ Confirms(e) /\ e.armed = <<>> /\ e.outen = d.outen
             /\ Len(d.store) + d.rx.n = d.req.r.wLength
    BY <2>1, <2>2, <2>3 DEF Ready, AskedAddress
  <2>4. CASE /\ Takes(e) /\ e.outen /\ e.armed = d.armed
             /\ Len(e.store) = Len(d.store) + d.rx.n /\ Len(e.store) < d.req.r.wLength
    <3>1. Len(e.store) \in Nat /\ d.req.r.wLength \in Nat
      BY <1>1, LenProperties DEF Received, Device, Data, Ident, Request
    <3>2. h.sent # h.req.r.wLength /\ h.sent = Len(e.store)
      BY <2>1, <2>2, <2>4, <3>1
    <3>3. e.rx = Empty /\ e.armed = None
      BY <1>1, <2>1, <2>4 DEF Received, Writes
    <3> QED BY <2>1, <2>2, <2>4, <3>2, <3>3 DEF Asking, Writes
  <2> QED BY <1>1, <2>3, <2>4 DEF Received
<1> QED BY <1>1, <1>2, <1>3 DEF Good, Rest, Received

\* vsfusbd_evt_handler takes one event.
LEMMA HandleKeeps ==
    ASSUME IInv, Handle
    PROVE  IInv'
<1>1. PICK b \in Bases, r \in Resets : /\ q = b \o r
                                       /\ Phase(b, host, dev, r = <<>>)
                                       /\ r # <<>> => Forgotten(host)
  BY DEF IInv
<1>2. /\ host \in Host /\ dev \in Device /\ Legal(host.req.r) /\ Legal(dev.req.r)
      /\ dev.bug = "none" /\ DataKept(dev)
  BY DEF IInv, TypeOK
<1>3. host' = host /\ q' = Tail(q) /\ q # <<>>
  BY DEF Handle
<1>4. ASSUME NEW c \in Bases, NEW s \in Resets, q' = c \o s, Good(host, dev, dev'),
             Phase(c, host, dev', s = <<>>), s # <<>> => Forgotten(host)
      PROVE  IInv'
  <2>1. dev' \in Device /\ DataKept(dev') /\ dev'.bug = "none" /\ Legal(dev'.req.r)
    BY <1>2, <1>4 DEF Good
  <2>2. TypeOK'
    BY <1>2, <1>3, <2>1 DEF TypeOK
  <2>3. \E b1 \in Bases, r1 \in Resets : /\ q' = b1 \o r1
                                         /\ Phase(b1, host', dev', r1 = <<>>)
                                         /\ r1 # <<>> => Forgotten(host')
    BY <1>3, <1>4
  <2> QED BY <2>1, <2>2, <2>3 DEF IInv
<1>5. CASE b = <<>>
  <2>1. r # <<>> /\ Head(q) = "RESET" /\ q' = Tail(r) /\ Tail(r) \in Resets
    BY <1>1, <1>3, <1>5, QueueTakes
  <2>2. dev' = OnReset(dev)
    BY <2>1 DEF Handle
  <2>3. Even(host, dev) /\ Forgotten(host)
    BY <1>1, <1>5, <2>1 DEF Phase, Rest
  <2>4. Good(host, dev, dev') /\ Rest(host, dev', Tail(r) = <<>>)
    BY <1>2, <2>2, <2>3, ResetHandled
  <2>5. q' = <<>> \o Tail(r) /\ <<>> \in Bases
    BY <2>1, QueueTakes DEF Bases
  <2>6. Phase(<<>>, host, dev', Tail(r) = <<>>)
    BY <2>4 DEF Phase
  <2> QED BY <1>4, <2>1, <2>3, <2>4, <2>5, <2>6
<1>6. b # <<>> => Head(q) = Head(b) /\ q' = Tail(b) \o r
  BY <1>1, <1>3, QueueTakes
<1>0. \A x : Head(<<x>>) = x /\ Tail(<<x>>) = <<>> /\ <<x>> # <<>>
  OBVIOUS
<1>7. /\ <<>> \in Bases /\ <<"SETUP">> \in Bases /\ <<"OUT">> \in Bases
  BY DEF Bases
<1>8. ASSUME NEW live, Rest(host, dev', live) PROVE Phase(<<>>, host, dev', live)
  BY <1>8 DEF Phase
<1>9. CASE b = <<"SETUP">> /\ Starting(host, dev, r = <<>>)
  <2>1. Head(q) = "SETUP" /\ q' = <<>> \o r
    BY Zenon, <1>6, <1>9, <1>0
  <2>2. dev' = OnSetup(dev)
    BY <2>1 DEF Handle
  <2>3. Good(host, dev, dev') /\ Rest(host, dev', r = <<>>)
    BY <1>2, <1>9, <2>2, StartingHandled
  <2> QED BY <1>1, <1>4, <1>7, <1>8, <2>1, <2>3
<1>10. CASE b = <<"IN">> /\ Closing(host, dev, r = <<>>)
  <2>1. Head(q) = "IN" /\ q' = <<>> \o r
    BY Zenon, <1>6, <1>10, <1>0
  <2>2. dev' = OnIn(dev)
    BY <1>10, <2>1 DEF Handle, Closing, Confirms
  <2>3. Good(host, dev, dev') /\ Rest(host, dev', r = <<>>)
    BY <1>2, <1>10, <2>2, ClosingHandled
  <2> QED BY <1>1, <1>4, <1>7, <1>8, <2>1, <2>3
<1>11. CASE b = <<"IN", "SETUP">> /\ ClosingStarting(host, dev, r = <<>>)
  <2>1. Head(q) = "IN" /\ q' = <<"SETUP">> \o r
    BY <1>6, <1>11
  <2>2. dev' = OnIn(dev)
    BY <1>11, <2>1 DEF Handle, ClosingStarting, Confirms
  <2>3. Good(host, dev, dev') /\ Starting(host, dev', r = <<>>)
    BY <1>2, <1>11, <2>2, ClosingStartingHandled
  <2>4. Phase(<<"SETUP">>, host, dev', r = <<>>)
    BY <2>3 DEF Phase
  <2> QED BY <1>1, <1>4, <1>7, <2>1, <2>3, <2>4
<1>12. CASE b = <<"IN">> /\ Sending(host, dev, r = <<>>)
  <2>1. Head(q) = "IN" /\ q' = <<>> \o r
    BY Zenon, <1>6, <1>12, <1>0
  <2>2. dev' = OnIn(dev)
    BY <1>12, <2>1 DEF Handle, Sending, Sends
  <2>3. Good(host, dev, dev') /\ Rest(host, dev', r = <<>>)
    BY <1>2, <1>12, <2>2, SendingHandled
  <2> QED BY <1>1, <1>4, <1>7, <1>8, <2>1, <2>3
<1>13. CASE b = <<"IN", "OUT">> /\ SendingEnding(host, dev, r = <<>>)
  <2>1. Head(q) = "IN" /\ q' = <<"OUT">> \o r
    BY <1>6, <1>13
  <2>2. dev' = OnIn(dev)
    BY <1>13, <2>1 DEF Handle, SendingEnding, Sends
  <2>3. Good(host, dev, dev') /\ Ending(host, dev', r = <<>>)
    BY <1>2, <1>13, <2>2, SendingEndingHandled
  <2>4. Phase(<<"OUT">>, host, dev', r = <<>>)
    BY <2>3 DEF Phase
  <2> QED BY <1>1, <1>4, <1>7, <2>1, <2>3, <2>4
<1>14. CASE b = <<"OUT">> /\ Ending(host, dev, r = <<>>)
  <2>1. Head(q) = "OUT" /\ q' = <<>> \o r
    BY Zenon, <1>6, <1>14, <1>0
  <2>2. dev' = OnOut(dev)
    BY <1>14, <2>1 DEF Handle, Ending, Awaits
  <2>3. Good(host, dev, dev') /\ Rest(host, dev', r = <<>>)
    BY <1>2, <1>14, <2>2, EndingHandled
  <2> QED BY <1>1, <1>4, <1>7, <1>8, <2>1, <2>3
<1>15. CASE b = <<"OUT">> /\ Receiving(host, dev, r = <<>>)
  <2>1. Head(q) = "OUT" /\ q' = <<>> \o r
    BY Zenon, <1>6, <1>15, <1>0
  <2>2. dev' = OnOut(dev)
    BY <1>15, <2>1 DEF Handle, Receiving, Takes
  <2>3. Good(host, dev, dev') /\ Rest(host, dev', r = <<>>)
    BY <1>2, <1>15, <2>2, ReceivingHandled
  <2> QED BY <1>1, <1>4, <1>7, <1>8, <2>1, <2>3
<1> QED BY <1>1, <1>5, <1>9, <1>10, <1>11, <1>12, <1>13, <1>14, <1>15 DEF Phase

-----------------------------------------------------------------------------
(* What the host does keeps the phases in step.                            *)

\* The invariant, for a given division of the queue.
Fits(h, d, b, r) ==
    /\ h \in Host /\ d \in Device /\ Legal(h.req.r) /\ Legal(d.req.r)
    /\ d.bug = "none" /\ DataKept(d)
    /\ b \in Bases /\ r \in Resets /\ Phase(b, h, d, r = <<>>) /\ (r # <<>> => Forgotten(h))

\* From the invariant to a division of the queue.
LEMMA Divided ==
    ASSUME IInv
    PROVE  \E b, r : q = b \o r /\ Fits(host, dev, b, r)
<1>1. PICK b \in Bases, r \in Resets : /\ q = b \o r
                                       /\ Phase(b, host, dev, r = <<>>)
                                       /\ r # <<>> => Forgotten(host)
  BY DEF IInv
<1>2. Fits(host, dev, b, r)
  BY <1>1 DEF Fits, IInv, TypeOK
<1> QED BY <1>1, <1>2

\* And back, for the next state.
LEMMA DividedNext ==
    ASSUME NEW b, NEW r, q' = b \o r, Fits(host', dev', b, r)
    PROVE  IInv'
<1>1. TypeOK' /\ dev'.bug = "none" /\ DataKept(dev)'
  BY DEF Fits, TypeOK, DataKept
<1>2. \E b1 \in Bases, r1 \in Resets : /\ q' = b1 \o r1
                                       /\ Phase(b1, host', dev', r1 = <<>>)
                                       /\ r1 # <<>> => Forgotten(host')
  BY DEF Fits
<1> QED BY <1>1, <1>2 DEF IInv

\* A host that is not idle has sent no reset.
LEMMA NoResetYet ==
    ASSUME NEW h, NEW d, NEW b, NEW r, Fits(h, d, b, r), h.st # "idle" \/ r = <<>>
    PROVE  r = <<>> /\ b \o r = b /\ b \in Bases /\ <<>> \in Resets /\ Phase(b, h, d, TRUE)
<1>1. r = <<>>
  BY DEF Fits, Forgotten
<1>2. b \in Bases /\ r \in Resets /\ Phase(b, h, d, r = <<>>)
  BY DEF Fits
<1>3. b \o <<>> = b /\ <<>> \in Resets
  BY <1>2, QueueAppends
<1>4. (r = <<>>) = TRUE
  BY <1>1
<1> QED BY <1>1, <1>2, <1>3, <1>4

\* An event that is no reset joins the queue.
LEMMA OneMore ==
    ASSUME NEW x \in Event
    PROVE  /\ Append(<<>>, x) = <<x>> /\ Append(<<"IN">>, x) = <<"IN", x>>
           /\ \A c \in Bases : c \o <<>> = c
<1>1. \A c \in Bases : c \o <<>> = c
  <2> TAKE c \in Bases
  <2>1. <<>> \in Resets
    BY DEF Resets
  <2> QED BY <2>1, QueueAppends
<1>2. Append(<<>>, x) = <<x>>
  OBVIOUS
<1>3. Append(<<"IN">>, x) = <<"IN", x>>
  <2>0. "IN" \in Event
    BY DEF Event
  <2> DEFINE s == Append(<<"IN">>, x)
             t == <<"IN", x>>
  <2>1. s[1] = "IN" /\ s[2] = x /\ Len(s) = 2
    BY <2>0
  <2>2. t \in Seq(Event) /\ Len(t) = 2 /\ t[1] = "IN" /\ t[2] = x
    BY <2>0
  <2>3. s \in Seq(Event)
    <3>1. <<"IN">> \in Seq(Event)
      BY <2>0
    <3> QED BY <3>1, AppendProperties
  <2> HIDE DEF s, t
  <2>4. \A i \in 1 .. Len(s) : s[i] = t[i]
    BY <2>1, <2>2
  <2>5. s = t
    BY <2>1, <2>2, <2>3, <2>4, SeqEqual
  <2> QED BY <2>5 DEF s, t
<1> QED BY <1>1, <1>2, <1>3

\* What the host may ask is legal.
LEMMA RequestIsLegal ==
    ASSUME Fitting, NEW r \in Requests
    PROVE  r \in Request /\ Legal(r)
BY UsbdAssumption DEF Fitting, Request, Legal

\* A request is asked.
Asks(h, d, r, g, e) ==
    /\ g \in Host /\ g.req = [id |-> h.req.id + 1, r |-> r] /\ Fresh(g)
    /\ g.done = h.done /\ g.addr = h.addr /\ g.config = h.config
    /\ e \in Device /\ e.rx = SetupPacket(g.req) /\ Silent(e) /\ ~e.stall
    /\ e.configured = d.configured /\ e.configuration = d.configuration
    /\ (r.act # "address" => e.address = d.address)
    /\ SameWork(d, e) /\ SameIn(d, e)

\* HostSetup changes this and nothing else.
LEMMA AskIs ==
    ASSUME IInv, Fitting, NEW r \in Requests, HostSetup(r)
    PROVE  Asks(host, dev, r, host', dev')
<1> DEFINE i == host.req.id + 1
           m == [id |-> i, r |-> r]
           p == [what |-> "setup", n |-> 1, id |-> i, r |-> r]
           s == IF r.wLength > 0 THEN "data" ELSE "status"
           a == IF r.act = "address" THEN r.value ELSE dev.address
           g1 == [host EXCEPT !.req = m]
           g2 == [g1 EXCEPT !.got = <<>>, !.sent = 0]
           e1 == [dev EXCEPT !.rx = p]
           e2 == [e1 EXCEPT !.armed = None, !.outen = FALSE]
           e3 == [e2 EXCEPT !.stall = FALSE]
<1>1. host \in Host /\ dev \in Device /\ r \in Request /\ r.value \in Nat
  BY RequestIsLegal DEF IInv, TypeOK, Request
<1>2. host' = [g2 EXCEPT !.clean = FALSE, !.st = s] /\ dev' = [e3 EXCEPT !.address = a]
  BY Zenon DEF HostSetup
<1>3. i \in Nat /\ m \in Ident /\ s \in {"data", "status"} /\ <<>> \in Data
      /\ p \in [what : {"empty", "setup", "data"}, n : Nat, id : Nat, r : Request]
      /\ a \in Nat /\ p = SetupPacket(m) /\ m.r = r
  BY SMTT(60), <1>1 DEF Host, Ident, Device, Data, SetupPacket
<1> HIDE DEF i, m, p, s, a
<1>4. /\ g1 \in Host /\ g1.req = m /\ g1.done = host.done /\ g1.addr = host.addr
      /\ g1.config = host.config
  BY <1>1, <1>3 DEF Host
<1> HIDE DEF g1
<1>5. /\ g2 \in Host /\ g2.req = m /\ g2.done = host.done /\ g2.addr = host.addr
      /\ g2.config = host.config /\ g2.got = <<>> /\ g2.sent = 0
  BY <1>3, <1>4 DEF Host
<1> HIDE DEF g2
<1>6. /\ host' \in Host /\ host'.req = m /\ host'.done = host.done /\ host'.addr = host.addr
      /\ host'.config = host.config /\ host'.got = <<>> /\ host'.sent = 0 /\ host'.st = s
  BY <1>2, <1>3, <1>5 DEF Host
<1>7. /\ e1 \in Device /\ e1.rx = p /\ SameState(dev, e1) /\ SameWork(dev, e1) /\ SameIn(dev, e1)
  BY <1>1, <1>3 DEF Device, SameState, SameWork, SameIn
<1> HIDE DEF e1
<1>8. /\ e2 \in Device /\ e2.rx = p /\ e2.armed = None /\ e2.outen = FALSE
      /\ SameState(e1, e2) /\ SameWork(e1, e2) /\ SameIn(e1, e2)
  BY <1>7 DEF Device, SameState, SameWork, SameIn
<1> HIDE DEF e2
<1>9. /\ e3 \in Device /\ e3.rx = p /\ e3.armed = None /\ e3.outen = FALSE /\ e3.stall = FALSE
      /\ SameState(e2, e3) /\ SameWork(e2, e3) /\ SameIn(e2, e3)
  BY <1>8 DEF Device, SameState, SameWork, SameIn
<1> HIDE DEF e3
<1>10. /\ dev' \in Device /\ dev'.rx = p /\ dev'.armed = None /\ dev'.outen = FALSE
       /\ dev'.stall = FALSE /\ dev'.address = a
       /\ dev'.configured = e3.configured /\ dev'.configuration = e3.configuration
       /\ SameWork(e3, dev') /\ SameIn(e3, dev')
  BY <1>2, <1>3, <1>9 DEF Device, SameWork, SameIn
<1>11. Fresh(host')
  BY <1>3, <1>6 DEF Fresh, s
<1>12. /\ dev'.configured = dev.configured /\ dev'.configuration = dev.configuration
       /\ SameWork(dev, dev') /\ SameIn(dev, dev')
  BY <1>7, <1>8, <1>9, <1>10 DEF SameState, SameWork, SameIn
<1>13. r.act # "address" => dev'.address = dev.address
  BY <1>10 DEF a
<1> QED BY <1>3, <1>6, <1>10, <1>11, <1>12, <1>13 DEF Asks, Silent, m, i

\* SETUP comes when the device is at rest or about to be.
LEMMA HostSetupKeeps ==
    ASSUME Patient = TRUE, Fitting, IInv, NEW r \in Requests, HostSetup(r)
    PROVE  IInv'
<1>1. PICK b, x : q = b \o x /\ Fits(host, dev, b, x)
  BY Divided
<1>2. Asks(host, dev, r, host', dev')
  BY AskIs
<1>3. host.st = "idle" /\ (q = <<>> \/ q = <<"IN">>) /\ q' = Append(q, "SETUP")
  BY DEF HostSetup, Settled
<1>4. x = <<>>
  BY <1>1, <1>3, QueueIsShort DEF Fits
<1>5. q = b /\ b \in Bases /\ <<>> \in Resets /\ Phase(b, host, dev, TRUE)
  BY <1>1, <1>4, NoResetYet
<1>6. /\ host' \in Host /\ dev' \in Device /\ Legal(host'.req.r) /\ Legal(dev'.req.r)
      /\ dev'.bug = "none" /\ DataKept(dev') /\ host'.done = host.done /\ dev'.proc = dev.proc
  <2>1. host'.req.r = r /\ dev'.req = dev.req /\ dev'.bug = dev.bug /\ dev'.proc = dev.proc
    BY <1>2 DEF Asks, SameWork
  <2>2. DataKept(dev')
    BY <1>1, <2>1, SameHistory DEF Fits
  <2> QED BY <1>1, <1>2, <2>1, <2>2, RequestIsLegal DEF Fits, Asks
<1>7. Starts(host', dev')
  BY <1>2 DEF Asks, Starts
<1>8. /\ SameAddress(host, dev) /\ host'.req.r.act # "address" => SameAddress(host', dev')
      /\ SameConfig(host, dev) => SameConfig(host', dev')
  BY <1>2 DEF Asks, SameAddress, SameConfig
<1>9. ASSUME NEW c \in Bases, q' = c, Phase(c, host', dev', TRUE) PROVE IInv'
  <2>1. (<<>> = <<>>) = TRUE /\ q' = c \o <<>>
    BY <1>9, OneMore
  <2>2. Fits(host', dev', c, <<>>)
    BY <1>5, <1>6, <1>9, <2>1 DEF Fits
  <2> QED BY <2>1, <2>2, DividedNext
<1>10. CASE b = <<>>
  <2>1. Even(host, dev) /\ SameAddress(host, dev) /\ SameConfig(host, dev)
    BY <1>3, <1>5, <1>10 DEF Phase, Rest, Refused, Fresh, Answering, Answered, Asking, Ready
  <2>2. Even(host', dev')
    BY <1>6, <2>1 DEF Even, Ids
  <2>3. Starting(host', dev', TRUE)
    BY <1>2, <1>7, <1>8, <2>1, <2>2 DEF Starting, Asks, AskedAddress
  <2>4. q' = <<"SETUP">> /\ <<"SETUP">> \in Bases
    BY <1>3, <1>5, <1>10, OneMore DEF Bases, Event
  <2>5. Phase(<<"SETUP">>, host', dev', TRUE)
    BY <2>3 DEF Phase
  <2> QED BY <1>9, <2>4, <2>5
<1>11. CASE b = <<"IN">>
  <2>1. Closing(host, dev, TRUE)
    BY <1>3, <1>5, <1>11 DEF Phase, Sending, Halfway, Answered
  <2>2. dev'.req = dev.req
    BY <1>2 DEF Asks, SameWork
  <2>3. Owed(host', dev')
    BY <1>6, <2>1, <2>2 DEF Closing, Owed, Ids
  <2>4. Confirms(dev')
    BY <1>2, <2>1 DEF Closing, Confirms, Asks, SameWork, SameIn
  <2>5. /\ host'.req.r.act # "address" =>
             IF dev'.req.r.act = "address" THEN dev'.req.r.value = host'.addr
                                           ELSE SameAddress(host', dev')
        /\ IF dev'.req.r.act = "config" THEN dev'.req.r.value = host'.config
                                        ELSE SameConfig(host', dev')
    BY <1>2, <1>8, <2>1, <2>2 DEF Closing, WillAgree, Asks
  <2>6. ClosingStarting(host', dev', TRUE)
    BY <1>2, <1>7, <2>3, <2>4, <2>5 DEF ClosingStarting, Asks
  <2>7. q' = <<"IN", "SETUP">> /\ <<"IN", "SETUP">> \in Bases
    BY <1>3, <1>5, <1>11, OneMore DEF Bases, Event
  <2>8. Phase(<<"IN", "SETUP">>, host', dev', TRUE)
    BY <2>6 DEF Phase
  <2> QED BY <1>9, <2>7, <2>8
<1> QED BY <1>3, <1>5, <1>10, <1>11

Healthy(h, d) ==
    /\ h \in Host /\ d \in Device /\ Legal(h.req.r) /\ Legal(d.req.r)
    /\ d.bug = "none" /\ DataKept(d)

\* The next state, when no reset is on its way.
LEMMA LiveNext ==
    ASSUME NEW c \in Bases, q' = c, Healthy(host', dev'), Phase(c, host', dev', TRUE)
    PROVE  IInv'
<1>1. (<<>> = <<>>) = TRUE /\ q' = c \o <<>> /\ <<>> \in Resets
  BY OneMore DEF Event, Resets
<1>2. Fits(host', dev', c, <<>>)
  BY <1>1 DEF Fits, Healthy
<1> QED BY <1>1, <1>2, DividedNext

\* The host has the confirmation, or has sent the last packet.
HasEnded(h, g) ==
    /\ g \in Host /\ g.st = "idle" /\ g.req = h.req /\ g.done = Append(h.done, h.req.id)
    /\ g.addr = (IF h.req.r.act = "address" THEN h.req.r.value ELSE h.addr)
    /\ g.config = (IF h.req.r.act = "config" THEN h.req.r.value ELSE h.config)

\* What the end of a request leaves at the host.
LEMMA EndedIs ==
    ASSUME NEW h \in Host, NEW g, g = Ended(h)
    PROVE  HasEnded(h, g)
<1> DEFINE u == Append(h.done, h.req.id)
           a == IF h.req.r.act = "address" THEN h.req.r.value ELSE h.addr
           c == IF h.req.r.act = "config" THEN h.req.r.value ELSE h.config
           g1 == [h EXCEPT !.st = "idle"]
           g2 == [g1 EXCEPT !.done = u]
           g3 == [g2 EXCEPT !.addr = a]
<1>1. g = [g3 EXCEPT !.config = c]
  BY Zenon DEF Ended
<1>2. u \in Seq(Nat) /\ a \in Nat /\ c \in Nat \cup {Unknown, Unset}
  <2>1. h.done \in Seq(Nat) /\ h.req.id \in Nat /\ h.req.r.value \in Nat
    BY DEF Host, Ident, Request
  <2> QED BY <2>1, AppendProperties DEF Host
<1> HIDE DEF u, a, c
<1>3. g1 \in Host /\ g1.st = "idle" /\ g1.req = h.req
  BY DEF Host
<1> HIDE DEF g1
<1>4. g2 \in Host /\ g2.st = "idle" /\ g2.req = h.req /\ g2.done = u
  BY <1>2, <1>3 DEF Host
<1> HIDE DEF g2
<1>5. g3 \in Host /\ g3.st = "idle" /\ g3.req = h.req /\ g3.done = u /\ g3.addr = a
  BY <1>2, <1>4 DEF Host
<1> HIDE DEF g3
<1>6. g \in Host /\ g.st = "idle" /\ g.req = h.req /\ g.done = u /\ g.addr = a /\ g.config = c
  BY <1>1, <1>2, <1>5 DEF Host
<1> QED BY <1>6 DEF HasEnded, u, a, c

\* The packet of the IN endpoint has gone.
PacketGone(d, e) ==
    /\ e \in Device /\ e.armed = None /\ e.rx = d.rx /\ e.outen = d.outen /\ e.stall = d.stall
    /\ SameWork(d, e) /\ SameState(d, e) /\ SameIn(d, e) /\ SameOut(d, e)

\* The host reads a piece of the answer.
HasRead(h, d, g) ==
    /\ g.got = h.got \o d.armed /\ g.req = h.req /\ g.addr = h.addr /\ g.config = h.config
    /\ g.st = IF Len(d.armed) < EpSize \/ Len(h.got \o d.armed) >= h.req.r.wLength
              THEN "status" ELSE "data"

\* What the host has is the answer, or the beginning of it.
LEMMA PieceRead ==
    ASSUME NEW h \in Host, NEW d \in Device, Answering(h, d), NEW e, PacketGone(d, e),
           NEW g \in Host, HasRead(h, d, g)
    PROVE  Sends(e) /\ Reads(g, e) /\ (Halfway(g, e) \/ Answered(g, e))
<1> DEFINE t == Total(h.req.r)
           w == h.req.r.wLength
           l == Len(h.got)
<1>1. PICK c \in 0..EpSize : Offers(h, d, c)
  BY DEF Answering
<1>2. /\ l \in Nat /\ w \in Nat /\ t \in Nat /\ t <= w /\ h.req.id \in Nat /\ EpSize \in Nat /\ c \in Nat
      /\ c <= EpSize
  <2>1. h.req.r.size \in Nat /\ w \in Nat /\ h.got \in Data /\ h.req.id \in Nat
    BY DEF Host, Ident, Request
  <2>2. l \in Nat
    BY <2>1, LenProperties DEF Data
  <2>3. t \in Nat /\ t <= w
    BY <2>1, LeastFacts DEF Total
  <2> QED BY <2>1, <2>2, <2>3, UsbdAssumption
<1> HIDE DEF t, w, l
<1>3. /\ d.armed = Units(h.req.id, l, c) /\ l + c <= t /\ d.in.pos = l + c /\ d.in.size = t - (l + c)
      /\ (c = EpSize => d.in.zlp = (t < w)) /\ (c # EpSize => l + c = t)
  BY <1>1 DEF Offers, t, l, w
<1>4. h.got = Units(h.req.id, 0, l)
  BY DEF Answering, l
<1>5. Len(d.armed) = c
  BY SMTT(60), <1>2, <1>3, UnitsFacts
<1>6. g.got = Units(h.req.id, 0, l + c) /\ Len(g.got) = l + c
  <2> DEFINE k == l + c
  <2>1. k \in Nat /\ k = l + c
    BY <1>2
  <2> HIDE DEF k
  <2>2. Joined(h.req.id, 0, l, l, c, k) /\ Len(Units(h.req.id, 0, k)) = k
    BY <1>2, <2>1, UnitsGrow
  <2> QED BY <1>3, <1>4, <2>1, <2>2 DEF Joined, HasRead
<1>7. Sends(e)
  BY DEF Answering, Sends, PacketGone, SameIn, SameWork
<1>8. Reads(g, e)
  BY DEF HasRead, Answering, Reads, Awaits, SameAddress, SameConfig, PacketGone, SameWork, SameOut, SameState
<1>9. g.st = IF c < EpSize \/ l + c >= w THEN "status" ELSE "data"
  <2>1. Len(h.got \o d.armed) = l + c
    BY <1>6 DEF HasRead
  <2> QED BY <1>5, <2>1 DEF w, HasRead
<1>10. CASE c < EpSize \/ l + c >= w
  <2>0. l + c <= t /\ (c # EpSize => l + c = t)
    BY Zenon, <1>3
  <2>1. g.st = "status" /\ l + c = t
    BY <1>2, <1>9, <1>10, <2>0
  <2>2. g.got = Reply(g.req.id, g.req.r)
    BY <1>6, <2>1 DEF Reply, t, Total, HasRead
  <2>3. Answered(g, e)
    BY <1>8, <2>1, <2>2 DEF Answered
  <2> QED BY <1>7, <1>8, <2>3
<1>11. CASE ~(c < EpSize \/ l + c >= w)
  <2>1. g.st = "data" /\ c = EpSize /\ l + c < w /\ l + c <= t
    <3>1. l + c <= t
      BY Zenon, <1>3
    <3> QED BY <1>2, <1>9, <1>11, <3>1
  <2>2. e.armed = None /\ e.in = d.in
    BY DEF PacketGone, SameIn
  <2>3. e.in.zlp = (t < w) /\ e.in.pos = l + c /\ e.in.size = t - (l + c)
    BY Zenon, <1>3, <2>1, <2>2
  <2>4. Halfway(g, e)
    BY <1>6, <2>1, <2>2, <2>3 DEF Halfway, t, w, HasRead
  <2> QED BY <1>7, <1>8, <2>4
<1> QED BY <1>10, <1>11

\* What a step of the host leaves sound when the requests stay.
LEMMA StaysHealthy ==
    ASSUME NEW h, NEW d, NEW b, NEW r, Fits(h, d, b, r), NEW g \in Host, NEW e \in Device,
           g.req = h.req, SameWork(d, e)
    PROVE  Healthy(g, e) /\ Ids(e) = Ids(d)
<1>1. e.proc = d.proc /\ e.bug = d.bug /\ e.req = d.req
  BY DEF SameWork
<1>2. DataKept(e)
  BY <1>1, SameHistory DEF Fits
<1> QED BY <1>1, <1>2 DEF Healthy, Fits, Ids

\* The host takes a packet: of the answer, or the confirmation.
LEMMA HostInKeeps ==
    ASSUME IInv, HostIn
    PROVE  IInv'
<1>1. PICK b, r : q = b \o r /\ Fits(host, dev, b, r)
  BY Divided
<1>2. /\ host.st = (IF host.req.r.dir = "in" THEN "data" ELSE "status")
      /\ dev.armed # None /\ dev' = [dev EXCEPT !.armed = None] /\ q' = Append(q, "IN")
  BY DEF HostIn
<1>3. q = b /\ b \in Bases /\ Phase(b, host, dev, TRUE) /\ host \in Host /\ dev \in Device
  <2>1. host.st # "idle"
    BY <1>2
  <2>2. b \o r = b /\ b \in Bases /\ Phase(b, host, dev, TRUE)
    BY <1>1, <2>1, NoResetYet
  <2> QED BY <1>1, <2>2 DEF Fits
<1>4. PacketGone(dev, dev')
  BY <1>2, <1>3 DEF PacketGone, Device, SameWork, SameState, SameIn, SameOut
<1>5. b = <<>> /\ Rest(host, dev, TRUE) /\ (Answering(host, dev) \/ Ready(host, dev))
  <2>1. host.st # "idle" /\ host.st # "lost"
    BY <1>2
  <2>2. ~Starts(host, dev) /\ ~Refused(host, dev) /\ ~Writes(host, dev) /\ ~Halfway(host, dev)
    BY <1>2 DEF Starts, Refused, Silent, Writes, Halfway
  <2>3. ~Answered(host, dev)
    BY <1>2 DEF Answered, Reads
  <2>4. ~Starting(host, dev, TRUE) /\ ~ClosingStarting(host, dev, TRUE) /\ ~Receiving(host, dev, TRUE)
    BY <2>2 DEF Starting, ClosingStarting, Receiving
  <2>5. ~Closing(host, dev, TRUE) /\ ~SendingEnding(host, dev, TRUE) /\ ~Ending(host, dev, TRUE)
    BY <2>1 DEF Closing, SendingEnding, Ending
  <2>6. ~Sending(host, dev, TRUE)
    BY <2>2, <2>3 DEF Sending
  <2>7. b = <<>> /\ Rest(host, dev, TRUE)
    BY <1>3, <2>4, <2>5, <2>6 DEF Phase
  <2> QED BY <2>1, <2>2, <2>3, <2>7 DEF Rest, Asking
<1>6. q' = <<"IN">> /\ <<"IN">> \in Bases
  BY <1>2, <1>3, <1>5, OneMore DEF Bases, Event
<1>7. CASE Answering(host, dev)
  <2> DEFINE k == host.got \o dev.armed
             s == IF Len(dev.armed) < EpSize \/ Len(k) >= host.req.r.wLength THEN "status" ELSE "data"
  <2>1. host' = [host EXCEPT !.got = k, !.st = s]
    <3>1. host.st = "data" /\ host.st # "status"
      BY <1>7 DEF Answering
    <3> QED BY Zenon, <3>1 DEF HostIn
  <2>2. k \in Data /\ s \in {"status", "data"}
    <3>1. host.got \in Data /\ dev.armed \in Data
      BY <1>2, <1>3, SideFacts DEF Host
    <3> QED BY <3>1, ConcatProperties DEF Data
  <2> HIDE DEF k, s
  <2>3. /\ host' \in Host /\ host'.got = k /\ host'.st = s /\ host'.req = host.req
        /\ host'.done = host.done /\ host'.addr = host.addr /\ host'.config = host.config
    BY <1>3, <2>1, <2>2 DEF Host
  <2>4. HasRead(host, dev, host')
    BY <2>3 DEF HasRead, k, s
  <2>5. Sends(dev') /\ Reads(host', dev') /\ (Halfway(host', dev') \/ Answered(host', dev'))
    BY <1>3, <1>4, <1>7, <2>3, <2>4, PieceRead
  <2>6. Healthy(host', dev') /\ Ids(dev') = Ids(dev)
    BY <1>1, <1>4, <2>3, StaysHealthy DEF PacketGone
  <2>7. Even(host', dev')
    BY <1>5, <2>3, <2>6 DEF Rest, Even
  <2>8. Phase(<<"IN">>, host', dev', TRUE)
    BY <2>5, <2>7 DEF Phase, Sending
  <2> QED BY <1>6, <2>6, <2>8, LiveNext
<1>8. CASE Ready(host, dev)
  <2> DEFINE g == Ended(host)
  <2>1. host' = [g EXCEPT !.clean = TRUE]
    BY <1>8 DEF HostIn, Ready
  <2>2. HasEnded(host, g)
    BY <1>3, EndedIs
  <2> HIDE DEF g
  <2>3. /\ host' \in Host /\ host'.st = g.st /\ host'.req = g.req /\ host'.done = g.done
        /\ host'.addr = g.addr /\ host'.config = g.config
    BY <2>1, <2>2 DEF HasEnded, Host
  <2>4. HasEnded(host, host')
    BY <2>2, <2>3 DEF HasEnded
  <2>5. Healthy(host', dev') /\ Ids(dev') = Ids(dev)
    BY <1>1, <1>4, <2>4, StaysHealthy DEF PacketGone, HasEnded
  <2>6. host.req = dev.req /\ dev'.req = dev.req
    BY <1>4, <1>8 DEF Ready, PacketGone, SameWork
  <2>7. Owed(host', dev')
    BY <1>5, <2>4, <2>5, <2>6 DEF Rest, Even, Owed, HasEnded
  <2>8. Confirms(dev')
    BY <1>4, <1>8 DEF Ready, Confirms, PacketGone, SameWork, SameIn
  <2>9. WillAgree(host', dev')
    BY <1>4, <1>8, <2>4, <2>6
       DEF Ready, WillAgree, AskedAddress, SameAddress, SameConfig, HasEnded, PacketGone, SameState
  <2>10. Phase(<<"IN">>, host', dev', TRUE)
    BY <2>4, <2>7, <2>8, <2>9 DEF Phase, Closing, HasEnded
  <2> QED BY <1>6, <2>5, <2>10, LiveNext
<1> QED BY <1>5, <1>7, <1>8

\* The OUT endpoint has taken a packet, and is closed until the device opens it.
PacketIn(d, e) ==
    /\ e \in Device /\ e.armed = d.armed /\ ~e.outen /\ e.stall = d.stall
    /\ SameWork(d, e) /\ SameState(d, e) /\ SameIn(d, e) /\ SameOut(d, e)

\* The host sends a packet: of the data, or the status.
LEMMA HostOutKeeps ==
    ASSUME IInv, HostOut
    PROVE  IInv'
<1>1. PICK b, r : q = b \o r /\ Fits(host, dev, b, r)
  BY Divided
<1>2. /\ host.st = (IF host.req.r.dir = "out" THEN "data" ELSE "status")
      /\ dev.outen /\ q' = Append(q, "OUT")
  BY DEF HostOut
<1>3. q = b /\ b \in Bases /\ Phase(b, host, dev, TRUE) /\ host \in Host /\ dev \in Device
      /\ Legal(host.req.r)
  <2>1. host.st # "idle"
    BY <1>2
  <2>2. b \o r = b /\ b \in Bases /\ Phase(b, host, dev, TRUE)
    BY <1>1, <2>1, NoResetYet
  <2> QED BY <1>1, <2>2 DEF Fits
<1>4. \/ b = <<>> /\ Even(host, dev) /\ Answered(host, dev)
      \/ b = <<>> /\ Even(host, dev) /\ Asking(host, dev)
      \/ b = <<"IN">> /\ Even(host, dev) /\ Sends(dev) /\ Answered(host, dev)
  <2>1. host.st # "idle" /\ host.st # "lost"
    BY <1>2
  <2>2. ~Starts(host, dev) /\ ~Refused(host, dev) /\ ~Ready(host, dev)
    BY <1>2 DEF Starts, Refused, Silent, Ready
  <2>3. ~Answering(host, dev)
    BY <1>2 DEF Answering, Reads
  <2>4. ~Starting(host, dev, TRUE) /\ ~ClosingStarting(host, dev, TRUE)
    BY <2>2 DEF Starting, ClosingStarting
  <2>5. ~Closing(host, dev, TRUE) /\ ~SendingEnding(host, dev, TRUE) /\ ~Ending(host, dev, TRUE)
    BY <2>1 DEF Closing, SendingEnding, Ending
  <2>6. ~Receiving(host, dev, TRUE)
    BY <1>2 DEF Receiving
  <2>7. Sending(host, dev, TRUE) => Even(host, dev) /\ Sends(dev) /\ Answered(host, dev)
    BY <1>2 DEF Sending, Reads, Halfway
  <2>8. Rest(host, dev, TRUE) => Even(host, dev) /\ (Answered(host, dev) \/ Asking(host, dev))
    BY <2>1, <2>2, <2>3 DEF Rest
  <2> QED BY <1>3, <2>4, <2>5, <2>6, <2>7, <2>8 DEF Phase
<1>5. CASE Answered(host, dev) /\ Even(host, dev)
  <2>1. host' = Ended(host) /\ dev' = [dev EXCEPT !.outen = FALSE]
    BY <1>5 DEF HostOut, Answered
  <2>2. HasEnded(host, host')
    BY <1>3, <2>1, EndedIs
  <2>3. PacketIn(dev, dev') /\ dev'.rx = dev.rx
    BY <1>3, <2>1 DEF PacketIn, Device, SameWork, SameState, SameIn, SameOut
  <2>4. Healthy(host', dev') /\ Ids(dev') = Ids(dev)
    BY <1>1, <2>2, <2>3, StaysHealthy DEF PacketIn, HasEnded
  <2>5. host.req = dev.req /\ dev'.req = dev.req /\ host.req.r.act = "none"
    BY <1>3, <1>5, <2>3 DEF Answered, Reads, PacketIn, SameWork, Legal
  <2>6. Owed(host', dev')
    BY <1>5, <2>2, <2>4, <2>5 DEF Even, Owed, HasEnded
  <2>7. Awaits(dev')
    BY <1>5, <2>3 DEF Answered, Reads, Awaits, PacketIn, SameWork, SameOut
  <2>8. SameAddress(host', dev') /\ SameConfig(host', dev')
    BY <1>5, <2>2, <2>3, <2>5
       DEF Answered, Reads, SameAddress, SameConfig, HasEnded, PacketIn, SameState
  <2>9. CASE b = <<>>
    <3>1. q' = <<"OUT">> /\ <<"OUT">> \in Bases
      BY <1>2, <1>3, <2>9, OneMore DEF Bases, Event
    <3>2. Phase(<<"OUT">>, host', dev', TRUE)
      BY <2>2, <2>6, <2>7, <2>8 DEF Phase, Ending, HasEnded
    <3> QED BY <2>4, <3>1, <3>2, LiveNext
  <2>10. CASE b = <<"IN">> /\ Sends(dev)
    <3>1. q' = <<"IN", "OUT">> /\ <<"IN", "OUT">> \in Bases
      BY <1>2, <1>3, <2>10, OneMore DEF Bases, Event
    <3>2. Sends(dev')
      BY <2>3, <2>10 DEF Sends, PacketIn, SameIn, SameWork
    <3>3. Phase(<<"IN", "OUT">>, host', dev', TRUE)
      BY <2>2, <2>6, <2>7, <2>8, <3>2 DEF Phase, SendingEnding, HasEnded
    <3> QED BY <2>4, <3>1, <3>3, LiveNext
  <2> QED BY <1>4, <1>5, <2>9, <2>10 DEF Answered, Asking
<1>6. CASE b = <<>> /\ Asking(host, dev) /\ Even(host, dev)
  <2> DEFINE w == host.req.r.wLength
             n == Least(EpSize, w - host.sent)
             k == host.sent + n
             s == IF k = w THEN "status" ELSE "data"
             p == [what |-> "data", n |-> n, id |-> host.req.id, r |-> NoRequest]
  <2>1. host.st = "data" /\ host.req = dev.req
    BY <1>6 DEF Asking, Writes
  <2>2. host' = [host EXCEPT !.sent = k, !.st = s] /\ dev' = [dev EXCEPT !.outen = FALSE, !.rx = p]
    BY Zenon, <2>1 DEF HostOut
  <2>3. host.sent = Len(dev.store) /\ Len(dev.store) + dev.out.size = w
    BY <1>6, <2>1 DEF Asking, Takes
  <2>4. /\ host.sent \in Nat /\ w \in Nat /\ dev.out.size \in Nat /\ EpSize \in Nat
        /\ host.req.id \in Nat
    BY <1>3, UsbdAssumption DEF Host, Device, Ident, Request
  <2>5. w - host.sent = dev.out.size
    <3> HIDE DEF w
    <3> QED BY <2>3, <2>4
  <2>6. n = Least(EpSize, dev.out.size) /\ n \in Nat
    BY <2>4, <2>5, LeastFacts
  <2> HIDE DEF n
  <2>7. k \in Nat
    BY <2>4, <2>6
  <2>8. p \in [what : {"empty", "setup", "data"}, n : Nat, id : Nat, r : Request]
    <3>1. NoRequest \in Request
      BY DEF NoRequest, Request, Acts
    <3> QED BY <2>4, <2>6, <3>1
  <2>9. s \in {"status", "data"}
    OBVIOUS
  <2> HIDE DEF k, s, p, w
  <2>10. /\ host' \in Host /\ host'.sent = k /\ host'.st = s /\ host'.req = host.req
         /\ host'.done = host.done /\ host'.addr = host.addr /\ host'.config = host.config
    BY <1>3, <2>2, <2>7, <2>9 DEF Host
  <2>11. PacketIn(dev, dev') /\ dev'.rx = p
    BY <1>3, <2>2, <2>8 DEF PacketIn, Device, SameWork, SameState, SameIn, SameOut
  <2>12. Healthy(host', dev') /\ Ids(dev') = Ids(dev)
    BY <1>1, <2>10, <2>11, StaysHealthy DEF PacketIn
  <2>13. Even(host', dev')
    BY <1>6, <2>10, <2>12 DEF Even
  <2>14. Takes(dev') /\ dev'.out = dev.out /\ dev'.store = dev.store /\ dev'.req = dev.req
    BY <1>6, <2>11 DEF Asking, Takes, PacketIn, SameWork, SameOut
  <2>15. Taken(host', dev') /\ dev'.rx.n = n
    BY <2>1, <2>6, <2>11, <2>14 DEF Taken, p
  <2>16. Writes(host', dev')
    BY <1>6, <2>10, <2>11, <2>14
       DEF Asking, Writes, SameAddress, SameConfig, PacketIn, SameState
  <2>17. host'.sent = Len(dev'.store) + dev'.rx.n
    BY <2>3, <2>10, <2>14, <2>15 DEF k
  <2>18. host'.st = IF host'.sent = host'.req.r.wLength THEN "status" ELSE "data"
    BY <2>10 DEF s, w
  <2>19. Receiving(host', dev', TRUE)
    BY <2>11, <2>13, <2>14, <2>15, <2>16, <2>17, <2>18 DEF Receiving, PacketIn
  <2>20. q' = <<"OUT">> /\ <<"OUT">> \in Bases
    BY <1>2, <1>3, <1>6, OneMore DEF Bases, Event
  <2>21. Phase(<<"OUT">>, host', dev', TRUE)
    BY <2>19 DEF Phase
  <2> QED BY <2>12, <2>20, <2>21, LiveNext
<1> QED BY <1>4, <1>5, <1>6

\* A request has failed at the host.
Gives(h, g) ==
    /\ g \in Host /\ g.req = h.req /\ g.done = h.done /\ g.addr = h.addr
    /\ g.st = (IF h.req.r.act = "address" THEN "lost" ELSE "idle")

\* Only a refused request is stalled.
LEMMA HostStalledKeeps ==
    ASSUME IInv, HostStalled
    PROVE  IInv'
<1>1. PICK b, r : q = b \o r /\ Fits(host, dev, b, r)
  BY Divided
<1>2. /\ host.st \in {"data", "status"} /\ dev.stall /\ host' = [host EXCEPT !.st = Failed]
      /\ dev' = dev /\ q' = q
  BY DEF HostStalled
<1>3. q = b /\ b \in Bases /\ Phase(b, host, dev, TRUE) /\ host \in Host /\ dev \in Device
  <2>1. host.st # "idle"
    BY <1>2
  <2>2. b \o r = b /\ b \in Bases /\ Phase(b, host, dev, TRUE)
    BY <1>1, <2>1, NoResetYet
  <2> QED BY <1>1, <2>2 DEF Fits
<1>4. b = <<>> /\ Even(host, dev) /\ Refused(host, dev)
  <2>1. host.st # "idle" /\ host.st # "lost"
    BY <1>2
  <2>2. ~Starts(host, dev) /\ ~Ready(host, dev) /\ ~Reads(host, dev) /\ ~Writes(host, dev)
    BY <1>2 DEF Starts, Ready, Reads, Writes
  <2>3. ~Starting(host, dev, TRUE) /\ ~ClosingStarting(host, dev, TRUE)
        /\ ~Sending(host, dev, TRUE) /\ ~Receiving(host, dev, TRUE)
    BY <2>2 DEF Starting, ClosingStarting, Sending, Receiving
  <2>4. ~Closing(host, dev, TRUE) /\ ~SendingEnding(host, dev, TRUE) /\ ~Ending(host, dev, TRUE)
    BY <2>1 DEF Closing, SendingEnding, Ending
  <2>5. b = <<>> /\ Rest(host, dev, TRUE)
    BY <1>3, <2>3, <2>4 DEF Phase
  <2> QED BY <2>1, <2>2, <2>5 DEF Rest, Answering, Answered, Asking
<1>5. Gives(host, host') /\ host'.config = host.config
  BY <1>2, <1>3 DEF Gives, Failed, Host
<1>6. Healthy(host', dev')
  BY <1>1, <1>2, <1>5 DEF Healthy, Fits, Gives
<1>7. Even(host', dev')
  BY <1>2, <1>4, <1>5 DEF Even, Gives
<1>8. host'.st = "lost" \/ (host'.st = "idle" /\ SameAddress(host', dev') /\ SameConfig(host', dev'))
  BY <1>2, <1>4, <1>5 DEF Refused, Gives, AskedAddress, SameAddress, SameConfig
<1>9. Phase(<<>>, host', dev', TRUE) /\ <<>> \in Bases
  BY <1>7, <1>8 DEF Phase, Rest, Bases
<1> QED BY <1>2, <1>3, <1>4, <1>6, <1>9, LiveNext

\* A request given up between two packets leaves the device at rest.
LEMMA HostAbortKeeps ==
    ASSUME Patient = TRUE, IInv, HostAbort
    PROVE  IInv'
<1>1. PICK b, r : q = b \o r /\ Fits(host, dev, b, r)
  BY Divided
<1> DEFINE c == IF host.req.r.act = "config" THEN Unknown ELSE host.config
<1>2. /\ host.st \in {"data", "status"} /\ q = <<>> /\ dev' = dev /\ q' = q
      /\ host' = [host EXCEPT !.faults = @ + 1, !.st = Failed, !.config = c]
  BY DEF HostAbort
<1>3. b = <<>> /\ Phase(b, host, dev, TRUE) /\ host \in Host /\ dev \in Device
  <2>1. host.st # "idle"
    BY <1>2
  <2>2. b \o r = b /\ b \in Bases /\ Phase(b, host, dev, TRUE)
    BY <1>1, <2>1, NoResetYet
  <2> QED BY <1>1, <1>2, <2>2 DEF Fits
<1>4. c \in Nat \cup {Unknown, Unset}
  BY <1>3 DEF Host
<1> HIDE DEF c
<1>5. Gives(host, host') /\ host'.config = c
  <2> DEFINE g1 == [host EXCEPT !.faults = host.faults + 1]
             g2 == [g1 EXCEPT !.st = Failed]
  <2>1. host' = [g2 EXCEPT !.config = c]
    BY Zenon, <1>2
  <2>2. Failed \in {"lost", "idle"} /\ host.faults + 1 \in Nat
    BY <1>3 DEF Failed, Host
  <2>3. g1 \in Host /\ g1.req = host.req /\ g1.done = host.done /\ g1.addr = host.addr
    BY <1>3, <2>2 DEF Host
  <2> HIDE DEF g1
  <2>4. /\ g2 \in Host /\ g2.req = host.req /\ g2.done = host.done /\ g2.addr = host.addr
        /\ g2.st = Failed
    BY <2>2, <2>3 DEF Host
  <2> HIDE DEF g2
  <2>5. /\ host' \in Host /\ host'.req = host.req /\ host'.done = host.done
        /\ host'.addr = host.addr /\ host'.st = Failed /\ host'.config = c
    BY <1>4, <2>1, <2>4 DEF Host
  <2> QED BY <2>5 DEF Gives, Failed
<1>6. Healthy(host', dev')
  BY <1>1, <1>2, <1>5 DEF Healthy, Fits, Gives
<1>7. Rest(host, dev, TRUE)
  BY <1>3 DEF Phase
<1>8. Even(host', dev')
  BY <1>2, <1>5, <1>7 DEF Even, Rest, Gives
<1>9. AskedAddress(host, dev) /\ (host.req.r.act # "config" => SameConfig(host, dev))
  <2>1. host.st # "idle" /\ host.st # "lost"
    BY <1>2
  <2>2. Refused(host, dev) \/ Reads(host, dev) \/ Writes(host, dev) \/ Ready(host, dev)
    BY <1>7, <2>1 DEF Rest, Answering, Answered, Asking
  <2> QED BY <2>2 DEF Refused, Reads, Writes, Ready, AskedAddress
<1>10. SameConfig(host', dev')
  <2>1. CASE host.req.r.act = "config"
    <3>1. c \notin Nat /\ c # Unset
      BY <2>1 DEF c, Unknown, Unset
    <3> QED BY <1>5, <3>1 DEF SameConfig
  <2>2. CASE host.req.r.act # "config"
    BY <1>2, <1>5, <1>9, <2>2 DEF SameConfig, c
  <2> QED BY <2>1, <2>2
<1>11. host'.st = "lost" \/ (host'.st = "idle" /\ SameAddress(host', dev'))
  BY <1>2, <1>5, <1>9 DEF Gives, AskedAddress, SameAddress
<1>12. Phase(<<>>, host', dev', TRUE) /\ <<>> \in Bases
  BY <1>8, <1>10, <1>11 DEF Phase, Rest, Bases
<1> QED BY <1>2, <1>6, <1>12, LiveNext

\* A reset drops what the host knew; the device keeps what it has to do before.
LEMMA ResetKeepsPhase ==
    ASSUME NEW h, NEW d, NEW g, NEW e, NEW b, NEW live, Phase(b, h, d, live),
           g.req = h.req, g.done = h.done, e.rx = d.rx, SameWork(d, e), SameIn(d, e), SameOut(d, e)
    PROVE  Phase(b, g, e, FALSE)
<1>1. (Even(h, d) => Even(g, e)) /\ (Owed(h, d) => Owed(g, e))
  BY DEF Even, Owed, Ids, SameWork
<1>2. (Confirms(d) => Confirms(e)) /\ (Sends(d) => Sends(e)) /\ (Awaits(d) => Awaits(e))
      /\ (Takes(d) => Takes(e)) /\ (Taken(h, d) => Taken(g, e))
  BY DEF Confirms, Sends, Awaits, Takes, Taken, SameWork, SameIn, SameOut
<1>3. /\ Rest(h, d, live) => Rest(g, e, FALSE)
      /\ Starting(h, d, live) => Starting(g, e, FALSE)
      /\ Closing(h, d, live) => Closing(g, e, FALSE)
      /\ ClosingStarting(h, d, live) => ClosingStarting(g, e, FALSE)
  BY <1>1, <1>2 DEF Rest, Starting, Closing, ClosingStarting
<1>4. /\ Sending(h, d, live) => Sending(g, e, FALSE)
      /\ SendingEnding(h, d, live) => SendingEnding(g, e, FALSE)
      /\ Ending(h, d, live) => Ending(g, e, FALSE)
      /\ Receiving(h, d, live) => Receiving(g, e, FALSE)
  BY <1>1, <1>2 DEF Sending, SendingEnding, Ending, Receiving
<1> QED BY <1>3, <1>4 DEF Phase

\* A bus reset joins the queue.
LEMMA HostResetKeeps ==
    ASSUME IInv, HostReset
    PROVE  IInv'
<1>1. PICK b, r : q = b \o r /\ Fits(host, dev, b, r)
  BY Divided
<1> DEFINE f == IF host.st = "lost" THEN host.faults ELSE host.faults + 1
           s == Append(r, "RESET")
           g1 == [host EXCEPT !.st = "idle", !.addr = 0]
           e1 == [dev EXCEPT !.armed = None, !.outen = FALSE]
<1>2. /\ host' = [g1 EXCEPT !.config = Unset, !.clean = FALSE, !.faults = f]
      /\ dev' = [e1 EXCEPT !.stall = FALSE] /\ q' = Append(q, "RESET")
  BY Zenon DEF HostReset
<1>3. host \in Host /\ dev \in Device /\ b \in Bases /\ r \in Resets /\ Phase(b, host, dev, r = <<>>)
  BY <1>1 DEF Fits
<1>4. q' = b \o s /\ s \in Resets /\ s # <<>>
  BY <1>1, <1>2, <1>3, QueueAppends
<1>5. f \in Nat
  BY <1>3 DEF Host
<1> HIDE DEF f, s
<1>6. g1 \in Host /\ g1.st = "idle" /\ g1.addr = 0 /\ g1.req = host.req /\ g1.done = host.done
  BY <1>3 DEF Host
<1> HIDE DEF g1
<1>7. /\ host' \in Host /\ host'.st = "idle" /\ host'.addr = 0 /\ host'.config = Unset
      /\ host'.req = host.req /\ host'.done = host.done
  BY <1>2, <1>5, <1>6 DEF Host
<1>8. /\ e1 \in Device /\ e1.rx = dev.rx /\ SameWork(dev, e1) /\ SameIn(dev, e1) /\ SameOut(dev, e1)
  BY <1>3 DEF Device, SameWork, SameIn, SameOut
<1> HIDE DEF e1
<1>9. /\ dev' \in Device /\ dev'.rx = e1.rx /\ SameWork(e1, dev') /\ SameIn(e1, dev')
      /\ SameOut(e1, dev')
  BY <1>2, <1>8 DEF Device, SameWork, SameIn, SameOut
<1>10. dev'.rx = dev.rx /\ SameWork(dev, dev') /\ SameIn(dev, dev') /\ SameOut(dev, dev')
  BY <1>8, <1>9 DEF SameWork, SameIn, SameOut
<1>11. Healthy(host', dev')
  BY <1>1, <1>7, <1>9, <1>10, StaysHealthy
<1>12. Phase(b, host', dev', FALSE)
  BY <1>3, <1>7, <1>10, ResetKeepsPhase
<1>13. (s = <<>>) = FALSE /\ Forgotten(host')
  BY <1>4, <1>7 DEF Forgotten
<1>14. Fits(host', dev', b, s)
  BY <1>3, <1>4, <1>11, <1>12, <1>13 DEF Fits, Healthy
<1> QED BY <1>4, <1>14, DividedNext

-----------------------------------------------------------------------------
(* The invariant holds.                                                    *)

\* The first state.
LEMMA InitHolds ==
    ASSUME Init
    PROVE  IInv
<1> DEFINE m == [id |-> 0, r |-> NoRequest]
<1>1. NoRequest \in Request /\ Legal(NoRequest) /\ m \in Ident /\ m.r = NoRequest
  <2>1. NoRequest \in Request /\ Legal(NoRequest)
    BY DEF NoRequest, Request, Acts, Legal
  <2> QED BY <2>1 DEF Ident
<1>2. /\ host = [st |-> "idle", req |-> m, got |-> <<>>, sent |-> 0, done |-> <<>>, addr |-> 0,
                 config |-> Unset, faults |-> 0, clean |-> FALSE]
      /\ q = <<>>
  BY DEF Init
<1>3. /\ dev = [req |-> m, rx |-> Empty, armed |-> None, outen |-> FALSE,
                stall |-> FALSE, address |-> 0, configured |-> FALSE, configuration |-> 0,
                in |-> [on |-> FALSE, size |-> 0, pos |-> 0, zlp |-> FALSE, fin |-> "none"],
                out |-> [on |-> FALSE, size |-> 0, fin |-> "none"], inh |-> TRUE, outh |-> TRUE,
                store |-> <<>>, proc |-> <<>>, bug |-> "none"]
  BY DEF Init
<1> HIDE DEF m
<1>4. /\ host \in Host /\ host.st = "idle" /\ host.req = m /\ host.done = <<>> /\ host.addr = 0
      /\ host.config = Unset
  <2>1. <<>> \in Data /\ <<>> \in Seq(Nat)
    BY DEF Data
  <2> QED BY <1>1, <1>2, <2>1 DEF Host
<1>5. /\ dev \in Device /\ dev.req = m /\ dev.address = 0 /\ ~dev.configured /\ dev.proc = <<>>
      /\ dev.bug = "none"
  <2>1. <<>> \in Data /\ <<>> \in Seq([req : Ident, data : Data])
    BY DEF Data
  <2>2. /\ [on |-> FALSE, size |-> 0, pos |-> 0, zlp |-> FALSE, fin |-> "none"] \in InRec
        /\ [on |-> FALSE, size |-> 0, fin |-> "none"] \in OutRec
    BY DEF InRec, OutRec
  <2> QED BY <1>1, <1>3, <2>1, <2>2, NothingThere DEF Device, InRec, OutRec
<1>6. Len(dev.proc) = 0 /\ \A i \in 1..Len(dev.proc) : FALSE
  BY <1>5
<1>7. DataKept(dev)
  BY <1>6 DEF DataKept
<1>8. Even(host, dev)
  <2>1. Ids(dev) \in Seq(Nat) /\ Len(Ids(dev)) = 0
    <3>1. [i \in 1..0 |-> dev.proc[i].req.id] \in Seq(Nat)
      BY SeqDef
    <3> QED BY <1>6, <3>1, LenProperties DEF Ids
  <2>2. Ids(dev) = <<>>
    BY <2>1, EmptySeq
  <2> QED BY <1>4, <2>2 DEF Even
<1>9. SameAddress(host, dev) /\ SameConfig(host, dev)
  BY <1>4, <1>5 DEF SameAddress, SameConfig, Unset
<1>10. Phase(<<>>, host, dev, TRUE)
  BY <1>4, <1>8, <1>9 DEF Phase, Rest
<1>11. (<<>> = <<>>) = TRUE /\ <<>> \in Bases /\ <<>> \in Resets /\ q = <<>> \o <<>>
  BY <1>2, OneMore DEF Bases, Resets, Event
<1>12. \E b \in Bases, r \in Resets : /\ q = b \o r
                                      /\ Phase(b, host, dev, r = <<>>)
                                      /\ r # <<>> => Forgotten(host)
  BY <1>10, <1>11
<1> QED BY <1>1, <1>4, <1>5, <1>7, <1>12 DEF IInv, TypeOK

\* Every step.
LEMMA NextKeeps ==
    ASSUME Patient = TRUE, Fitting, IInv, [Next]_vars
    PROVE  IInv'
<1>1. CASE Handle
  BY <1>1, HandleKeeps
<1>2. CASE \E r \in Requests : HostSetup(r)
  BY <1>2, HostSetupKeeps
<1>3. CASE HostIn
  BY <1>3, HostInKeeps
<1>4. CASE HostOut
  BY <1>4, HostOutKeeps
<1>5. CASE HostStalled
  BY <1>5, HostStalledKeeps
<1>6. CASE HostAbort
  BY <1>6, HostAbortKeeps
<1>7. CASE HostReset
  BY <1>7, HostResetKeeps
<1>8. CASE UNCHANGED vars
  <2>1. host' = host /\ dev' = dev /\ q' = q
    BY <1>8 DEF vars
  <2>2. PICK b, r : q = b \o r /\ Fits(host, dev, b, r)
    BY Divided
  <2>3. q' = b \o r /\ Fits(host', dev', b, r)
    BY <2>1, <2>2
  <2> QED BY <2>3, DividedNext
<1> QED BY <1>1, <1>2, <1>3, <1>4, <1>5, <1>6, <1>7, <1>8 DEF Next, Transfer

\* The invariant of every state.
LEMMA IInvHolds ==
    ASSUME Patient = TRUE, Fitting
    PROVE  Spec => []IInv
<1>1. Init => IInv
  BY InitHolds
<1>2. IInv /\ [Next]_vars => IInv'
  BY NextKeeps
<1> QED BY <1>1, <1>2, PTL DEF Spec

-----------------------------------------------------------------------------
(* What the invariant says of the properties.                              *)

\* The history holds numbers of requests.
LEMMA IdsFacts ==
    ASSUME NEW d \in Device
    PROVE  Ids(d) \in Seq(Nat) /\ d.req.id \in Nat
<1>1. d.proc \in Seq([req : Ident, data : Data]) /\ Len(d.proc) \in Nat /\ d.req \in Ident
  BY LenProperties DEF Device
<1>2. \A i \in 1..Len(d.proc) : d.proc[i].req.id \in Nat
  <2> TAKE i \in 1..Len(d.proc)
  <2>1. d.proc[i] \in [req : Ident, data : Data]
    BY <1>1, ElementOfSeq
  <2> QED BY <2>1 DEF Ident
<1>3. [i \in 1..Len(d.proc) |-> d.proc[i].req.id] \in Seq(Nat)
  BY <1>1, <1>2, SeqDef
<1> QED BY <1>1, <1>3 DEF Ids, Ident

\* The history is what the host has seen end, or lacks the last.
LEMMA ProcessedNow ==
    ASSUME IInv
    PROVE  ProcessedAsEnded
<1>1. PICK b, r : q = b \o r /\ Fits(host, dev, b, r)
  BY Divided
<1>2. b \in Bases /\ r \in Resets /\ Phase(b, host, dev, r = <<>>) /\ dev \in Device
  BY <1>1 DEF Fits
<1>3. Even(host, dev) \/ Owed(host, dev)
  BY <1>2 DEF Phase, Rest, Starting, Closing, ClosingStarting, Sending, SendingEnding, Ending,
              Receiving
<1> DEFINE s == Ids(dev)
<1>4. s \in Seq(Nat) /\ dev.req.id \in Nat /\ Len(s) \in Nat
  BY <1>2, IdsFacts, LenProperties
<1> HIDE DEF s
<1>5. IsPrefix(s, host.done)
  <2>1. CASE Even(host, dev)
    <3>1. IsPrefix(s, s)
      BY <1>4, PrefixByElements
    <3> QED BY <2>1, <3>1 DEF Even, s
  <2>2. CASE Owed(host, dev)
    <3> DEFINE t == Append(s, dev.req.id)
    <3>1. t \in Seq(Nat) /\ Len(t) = Len(s) + 1
      BY <1>4, AppendProperties
    <3>2. \A i \in 1..Len(s) : t[i] = s[i]
      BY <1>4, AppendProperties
    <3> HIDE DEF t
    <3>3. Len(s) <= Len(t) /\ \A i \in 1..Len(s) : s[i] = t[i]
      BY <1>4, <3>1, <3>2
    <3>4. IsPrefix(s, t)
      BY <1>4, <3>1, <3>3, PrefixByElements
    <3> QED BY <2>2, <3>4 DEF Owed, s, t
  <2> QED BY <1>3, <2>1, <2>2
<1>6. q = <<>> => s = host.done
  <2> SUFFICES ASSUME q = <<>> PROVE s = host.done
    OBVIOUS
  <2>1. b = <<>>
    BY <1>1, <1>2, QueueIsShort
  <2>2. Even(host, dev)
    BY <1>2, <2>1 DEF Phase, Rest
  <2> QED BY <2>2 DEF Even, s
<1>7. DataKept(dev)
  BY DEF IInv
<1> QED BY <1>5, <1>6, <1>7 DEF ProcessedAsEnded, DataKept, s, Ids

\* At rest host and device agree.
LEMMA AgreedNow ==
    ASSUME IInv
    PROVE  Agreed
<1> SUFFICES ASSUME q = <<>>, host.st = "idle"
             PROVE  SameAddress(host, dev) /\ SameConfig(host, dev)
  BY DEF Agreed, SameAddress, SameConfig
<1>1. PICK b, r : q = b \o r /\ Fits(host, dev, b, r)
  BY Divided
<1>2. r = <<>> /\ b = <<>>
  BY <1>1, QueueIsShort DEF Fits
<1>3. Phase(<<>>, host, dev, TRUE)
  BY <1>1, <1>2, NoResetYet
<1> QED BY <1>3 DEF Phase, Rest, Refused, Fresh, Answering, Answered, Asking, Ready

\* What the host reads is its answer.
LEMMA AnswerNow ==
    ASSUME IInv
    PROVE  AnswerExact
<1>1. PICK b, r : q = b \o r /\ Fits(host, dev, b, r)
  BY Divided
<1>2. host \in Host /\ dev \in Device /\ Legal(host.req.r)
  BY <1>1 DEF Fits
<1>3. ASSUME host.st = "data" \/ host.st = "status" PROVE Phase(b, host, dev, TRUE)
  <2>1. host.st # "idle"
    BY <1>3
  <2> QED BY <1>1, <2>1, NoResetYet
<1>4. ASSUME host.st = "data", host.req.r.dir = "in", dev.armed # None
      PROVE  IsPrefix(host.got \o dev.armed, Reply(host.req.id, host.req.r))
  <2>1. Phase(b, host, dev, TRUE)
    BY <1>3, <1>4
  <2>2. ~Starts(host, dev) /\ ~Refused(host, dev) /\ ~Writes(host, dev) /\ ~Halfway(host, dev)
    BY <1>4 DEF Starts, Refused, Silent, Writes, Halfway
  <2>3. ~Answered(host, dev) /\ ~Ready(host, dev)
    BY <1>4 DEF Answered, Ready
  <2>4. ~Starting(host, dev, TRUE) /\ ~ClosingStarting(host, dev, TRUE) /\ ~Receiving(host, dev, TRUE)
        /\ ~Sending(host, dev, TRUE)
    BY <2>2, <2>3 DEF Starting, ClosingStarting, Receiving, Sending
  <2>5. ~Closing(host, dev, TRUE) /\ ~SendingEnding(host, dev, TRUE) /\ ~Ending(host, dev, TRUE)
    BY <1>4 DEF Closing, SendingEnding, Ending
  <2>6. Rest(host, dev, TRUE)
    BY <2>1, <2>4, <2>5 DEF Phase
  <2>7. Answering(host, dev)
    BY <1>4, <2>2, <2>3, <2>6 DEF Rest, Asking
  <2>8. PICK c \in 0..EpSize : Offers(host, dev, c)
    BY <2>7 DEF Answering
  <2> DEFINE l == Len(host.got)
             t == Total(host.req.r)
             k == l + c
  <2>9. l \in Nat /\ t \in Nat /\ c \in Nat /\ host.req.id \in Nat
    <3>1. host.req.r.size \in Nat /\ host.req.r.wLength \in Nat /\ host.got \in Data
          /\ host.req.id \in Nat
      BY <1>2 DEF Host, Ident, Request
    <3>2. EpSize \in Nat
      BY UsbdAssumption
    <3>3. l \in Nat
      BY <3>1, LenProperties DEF Data
    <3>4. t \in Nat
      BY <3>1, LeastFacts DEF Total
    <3> QED BY <3>1, <3>2, <3>3, <3>4
  <2>10. dev.armed = Units(host.req.id, l, c) /\ k <= t /\ host.got = Units(host.req.id, 0, l)
    BY <2>7, <2>8 DEF Answering, Offers
  <2>11. k \in Nat /\ k = l + c
    BY <2>9
  <2> HIDE DEF l, t, k
  <2>12. Joined(host.req.id, 0, l, l, c, k)
    BY <2>9, <2>11, UnitsGrow
  <2>13. IsPrefix(Units(host.req.id, 0, k), Units(host.req.id, 0, t))
    BY <2>9, <2>10, <2>11, UnitsPrefix
  <2>14. host.got \o dev.armed = Units(host.req.id, 0, k)
    BY <2>10, <2>12 DEF Joined
  <2> QED BY <2>13, <2>14 DEF Reply, t, Total
<1>5. ASSUME host.st = "status", host.req.r.dir = "in"
      PROVE  host.got = Reply(host.req.id, host.req.r)
  <2>1. Phase(b, host, dev, TRUE)
    BY <1>3, <1>5
  <2>2. ~Fresh(host)
    BY <1>2, <1>5 DEF Fresh, Legal
  <2>3. ~Ready(host, dev) /\ ~Receiving(host, dev, TRUE)
    BY <1>5 DEF Ready, Confirms, Receiving, Writes, Takes
  <2>4. ~Starting(host, dev, TRUE) /\ ~ClosingStarting(host, dev, TRUE) /\ ~Refused(host, dev)
    BY <2>2 DEF Starting, ClosingStarting, Starts, Refused
  <2>5. ~Closing(host, dev, TRUE) /\ ~SendingEnding(host, dev, TRUE) /\ ~Ending(host, dev, TRUE)
        /\ ~Answering(host, dev) /\ ~Asking(host, dev) /\ ~Halfway(host, dev)
    BY <1>5 DEF Closing, SendingEnding, Ending, Answering, Asking, Halfway
  <2>6. Rest(host, dev, TRUE) \/ Sending(host, dev, TRUE)
    BY <2>1, <2>3, <2>4, <2>5 DEF Phase
  <2>7. Answered(host, dev)
    BY <1>5, <2>3, <2>4, <2>5, <2>6 DEF Rest, Sending
  <2> QED BY <2>7 DEF Answered
<1>6. ASSUME host.st = "status", host.req.r.dir = "out"
      PROVE  dev.armed \in {None, <<>>}
  <2>1. Phase(b, host, dev, TRUE)
    BY <1>3, <1>6
  <2>2. ~Reads(host, dev)
    BY <1>6 DEF Reads
  <2>3. ~Closing(host, dev, TRUE) /\ ~SendingEnding(host, dev, TRUE) /\ ~Ending(host, dev, TRUE)
    BY <1>6 DEF Closing, SendingEnding, Ending
  <2>4. ~Sending(host, dev, TRUE) /\ ~Answering(host, dev) /\ ~Answered(host, dev)
    BY <2>2 DEF Sending, Answering, Answered
  <2>5. Rest(host, dev, TRUE) => Refused(host, dev) \/ Ready(host, dev) \/ Writes(host, dev)
    BY <1>6, <2>4 DEF Rest, Asking
  <2>6. \/ Rest(host, dev, TRUE) \/ Starts(host, dev) \/ Writes(host, dev)
    BY <2>1, <2>3, <2>4 DEF Phase, Starting, ClosingStarting, Receiving
  <2> QED BY <2>5, <2>6 DEF Refused, Ready, Writes, Starts, Silent
<1> QED BY <1>4, <1>5, <1>6 DEF AnswerExact

-----------------------------------------------------------------------------
(* vsfusbd.c:811 and 1035: on_OUT never meets a packet larger than its     *)
(* transfer, and no event reaches a handler that has no transfer, with any *)
(* requests, requests given up and bus resets.                             *)
THEOREM HandlersAreSafe ==
    ASSUME Patient = TRUE, Fitting
    PROVE  Spec => []HandlersSafe
<1>1. IInv => HandlersSafe
  BY DEF IInv, HandlersSafe
<1> QED BY <1>1, IInvHolds, PTL

(* vsfusbd.c:847: every request that has ended at the host takes effect in *)
(* the device, once, in that order and with all the data sent with it; one *)
(* that the host has given up or seen refused does not.                    *)
THEOREM EffectsAreExact ==
    ASSUME Patient = TRUE, Fitting
    PROVE  Spec => []ProcessedAsEnded
BY IInvHolds, ProcessedNow, PTL

(* vsfusbd.c:752 and 1094: the packets of an answer, cut into packets of   *)
(* any size, with or without the empty packet at their end, are the whole  *)
(* answer to the request of the host and nothing else.                     *)
THEOREM AnswersAreExact ==
    ASSUME Patient = TRUE, Fitting
    PROVE  Spec => []AnswerExact
BY IInvHolds, AnswerNow, PTL

(* The address and the configuration the host has set, or taken away with  *)
(* a bus reset, are the ones of the device whenever nothing is under way.  *)
THEOREM DeviceAndHostAgree ==
    ASSUME Patient = TRUE, Fitting
    PROVE  Spec => []Agreed
BY IInvHolds, AgreedNow, PTL
=============================================================================
