----------------------------- MODULE FifoProofs -----------------------------
(***************************************************************************)
(* Proofs about the fifo stream of module FifoStream, for every buffer     *)
(* size, every length of the calls, every use and every build: with one    *)
(* end in a thread and one in an interrupt it implements the queue of      *)
(* FifoAbs until one has used an index that the other was changing (torn). *)
(*                                                                         *)
(* The argument: bytes are found by their place after tail.  Each end      *)
(* moves one index only, so what the thread has computed from the indices  *)
(* it loaded stays on the safe side: the interrupt only adds data for a    *)
(* thread that reads, and only makes room for a thread that writes.  What  *)
(* the interrupt sees of a head at the end of the buffer is right as long  *)
(* as tail has not been wrapped.                                           *)
(***************************************************************************)
EXTENDS FifoStream, SequenceTheorems, TLAPS

-----------------------------------------------------------------------------
(* Ring arithmetic.  An index may stand at the end of the buffer, where it   *)
(* is about to be wrapped.                                                   *)
Index == 0 .. Size
InRing == 0 .. Size - 1

\* The bytes from t up to h.
Between(h, t) == IF h >= t THEN h - t ELSE Size - (t - h)

LEMMA RemainderIsSmall ==
    ASSUME NEW x \in Nat, x < Modulus
    PROVE  x % Modulus = x
BY ModulusAssumption

\* get_data_length, from indices that belong together.
LEMMA LengthIsBetween ==
    ASSUME NEW r, r.head \in InRing, r.tail \in Index
    PROVE  /\ DataLengthAs(r.head >= r.tail, r) = Between(r.head, r.tail)
           /\ DataLength(r) = Between(r.head, r.tail)
           /\ Between(r.head, r.tail) \in InRing
<1>1. Between(r.head, r.tail) \in InRing /\ Between(r.head, r.tail) < Modulus
  BY SizeAssumption, ModulusAssumption DEF Between, InRing, Index
<1>2. Between(r.head, r.tail) % Modulus = Between(r.head, r.tail)
  BY <1>1, RemainderIsSmall, SizeAssumption DEF InRing
<1> QED BY <1>1, <1>2 DEF DataLengthAs, DataLength, Between

\* get_avail_length: one byte less than is free.
LEMMA AvailIsRest ==
    ASSUME NEW len \in InRing
    PROVE  AvailLength(len) = Size - 1 - len
<1>1. Size - len \in Nat /\ Size - len > 0 /\ Size - len < Modulus
  BY SizeAssumption, ModulusAssumption DEF InRing
<1>2. (Size - len) % Modulus = Size - len
  BY <1>1, RemainderIsSmall
<1> QED BY <1>1, <1>2, SizeAssumption DEF AvailLength, InRing

LEMMA SlotInRing ==
    ASSUME NEW p \in Index, NEW i \in 1 .. Size
    PROVE  Slot(p, i) \in InRing
BY SizeAssumption DEF Slot, Index, InRing

LEMMA SlotInjective ==
    ASSUME NEW p \in Index, NEW i \in 1 .. Size, NEW j \in 1 .. Size, Slot(p, i) = Slot(p, j)
    PROVE  i = j
BY SizeAssumption DEF Slot, Index

\* What comes after head comes after the data.
LEMMA SlotAfterData ==
    ASSUME NEW h \in InRing, NEW t \in Index, NEW i \in 1 .. Size - Between(h, t)
    PROVE  Slot(h, i) = Slot(t, Between(h, t) + i)
BY SizeAssumption DEF Slot, Index, InRing, Between

\* Moving head makes the data longer.
LEMMA HeadMoves ==
    ASSUME NEW h \in InRing, NEW t \in Index, NEW n \in 1 .. Size - 1 - Between(h, t)
    PROVE  /\ Wrapped(Moved(h, n)) \in InRing
           /\ Between(Wrapped(Moved(h, n)), t) = Between(h, t) + n
BY SizeAssumption DEF Moved, Wrapped, Index, InRing, Between

\* Moving tail makes it shorter, wrapped or not.
LEMMA TailMoves ==
    ASSUME NEW h \in InRing, NEW t \in Index, NEW n \in 1 .. Between(h, t),
           NEW u \in {Moved(t, n), Wrapped(Moved(t, n))}
    PROVE  /\ u \in Index
           /\ Between(h, u) = Between(h, t) - n
           /\ \A i \in 1 .. Between(h, t) - n : Slot(u, i) = Slot(t, n + i)
<1>1. u \in Index /\ Between(h, u) = Between(h, t) - n
  BY SizeAssumption DEF Moved, Wrapped, Index, InRing, Between
<1>2. ASSUME NEW i \in 1 .. Between(h, t) - n PROVE Slot(u, i) = Slot(t, n + i)
  BY SizeAssumption DEF Moved, Wrapped, Index, InRing, Between, Slot
<1> QED BY <1>1, <1>2

\* Wrapping tail changes nothing.
LEMMA TailWraps ==
    ASSUME NEW h \in InRing, NEW t \in Index
    PROVE  /\ Wrapped(t) \in Index
           /\ Between(h, Wrapped(t)) = Between(h, t)
           /\ \A i \in 1 .. Between(h, t) : Slot(Wrapped(t), i) = Slot(t, i)
<1>1. Wrapped(t) \in Index /\ Between(h, Wrapped(t)) = Between(h, t)
  BY SizeAssumption DEF Wrapped, Index, InRing, Between
<1>2. ASSUME NEW i \in 1 .. Between(h, t) PROVE Slot(Wrapped(t), i) = Slot(t, i)
  BY SizeAssumption DEF Wrapped, Index, InRing, Between, Slot
<1> QED BY <1>1, <1>2

-----------------------------------------------------------------------------
(* The bytes.                                                                *)
Fifo == [head : InRing, tail : Index, buf : [InRing -> Nat]]

\* How many bytes are stored.
Data(r) == Between(r.head, r.tail)

\* With head at the end of the buffer, and where it will be.
Loose == [head : Index, tail : Index, buf : [InRing -> Nat]]
Settle(r) == [r EXCEPT !.head = Wrapped(@)]

LEMMA SettleFacts ==
    ASSUME NEW r \in Loose
    PROVE  /\ Settle(r) \in Fifo /\ Settle(r).head = Wrapped(r.head)
           /\ Settle(r).tail = r.tail /\ Settle(r).buf = r.buf
           /\ r.head # Size => r \in Fifo /\ Settle(r) = r
<1>1. r.head \in Index /\ r.tail \in Index /\ r.buf \in [InRing -> Nat]
  BY DEF Loose
<1>2. Wrapped(r.head) \in InRing /\ (r.head # Size => r.head \in InRing /\ Wrapped(r.head) = r.head)
  BY <1>1, SizeAssumption DEF Wrapped, Index, InRing
<1>3. /\ Settle(r) \in Fifo /\ Settle(r).head = Wrapped(r.head)
      /\ Settle(r).tail = r.tail /\ Settle(r).buf = r.buf
  BY <1>1, <1>2 DEF Settle, Loose, Fifo
<1>4. ASSUME r.head # Size PROVE r \in Fifo /\ Settle(r) = r
  BY <1>1, <1>2, <1>4 DEF Settle, Loose, Fifo
<1> QED BY <1>3, <1>4

LEMMA FifoIsLoose ==
    ASSUME NEW r \in Fifo
    PROVE  r \in Loose /\ Settle(r) = r /\ r.head # Size
<1>1. r \in Loose /\ r.head # Size
  BY SizeAssumption DEF Fifo, Loose, Index, InRing
<1> QED BY <1>1, SettleFacts

\* The bytes do not depend on head.
LEMMA PeekSettled ==
    ASSUME NEW r \in Loose, NEW k \in Nat
    PROVE  Peek(r, k) = Peek(Settle(r), k)
BY SettleFacts DEF Peek

\* A record of the indices of a fifo, for the lemmas above.
LEMMA FifoLength ==
    ASSUME NEW r \in Fifo
    PROVE  DataLength(r) = Data(r) /\ Data(r) \in InRing /\ Data(r) \in Nat /\ Data(r) < Size
<1>1. r.head \in InRing /\ r.tail \in Index
  BY DEF Fifo
<1>2. DataLength(r) = Data(r) /\ Data(r) \in InRing
  BY <1>1, LengthIsBetween DEF Data
<1> QED BY <1>2, SizeAssumption DEF InRing

\* vsf_fifo_peek returns the bytes after tail.
LEMMA PeekFacts ==
    ASSUME NEW r \in Fifo, NEW n \in 0 .. Size
    PROVE  /\ Peek(r, n) \in Seq(Nat) /\ Len(Peek(r, n)) = n
           /\ \A i \in 1 .. n : Peek(r, n)[i] = r.buf[Slot(r.tail, i)]
<1>1. r.tail \in Index /\ r.buf \in [InRing -> Nat]
  BY DEF Fifo
<1>2. n \in Nat /\ \A i \in 1 .. n : i \in 1 .. Size
  BY SizeAssumption
<1>3. \A i \in 1 .. n : r.buf[Slot(r.tail, i)] \in Nat
  BY <1>1, <1>2, SlotInRing
<1> QED BY <1>2, <1>3, IsASeq, LenProperties DEF Peek

\* The copy of vsf_fifo_push: the slots after head, and no others.
LEMMA CopyFacts ==
    ASSUME put \in Nat, NEW r \in Fifo, NEW n \in 1 .. Size
    PROVE  /\ CopyIn(r, n) \in Fifo
           /\ CopyIn(r, n).head = r.head /\ CopyIn(r, n).tail = r.tail
           /\ \A i \in 1 .. n : CopyIn(r, n).buf[Slot(r.head, i)] = put + i
           /\ \A s \in InRing : (\A i \in 1 .. n : Slot(r.head, i) # s)
                                   => CopyIn(r, n).buf[s] = r.buf[s]
<1> DEFINE new == [s \in InRing |->
                      IF \E i \in 1 .. n : Slot(r.head, i) = s
                      THEN put + (CHOOSE i \in 1 .. n : Slot(r.head, i) = s) ELSE r.buf[s]]
<1>1. CopyIn(r, n) = [r EXCEPT !.buf = new]
  BY DEF CopyIn, InRing
<1>2. r.head \in Index /\ r.head \in InRing /\ r.tail \in Index /\ r.buf \in [InRing -> Nat]
  BY SizeAssumption DEF Fifo, Index, InRing
<1>3. n \in Nat /\ \A i \in 1 .. n : i \in 1 .. Size /\ i \in Nat
  BY SizeAssumption
<1>4. ASSUME NEW s \in InRing PROVE new[s] \in Nat
  <2>1. CASE \E i \in 1 .. n : Slot(r.head, i) = s
    <3>1. (CHOOSE i \in 1 .. n : Slot(r.head, i) = s) \in 1 .. n
      BY <2>1
    <3>2. new[s] = put + (CHOOSE i \in 1 .. n : Slot(r.head, i) = s)
      BY <2>1
    <3> QED BY <1>3, <3>1, <3>2
  <2>2. CASE ~\E i \in 1 .. n : Slot(r.head, i) = s
    BY <1>2, <2>2
  <2> QED BY <2>1, <2>2
<1>5. new \in [InRing -> Nat]
  BY <1>4
<1>6. ASSUME NEW i \in 1 .. n PROVE new[Slot(r.head, i)] = put + i
  <2>1. Slot(r.head, i) \in InRing
    BY <1>2, <1>3, SlotInRing
  <2>2. PICK j \in 1 .. n : j = CHOOSE k \in 1 .. n : Slot(r.head, k) = Slot(r.head, i)
    OBVIOUS
  <2>3. Slot(r.head, j) = Slot(r.head, i)
    BY <2>2
  <2>4. j = i
    BY <1>2, <1>3, <2>3, SlotInjective
  <2> QED BY <2>1, <2>2, <2>4
<1>7. \A s \in InRing : (\A i \in 1 .. n : Slot(r.head, i) # s) => new[s] = r.buf[s]
  OBVIOUS
<1> HIDE DEF new
<1> QED BY <1>1, <1>2, <1>5, <1>6, <1>7 DEF Fifo

\* The copy leaves the stored data alone when it fits.
LEMMA CopyFits ==
    ASSUME put \in Nat, NEW r \in Fifo, NEW n \in 1 .. Size - 1 - Data(r)
    PROVE  /\ CopyIn(r, n) \in Fifo
           /\ CopyIn(r, n).head = r.head /\ CopyIn(r, n).tail = r.tail
           /\ \A i \in 1 .. n : CopyIn(r, n).buf[Slot(r.head, i)] = put + i
           /\ \A i \in 1 .. Data(r) : CopyIn(r, n).buf[Slot(r.tail, i)] = r.buf[Slot(r.tail, i)]
<1>1. r.head \in InRing /\ r.tail \in Index
  BY DEF Fifo
<1>2. Data(r) \in Nat /\ Data(r) < Size
  BY FifoLength
<1>3. n \in 1 .. Size
  BY <1>2, SizeAssumption
<1>4. /\ CopyIn(r, n) \in Fifo
      /\ CopyIn(r, n).head = r.head /\ CopyIn(r, n).tail = r.tail
      /\ \A i \in 1 .. n : CopyIn(r, n).buf[Slot(r.head, i)] = put + i
      /\ \A s \in InRing : (\A i \in 1 .. n : Slot(r.head, i) # s)
                              => CopyIn(r, n).buf[s] = r.buf[s]
  BY <1>3, CopyFacts
<1>5. ASSUME NEW i \in 1 .. Data(r)
      PROVE  CopyIn(r, n).buf[Slot(r.tail, i)] = r.buf[Slot(r.tail, i)]
  <2>1. i \in 1 .. Size
    BY <1>2, SizeAssumption
  <2>2. ASSUME NEW j \in 1 .. n PROVE Slot(r.head, j) # Slot(r.tail, i)
    <3>1. j \in 1 .. Size - Data(r) /\ Data(r) + j \in 1 .. Size /\ Data(r) + j # i
      BY <1>2, SizeAssumption
    <3>2. Slot(r.head, j) = Slot(r.tail, Data(r) + j)
      BY <1>1, <3>1, SlotAfterData DEF Data
    <3> QED BY <1>1, <2>1, <3>1, <3>2, SlotInjective
  <2>3. Slot(r.tail, i) \in InRing
    BY <1>1, <2>1, SlotInRing
  <2> QED BY <1>4, <2>2, <2>3
<1> QED BY <1>4, <1>5

\* The writer moves head over n bytes it has copied: they are appended.
LEMMA PushAppends ==
    ASSUME put \in Nat, NEW r \in Fifo, NEW r2 \in Fifo, NEW n \in 1 .. Size - 1 - Data(r),
           r2.head = Wrapped(Moved(r.head, n)), r2.tail = r.tail,
           \A i \in 1 .. n : r2.buf[Slot(r.head, i)] = put + i,
           \A i \in 1 .. Data(r) : r2.buf[Slot(r.tail, i)] = r.buf[Slot(r.tail, i)]
    PROVE  /\ Data(r2) = Data(r) + n
           /\ \A k \in 0 .. Data(r) : Peek(r2, k) = Peek(r, k)
           /\ Peek(r2, Data(r2)) = Peek(r, Data(r)) \o [i \in 1 .. n |-> put + i]
<1>1. r.head \in InRing /\ r.tail \in Index
  BY DEF Fifo
<1>2. Data(r) \in Nat /\ Data(r) < Size /\ n \in Nat /\ Data(r) + n < Size
  BY FifoLength, SizeAssumption
<1>3. Data(r2) = Data(r) + n
  BY <1>1, HeadMoves DEF Data
<1>4. ASSUME NEW k \in 0 .. Data(r) PROVE Peek(r2, k) = Peek(r, k)
  <2>1. \A i \in 1 .. k : i \in 1 .. Data(r)
    BY <1>2
  <2> QED BY <2>1 DEF Peek
<1> DEFINE old == Peek(r, Data(r))
           more == [i \in 1 .. n |-> put + i]
           all == Peek(r2, Data(r) + n)
<1>5. old \in Seq(Nat) /\ Len(old) = Data(r)
      /\ \A i \in 1 .. Data(r) : old[i] = r.buf[Slot(r.tail, i)]
  <2>1. Data(r) \in 0 .. Size
    BY <1>2, SizeAssumption
  <2> QED BY <2>1, PeekFacts
<1>6. more \in Seq(Nat) /\ Len(more) = n /\ \A i \in 1 .. n : more[i] = put + i
  <2>1. \A i \in 1 .. n : put + i \in Nat
    BY <1>2
  <2> QED BY <1>2, <2>1, IsASeq, LenProperties
<1>7. all \in Seq(Nat) /\ Len(all) = Data(r) + n
      /\ \A i \in 1 .. Data(r) + n : all[i] = r2.buf[Slot(r.tail, i)]
  <2>1. Data(r) + n \in 0 .. Size
    BY <1>2, SizeAssumption
  <2> QED BY <2>1, PeekFacts
<1> HIDE DEF old, more, all
<1>8. /\ old \o more \in Seq(Nat) /\ Len(old \o more) = Data(r) + n
      /\ \A i \in 1 .. Data(r) + n :
            (old \o more)[i] = IF i <= Data(r) THEN old[i] ELSE more[i - Data(r)]
  <2>1. /\ old \o more \in Seq(Nat) /\ Len(old \o more) = Len(old) + Len(more)
        /\ \A i \in 1 .. Len(old) + Len(more) :
              (old \o more)[i] = IF i <= Len(old) THEN old[i] ELSE more[i - Len(old)]
    <3>1. old \in Seq(Nat) /\ more \in Seq(Nat)
      BY <1>5, <1>6
    <3> QED BY <3>1, ConcatProperties
  <2>2. Len(old) = Data(r) /\ Len(more) = n
    BY <1>5, <1>6
  <2> QED BY <2>1, <2>2
<1>9. ASSUME NEW i \in 1 .. Data(r) + n PROVE all[i] = (old \o more)[i]
  <2>1. CASE i <= Data(r)
    <3>1. i \in 1 .. Data(r)
      BY <1>2, <2>1
    <3> QED BY <1>5, <1>7, <1>8, <2>1, <3>1
  <2>2. CASE ~(i <= Data(r))
    <3> DEFINE j == i - Data(r)
    <3>1. j \in 1 .. n /\ j \in 1 .. Size - Data(r) /\ Data(r) + j = i
      BY <1>2, <2>2, SizeAssumption
    <3>2. Slot(r.head, j) = Slot(r.tail, i)
      BY <1>1, <3>1, SlotAfterData DEF Data
    <3> QED BY <1>6, <1>7, <1>8, <2>2, <3>1, <3>2
  <2> QED BY <2>1, <2>2
<1>10. all = old \o more
  BY <1>7, <1>8, <1>9, SeqEqual
<1> QED BY <1>3, <1>4, <1>10 DEF all, old, more

\* The reader moves tail over n bytes: the oldest n are gone.
LEMMA PopTakes ==
    ASSUME NEW r \in Fifo, NEW r2 \in Fifo, NEW n \in 1 .. Data(r),
           r2.head = r.head, r2.buf = r.buf,
           r2.tail \in {Moved(r.tail, n), Wrapped(Moved(r.tail, n))}
    PROVE  /\ Data(r2) = Data(r) - n
           /\ Peek(r2, Data(r2)) = SubSeq(Peek(r, Data(r)), n + 1, Data(r))
           /\ Peek(r, n) = SubSeq(Peek(r, Data(r)), 1, n)
<1>1. r.head \in InRing /\ r.tail \in Index
  BY DEF Fifo
<1>2. Data(r) \in Nat /\ Data(r) < Size /\ n \in Nat /\ Data(r) - n \in Nat
  BY FifoLength
<1>3. /\ Data(r2) = Data(r) - n
      /\ \A i \in 1 .. Data(r) - n : Slot(r2.tail, i) = Slot(r.tail, n + i)
  BY <1>1, TailMoves DEF Data
<1> DEFINE old == Peek(r, Data(r))
           rest == Peek(r2, Data(r) - n)
           taken == Peek(r, n)
<1>4. old \in Seq(Nat) /\ Len(old) = Data(r)
      /\ \A i \in 1 .. Data(r) : old[i] = r.buf[Slot(r.tail, i)]
  <2>1. Data(r) \in 0 .. Size
    BY <1>2, SizeAssumption
  <2> QED BY <2>1, PeekFacts
<1>5. rest \in Seq(Nat) /\ Len(rest) = Data(r) - n
      /\ \A i \in 1 .. Data(r) - n : rest[i] = r.buf[Slot(r2.tail, i)]
  <2>1. Data(r) - n \in 0 .. Size
    BY <1>2, SizeAssumption
  <2> QED BY <2>1, PeekFacts
<1>6. taken \in Seq(Nat) /\ Len(taken) = n
      /\ \A i \in 1 .. n : taken[i] = r.buf[Slot(r.tail, i)]
  <2>1. n \in 0 .. Size
    BY <1>2, SizeAssumption
  <2> QED BY <2>1, PeekFacts
<1> HIDE DEF old, rest, taken
<1>7. taken = SubSeq(old, 1, n)
  <2>1. /\ SubSeq(old, 1, n) \in Seq(Nat) /\ Len(SubSeq(old, 1, n)) = n
        /\ \A i \in 1 .. n : SubSeq(old, 1, n)[i] = old[i]
    <3>1. 1 \in 1 .. Len(old) + 1 /\ n \in 1 - 1 .. Len(old) /\ n - 1 + 1 = n /\ n \in 1 .. Len(old)
      BY <1>2, <1>4
    <3> QED BY <1>4, <3>1, SubSeqProperties
  <2>2. \A i \in 1 .. n : taken[i] = SubSeq(old, 1, n)[i]
    <3>1. \A i \in 1 .. n : i \in 1 .. Data(r)
      BY <1>2
    <3> QED BY <1>4, <1>6, <2>1, <3>1
  <2> QED BY <1>6, <2>1, <2>2, SeqEqual
<1>8. rest = SubSeq(old, n + 1, Data(r))
  <2> DEFINE sub == SubSeq(old, n + 1, Data(r))
  <2>1. /\ sub \in Seq(Nat) /\ Len(sub) = Data(r) - n
        /\ \A i \in 1 .. Data(r) - n : sub[i] = old[n + i]
    <3>1. n + 1 \in 1 .. Len(old) + 1 /\ Data(r) \in (n + 1) - 1 .. Len(old)
      BY <1>2, <1>4
    <3>2. /\ sub \in Seq(Nat)
          /\ Len(sub) = IF n + 1 <= Data(r) THEN Data(r) - (n + 1) + 1 ELSE 0
          /\ \A i \in 1 .. Data(r) - (n + 1) + 1 : sub[i] = old[(n + 1) + i - 1]
      BY <1>4, <3>1, SubSeqProperties, SMTT(30)
    <3>3. Len(sub) = Data(r) - n
      BY <1>2, <3>2
    <3>4. \A i \in 1 .. Data(r) - n : i \in 1 .. Data(r) - (n + 1) + 1 /\ (n + 1) + i - 1 = n + i
      BY <1>2
    <3> QED BY <3>2, <3>3, <3>4
  <2>2. \A i \in 1 .. Data(r) - n : rest[i] = sub[i]
    <3>1. \A i \in 1 .. Data(r) - n : n + i \in 1 .. Data(r)
      BY <1>2
    <3> QED BY <1>3, <1>4, <1>5, <2>1, <3>1
  <2> HIDE DEF sub
  <2> QED BY <1>5, <2>1, <2>2, SeqEqual DEF sub
<1> QED BY <1>3, <1>7, <1>8 DEF old, rest, taken

-----------------------------------------------------------------------------
(* The invariant.                                                            *)
Pcs == {"idle", "load", "length", "copy", "move", "wrap", "finish", "ready"}
Threads == [pc : Pcs, op : {"none", "write", "read"}, n : 0 .. Size, head : InRing,
            tail : Index, data : Seq(Nat), after : {"idle", "ready"}]

TypeOK ==
    /\ setup \in Setups /\ f \in Loose /\ th \in Threads
    /\ put \in Nat /\ got \in Seq(Nat)

\* At which end the thread is, and that it has something to copy.
Sides ==
    /\ setup.writes => rx_ready
    /\ ~setup.writes => th.op # "write"
    /\ th.pc \in {"idle", "ready"} <=> th.op = "none"
    /\ th.op # "none" => th.n >= 1
    /\ f.head = Size => th.op = "write" /\ th.pc = "wrap"

\* What the thread has found out stays true while the interrupt works.
Computed ==
    /\ th.op = "write" /\ th.pc = "length" => th.head = f.head /\ Data(th) >= Data(f)
    /\ th.op = "read" /\ th.pc = "length" => th.tail = f.tail /\ Data(th) <= Data(f)
    /\ th.op = "write" /\ th.pc \in {"copy", "move"} => th.n <= Size - 1 - Data(f)
    /\ th.op = "write" /\ th.pc = "move" => \A i \in 1 .. th.n : f.buf[Slot(f.head, i)] = put + i
    /\ th.op = "read" /\ th.pc \in {"copy", "move"} => th.n <= Data(f)
    /\ th.op = "read" /\ th.pc = "move" => th.data = Peek(f, th.n)

FInv == TypeOK /\ Sides /\ Computed

LEMMA UseFacts ==
    ASSUME NEW s \in Setups
    PROVE  /\ s.writes \in BOOLEAN /\ s.reload \in BOOLEAN /\ s.connected \in BOOLEAN
           /\ s.writes => s.connected
BY SetupsAssumption DEF Setup

\* While head is in the buffer.
LEMMA InFifo ==
    ASSUME FInv, ~(th.op = "write" /\ th.pc = "wrap")
    PROVE  f \in Fifo /\ f \in Loose /\ Settle(f) = f /\ f.head \in InRing /\ f.tail \in Index
<1>1. f \in Loose /\ f.head # Size
  BY DEF FInv, TypeOK, Sides
<1>2. f \in Fifo /\ Settle(f) = f
  BY <1>1, SettleFacts
<1> QED BY <1>1, <1>2 DEF Fifo

\* What the interrupt and the other end can see.
Stutters == f' = f /\ put' = put /\ got' = got /\ Taken' = Taken

LEMMA StutterRefines ==
    ASSUME Stutters, torn' = torn
    PROVE  UNCHANGED Abs!vars
BY DEF Stutters, Abs!vars, Settled

LEMMA ThreadType ==
    ASSUME NEW pc \in Pcs, NEW op \in {"none", "write", "read"}, NEW n \in 0 .. Size,
           NEW after \in {"idle", "ready"}
    PROVE  /\ Thread(pc, op, n, after) \in Threads
           /\ Thread(pc, op, n, after).pc = pc /\ Thread(pc, op, n, after).op = op
           /\ Thread(pc, op, n, after).n = n
<1>1. 0 \in InRing /\ 0 \in Index /\ <<>> \in Seq(Nat)
  BY SizeAssumption DEF InRing, Index
<1> QED BY <1>1 DEF Thread, Threads

LEMMA IdleType ==
    Idle \in Threads /\ Idle.pc = "idle" /\ Idle.op = "none" /\ Idle.after = "idle"
<1>1. 0 \in 0 .. Size
  BY SizeAssumption
<1>2. Idle \in Threads /\ Idle.pc = "idle" /\ Idle.op = "none"
  BY <1>1, ThreadType DEF Idle, Pcs
<1> QED BY <1>2 DEF Idle, Thread

\* stream_init
LEMMA InitFInv ==
    ASSUME Init
    PROVE  FInv /\ Abs!Init
<1>1. f \in Fifo /\ f.head = 0 /\ f.tail = 0
  BY SizeAssumption DEF Init, Fifo, InRing, Index
<1>0. f \in Loose /\ Settle(f) = f /\ f.head # Size
  BY <1>1, FifoIsLoose
<1>2. TypeOK
  BY <1>0, IdleType DEF Init, TypeOK
<1>3. Sides
  BY <1>0, IdleType, UseFacts DEF Init, Sides
<1>4. Computed
  BY IdleType DEF Init, Computed
<1>5. Peek(f, DataLength(Settled)) = <<>>
  <2>1. DataLength(Settled) = 0
    BY <1>0, <1>1, FifoLength DEF Data, Between, Settled, Settle
  <2> QED BY <2>1 DEF Peek
<1>6. Taken = <<>>
  BY IdleType DEF Init, Taken
<1> QED BY <1>2, <1>3, <1>4, <1>5, <1>6 DEF FInv, Abs!Init, Init

\* The thread starts a call: stream_write, the reader's read, stream_connect_rx.
LEMMA BeginStep ==
    ASSUME FInv, BeginWrite \/ BeginRead \/ BeginConnect \/ Ready \/ Disconnect
    PROVE  FInv' /\ Stutters
<1>0. f' = f /\ put' = put /\ got' = got /\ setup' = setup /\ th.pc \in {"idle", "ready"}
  BY DEF BeginWrite, BeginRead, BeginConnect, Ready, Disconnect, At
<1>1. th.op = "none" /\ MaxChunk \in 1 .. Size /\ MaxChunk \in 0 .. Size
  BY <1>0, ChunkAssumption, SizeAssumption DEF FInv, Sides
<1>2. /\ th' \in Threads /\ th'.pc \in {"idle", "ready", "load"}
      /\ setup.writes => rx_ready'
      /\ ~setup.writes => th'.op # "write"
      /\ th'.pc \in {"idle", "ready"} <=> th'.op = "none"
      /\ th'.op # "none" => th'.n >= 1
  <2>1. CASE BeginWrite
    <3>1. PICK n \in 1 .. MaxChunk : th' = Thread("load", "write", n, "idle")
      BY <2>1 DEF BeginWrite
    <3>2. n \in 0 .. Size /\ n >= 1
      BY <1>1, SizeAssumption
    <3> QED BY <2>1, <3>1, <3>2, ThreadType DEF BeginWrite, FInv, Sides, Pcs
  <2>2. CASE BeginRead
    BY <1>1, <2>2, ThreadType DEF BeginRead, Pcs
  <2>3. CASE BeginConnect
    <3>1. ~setup.writes
      BY <2>3 DEF BeginConnect, FInv, Sides
    <3>2. th' = Thread("load", "read", MaxChunk, "ready") \/ th' = Thread("ready", "none", 0, "idle")
      BY <2>3 DEF BeginConnect
    <3>3. 0 \in 0 .. Size
      BY SizeAssumption
    <3> QED BY <1>1, <3>1, <3>2, <3>3, ThreadType DEF Pcs
  <2>4. CASE Ready
    BY <2>4, IdleType DEF Ready
  <2>5. CASE Disconnect
    BY <1>0, <1>1, <2>5 DEF Disconnect, FInv, TypeOK
  <2> QED BY <2>1, <2>2, <2>3, <2>4, <2>5
<1>3. TypeOK'
  BY <1>0, <1>2 DEF FInv, TypeOK
<1>4. Sides'
  BY <1>0, <1>2 DEF FInv, Sides
<1>5. Computed'
  BY <1>2 DEF Computed
<1>6. Taken' = Taken
  BY <1>0, <1>2 DEF Taken
<1> QED BY <1>0, <1>3, <1>4, <1>5, <1>6 DEF FInv, Stutters

\* The thread loads the indices.
LEMMA LoadStep ==
    ASSUME FInv, Load
    PROVE  FInv' /\ Stutters
<1>0. /\ f' = f /\ put' = put /\ got' = got /\ setup' = setup /\ rx_ready' = rx_ready
      /\ th.pc = "load" /\ th' = [th EXCEPT !.pc = "length", !.head = f.head, !.tail = f.tail]
  BY DEF Load, At
<1>1. th \in Threads /\ f \in Fifo /\ f.head \in InRing /\ f.tail \in Index
  BY <1>0, InFifo DEF FInv, TypeOK
<1>2. /\ th' \in Threads /\ th'.pc = "length" /\ th'.head = f.head /\ th'.tail = f.tail
      /\ th'.op = th.op /\ th'.n = th.n
  BY <1>0, <1>1 DEF Threads, Pcs
<1>3. Data(th') = Data(f') /\ Data(f) \in Nat
  BY <1>0, <1>1, <1>2, FifoLength DEF Data
<1>4. TypeOK'
  BY <1>0, <1>2 DEF FInv, TypeOK
<1>5. Sides'
  BY <1>0, <1>2 DEF FInv, Sides
<1>6. Computed'
  BY <1>0, <1>2, <1>3 DEF Computed
<1>7. Taken' = Taken
  BY <1>0, <1>2 DEF Taken
<1> QED BY <1>0, <1>4, <1>5, <1>6, <1>7 DEF FInv, Stutters

\* It computes the length, and returns or goes on.
LEMMA LengthStep ==
    ASSUME FInv, Length, ~torn'
    PROVE  FInv' /\ Stutters
<1>0. f' = f /\ put' = put /\ got' = got /\ setup' = setup /\ rx_ready' = rx_ready /\ th.pc = "length"
  BY DEF Length, At
<1>1. th \in Threads /\ f \in Fifo /\ th.head \in InRing /\ th.tail \in Index
      /\ th.n \in 0 .. Size /\ Data(f) \in Nat /\ f.head \in InRing /\ f.tail \in Index
  BY <1>0, InFifo, FifoLength DEF FInv, TypeOK, Threads
<1> DEFINE len == DataLengthAs(th.head >= th.tail, IF setup.reload THEN f ELSE th)
           size == Least(th.n, len)
<1>2. /\ len \in InRing
      /\ th.op = "write" => len >= Data(f)
      /\ th.op = "read" => len <= Data(f)
  <2>1. CASE ~setup.reload
    <3>1. len = Data(th) /\ Data(th) \in InRing
      BY <1>1, <2>1, LengthIsBetween DEF Data
    <3> QED BY <1>0, <3>1 DEF FInv, Computed
  <2>2. CASE setup.reload
    <3>1. (th.head >= th.tail) <=> (f.head >= f.tail)
      BY <2>2 DEF Length
    <3>2. len = DataLength(f)
      BY <2>2, <3>1 DEF DataLengthAs, DataLength
    <3>3. DataLength(f) = Data(f) /\ Data(f) \in InRing /\ Data(f) \in Nat
      BY <1>1, FifoLength
    <3> HIDE DEF len
    <3> QED BY <3>2, <3>3
  <2> QED BY <2>1, <2>2
<1>3. /\ \/ th.op = "write" /\ th.n > AvailLength(len) /\ th' = Idle
         \/ th.op = "write" /\ th.n <= AvailLength(len) /\ th' = [th EXCEPT !.pc = "copy"]
         \/ th.op = "read" /\ size = 0 /\ th' = [Idle EXCEPT !.pc = th.after]
         \/ th.op = "read" /\ size > 0 /\ th' = [th EXCEPT !.pc = "copy", !.n = size]
  BY DEF Length, Goto
<1> HIDE DEF len
<1>4. /\ th' \in Threads
      /\ \/ th'.op = "none" /\ th'.pc \in {"idle", "ready"}
         \/ /\ th'.op = th.op /\ th'.pc = "copy" /\ th'.n >= 1
            /\ th.op = "write" => th'.n <= Size - 1 - Data(f)
            /\ th.op = "read" => th'.n <= Data(f)
  <2>1. CASE th' = Idle
    BY <2>1, IdleType
  <2>2. CASE th.op = "write" /\ th.n <= AvailLength(len) /\ th' = [th EXCEPT !.pc = "copy"]
    <3>1. th.n <= Size - 1 - len /\ len >= Data(f) /\ th.n >= 1
      BY <1>0, <1>2, <2>2, AvailIsRest DEF FInv, Sides
    <3>2. th.n <= Size - 1 - Data(f)
      BY <1>1, <1>2, <3>1, SizeAssumption DEF InRing
    <3> QED BY <1>1, <2>2, <3>1, <3>2 DEF Threads, Pcs
  <2>3. CASE th' = [Idle EXCEPT !.pc = th.after]
    BY <1>1, <2>3, IdleType DEF Threads, Pcs
  <2>4. CASE th.op = "read" /\ size > 0 /\ th' = [th EXCEPT !.pc = "copy", !.n = size]
    <3>1. len <= Data(f) /\ len \in Nat
      BY <1>2, <2>4, SizeAssumption DEF InRing
    <3>2. size \in 0 .. Size /\ size >= 1 /\ size <= Data(f)
      BY <1>1, <1>2, <2>4, <3>1, SizeAssumption DEF Least
    <3> HIDE DEF size
    <3> QED BY <1>1, <2>4, <3>2 DEF Threads, Pcs
  <2> QED BY <1>3, <2>1, <2>2, <2>3, <2>4
<1>5. TypeOK'
  BY <1>0, <1>4 DEF FInv, TypeOK
<1>6. Sides'
  BY <1>0, <1>4 DEF FInv, Sides
<1>7. Computed'
  BY <1>0, <1>4 DEF Computed
<1>8. Taken' = Taken
  BY <1>0, <1>4 DEF Taken
<1> QED BY <1>0, <1>5, <1>6, <1>7, <1>8 DEF FInv, Stutters

-----------------------------------------------------------------------------
(* The steps that the other end sees.                                        *)
LEMMA WriteRefines ==
    ASSUME f \in Fifo, f' \in Loose, put \in Nat, NEW n \in 1 .. Size - 1 - Data(f),
           Wrapped(f'.head) = Wrapped(Moved(f.head, n)), f'.tail = f.tail,
           \A i \in 1 .. n : f'.buf[Slot(f.head, i)] = put + i,
           \A i \in 1 .. Data(f) : f'.buf[Slot(f.tail, i)] = f.buf[Slot(f.tail, i)],
           put' = put + n, got' = got, Taken' = Taken
    PROVE  Abs!Write
<1>0. PICK g : g = Settle(f')
  OBVIOUS
<1>4. g \in Fifo /\ g.head = Wrapped(Moved(f.head, n)) /\ g.tail = f.tail /\ g.buf = f'.buf
  BY <1>0, SettleFacts
<1>1. /\ Data(g) = Data(f) + n
      /\ Peek(g, Data(g)) = Peek(f, Data(f)) \o [i \in 1 .. n |-> put + i]
  <2>1. /\ \A i \in 1 .. n : g.buf[Slot(f.head, i)] = put + i
        /\ \A i \in 1 .. Data(f) : g.buf[Slot(f.tail, i)] = f.buf[Slot(f.tail, i)]
    BY <1>4
  <2> QED BY <1>4, <2>1, PushAppends
<1>2. DataLength(f) = Data(f) /\ DataLength(g) = Data(g) /\ Data(f) \in 0 .. Size /\ Data(g) \in Nat
  BY <1>4, FifoLength, SizeAssumption
<1>3. Len(Peek(f, DataLength(f))) = Data(f)
  BY <1>2, PeekFacts
<1>5. Settled = f /\ Settled' = g
  BY <1>0, FifoIsLoose DEF Settled, Settle
<1>6. Peek(f', Data(g)) = Peek(g, Data(g))
  BY <1>0, <1>2, PeekSettled
<1> QED BY <1>1, <1>2, <1>3, <1>5, <1>6 DEF Abs!Write

LEMMA ReadRefines ==
    ASSUME f \in Loose, f' \in Loose, NEW n \in 1 .. Data(Settle(f)),
           f'.head = f.head, f'.buf = f.buf,
           f'.tail \in {Moved(f.tail, n), Wrapped(Moved(f.tail, n))},
           put' = put, (got \o Taken)' = (got \o Taken) \o Peek(f, n)
    PROVE  Abs!Read
<1>0. PICK g, h : g = Settle(f) /\ h = Settle(f')
  OBVIOUS
<1>4. /\ g \in Fifo /\ g.tail = f.tail /\ g.buf = f.buf
      /\ h \in Fifo /\ h.head = g.head /\ h.tail = f'.tail /\ h.buf = f'.buf
  BY <1>0, SettleFacts
<1>7. n \in 1 .. Data(g)
  BY <1>0
<1>1. /\ Data(h) = Data(g) - n
      /\ Peek(h, Data(h)) = SubSeq(Peek(g, Data(g)), n + 1, Data(g))
      /\ Peek(g, n) = SubSeq(Peek(g, Data(g)), 1, n)
  BY <1>4, <1>7, PopTakes
<1>2. DataLength(g) = Data(g) /\ DataLength(h) = Data(h) /\ Data(g) \in 0 .. Size
      /\ Data(g) \in Nat /\ Data(h) \in Nat /\ n \in Nat
  BY <1>4, FifoLength, SizeAssumption
<1>3. Len(Peek(g, DataLength(g))) = Data(g)
  BY <1>2, <1>4, PeekFacts
<1>5. Settled = g /\ Settled' = h
  BY <1>0 DEF Settled, Settle
<1>6. /\ Peek(f, Data(g)) = Peek(g, Data(g)) /\ Peek(f, n) = Peek(g, n)
      /\ Peek(f', Data(h)) = Peek(h, Data(h))
  BY <1>0, <1>2, PeekSettled
<1> QED BY <1>1, <1>2, <1>3, <1>5, <1>6, <1>7 DEF Abs!Read

\* The memcpy: the reader's end sees nothing of it.
LEMMA CopyStep ==
    ASSUME FInv, Copy
    PROVE  FInv' /\ UNCHANGED Abs!vars
<1>0. torn' = torn /\ put' = put /\ got' = got /\ setup' = setup /\ rx_ready' = rx_ready /\ th.pc = "copy"
  BY DEF Copy, At
<1>1. th \in Threads /\ f \in Fifo /\ put \in Nat /\ th.n \in 0 .. Size /\ th.n >= 1
      /\ f.head # Size
  BY <1>0, InFifo DEF FInv, TypeOK, Threads, Sides
<1>2. CASE th.op = "write"
  <2>1. f' = CopyIn(f, th.n) /\ th' = [th EXCEPT !.pc = "move"]
    BY <1>2 DEF Copy, Goto
  <2>2. th' \in Threads /\ th'.pc = "move" /\ th'.op = "write" /\ th'.n = th.n
    BY <1>1, <1>2, <2>1 DEF Threads, Pcs
  <2>3. th.n \in 1 .. Size - 1 - Data(f)
    BY <1>0, <1>1, <1>2, FifoLength, SizeAssumption DEF FInv, Computed
  <2>4. /\ f' \in Fifo /\ f'.head = f.head /\ f'.tail = f.tail
        /\ \A i \in 1 .. th.n : f'.buf[Slot(f.head, i)] = put + i
        /\ \A i \in 1 .. Data(f) : f'.buf[Slot(f.tail, i)] = f.buf[Slot(f.tail, i)]
    BY <1>1, <2>1, <2>3, CopyFits
  <2>5. Data(f') = Data(f)
    BY <2>4 DEF Data
  <2>6. TypeOK'
    BY <1>0, <2>2, <2>4, FifoIsLoose DEF FInv, TypeOK
  <2>7. Sides'
    BY <1>0, <1>1, <1>2, <2>2, <2>4 DEF FInv, Sides
  <2>8. th.n <= Size - 1 - Data(f)
    BY <1>0, <1>2 DEF FInv, Computed
  <2>9. Computed'
    BY <1>0, <2>2, <2>4, <2>5, <2>8 DEF Computed
  <2>10. Taken' = Taken
    BY <1>0, <2>2 DEF Taken
  <2>11. Peek(f', DataLength(Settled')) = Peek(f, DataLength(Settled))
    <3>1. DataLength(f) = Data(f) /\ DataLength(f') = Data(f)
      BY <1>1, <2>4, <2>5, FifoLength
    <3>2. Settled = f /\ Settled' = f'
      BY <1>1, <2>4, FifoIsLoose DEF Settled, Settle
    <3> QED BY <2>4, <3>1, <3>2 DEF Peek
  <2> QED BY <1>0, <2>6, <2>7, <2>9, <2>10, <2>11 DEF FInv, Abs!vars
<1>3. CASE th.op = "read"
  <2>1. f' = f /\ th' = [th EXCEPT !.pc = "move", !.data = Peek(f, th.n)]
    BY <1>3 DEF Copy
  <2>2. Peek(f, th.n) \in Seq(Nat)
    BY <1>1, PeekFacts
  <2>3. /\ th' \in Threads /\ th'.pc = "move" /\ th'.op = "read" /\ th'.n = th.n
        /\ th'.data = Peek(f, th.n)
    BY <1>1, <1>3, <2>1, <2>2 DEF Threads, Pcs
  <2>4. TypeOK'
    BY <1>0, <2>1, <2>3 DEF FInv, TypeOK
  <2>5. Sides'
    BY <1>0, <1>1, <1>3, <2>1, <2>3 DEF FInv, Sides
  <2>6. th.n <= Data(f)
    BY <1>0, <1>3 DEF FInv, Computed
  <2>7. Computed'
    BY <2>1, <2>3, <2>6 DEF Computed
  <2>8. Taken' = Taken
    BY <1>0, <2>3 DEF Taken
  <2> QED BY <1>0, <2>1, <2>4, <2>5, <2>7, <2>8 DEF FInv, Abs!vars, Settled
<1> QED BY <1>2, <1>3 DEF Copy

\* The assignment of head or tail hands the bytes over.
LEMMA MoveStep ==
    ASSUME FInv, Move
    PROVE  FInv' /\ (Abs!Write \/ Abs!Read)
<1>0. /\ torn' = torn /\ got' = got /\ setup' = setup /\ rx_ready' = rx_ready /\ th.pc = "move"
      /\ th' = [th EXCEPT !.pc = "wrap"]
  BY DEF Move, At, Goto
<1>1. /\ th \in Threads /\ f \in Fifo /\ put \in Nat /\ th.n \in 0 .. Size /\ th.n >= 1
      /\ f.head \in InRing /\ f.tail \in Index /\ got \in Seq(Nat) /\ th.data \in Seq(Nat)
      /\ f.head # Size /\ f \in Loose
  BY <1>0, InFifo DEF FInv, TypeOK, Threads, Sides
<1>2. /\ th' \in Threads /\ th'.pc = "wrap" /\ th'.op = th.op /\ th'.n = th.n /\ th'.data = th.data
  BY <1>0, <1>1 DEF Threads, Pcs
<1>3. Data(f) \in Nat
  BY <1>1, FifoLength
<1>4. Computed'
  BY <1>0, <1>2 DEF Computed
<1>5. CASE th.op = "write"
  <2>2. f' = [f EXCEPT !.head = Stored(Moved(@, th.n))] /\ put' = put + th.n
    BY <1>5 DEF Move
  <2>3. th.n <= Size - 1 - Data(f) /\ \A i \in 1 .. th.n : f.buf[Slot(f.head, i)] = put + i
    BY <1>0, <1>5 DEF FInv, Computed
  <2>4. th.n \in 1 .. Size - 1 - Data(f)
    BY <1>1, <1>3, <2>3, SizeAssumption
  <2>5. /\ Stored(Moved(f.head, th.n)) \in Index
        /\ Wrapped(Stored(Moved(f.head, th.n))) = Wrapped(Moved(f.head, th.n))
    <3>1. Moved(f.head, th.n) \in Index
      BY <1>1, SizeAssumption DEF Moved, Index, InRing
    <3>2. \A x \in Index : Wrapped(x) \in Index /\ Wrapped(Wrapped(x)) = Wrapped(x)
      BY SizeAssumption DEF Wrapped, Index
    <3> QED BY <3>1, <3>2 DEF Stored
  <2>6. /\ f' \in Loose /\ f'.head = Stored(Moved(f.head, th.n)) /\ f'.tail = f.tail
        /\ f'.buf = f.buf
    BY <1>1, <2>2, <2>5 DEF Loose
  <2>7. TypeOK' /\ Sides'
    <3>1. put' \in Nat
      BY <1>1, <2>2
    <3> QED BY <1>0, <1>2, <1>5, <2>6, <3>1 DEF FInv, TypeOK, Sides
  <2>8. Taken' = Taken
    BY <1>2, <1>5 DEF Taken
  <2>9. Abs!Write
    BY <1>0, <1>1, <2>2, <2>3, <2>4, <2>5, <2>6, <2>8, WriteRefines
  <2> QED BY <1>4, <2>7, <2>9 DEF FInv
<1>6. CASE th.op = "read"
  <2>1. f' = [f EXCEPT !.tail = Stored(Moved(@, th.n))] /\ put' = put
    BY <1>6 DEF Move
  <2>2. Stored(Moved(f.tail, th.n)) \in {Moved(f.tail, th.n), Wrapped(Moved(f.tail, th.n))}
    BY DEF Stored
  <2>3. th.n <= Data(f) /\ th.data = Peek(f, th.n)
    BY <1>0, <1>6 DEF FInv, Computed
  <2>4. th.n \in 1 .. Data(f)
    BY <1>1, <1>3, <2>3
  <2>5. Stored(Moved(f.tail, th.n)) \in Index
    BY <1>1, <2>2, <2>4, TailMoves DEF Data
  <2>6. /\ f' \in Loose /\ f'.tail = Stored(Moved(f.tail, th.n)) /\ f'.head = f.head
        /\ f'.buf = f.buf
    BY <1>1, <2>1, <2>5 DEF Loose
  <2>7. TypeOK' /\ Sides'
    BY <1>0, <1>1, <1>2, <2>1, <2>6 DEF FInv, TypeOK, Sides
  <2>8. Taken = <<>> /\ Taken' = th.data
    BY <1>0, <1>2, <1>6 DEF Taken
  <2>9. (got \o Taken)' = (got \o Taken) \o Peek(f, th.n)
    <3>1. got \o <<>> = got
      BY <1>1, ConcatEmptySeq
    <3> QED BY <1>0, <2>3, <2>8, <3>1
  <2>10. Abs!Read
    <3>1. th.n \in 1 .. Data(Settle(f))
      BY <1>1, <2>4, FifoIsLoose
    <3> QED BY <1>1, <2>1, <2>2, <3>1, <2>6, <2>9, ReadRefines
  <2> QED BY <1>4, <2>7, <2>10 DEF FInv
<1> QED BY <1>5, <1>6 DEF Move

\* An index at the end of the buffer is wrapped.
LEMMA WrapStep ==
    ASSUME FInv, Wrap
    PROVE  FInv' /\ UNCHANGED Abs!vars
<1>0. /\ torn' = torn /\ got' = got /\ put' = put /\ setup' = setup /\ rx_ready' = rx_ready
      /\ th.pc = "wrap" /\ th' = [th EXCEPT !.pc = "finish"]
      /\ f' = IF th.op = "write" THEN [f EXCEPT !.head = Wrapped(@)] ELSE [f EXCEPT !.tail = Wrapped(@)]
  BY DEF Wrap, At, Goto
<1>1. th \in Threads /\ f \in Loose
  BY DEF FInv, TypeOK
<1>2. /\ th' \in Threads /\ th'.pc = "finish" /\ th'.op = th.op /\ th'.n = th.n /\ th'.data = th.data
  BY <1>0, <1>1 DEF Threads, Pcs
<1>3. Computed' /\ Taken' = Taken
  BY <1>0, <1>2 DEF Computed, Taken
<1>4. ASSUME f' \in Fifo, Peek(f', DataLength(Settled')) = Peek(f, DataLength(Settled))
      PROVE  FInv' /\ UNCHANGED Abs!vars
  <2>1. f' \in Loose /\ f'.head # Size
    BY <1>4, FifoIsLoose
  <2>2. TypeOK' /\ Sides'
    BY <1>0, <1>2, <2>1 DEF FInv, TypeOK, Sides
  <2> QED BY <1>0, <1>3, <1>4, <2>2 DEF FInv, Abs!vars
<1>5. CASE th.op = "write"
  <2>1. f' = Settle(f)
    BY <1>0, <1>5 DEF Settle
  <2>2. f' \in Fifo /\ f'.tail = f.tail /\ f'.buf = f.buf
    BY <1>1, <2>1, SettleFacts
  <2>3. Settle(f') = f'
    BY <2>2, FifoIsLoose
  <2>4. Settled' = f' /\ Settled = f'
    BY <2>1, <2>3 DEF Settled, Settle
  <2>5. Peek(f', DataLength(Settled')) = Peek(f, DataLength(Settled))
    BY <2>2, <2>4 DEF Peek
  <2> QED BY <1>4, <2>2, <2>5
<1>6. CASE th.op # "write"
  <2>0. f \in Fifo /\ Settle(f) = f /\ f.head \in InRing /\ f.tail \in Index
    BY <1>6, InFifo
  <2>1. /\ Wrapped(f.tail) \in Index /\ Between(f.head, Wrapped(f.tail)) = Between(f.head, f.tail)
        /\ \A i \in 1 .. Data(f) : Slot(Wrapped(f.tail), i) = Slot(f.tail, i)
    BY <2>0, TailWraps DEF Data
  <2>2. f' \in Fifo /\ f'.head = f.head /\ f'.tail = Wrapped(f.tail) /\ f'.buf = f.buf
    BY <1>0, <1>6, <2>0, <2>1 DEF Fifo
  <2>3. Settle(f') = f'
    BY <2>2, FifoIsLoose
  <2>4. Settled' = f' /\ Settled = f
    BY <2>0, <2>3 DEF Settled, Settle
  <2>5. DataLength(f) = Data(f) /\ DataLength(f') = Data(f)
    BY <2>0, <2>1, <2>2, FifoLength DEF Data
  <2>6. Peek(f', DataLength(Settled')) = Peek(f, DataLength(Settled))
    BY <2>1, <2>2, <2>4, <2>5 DEF Peek
  <2> QED BY <1>4, <2>2, <2>6
<1> QED BY <1>5, <1>6

\* The call returns: a read hands out its bytes.
LEMMA FinishStep ==
    ASSUME FInv, Finish, ~torn
    PROVE  FInv' /\ UNCHANGED Abs!vars
<1>0. torn' = torn /\ f' = f /\ put' = put /\ setup' = setup /\ rx_ready' = rx_ready /\ th.pc = "finish"
  BY DEF Finish, At
<1>1. /\ th \in Threads /\ got \in Seq(Nat) /\ th.data \in Seq(Nat) /\ th.after \in {"idle", "ready"}
      /\ MaxChunk \in 0 .. Size /\ MaxChunk >= 1
  BY ChunkAssumption, SizeAssumption DEF FInv, TypeOK, Threads
<1>2. ASSUME NEW after \in {"idle", "ready"}, th' \in {Idle, Thread("load", "read", MaxChunk, after)}
      PROVE  /\ th' \in Threads /\ th'.pc \in {"idle", "load"} /\ Taken' = <<>>
             /\ th'.op = IF th'.pc = "idle" THEN "none" ELSE "read"
             /\ th'.pc = "load" => th'.n = MaxChunk
  <2>1. CASE th' = Idle
    BY <2>1, IdleType DEF Taken
  <2>2. CASE th' = Thread("load", "read", MaxChunk, after)
    BY <1>1, <2>2, ThreadType DEF Pcs, Taken
  <2> QED BY <1>2, <2>1, <2>2
<1>3. ASSUME NEW after \in {"idle", "ready"}, th' \in {Idle, Thread("load", "read", MaxChunk, after)},
             got' \in Seq(Nat), (got \o Taken)' = got \o Taken
      PROVE  FInv' /\ UNCHANGED Abs!vars
  <2>1. TypeOK' /\ Sides' /\ Computed'
    BY <1>0, <1>1, <1>2, <1>3 DEF FInv, TypeOK, Sides, Computed
  <2> QED BY <1>0, <1>3, <2>1 DEF FInv, Abs!vars, Settled
<1>4. CASE th.op = "write"
  <2>1. th' \in {Idle, Thread("load", "read", MaxChunk, "idle")} /\ got' = got
    BY <1>4 DEF Finish
  <2>2. Taken = <<>> /\ Taken' = <<>>
    BY <1>2, <1>4, <2>1 DEF Taken
  <2> QED BY <1>1, <1>3, <2>1, <2>2
<1>5. CASE th.op = "read"
  <2>1. th' \in {Idle, Thread("load", "read", MaxChunk, th.after)} /\ got' = got \o th.data
    BY <1>5 DEF Finish, Record
  <2>2. got' \in Seq(Nat)
    BY <1>1, <2>1, ConcatProperties
  <2>3. Taken = th.data /\ Taken' = <<>>
    BY <1>0, <1>1, <1>2, <1>5, <2>1 DEF Taken
  <2>4. (got \o Taken)' = got \o Taken
    BY <2>1, <2>2, <2>3, ConcatEmptySeq
  <2> QED BY <1>1, <1>3, <2>1, <2>2, <2>4
<1> QED BY <1>4, <1>5 DEF Finish

\* The interrupt writes while the thread reads.
LEMMA IsrWriteStep ==
    ASSUME FInv, IsrWrite
    PROVE  FInv' /\ ((Abs!Write \/ Abs!Read) \/ UNCHANGED Abs!vars)
<1>0. /\ torn' = torn /\ got' = got /\ setup' = setup /\ rx_ready' = rx_ready /\ th' = th
      /\ ~setup.writes /\ th.op # "write"
  BY DEF IsrWrite, FInv, Sides
<1>1. /\ th \in Threads /\ f \in Fifo /\ put \in Nat /\ f.head \in InRing /\ f.tail \in Index
      /\ th.n \in 0 .. Size
  BY <1>0, InFifo DEF FInv, TypeOK, Threads
<1>2. Taken' = Taken
  BY <1>0 DEF Taken
<1>3. PICK n \in 1 .. MaxChunk :
          LET fits == n <= AvailLength(DataLength(f))
          IN  /\ put' = IF fits THEN put + n ELSE put
              /\ f' = IF fits THEN [CopyIn(f, n) EXCEPT !.head = Wrapped(Moved(@, n))] ELSE f
  BY DEF IsrWrite
<1>4. CASE ~(n <= AvailLength(DataLength(f)))
  <2>1. put' = put /\ f' = f
    BY <1>3, <1>4
  <2>2. FInv'
    BY <1>0, <2>1 DEF FInv, TypeOK, Sides, Computed
  <2> QED BY <1>0, <1>2, <2>1, <2>2 DEF Abs!vars, Settled
<1>5. CASE n <= AvailLength(DataLength(f))
  <2>1. put' = put + n /\ f' = [CopyIn(f, n) EXCEPT !.head = Wrapped(Moved(@, n))]
    BY <1>3, <1>5
  <2>2. Data(f) \in Nat /\ Data(f) < Size /\ AvailLength(DataLength(f)) = Size - 1 - Data(f)
    BY <1>1, FifoLength, AvailIsRest
  <2>3. n \in 1 .. Size - 1 - Data(f) /\ n \in Nat
    BY <1>5, <2>2, ChunkAssumption, SizeAssumption
  <2>4. /\ CopyIn(f, n) \in Fifo
        /\ CopyIn(f, n).head = f.head /\ CopyIn(f, n).tail = f.tail
        /\ \A i \in 1 .. n : CopyIn(f, n).buf[Slot(f.head, i)] = put + i
        /\ \A i \in 1 .. Data(f) : CopyIn(f, n).buf[Slot(f.tail, i)] = f.buf[Slot(f.tail, i)]
    BY <1>1, <2>3, CopyFits
  <2>5. Wrapped(Moved(f.head, n)) \in InRing
    BY <1>1, <2>3, HeadMoves DEF Data
  <2>6. /\ f' \in Fifo /\ f'.head = Wrapped(Moved(f.head, n)) /\ f'.tail = f.tail
        /\ f'.buf = CopyIn(f, n).buf
    BY <2>1, <2>4, <2>5 DEF Fifo
  <2>11. f' \in Loose /\ f'.head # Size
    BY <2>6, FifoIsLoose
  <2>12. Wrapped(f'.head) = Wrapped(Moved(f.head, n))
    BY <2>6, <2>11 DEF Wrapped
  <2>7. Abs!Write
    BY <1>0, <1>1, <1>2, <2>1, <2>3, <2>4, <2>6, <2>11, <2>12, WriteRefines
  <2>8. Data(f') = Data(f) + n /\ \A k \in 0 .. Data(f) : Peek(f', k) = Peek(f, k)
    BY <1>1, <2>3, <2>4, <2>6, PushAppends, SMTT(30)
  <2>9. TypeOK' /\ Sides'
    <3>1. put' \in Nat
      BY <1>1, <2>1, <2>3
    <3> QED BY <1>0, <2>11, <3>1 DEF FInv, TypeOK, Sides
  <2>10. Computed'
    <3>1. ASSUME th.op = "read", th.pc = "length" PROVE Data(th) <= Data(f') /\ th.tail = f'.tail
      <4>1. Data(th) <= Data(f) /\ th.tail = f.tail /\ Data(th) \in InRing
        BY <1>1, <3>1, LengthIsBetween DEF FInv, Computed, Threads, Data
      <4> QED BY <2>2, <2>3, <2>6, <2>8, <4>1, SizeAssumption DEF InRing
    <3>2. ASSUME th.op = "read", th.pc \in {"copy", "move"} PROVE th.n <= Data(f')
      <4>1. th.n <= Data(f)
        BY <3>2 DEF FInv, Computed
      <4> QED BY <1>1, <2>2, <2>3, <2>8, <4>1
    <3>3. ASSUME th.op = "read", th.pc = "move" PROVE th.data = Peek(f', th.n)
      <4>1. th.n <= Data(f) /\ th.data = Peek(f, th.n)
        BY <3>3 DEF FInv, Computed
      <4>2. th.n \in 0 .. Data(f)
        BY <1>1, <2>2, <4>1
      <4> QED BY <2>8, <4>1, <4>2
    <3> QED BY <1>0, <3>1, <3>2, <3>3 DEF Computed
  <2> QED BY <2>7, <2>9, <2>10 DEF FInv
<1> QED BY <1>4, <1>5

\* What the interrupt makes of the indices is right.
LEMMA LooseLength ==
    ASSUME NEW r \in Loose, ~(r.head = Size /\ r.tail = 0)
    PROVE  DataLength(r) = Data(Settle(r))
<1>1. CASE r.head # Size
  BY <1>1, SettleFacts, FifoLength
<1>2. CASE r.head = Size
  <2>1. r.tail \in 1 .. Size
    BY <1>2, SizeAssumption DEF Loose, Index
  <2>2. Data(Settle(r)) = Size - r.tail
    BY <1>2, <2>1, SettleFacts, SizeAssumption DEF Data, Between, Wrapped
  <2>3. Size - r.tail \in Nat /\ Size - r.tail < Modulus
    BY <2>1, SizeAssumption, ModulusAssumption
  <2>4. (Size - r.tail) % Modulus = Size - r.tail
    BY <2>3, RemainderIsSmall
  <2> QED BY <1>2, <2>1, <2>2, <2>4, SizeAssumption DEF DataLength, DataLengthAs
<1> QED BY <1>1, <1>2

\* The interrupt reads while the thread writes, or is about to read.
LEMMA IsrReadStep ==
    ASSUME FInv, IsrRead, ~torn, ~torn'
    PROVE  FInv' /\ (Abs!Write \/ Abs!Read)
<1>0. /\ put' = put /\ setup' = setup /\ rx_ready' = rx_ready /\ th' = th
      /\ setup.writes /\ (th.op = "read" => th.pc = "load") /\ ~(f.head = Size /\ f.tail = 0)
  BY DEF IsrRead
<1>1. th \in Threads /\ f \in Loose /\ put \in Nat /\ th.n \in 0 .. Size /\ got \in Seq(Nat)
  BY DEF FInv, TypeOK, Threads
<1> DEFINE g == Settle(f)
<1>16. /\ g \in Fifo /\ g.head = Wrapped(f.head) /\ g.tail = f.tail /\ g.buf = f.buf
       /\ f.head # Size => g = f
  BY <1>1, SettleFacts
<1>2. DataLength(f) = Data(g) /\ Data(g) \in Nat /\ Data(g) < Size
  BY <1>0, <1>1, <1>16, LooseLength, FifoLength
<1> HIDE DEF g
<1>3. PICK m \in 1 .. MaxChunk :
          /\ got' = got \o Peek(f, Least(m, DataLength(f)))
          /\ f' = [f EXCEPT !.tail = Wrapped(Moved(@, Least(m, DataLength(f))))]
          /\ DataLength(f) > 0
  BY DEF IsrRead, Record
<1>4. PICK n \in 1 .. Data(g) : n = Least(m, DataLength(f))
  BY <1>2, <1>3, ChunkAssumption DEF Least
<1>5. got' = got \o Peek(f, n) /\ f' = [f EXCEPT !.tail = Wrapped(Moved(@, n))]
  BY <1>3, <1>4
<1>17. g.head \in InRing /\ g.tail \in Index
  BY <1>16 DEF Fifo
<1>6. /\ Wrapped(Moved(f.tail, n)) \in Index
      /\ Between(g.head, Wrapped(Moved(f.tail, n))) = Data(g) - n
  BY <1>16, <1>17, TailMoves DEF Data
<1>7. /\ f' \in Loose /\ f'.tail = Wrapped(Moved(f.tail, n)) /\ f'.head = f.head /\ f'.buf = f.buf
  BY <1>1, <1>5, <1>6 DEF Loose
<1>9. Peek(f, n) \in Seq(Nat)
  <2>1. n \in 0 .. Size /\ n \in Nat
    BY <1>2, SizeAssumption
  <2>2. Peek(g, n) \in Seq(Nat)
    BY <1>16, <2>1, PeekFacts
  <2> QED BY <1>1, <2>1, <2>2, PeekSettled DEF g
<1>10. got' \in Seq(Nat)
  BY <1>1, <1>5, <1>9, ConcatProperties
<1>11. Taken = <<>> /\ Taken' = <<>>
  BY <1>0 DEF Taken
<1>12. (got \o Taken)' = (got \o Taken) \o Peek(f, n)
  BY <1>1, <1>5, <1>10, <1>11, ConcatEmptySeq
<1>13. Abs!Read
  <2>1. n \in 1 .. Data(Settle(f))
    BY DEF g
  <2> QED BY <1>0, <1>1, <1>7, <1>12, <2>1, ReadRefines
<1>14. TypeOK' /\ Sides'
  BY <1>0, <1>7, <1>10 DEF FInv, TypeOK, Sides
<1>15. Computed'
  <2>1. CASE f.head = Size
    BY <1>0, <2>1 DEF FInv, Sides, Computed
  <2>2. CASE f.head # Size
    <3>0. g = f /\ Data(f') = Data(f) - n /\ Data(f) \in Nat /\ Data(f) < Size /\ n \in Nat
          /\ f.head \in InRing /\ f.tail \in Index
      BY <1>2, <1>6, <1>7, <1>16, <1>17, <2>2 DEF Data
    <3>1. ASSUME th.op = "write", th.pc = "length" PROVE Data(th) >= Data(f') /\ th.head = f'.head
      <4>1. Data(th) >= Data(f) /\ th.head = f.head /\ Data(th) \in InRing
        BY <1>1, <3>1, LengthIsBetween DEF FInv, Computed, Threads, Data
      <4> QED BY <1>7, <3>0, <4>1, SizeAssumption DEF InRing
    <3>2. ASSUME th.op = "write", th.pc \in {"copy", "move"} PROVE th.n <= Size - 1 - Data(f')
      <4>1. th.n <= Size - 1 - Data(f)
        BY <3>2 DEF FInv, Computed
      <4> QED BY <1>1, <3>0, <4>1, SizeAssumption
    <3>3. ASSUME th.op = "write", th.pc = "move"
          PROVE  \A i \in 1 .. th.n : f'.buf[Slot(f'.head, i)] = put + i
      BY <1>7, <3>3 DEF FInv, Computed
    <3> QED BY <1>0, <3>1, <3>2, <3>3 DEF Computed
  <2> QED BY <2>1, <2>2
<1> QED BY <1>13, <1>14, <1>15 DEF FInv

-----------------------------------------------------------------------------
\* Until the two ends have got in each other's way.
IInv == torn \in BOOLEAN /\ (~torn => FInv)

LEMMA TornIsBoolean ==
    ASSUME torn \in BOOLEAN, [Next]_vars
    PROVE  torn' \in BOOLEAN /\ (torn => torn')
BY DEF Next, vars, BeginWrite, BeginRead, BeginConnect, Ready, Disconnect, Load, Length, Copy, Move,
       Wrap, Finish, IsrWrite, IsrRead

LEMMA StepRefines ==
    ASSUME FInv, [Next]_vars, torn \in BOOLEAN, torn' \in BOOLEAN, ~torn, ~torn'
    PROVE  FInv' /\ ((Abs!Write \/ Abs!Read) \/ UNCHANGED Abs!vars)
<1>0. torn' = torn
  OBVIOUS
<1>1. CASE UNCHANGED vars
  <2>1. FInv'
    BY <1>1 DEF vars, FInv, TypeOK, Sides, Computed
  <2>2. Stutters
    BY <1>1 DEF vars, Stutters, Taken
  <2> QED BY <1>0, <2>1, <2>2, StutterRefines
<1>2. CASE BeginWrite \/ BeginRead \/ BeginConnect \/ Ready \/ Disconnect
  BY <1>0, <1>2, BeginStep, StutterRefines
<1>3. CASE Load \/ Length
  BY <1>0, <1>3, LoadStep, LengthStep, StutterRefines
<1>4. CASE Copy \/ Move \/ Wrap \/ Finish
  BY <1>4, CopyStep, MoveStep, WrapStep, FinishStep
<1>5. CASE IsrWrite \/ IsrRead
  BY <1>5, IsrWriteStep, IsrReadStep
<1> QED BY <1>1, <1>2, <1>3, <1>4, <1>5 DEF Next

(* For every buffer size, every length of the calls, every use and every      *)
(* build: with one end in a thread, the other in an interrupt that comes      *)
(* between any two steps of it, no bytes of the fifo stream are lost,         *)
(* repeated or reordered, none is read before it is stored, and none is       *)
(* overwritten before it is read, until one end has used an index that the    *)
(* other was changing, in one of the three ways that ImplementsFifo names.    *)
THEOREM StreamImplementsFifo == Spec => ImplementsFifo
<1>1. Init => IInv /\ Abs!Init
  BY InitFInv DEF IInv, Init
<1>2. ASSUME IInv, [Next]_vars
      PROVE  IInv' /\ [Abs!Next]_Abs!vars
  <2>1. torn' \in BOOLEAN /\ (torn => torn')
    BY <1>2, TornIsBoolean DEF IInv
  <2>2. CASE torn'
    BY <2>1, <2>2 DEF IInv, Abs!Next
  <2>3. CASE ~torn'
    <3>1. ~torn /\ FInv /\ torn \in BOOLEAN
      BY <1>2, <2>1, <2>3 DEF IInv
    <3>2. FInv' /\ ((Abs!Write \/ Abs!Read) \/ UNCHANGED Abs!vars)
      BY <1>2, <2>1, <2>3, <3>1, StepRefines
    <3> QED BY <2>1, <2>3, <3>1, <3>2 DEF IInv, Abs!Next
  <2> QED BY <2>2, <2>3
<1>3. IInv /\ [Next]_vars => IInv' /\ [Abs!Next]_Abs!vars
  BY <1>2
<1> QED BY <1>1, <1>3, PTL DEF Spec, ImplementsFifo, Abs!Spec
=============================================================================
