----------------------------- MODULE FifoStream -----------------------------
(***************************************************************************)
(* A fifo stream (vsf_fifo_t of component/fundation/buffer/buffer.c under  *)
(* stream_read and stream_write of component/fundation/stream/stream.c)    *)
(* with one end in a thread and the other in an interrupt, as usart_stream *)
(* (component/stream/usart_stream/usart_stream.c) uses it.                 *)
(*                                                                         *)
(* The interrupt runs between any two steps of the thread and from its     *)
(* start to its end, so what it does is one action.  The thread accesses   *)
(* the fifo step by step: it loads the indices, computes the length, copies,*)
(* moves its index, wraps it, and then notifies.  The indices are not      *)
(* volatile: whether they are loaded again for the subtraction after the   *)
(* comparison, and stored before they are wrapped, is up to the compiler.  *)
(*                                                                         *)
(* The bytes are numbered in the order in which they are written.          *)
(***************************************************************************)
EXTENDS Integers, Sequences

CONSTANTS Size,          \* fifo->buffer.size
          MaxChunk,      \* the most bytes in one call
          MaxBytes,      \* bound on the bytes written
          Modulus,       \* 2^32 in the code
          Setups         \* the uses and the builds that are considered

ASSUME SizeAssumption == Size \in Nat \ {0}
ASSUME ChunkAssumption == MaxChunk \in 1 .. Size /\ MaxBytes \in Nat
ASSUME ModulusAssumption == Modulus \in Nat /\ Modulus > 2 * Size

(* writes: the thread is the writing end; callback: its notification makes   *)
(* the thread read, too; reload, twostores: the build loads an index again   *)
(* at each use, and stores it before it is wrapped; connected: the reading   *)
(* end is connected from the start, as usart_stream_init does for the end it *)
(* reads from.                                                               *)
Setup == {s \in [writes : BOOLEAN, callback : BOOLEAN, reload : BOOLEAN,
                 twostores : BOOLEAN, connected : BOOLEAN] :
             IF s.writes THEN s.connected ELSE ~s.callback}
ASSUME SetupsAssumption == Setups \subseteq Setup

VARIABLES setup,     \* one of Setups
          f,         \* head, tail and buf of the vsf_fifo_t
          th,        \* the thread
          rx_ready, tx_ready, overflow, \* of the vsf_stream_t
          wake,      \* on_inout has told the reading thread of data
          put, got,  \* how many bytes were stored, and the bytes read
          torn       \* history: one of the two ends has used an index that the
                     \* other was about to change, or had changed

vars == <<setup, f, th, rx_ready, tx_ready, overflow, wake, put, got, torn>>

\* op: the call under way; n: its size; head, tail: as loaded for the comparison
\* of get_data_length; data: what was copied out; after: where a read returns to.
Thread(pc, op, n, after) ==
    [pc |-> pc, op |-> op, n |-> n, head |-> 0, tail |-> 0, data |-> <<>>, after |-> after]

Idle == Thread("idle", "none", 0, "idle")

(* stream_init; usart_stream_init sets rx_ready itself.                      *)
Init ==
    /\ f = [head |-> 0, tail |-> 0, buf |-> [i \in 0 .. Size - 1 |-> 0]]
    /\ th = Idle
    /\ setup \in Setups
    /\ rx_ready = setup.connected
    /\ tx_ready \in BOOLEAN
    /\ overflow = FALSE /\ wake = FALSE
    /\ put = 0 /\ got = <<>> /\ torn = FALSE

-----------------------------------------------------------------------------
(* vsf_fifo_t                                                                *)
Least(a, b) == IF a < b THEN a ELSE b

\* vsf_fifo_get_data_length; ge is the outcome of its comparison.
DataLengthAs(ge, fifo) ==
    (IF ge THEN fifo.head - fifo.tail ELSE Size - (fifo.tail - fifo.head)) % Modulus

DataLength(fifo) == DataLengthAs(fifo.head >= fifo.tail, fifo)

\* Mutant: the byte that tells full from empty is given away.
AvailLengthFull(len) == Size - len

\* vsf_fifo_get_avail_length, from the data length.
AvailLength(len) ==
    LET free == (Size - len) % Modulus
    IN  IF free > 0 THEN free - 1 ELSE free

\* Where byte i of a copy that starts at an index is.
Slot(start, i) == IF i > Size - start THEN i - (Size - start) - 1 ELSE start + i - 1

\* head or tail after n bytes, before it is wrapped.
Moved(index, n) == IF n > Size - index THEN n - (Size - index) ELSE index + n

Wrapped(index) == IF index = Size THEN 0 ELSE index

\* The memcpy of vsf_fifo_push: the next n bytes of the writer.
CopyIn(fifo, n) ==
    [fifo EXCEPT !.buf = [s \in 0 .. Size - 1 |->
        IF \E i \in 1 .. n : Slot(fifo.head, i) = s
        THEN put + (CHOOSE i \in 1 .. n : Slot(fifo.head, i) = s)
        ELSE fifo.buf[s]]]

\* vsf_fifo_peek
Peek(fifo, n) == [i \in 1 .. n |-> fifo.buf[Slot(fifo.tail, i)]]

-----------------------------------------------------------------------------
(* The thread.                                                               *)
At(pc) == th.pc = pc
Goto(pc) == th' = [th EXCEPT !.pc = pc]

\* stream_write
BeginWrite ==
    /\ setup.writes /\ At("idle")
    /\ \E n \in 1 .. MaxChunk : /\ put + n <= MaxBytes
                                /\ th' = Thread("load", "write", n, "idle")
    /\ UNCHANGED <<setup, f, rx_ready, tx_ready, overflow, wake, put, got, torn>>

\* The reading thread, told of data by on_inout, reads until there is none.
BeginRead ==
    /\ ~setup.writes /\ At("idle") /\ wake
    /\ wake' = FALSE
    /\ th' = Thread("load", "read", MaxChunk, "idle")
    /\ UNCHANGED <<setup, f, rx_ready, tx_ready, overflow, put, got, torn>>

\* stream_connect_rx: on_connect of the reading end, which looks for data if
\* the other end is connected, and then rx_ready.
BeginConnect ==
    /\ ~rx_ready /\ At("idle")
    /\ th' = IF tx_ready THEN Thread("load", "read", MaxChunk, "ready")
                         ELSE Thread("ready", "none", 0, "idle")
    /\ UNCHANGED <<setup, f, rx_ready, tx_ready, overflow, wake, put, got, torn>>

Ready ==
    /\ At("ready")
    /\ rx_ready' = TRUE
    /\ th' = Idle
    /\ UNCHANGED <<setup, f, tx_ready, overflow, wake, put, got, torn>>

\* stream_disconnect_rx
Disconnect ==
    /\ ~setup.writes /\ rx_ready /\ At("idle")
    /\ rx_ready' = FALSE
    /\ UNCHANGED <<setup, f, th, tx_ready, overflow, wake, put, got, torn>>

Load ==
    /\ At("load")
    /\ th' = [th EXCEPT !.pc = "length", !.head = f.head, !.tail = f.tail]
    /\ UNCHANGED <<setup, f, rx_ready, tx_ready, overflow, wake, put, got, torn>>

\* The rest of get_data_length, and what push and pop conclude from it.  The
\* comparison may not hold any more of the indices that are loaded again.
Length ==
    LET len == DataLengthAs(th.head >= th.tail, IF setup.reload THEN f ELSE th)
        size == Least(th.n, len)
    IN  /\ At("length")
        /\ \/ /\ th.op = "write" /\ th.n > AvailLength(len)
              /\ overflow' = TRUE
              /\ th' = Idle
           \/ /\ th.op = "write" /\ th.n <= AvailLength(len)
              /\ Goto("copy") /\ UNCHANGED overflow
           \/ /\ th.op = "read" /\ size = 0
              /\ th' = [Idle EXCEPT !.pc = th.after] /\ UNCHANGED overflow
           \/ /\ th.op = "read" /\ size > 0
              /\ th' = [th EXCEPT !.pc = "copy", !.n = size] /\ UNCHANGED overflow
        /\ torn' = (torn \/ (setup.reload /\ (th.head >= th.tail) # (f.head >= f.tail)))
        /\ UNCHANGED <<setup, f, rx_ready, tx_ready, wake, put, got>>

Copy ==
    /\ At("copy")
    /\ \/ /\ th.op = "write"
          /\ f' = CopyIn(f, th.n) /\ Goto("move")
       \/ /\ th.op = "read"
          /\ th' = [th EXCEPT !.pc = "move", !.data = Peek(f, th.n)] /\ UNCHANGED f
    /\ UNCHANGED <<setup, rx_ready, tx_ready, overflow, wake, put, got, torn>>

\* The index as stored first.
Stored(index) == IF setup.twostores THEN index ELSE Wrapped(index)

\* The assignment that the other end sees.
Move ==
    /\ At("move") /\ Goto("wrap")
    /\ \/ /\ th.op = "write"
          /\ f' = [f EXCEPT !.head = Stored(Moved(@, th.n))] /\ put' = put + th.n
       \/ /\ th.op = "read"
          /\ f' = [f EXCEPT !.tail = Stored(Moved(@, th.n))] /\ UNCHANGED put
    /\ UNCHANGED <<setup, rx_ready, tx_ready, overflow, wake, got, torn>>

Wrap ==
    /\ At("wrap") /\ Goto("finish")
    /\ f' = IF th.op = "write" THEN [f EXCEPT !.head = Wrapped(@)]
                               ELSE [f EXCEPT !.tail = Wrapped(@)]
    /\ UNCHANGED <<setup, rx_ready, tx_ready, overflow, wake, put, got, torn>>

\* The bytes that were handed out are recorded while the two ends are apart.
Record(bytes) == got' = IF torn THEN got ELSE got \o bytes

\* A write notifies the reading end: on_inout of usart_stream is uart_on_tx,
\* which reads, here in the thread.  A read hands out its bytes.
Finish ==
    /\ At("finish")
    /\ \/ /\ th.op = "write"
          /\ th' = IF rx_ready /\ setup.callback THEN Thread("load", "read", MaxChunk, "idle")
                                             ELSE Idle
          /\ UNCHANGED got
       \/ /\ th.op = "read"
          /\ th' = IF setup.writes THEN Idle ELSE Thread("load", "read", MaxChunk, th.after)
          /\ Record(th.data)
    /\ UNCHANGED <<setup, f, rx_ready, tx_ready, overflow, wake, put, torn>>

-----------------------------------------------------------------------------
(* The interrupt: uart_rx_int writes what has arrived, uart_on_tx reads what *)
(* there is room for in the transmitter.                                     *)
IsrWrite ==
    /\ ~setup.writes
    /\ \E n \in 1 .. MaxChunk :
        LET fits == n <= AvailLength(DataLength(f))
            copied == CopyIn(f, n)
        IN  /\ put + n <= MaxBytes
            /\ overflow' = (overflow \/ ~fits)
            /\ put' = IF fits THEN put + n ELSE put
            /\ f' = IF fits THEN [copied EXCEPT !.head = Wrapped(Moved(@, n))] ELSE f
            /\ wake' = (wake \/ (fits /\ rx_ready))
    /\ UNCHANGED <<setup, th, rx_ready, tx_ready, got, torn>>

\* It may find head at the end of the buffer, where all of the buffer seems to
\* be filled once tail has been wrapped; and it may come while the thread reads.
IsrRead ==
    /\ setup.writes /\ DataLength(f) > 0
    /\ torn' = (torn \/ (f.head = Size /\ f.tail = 0) \/ (th.op = "read" /\ th.pc # "load"))
    /\ \E n \in 1 .. MaxChunk :
        LET size == Least(n, DataLength(f))
        IN  /\ Record(Peek(f, size))
            /\ f' = [f EXCEPT !.tail = Wrapped(Moved(@, size))]
    /\ UNCHANGED <<setup, th, rx_ready, tx_ready, overflow, wake, put>>

Next ==
    \/ BeginWrite \/ BeginRead \/ BeginConnect \/ Ready \/ Disconnect
    \/ Load \/ Length \/ Copy \/ Move \/ Wrap \/ Finish
    \/ IsrWrite \/ IsrRead

Spec == Init /\ [][Next]_vars

-----------------------------------------------------------------------------

\* What a read has taken out and not handed out yet.
Taken == IF th.op = "read" /\ th.pc \in {"wrap", "finish"} THEN th.data ELSE <<>>

\* Where the other end is, whether head has been wrapped yet or not.
Settled == [f EXCEPT !.head = Wrapped(@)]

(* stream.h:78 calls the fifo stream available in interrupts.  Wherever the  *)
(* interrupt comes in the middle of a call of the thread, and for every      *)
(* build and use, it is the bounded queue of the bytes stored and not read,  *)
(* until one end has used what the other was changing: a comparison of       *)
(* indices that are loaded again, a head at the end of the buffer with tail  *)
(* wrapped already (buffer.c:273), or a read of the interrupt in the middle  *)
(* of the one that uart_on_tx makes in the thread (usart_stream.c:97).       *)
Abs == INSTANCE FifoAbs WITH Capacity <- Size - 1,
                             q <- Peek(f, DataLength(Settled)),
                             got <- got \o Taken,
                             void <- torn
ImplementsFifo == Abs!Spec
=============================================================================
