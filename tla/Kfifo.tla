-------------------------------- MODULE Kfifo --------------------------------
(***************************************************************************)
(* One slot of the write cache of tty2tcp.c: struct __kfifo together with  *)
(* kfifo_alloc, kfifo_free and __kfifo_write.  Every log file, the socket  *)
(* pairs of the usbfs readers and the TCP sockets are written through      *)
(* such a slot, on a descriptor made O_NONBLOCK.                           *)
(*                                                                         *)
(* Bytes are identified by the position at which the callers offered them  *)
(* (1, 2, 3, ...); Garbage is the content of memory nobody has written.    *)
(* How many bytes write(2) accepts, and whether it fails, is the           *)
(* environment's choice.  A slot is used by one thread, so one call of     *)
(* __kfifo_write is one step.                                              *)
(***************************************************************************)
EXTENDS Integers, Sequences, FiniteSets

CONSTANTS CacheSize,      \* CACHE_SIZE: a cache at least this large never grows
          CacheStep,      \* cache_step
          MaxChunk,       \* largest size a caller passes (QLOG_BUF_SIZE)
          MallocMayFail,  \* TRUE when malloc may return NULL
          MaxBytes        \* bound: total number of bytes offered

ASSUME KfifoAssumption ==
    /\ CacheSize \in Nat \ {0}
    /\ CacheStep \in Nat \ {0}
    /\ CacheStep <= CacheSize
    /\ MaxChunk \in Nat \ {0}
    /\ MallocMayFail \in BOOLEAN
    /\ MaxBytes \in Nat

VARIABLES fifo,     \* struct __kfifo: [in, out, size, data]
          isOpen,   \* kfifo[idx].fd # -1
          file,     \* the bytes written to the descriptor since kfifo_alloc
          seen,     \* number of bytes offered so far, over all descriptors
          base,     \* value of seen at the last kfifo_alloc
          chunks,   \* <<first, last>> of every chunk offered since kfifo_alloc
          ret       \* what the last kfifo_write returned

vars == <<fifo, isOpen, file, seen, base, chunks, ret>>

Garbage == 0

-----------------------------------------------------------------------------
(* The structure and the steps of __kfifo_write.                           *)

Unused(f) == f.size - f.in

Used(f) == f.in - f.out

EmptyFifo == [in |-> 0, out |-> 0, size |-> 0, data |-> [i \in 0 .. -1 |-> Garbage]]

\* in survives: the bytes of the previous file are still pending.
ResetOutOnly(f) == [f EXCEPT !.out = 0]

Reset(f) == [in |-> 0, out |-> 0, size |-> f.size, data |-> f.data]

\* in and out are reset without the memmove.
CompactNoMove(f, n) ==
    IF Unused(f) < n /\ n < Unused(f) + f.out
    THEN [in |-> Used(f), out |-> 0, size |-> f.size, data |-> f.data]
    ELSE f

\* memmove of the pending bytes to the front, when that makes the chunk fit.
Compact(f, n) ==
    IF Unused(f) < n /\ n < Unused(f) + f.out
    THEN [in   |-> Used(f),
          out  |-> 0,
          size |-> f.size,
          data |-> [i \in 0 .. f.size - 1 |->
                       IF i < Used(f) THEN f.data[f.out + i] ELSE f.data[i]]]
    ELSE f

\* The cache stops growing one step early.
GrowEarlyStop(f, n, mallocOk) ==
    IF Unused(f) < n /\ f.size + CacheStep < CacheSize /\ mallocOk
    THEN [in   |-> Used(f),
          out  |-> 0,
          size |-> f.size + CacheStep,
          data |-> [i \in 0 .. f.size + CacheStep - 1 |->
                       IF i < Used(f) THEN f.data[f.out + i] ELSE Garbage]]
    ELSE f

\* One cache_step more, when the chunk still does not fit and malloc succeeds.
Grow(f, n, mallocOk) ==
    IF Unused(f) < n /\ f.size < CacheSize /\ mallocOk
    THEN [in   |-> Used(f),
          out  |-> 0,
          size |-> f.size + CacheStep,
          data |-> [i \in 0 .. f.size + CacheStep - 1 |->
                       IF i < Used(f) THEN f.data[f.out + i] ELSE Garbage]]
    ELSE f

\* No test for room behind the pending bytes.
AppendUnchecked(f, first, n) ==
    IF f.size = 0
    THEN f
    ELSE [f EXCEPT !.in = f.in + n,
                   !.data = [i \in 0 .. f.size - 1 |->
                                IF i \in f.in .. f.in + n - 1
                                THEN first + (i - f.in) ELSE f.data[i]]]

\* What fits of the chunk is kept, the rest is dropped.
AppendPartial(f, first, n) ==
    LET m == IF Unused(f) < n THEN Unused(f) ELSE n
    IN  [f EXCEPT !.in = f.in + m,
                  !.data = [i \in 0 .. f.size - 1 |->
                               IF i \in f.in .. f.in + m - 1
                               THEN first + (i - f.in) ELSE f.data[i]]]

\* Off by one: a chunk that fits exactly is dropped.
AppendStrict(f, first, n) ==
    IF Unused(f) <= n
    THEN f
    ELSE [in   |-> f.in + n,
          out  |-> f.out,
          size |-> f.size,
          data |-> [i \in 0 .. f.size - 1 |->
                       IF i \in f.in .. f.in + n - 1
                       THEN first + (i - f.in) ELSE f.data[i]]]

\* The chunk first .. first+n-1 is copied behind the pending bytes, or dropped.
Append_(f, first, n) ==
    IF Unused(f) < n
    THEN f
    ELSE [in   |-> f.in + n,
          out  |-> f.out,
          size |-> f.size,
          data |-> [i \in 0 .. f.size - 1 |->
                       IF i \in f.in .. f.in + n - 1
                       THEN first + (i - f.in) ELSE f.data[i]]]

Buffered(f, first, n, mallocOk) ==
    Append_(Grow(Compact(f, n), n, mallocOk), first, n)

\* write(2) took k of the pending bytes.
Drained(f, k) ==
    IF f.out + k = f.in
    THEN Reset(f)
    ELSE [in |-> f.in, out |-> f.out + k, size |-> f.size, data |-> f.data]

Run(first, n) == [i \in 1 .. n |-> first + i - 1]

PendingRun(f, k) == [i \in 1 .. k |-> f.data[f.out + i - 1]]

-----------------------------------------------------------------------------
Init ==
    /\ fifo = EmptyFifo
    /\ isOpen = FALSE
    /\ file = <<>>
    /\ seen = 0
    /\ base = 0
    /\ chunks = {}
    /\ ret = 0

KfifoAlloc ==
    /\ ~isOpen
    /\ isOpen' = TRUE
    /\ fifo' = Reset(fifo)
    /\ file' = <<>>
    /\ base' = seen
    /\ chunks' = {}
    /\ UNCHANGED <<seen, ret>>

KfifoFree ==
    /\ isOpen
    /\ isOpen' = FALSE
    /\ fifo' = Reset(fifo)
    /\ UNCHANGED <<file, seen, base, chunks, ret>>

Offered(n) ==
    /\ isOpen
    /\ seen + n <= MaxBytes
    /\ seen' = seen + n
    /\ chunks' = chunks \cup {<<seen + 1, seen + n>>}
    /\ UNCHANGED <<isOpen, base>>

\* The cache is empty and write(2) takes the whole chunk.
WriteThrough(n) ==
    /\ Offered(n)
    /\ fifo.out = fifo.in
    /\ file' = file \o Run(seen + 1, n)
    /\ ret' = n
    /\ UNCHANGED fifo

\* The cache is empty and write(2) fails with ECONNRESET.
WriteReset(n) ==
    /\ Offered(n)
    /\ fifo.out = fifo.in
    /\ ret' = 0
    /\ UNCHANGED <<fifo, file>>

\* write(2) took k < n bytes, or none because the cache is not empty or the
\* write failed (EAGAIN, ENOSPC, ...); the rest goes through the cache, of
\* which a second write(2) takes d bytes or fails, with ECONNRESET if reset.
WriteCached(n, k, mallocOk, reset) ==
    /\ Offered(n)
    /\ k < n
    /\ k > 0 => fifo.out = fifo.in
    /\ LET f == Buffered(fifo, seen + k + 1, n - k, mallocOk)
       IN  \E d \in 0 .. Used(f) :
              /\ reset => d = 0 /\ Used(f) > 0
              /\ file' = file \o Run(seen + 1, k) \o PendingRun(f, d)
              /\ fifo' = IF d > 0 THEN Drained(f, d) ELSE f
              /\ ret' = IF reset THEN 0 ELSE n

KfifoWrite(n) ==
    \/ WriteThrough(n)
    \/ WriteReset(n)
    \/ \E k \in 0 .. n - 1, mallocOk \in {TRUE, ~MallocMayFail}, reset \in BOOLEAN :
          WriteCached(n, k, mallocOk, reset)

Next ==
    \/ KfifoAlloc
    \/ KfifoFree
    \/ \E n \in 1 .. MaxChunk : KfifoWrite(n)

Spec == Init /\ [][Next]_vars

-----------------------------------------------------------------------------
(* Properties.                                                             *)

FifoOK(f) ==
    /\ f.in \in Nat /\ f.out \in Nat /\ f.size \in Nat
    /\ f.out <= f.in
    /\ f.in <= f.size
    /\ f.size < CacheSize + CacheStep
    /\ f.data \in [0 .. f.size - 1 -> Nat]

\* The structure stays well formed: out <= in <= size, and the memory never
\* outgrows CACHE_SIZE by a whole cache_step (__kfifo_write, kfifo_alloc).
TypeOK ==
    /\ FifoOK(fifo)
    /\ isOpen \in BOOLEAN
    /\ file \in Seq(Nat)
    /\ seen \in Nat
    /\ base \in Nat
    /\ chunks \subseteq Nat \X Nat
    /\ ret \in Nat

PendingBytes == {fifo.data[i] : i \in fifo.out .. fifo.in - 1}

FileBytes == {file[i] : i \in 1 .. Len(file)}

Kept == FileBytes \cup PendingBytes

\* What reaches a descriptor is offered data of this descriptor, in the order
\* it was offered and never twice, whatever partial writes, compactions and
\* reallocations happen in between; the pending bytes continue the file.  No
\* uninitialised byte and no byte of the slot's previous file shows up.
InOrder ==
    /\ \A i \in 1 .. Len(file) : file[i] \in base + 1 .. seen
    /\ \A i, j \in 1 .. Len(file) : i < j => file[i] < file[j]
    /\ \A i \in fifo.out .. fifo.in - 1 : fifo.data[i] \in base + 1 .. seen
    /\ \A i, j \in fifo.out .. fifo.in - 1 : i < j => fifo.data[i] < fifo.data[j]
    /\ \A i \in 1 .. Len(file), j \in fifo.out .. fifo.in - 1 : file[i] < fifo.data[j]

\* A chunk is never torn: while the descriptor is open, either all of its bytes
\* are in the file or pending, or none is.  (Holds when no chunk exceeds
\* cache_step and malloc succeeds: a chunk that has been written in part finds
\* an empty cache, and one growth of it makes room for the rest.)
NoTornChunk ==
    isOpen => \A c \in chunks : \/ c[1] .. c[2] \subseteq Kept
                                \/ (c[1] .. c[2]) \cap Kept = {}

\* __kfifo_write loses a chunk it reports as written only when the cache has
\* its full size and the chunk would fill it up.
DropOnlyWhenFull ==
    [][(seen' > seen /\ ret' # 0 /\ seen' \notin Kept') =>
          /\ fifo'.size >= CacheSize
          /\ Used(fifo) + (seen' - seen) >= fifo'.size]_vars

-----------------------------------------------------------------------------
(* The cache implements the lossy stream.                                  *)

Stream == INSTANCE LossyStream WITH pending <- PendingRun(fifo, Used(fifo))

\* Every call of kfifo_alloc, kfifo_free and kfifo_write is a step of the
\* buffer-free stream, or changes nothing of it.
ImplementsLossyStream == Stream!Spec

==============================================================================
