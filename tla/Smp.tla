--------------------------------- MODULE Smp ---------------------------------
(***************************************************************************)
(* The reassembly of SMP packets from the log port of a Unisoc module      *)
(* (unisoc_proc_log_buf): a packet is SMP_START_LEN start bytes, a header  *)
(* with a checksum, and header.len bytes, the header included.  What is    *)
(* left of a chunk waits in unisoc_log_buf, whose size is limited, for the *)
(* next one.  A header that fails a check is skipped byte by byte.         *)
(*                                                                         *)
(* A byte of the stream is "7e", "d" for any other one, or h(n), the       *)
(* header of a packet of n bytes (the header is one byte here).            *)
(***************************************************************************)
EXTENDS Integers, Sequences

CONSTANTS SmpStart,    \* SMP_START_LEN
          SmpMax,      \* unisoc_log_max
          SmpChunk,    \* the largest part of a read handed to unisoc_proc_log_buf
          SmpStreams   \* the byte streams a module may send

h(n) == <<"h", n>>
StartByte == <<"7e", 0>>
DataByte == <<"d", 0>>

ASSUME SmpAssumption ==
    /\ {SmpStart, SmpMax, SmpChunk} \subseteq Nat \ {0}
    /\ \A s \in SmpStreams : \A i \in DOMAIN s :
           s[i] \in {StartByte, DataByte} \/ (s[i][1] = "h" /\ s[i][2] \in Nat \ {0})

VARIABLES smpStream,  \* everything the module sends
          smpPos,     \* number of bytes read so far
          smpBuf,     \* unisoc_log_buf, of unisoc_log_size bytes
          smpSaved,   \* the packets written to the log
          smpDropped  \* a chunk did not fit in the buffer and was dropped

smpVars == <<smpStream, smpPos, smpBuf, smpSaved, smpDropped>>

\* CheckHeader (frm_chk) and the tests of lcn, packet_type and reserved.
CheckHeader(b) == b[1] = "h"

\* Mutant: a header that fails its check stops the loop.
SmpIterationStops(r, b) ==
    LET at == r.cur + SmpStart + 1
    IN  IF at > Len(b) THEN [r EXCEPT !.more = FALSE]
        ELSE IF \E i \in 1 .. SmpStart : b[r.cur + i] # StartByte THEN [r EXCEPT !.cur = @ + 1]
        ELSE [r EXCEPT !.more = FALSE]

\* One iteration of the loop on buffer b: r is [cur, out, more].
SmpIteration(r, b) ==
    LET at == r.cur + SmpStart + 1
    IN  IF at > Len(b) THEN [r EXCEPT !.more = FALSE]
        ELSE IF \E i \in 1 .. SmpStart : b[r.cur + i] # StartByte THEN [r EXCEPT !.cur = @ + 1]
        ELSE IF ~CheckHeader(b[at]) THEN [r EXCEPT !.cur = @ + 1]
        ELSE IF r.cur + SmpStart + b[at][2] > Len(b) THEN [r EXCEPT !.more = FALSE]
        ELSE [r EXCEPT !.cur = @ + SmpStart + b[at][2],
                       !.out = Append(@, SubSeq(b, at, at + b[at][2] - 1))]

\* The loop: the packets found and the position it stops at.
SmpLoop(b) ==
    LET run[n \in 0 .. Len(b) + 1] ==
            IF n = 0 THEN [cur |-> 0, out |-> <<>>, more |-> TRUE]
            ELSE IF run[n - 1].more THEN SmpIteration(run[n - 1], b) ELSE run[n - 1]
    IN  run[Len(b) + 1]

Left(b) == SubSeq(b, SmpLoop(b).cur + 1, Len(b))

SmpFresh ==
    /\ smpPos = 0 /\ smpBuf = <<>> /\ smpSaved = <<>> /\ smpDropped = FALSE

SmpInit ==
    /\ smpStream \in SmpStreams /\ SmpFresh

\* Nothing comes from this port.
SmpAbsent == smpStream = <<>> /\ SmpFresh

\* Mutant: the limit is compared with what waits, as if the chunk took no room.
OverflowsLate(k) == smpBuf # <<>> /\ Len(smpBuf) > SmpMax

\* A chunk that does not fit behind what waits is not looked at.
Overflows(k) == smpBuf # <<>> /\ Len(smpBuf) + k > SmpMax

\* Mutant: what waits is left out when the chunk is looked at.
SmpTakesChunk(k) ==
    LET b == SubSeq(smpStream, smpPos + 1, smpPos + k)
    IN  /\ smpSaved' = smpSaved \o SmpLoop(b).out
        /\ smpBuf' = Left(b)

SmpTakes(k) ==
    LET b == smpBuf \o SubSeq(smpStream, smpPos + 1, smpPos + k)
    IN  /\ smpSaved' = smpSaved \o SmpLoop(b).out
        /\ smpBuf' = Left(b)

\* unisoc_proc_log_buf on the next k bytes.
ProcLogBuf(k) ==
    /\ smpPos + k <= Len(smpStream) /\ smpPos' = smpPos + k
    /\ \/ Overflows(k) /\ smpDropped' = TRUE /\ UNCHANGED <<smpBuf, smpSaved>>
       \/ ~Overflows(k) /\ SmpTakes(k) /\ UNCHANGED smpDropped
    /\ UNCHANGED smpStream

SmpNext == \E k \in 1 .. SmpChunk : ProcLogBuf(k)
-----------------------------------------------------------------------------

\* What waits fits in the buffer it is kept in: a read is cut so that neither a
\* chunk nor what is left of a chunk and the rest before it runs over its end.
SmpFits == Len(smpBuf) <= SmpMax

\* As long as nothing was dropped, where the reads cut the stream does not
\* matter: the packets saved and the bytes kept are those of one read of it all.
SmpSplit ==
    ~smpDropped =>
        LET b == SubSeq(smpStream, 1, smpPos)
        IN  smpSaved = SmpLoop(b).out /\ smpBuf = Left(b)

\* Nothing is dropped as long as no header announces a packet that leaves less
\* than one chunk of room in the buffer: the limit costs no packet of a module
\* that keeps to its packet length.
SmpKept ==
    smpDropped =>
        \E i \in 1 .. smpPos : /\ smpStream[i][1] = "h"
                               /\ SmpStart + smpStream[i][2] + SmpChunk > SmpMax + 1

\* The packets of the log are those the module sent: not what the reads, nor
\* what the size of the buffer, makes of them.
SmpPackets == SmpSplit /\ SmpKept
==============================================================================
