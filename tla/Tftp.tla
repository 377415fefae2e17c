--------------------------------- MODULE Tftp --------------------------------
(***************************************************************************)
(* The upload of a log file by tftp (tftp.c): tftp_write_request asks the  *)
(* server, then a thread takes the log from a socket pair and sends it     *)
(* block by block, each one (N_DATA is 1) until it is acknowledged.  The   *)
(* log is a sequence of numbered units, a block has BlockSize of them, the *)
(* last block fewer.  The datagrams between the two may be lost but keep   *)
(* their order.                                                            *)
(***************************************************************************)
EXTENDS Integers, Sequences, SequencesExt

CONSTANTS BlockSize,     \* block_size
          BlockNumbers,  \* 2^16: block numbers are uint16_t
          TftpRetry,     \* TFTP_MAX_RETRY
          TftpUnits,     \* bound: length of the log
          TftpFaults     \* bound: lost datagrams, failing sendto, an error of the server

ASSUME TftpAssumption ==
    BlockSize \in Nat \ {0} /\ BlockNumbers \in Nat /\ BlockNumbers > 2 /\ TftpRetry \in Nat \ {0}
    /\ TftpUnits \in Nat /\ TftpFaults \in Nat

Oack == BlockNumbers   \* the answer to the write request; an acknowledgement is its block number

VARIABLES
    tpc,       \* "wrq", "refused", "loop" (tftp_write_thread), "send", "final", "done", "fail", "abort"
    tries,     \* wait_ack
    needSend,  \* need_send
    tx, rx,    \* tx_block; rx_block
    buf,       \* tx_pkt.data, cur of them
    reSend,    \* re_send, of the whole file: nothing resets it when N_DATA is 1
    why,       \* which assertion ended the program: "none", "order", "retry", "error"
    pipe, tlog, tclosed,   \* the socket pair: units not read, units written, the log is closed
    cut,       \* history: a sendto failed, or the thread gave up waiting for the log
    toServer, toClient,    \* datagrams under way
    tserver,   \* file of the server
    tnext,     \* block it expects
    tftpFaults

tftpVars == <<tpc, tries, needSend, tx, rx, buf, reSend, why, pipe, tlog, tclosed, cut, toServer, toClient,
              tserver, tnext, tftpFaults>>

TftpFresh ==
    /\ tries = 0 /\ needSend = TRUE /\ tx = 1 /\ rx = 0 /\ buf = <<>> /\ reSend = 0
    /\ why = "none" /\ pipe = <<>> /\ tlog = 0 /\ tclosed = FALSE /\ cut = FALSE
    /\ toServer = <<>> /\ toClient = <<>> /\ tserver = <<>> /\ tnext = 1 /\ tftpFaults = TftpFaults

TftpInit == tpc = "wrq" /\ TftpFresh

\* No log goes to a tftp server.
TftpAbsent == tpc = "done" /\ TftpFresh

TftpFault == tftpFaults > 0 /\ tftpFaults' = tftpFaults - 1

Block == tx % BlockNumbers

Sending == tpc \in {"send", "final"}

Asserts(which) == tpc' = "abort" /\ why' = which

(* tftp_write_request: the request until an OACK comes, at most TftpRetry times.  The answer is    *)
(* received into the packet of the request: after a refusal it is what is sent.                    *)

Requesting == tpc \in {"wrq", "refused"}

WriteRequest ==
    /\ tpc = "wrq" /\ needSend /\ needSend' = FALSE
    /\ toServer' = Append(toServer, [block |-> Oack, data |-> <<>>])
    /\ UNCHANGED <<tpc, tries, tx, rx, buf, reSend, why, pipe, tlog, tclosed, cut, toClient, tserver, tnext, tftpFaults>>

\* sendto fails: 0 is returned, which the callers take for a failure.
RequestFails ==
    /\ Requesting /\ needSend /\ TftpFault /\ tpc' = "fail"
    /\ UNCHANGED <<tries, needSend, tx, rx, buf, reSend, why, pipe, tlog, tclosed, cut, toServer, toClient, tserver, tnext>>

\* The answer is not an OACK.
RequestRefused ==
    /\ Requesting /\ ~needSend /\ TftpFault /\ tries' = tries + 1 /\ needSend' = TRUE
    /\ tpc' = (IF tries + 1 = TftpRetry THEN "fail" ELSE "refused")
    /\ UNCHANGED <<tx, rx, buf, reSend, why, pipe, tlog, tclosed, cut, toServer, toClient, tserver, tnext>>

\* The refusal goes back to the server, which takes no notice of it.
SendsBack ==
    /\ tpc = "refused" /\ needSend /\ needSend' = FALSE
    /\ UNCHANGED <<tpc, tries, tx, rx, buf, reSend, why, pipe, tlog, tclosed, cut, toServer, toClient, tserver, tnext, tftpFaults>>

RequestTimeout ==
    /\ Requesting /\ ~needSend /\ toClient = <<>> /\ tries' = tries + 1 /\ needSend' = TRUE
    /\ tpc' = (IF tries + 1 = TftpRetry THEN "fail" ELSE tpc)
    /\ UNCHANGED <<tx, rx, buf, reSend, why, pipe, tlog, tclosed, cut, toServer, toClient, tserver, tnext, tftpFaults>>

Requested ==
    /\ Requesting /\ ~needSend /\ toClient # <<>> /\ Head(toClient) = Oack /\ toClient' = Tail(toClient)
    /\ tpc' = "loop" /\ tries' = 0 /\ needSend' = TRUE
    /\ UNCHANGED <<tx, rx, buf, reSend, why, pipe, tlog, tclosed, cut, toServer, tserver, tnext, tftpFaults>>

(* The main thread writes the log into the socket pair and closes it.      *)

WriteLog ==
    /\ tpc \in {"loop", "send"} /\ ~tclosed /\ tlog < TftpUnits /\ tlog' = tlog + 1 /\ pipe' = Append(pipe, tlog + 1)
    /\ UNCHANGED <<tpc, tries, needSend, tx, rx, buf, reSend, why, tclosed, cut, toServer, toClient, tserver, tnext, tftpFaults>>

CloseLog ==
    /\ tpc \in {"loop", "send"} /\ ~tclosed /\ tclosed' = TRUE
    /\ UNCHANGED <<tpc, tries, needSend, tx, rx, buf, reSend, why, pipe, tlog, cut, toServer, toClient, tserver, tnext, tftpFaults>>

(* tftp_write_thread: one turn of its loop.                                *)

KeptByTurn == UNCHANGED <<tries, needSend, tx, rx, tlog, tclosed, toServer, tserver, tnext, tftpFaults>>

\* Mutant: a read is not cut to what is left of the block.
LoopReadsAll ==
    /\ tpc = "loop" /\ pipe # <<>> /\ buf' = buf \o pipe /\ pipe' = <<>>
    /\ tpc' = IF Len(buf') >= BlockSize THEN "send" ELSE "loop"
    /\ KeptByTurn /\ UNCHANGED <<reSend, why, cut, toClient>>

LoopReads ==
    /\ tpc = "loop" /\ pipe # <<>>
    /\ \E n \in 1 .. (IF Len(pipe) < BlockSize - Len(buf) THEN Len(pipe) ELSE BlockSize - Len(buf)) :
         /\ buf' = buf \o SubSeq(pipe, 1, n) /\ pipe' = SubSeq(pipe, n + 1, Len(pipe))
         /\ tpc' = IF Len(buf) + n = BlockSize THEN "send" ELSE "loop"
    /\ KeptByTurn /\ UNCHANGED <<reSend, why, cut, toClient>>

LoopEnds ==
    /\ tpc = "loop" /\ pipe = <<>> /\ tclosed /\ tpc' = "final"
    /\ KeptByTurn /\ UNCHANGED <<buf, pipe, reSend, why, cut, toClient>>

\* poll() timed out: the log was silent once more.
LoopIdle ==
    /\ tpc = "loop" /\ pipe = <<>> /\ ~tclosed /\ toClient = <<>> /\ reSend' = reSend + 1
    /\ IF reSend > TftpRetry THEN tpc' = "final" /\ cut' = TRUE ELSE UNCHANGED <<tpc, cut>>
    /\ KeptByTurn /\ UNCHANGED <<buf, pipe, why, toClient>>

\* An acknowledgement that comes while none is awaited: the last one again, or an assertion fails
\* (no block is under way that it could be for).
LoopAck ==
    /\ tpc = "loop" /\ toClient # <<>> /\ toClient' = Tail(toClient)
    /\ IF Head(toClient) \in {rx, Oack} THEN UNCHANGED <<tpc, why>> ELSE Asserts("order")
    /\ KeptByTurn /\ UNCHANGED <<buf, pipe, reSend, cut>>

(* tftp_send_data_pkt, with is_sync.                                       *)

KeptBySend == UNCHANGED <<reSend, pipe, tlog, tclosed, tserver, tnext>>

SendBlock ==
    /\ Sending /\ needSend /\ tries < TftpRetry /\ needSend' = FALSE
    /\ toServer' = Append(toServer, [block |-> Block, data |-> buf])
    /\ KeptBySend /\ UNCHANGED <<tpc, tries, tx, rx, buf, why, cut, toClient, tftpFaults>>

\* Mutant: the block stays in the buffer.
ReturnedFull ==
    /\ tpc' = (IF tpc = "send" THEN "loop" ELSE "done") /\ rx' = Block /\ tx' = tx + 1 /\ buf' = buf
    /\ tries' = 0 /\ needSend' = TRUE

\* tftp_send_data_pkt returns; its callers do not look at what.
Returned ==
    /\ tpc' = (IF tpc = "send" THEN "loop" ELSE "done") /\ rx' = Block /\ tx' = tx + 1 /\ buf' = <<>>
    /\ tries' = 0 /\ needSend' = TRUE

\* sendto fails: 0 is returned.
SendFails ==
    /\ Sending /\ needSend /\ tries < TftpRetry /\ TftpFault /\ cut' = TRUE /\ Returned
    /\ KeptBySend /\ UNCHANGED <<why, toServer, toClient>>

\* Mutant: timeouts are not counted.
AckTimeoutFree ==
    /\ Sending /\ ~needSend /\ toClient = <<>> /\ needSend' = TRUE
    /\ KeptBySend /\ UNCHANGED <<tpc, tries, why, tx, rx, buf, cut, toServer, toClient, tftpFaults>>

AckTimeout ==
    /\ Sending /\ ~needSend /\ toClient = <<>> /\ tries' = tries + 1 /\ needSend' = TRUE
    /\ IF tries + 1 = TftpRetry THEN Asserts("retry") ELSE UNCHANGED <<tpc, why>>
    /\ KeptBySend /\ UNCHANGED <<tx, rx, buf, cut, toServer, toClient, tftpFaults>>

\* Mutant: any acknowledgement is that of this block.
SendAckAny ==
    /\ Sending /\ ~needSend /\ toClient # <<>> /\ toClient' = Tail(toClient) /\ Returned
    /\ KeptBySend /\ UNCHANGED <<why, cut, toServer, tftpFaults>>

\* The answer: of this block, of another one (wait on, do not send again), or none.
SendAck ==
    /\ Sending /\ ~needSend /\ toClient # <<>> /\ toClient' = Tail(toClient)
    /\ IF Head(toClient) = Block THEN Returned /\ UNCHANGED why
       ELSE /\ tries' = tries + 1 /\ needSend' = (Head(toClient) = Oack)
            /\ IF tries + 1 = TftpRetry THEN Asserts("retry") ELSE UNCHANGED <<tpc, why>>
            /\ UNCHANGED <<tx, rx, buf>>
    /\ KeptBySend /\ UNCHANGED <<cut, toServer, tftpFaults>>

ServerError ==
    /\ Sending /\ ~needSend /\ TftpFault /\ Asserts("error")
    /\ KeptBySend /\ UNCHANGED <<tries, needSend, tx, rx, buf, cut, toServer, toClient>>

(* External: a tftp server takes the block it expects, and acknowledges    *)
(* that and the one before it; any datagram may be lost.                   *)

TftpServer ==
    /\ toServer # <<>> /\ toServer' = Tail(toServer)
    /\ LET d == Head(toServer) IN
       \/ /\ d.block = Oack /\ tnext = 1 /\ toClient' = Append(toClient, Oack) /\ UNCHANGED <<tserver, tnext>>
       \/ /\ d.block # Oack /\ d.block = tnext % BlockNumbers
          /\ tserver' = tserver \o d.data /\ tnext' = tnext + 1 /\ toClient' = Append(toClient, d.block)
       \/ /\ d.block # Oack /\ tnext > 1 /\ d.block = (tnext - 1) % BlockNumbers
          /\ toClient' = Append(toClient, d.block) /\ UNCHANGED <<tserver, tnext>>
       \/ /\ d.block \notin {tnext % BlockNumbers, (tnext - 1) % BlockNumbers} /\ (d.block = Oack => tnext > 1)
          /\ UNCHANGED <<tserver, tnext, toClient>>
    /\ UNCHANGED <<tpc, tries, needSend, tx, rx, buf, reSend, why, pipe, tlog, tclosed, cut, tftpFaults>>

TftpLoses ==
    /\ TftpFault
    /\ \/ toServer # <<>> /\ toServer' = Tail(toServer) /\ UNCHANGED toClient
       \/ toClient # <<>> /\ toClient' = Tail(toClient) /\ UNCHANGED toServer
    /\ UNCHANGED <<tpc, tries, needSend, tx, rx, buf, reSend, why, pipe, tlog, tclosed, cut, tserver, tnext>>

ThreadStep ==
    \/ WriteRequest \/ RequestFails \/ RequestRefused \/ SendsBack \/ RequestTimeout \/ Requested
    \/ LoopReads \/ LoopEnds \/ LoopIdle \/ LoopAck \/ SendBlock \/ SendFails \/ AckTimeout \/ SendAck \/ ServerError

TftpNext == ThreadStep \/ WriteLog \/ CloseLog \/ TftpServer \/ TftpLoses

\* Every poll() has a timeout.
TftpFair == WF_tftpVars(ThreadStep) /\ WF_tftpVars(TftpServer)

TftpSpec == TftpInit /\ [][TftpNext]_tftpVars /\ TftpFair

(***************************************************************************)
(* What the upload promises.                                               *)
(***************************************************************************)

\* Each variable has its type; a block in the buffer is never longer than a block.
TftpTypeOK ==
    /\ tpc \in {"wrq", "refused", "loop", "send", "final", "done", "fail", "abort"}
    /\ tries \in 0 .. TftpRetry /\ rx \in 0 .. BlockNumbers - 1 /\ Len(buf) <= BlockSize
    /\ reSend \in 0 .. TftpRetry + 2 /\ tlog \in 0 .. TftpUnits
    /\ why \in {"none", "order", "retry", "error"}

\* The server's file is the beginning of the log and no more, whatever was lost, sent again or
\* acknowledged twice, and whichever sendto failed, while fewer fail than there are block numbers.
TftpPrefix == tserver = [i \in 1 .. Len(tserver) |-> i] /\ Len(tserver) <= tlog

\* A thread that ended, without a failing sendto and without having given up on the log, has
\* delivered all of it.
TftpComplete == tpc = "done" /\ ~cut => Len(tserver) = tlog

\* The program is not ended by the assertion on the order of acknowledgements, unless a sendto
\* failed: on a network that keeps the order of datagrams, duplicates of older ones are used up
\* while a block is awaited.
TftpInOrder == why = "order" => cut

\* What the client and the server make of a log, through losses, duplicates and
\* the wrap of the block numbers: the file is the log as far as it goes, whole when
\* the thread ends without an error, and no assertion on the order fails.
TftpDelivers == TftpTypeOK /\ TftpPrefix /\ TftpComplete /\ TftpInOrder

\* Once the log is closed the thread ends, by its retries at the latest.
TftpEnds == tclosed ~> tpc \in {"done", "fail", "abort"}
==============================================================================
