--------------------------------- MODULE Eigen -------------------------------
(***************************************************************************)
(* The capture of an Eigen module (message_handle_eigen of main.c) and its *)
(* ram dump (eigen.c), which begins in the middle of the log when a packet *)
(* announces it.                                                           *)
(*                                                                         *)
(* The module names its memory as cells [addr, len]; the dump is one file, *)
(* the cells in order with zeros between them.  Addresses and lengths are  *)
(* in blocks, a block of the file is its address or Zero.  An answer is    *)
(* the list of blocks asked for; the host checks its checksum and length,  *)
(* not its sequence number.                                                *)
(***************************************************************************)
EXTENDS Integers, Sequences, SequencesExt

CONSTANTS EigenCells,    \* the module's memory: a sequence of [addr, len]
          ReadMax,       \* dwUsbMaxDataLen, in blocks
          ReadTimes,     \* MAX_RETRY_TIME / 2, the limit of nReadTime
          CellMax,       \* the size of RDReqCell
          AddrHalf,      \* 2^31: addresses are uint32_t, the length of the padding an int
          EigenLimit,    \* logfile_sz, in packets
          EigenPackets,  \* bound: packets of the log
          EigenSessions, \* bound: sessions, each with at most one dump
          EigenAhead,    \* bound: requests on the way to the module
          EigenFaults    \* bound: failures, lost requests, broken answers

ASSUME EigenAssumption ==
    /\ EigenCells \in Seq([addr : Nat, len : Nat]) /\ EigenCells # <<>>
    /\ {ReadMax, ReadTimes, CellMax, AddrHalf, EigenLimit, EigenSessions} \subseteq Nat \ {0}
    /\ {EigenPackets, EigenAhead, EigenFaults} \subseteq Nat

Zero == -1

NoCell == [addr |-> 0, len |-> 0]

VARIABLES
    eState,    \* where the main thread is
    eSession,  \* number of the session
    ePacket,   \* packets received
    eLogs,     \* the log files: sequences of packets
    eTriggers, \* history: the packets that began a dump
    eOpen,     \* logfile_fd is open
    eCells,    \* RDReqCell
    eCount,    \* RDReqCell_count
    eCell,     \* i, the cell being read
    eRead,     \* nReadLen
    eReq,      \* newReadData: the request for data
    eTime,     \* nReadTime
    eFile,     \* the blocks of the dump file
    eRet,      \* what the last enigen_catch_dump returned
    eOut,      \* requests the module has not handled
    eIn,       \* answers the host has not read
    eFaults,   \* faults left
    eLate      \* history: a request was repeated while the module still had it

eLogVars == <<eSession, ePacket, eLogs, eTriggers, eOpen>>
eDumpVars == <<eCells, eCount, eCell, eRead, eReq, eTime, eFile>>
eLineVars == <<eOut, eIn, eLate>>
eigenVars == <<eState, eLogVars, eDumpVars, eRet, eLineVars, eFaults>>

EigenFresh ==
    /\ ePacket = 0 /\ eLogs = <<>> /\ eTriggers = {} /\ eOpen = FALSE
    /\ eCells = [i \in 1 .. CellMax |-> NoCell] /\ eCount = 0 /\ eCell = 1
    /\ eRead = 0 /\ eReq = NoCell /\ eTime = 0 /\ eFile = <<>> /\ eRet = 0
    /\ eOut = <<>> /\ eIn = <<>> /\ eLate = FALSE /\ eFaults = EigenFaults

EigenInit == eState = "log" /\ eSession = 1 /\ EigenFresh

\* No module of this kind is captured.
EigenAbsent == eState = "end" /\ eSession = EigenSessions /\ EigenFresh

EFault == eFaults > 0 /\ eFaults' = eFaults - 1

\* Mutant: the packet that reaches the limit is not written.
StampedBelow(log, p) == IF Len(log) + 1 < EigenLimit THEN Append(log, p) ELSE log

\* eigen_logfile_save: the packet under its time stamp.
Stamped(log, p) == Append(log, p)

\* A packet of the log: the file is created if none is open, the packet saved
\* under a time stamp, the file closed once the packets in it reach the limit.
\* A file that cannot be created or a short write ends the session.
EigenSave ==
    /\ eState = "log" /\ ePacket < EigenPackets /\ ePacket' = ePacket + 1
    /\ LET logs == IF eOpen THEN eLogs ELSE Append(eLogs, <<>>)
           log == Stamped(logs[Len(logs)], ePacket')
       IN \/ /\ eLogs' = [logs EXCEPT ![Len(logs)] = log]
             /\ eOpen' = (Len(log) < EigenLimit)
             /\ UNCHANGED <<eState, eFaults>>
          \/ EFault /\ eState' = "end" /\ eOpen' = FALSE /\ eLogs' = eLogs
    /\ UNCHANGED <<eSession, eTriggers, eDumpVars, eRet, eLineVars>>

EigenReadFails ==
    /\ eState = "log" /\ EFault
    /\ eState' = "end" /\ eOpen' = FALSE
    /\ UNCHANGED <<eSession, ePacket, eLogs, eTriggers, eDumpVars, eRet, eLineVars>>

\* enigen_catch_dump finds the pattern of an assert in a packet, which was read
\* and is never saved: SyncStart.
EigenTrigger ==
    /\ eState = "log" /\ ePacket < EigenPackets /\ ePacket' = ePacket + 1
    /\ eTriggers' = eTriggers \cup {ePacket'} /\ eState' = "sync"
    /\ UNCHANGED <<eSession, eLogs, eOpen, eDumpVars, eRet, eLineVars, eFaults>>

\* Mutant: the log is left open.
DumpReturnsOpen(ret) == eState' = "end" /\ eRet' = ret /\ UNCHANGED eOpen

\* The dump returns 1 or -1; the log is closed and the session over.
DumpReturns(ret) == eState' = "end" /\ eRet' = ret /\ eOpen' = FALSE

\* SyncStart, SendGetInfoUsb, the space on disk or the file fails.
EigenDumpFails ==
    /\ eState \in {"sync", "info", "create"} /\ EFault /\ DumpReturns(-1)
    /\ UNCHANGED <<eSession, ePacket, eLogs, eTriggers, eDumpVars, eLineVars>>

\* okokok and DUMPDUMP, each repeated until the module answers DUMPDUMP.
SyncStart ==
    /\ eState = "sync" /\ eState' = "info" /\ eIn' = <<>> /\ eOut' = <<>>
    /\ UNCHANGED <<eLogVars, eDumpVars, eRet, eLate, eFaults>>

\* The cells are stored from the first entry on, and added to the count.
SendGetInfoUsb ==
    /\ eState = "info" /\ eState' = "create"
    /\ eCells' = [i \in DOMAIN eCells |-> IF i \in DOMAIN EigenCells THEN EigenCells[i] ELSE eCells[i]]
    /\ eCount' = eCount + Len(EigenCells)
    /\ UNCHANGED <<eLogVars, eCell, eRead, eReq, eTime, eFile, eRet, eLineVars, eFaults>>

\* Entry to GetDumpDataUsb for a cell: the first request is for the most.
StartCell(i) ==
    /\ eCell' = i /\ eRead' = 0 /\ eTime' = 0
    /\ eReq' = [addr |-> eCells[i].addr, len |-> ReadMax]

CreateDump ==
    /\ eState = "create" /\ eState' = "request" /\ eFile' = <<>> /\ eLate' = FALSE
    /\ StartCell(1)
    /\ UNCHANGED <<eLogVars, eCells, eCount, eRet, eOut, eIn, eFaults>>

MoreData == eRead < eCells[eCell].len

\* SendCommand, SendRamDumpAck: the request goes out.
SendRamDumpAck(req) == eOut' = Append(eOut, req)

\* The request is sent; a send that fails goes round the loop again.
RequestData ==
    /\ eState = "request" /\ MoreData /\ eTime < ReadTimes /\ Len(eOut) < EigenAhead
    /\ eState' = "receive" /\ SendRamDumpAck(eReq)
    /\ UNCHANGED <<eLogVars, eDumpVars, eRet, eIn, eLate, eFaults>>

\* WaitRamDumpAckAndData: something has come within its time.
AckAndData == eIn # <<>>

\* A whole answer with a good checksum is written and the request moves on by
\* its length; the last request is for what is left.  What was read beyond the
\* answer is dropped.
ReceiveData ==
    /\ eState = "receive" /\ AckAndData /\ eIn[1].ok
    /\ \E k \in 1 .. Len(eIn) : eIn' = SubSeq(eIn, k + 1, Len(eIn))
    /\ LET n == Len(eIn[1].data)
           left == eCells[eCell].len - (eRead + n)
       IN /\ eFile' = eFile \o eIn[1].data
          /\ eRead' = eRead + n
          /\ eReq' = [addr |-> eReq.addr + n, len |-> IF left \in 0 .. ReadMax - 1 THEN left ELSE eReq.len]
    /\ eState' = "request" /\ eTime' = 0
    /\ UNCHANGED <<eLogVars, eCells, eCount, eCell, eRet, eOut, eLate, eFaults>>

BadChecksum ==
    /\ eState = "receive" /\ AckAndData /\ ~eIn[1].ok
    /\ eIn' = Tail(eIn) /\ eTime' = eTime + 1 /\ eState' = "request"
    /\ UNCHANGED <<eLogVars, eCells, eCount, eCell, eRead, eReq, eFile, eRet, eOut, eLate, eFaults>>

\* No whole answer in time: the request is sent again, and this is not counted.
AnswerTimeout ==
    /\ eState = "receive" /\ ~AckAndData /\ eState' = "request"
    /\ eLate' = (eLate \/ eOut # <<>>)
    /\ UNCHANGED <<eLogVars, eDumpVars, eRet, eOut, eIn, eFaults>>

\* The int that has the low 32 bits of x.
Signed(x) ==
    LET r == x % (2 * AddrHalf) IN IF r < AddrHalf THEN r ELSE r - 2 * AddrHalf

\* Mutant: the last address of a cell is taken for the first one behind it.
PaddingLong(i) ==
    [j \in 1 .. Signed(eCells[i + 1].addr - (eCells[i].addr + eCells[i].len - 1)) |-> Zero]

\* PaddingDumpFile: zeros up to the next cell.  When it lies before, the length
\* is negative and there are none, or, for a distance above 2^31, it has wrapped.
Padding(i) ==
    [j \in 1 .. Signed(eCells[i + 1].addr - (eCells[i].addr + eCells[i].len)) |-> Zero]

CellDone ==
    /\ eState = "request" /\ ~MoreData /\ eTime < ReadTimes /\ eCell < eCount
    /\ eFile' = eFile \o Padding(eCell)
    /\ StartCell(eCell + 1)
    /\ UNCHANGED <<eState, eLogVars, eCells, eCount, eRet, eLineVars, eFaults>>

\* The finish command after the last cell; a failing send fails the dump.
LastCellDone ==
    /\ eState = "request" /\ ~MoreData /\ eTime < ReadTimes /\ eCell = eCount
    /\ \/ DumpReturns(1) /\ UNCHANGED eFaults
       \/ EFault /\ DumpReturns(-1)
    /\ UNCHANGED <<eSession, ePacket, eLogs, eTriggers, eDumpVars, eLineVars>>

\* Mutant: the limit is off by one.
TooManyErrorsLate ==
    /\ eState = "request" /\ eTime > ReadTimes /\ DumpReturns(-1)
    /\ UNCHANGED <<eSession, ePacket, eLogs, eTriggers, eDumpVars, eLineVars, eFaults>>

TooManyErrors ==
    /\ eState = "request" /\ eTime >= ReadTimes /\ DumpReturns(-1)
    /\ UNCHANGED <<eSession, ePacket, eLogs, eTriggers, eDumpVars, eLineVars, eFaults>>

\* With -e main opens the device again and a new session begins.
EigenRestart ==
    /\ eState = "end" /\ eSession < EigenSessions
    /\ eState' = "log" /\ eSession' = eSession + 1 /\ eRet' = 0
    /\ UNCHANGED <<ePacket, eLogs, eTriggers, eOpen, eDumpVars, eLineVars, eFaults>>

\* The module reads a request and answers it; the request or the answer may be
\* lost, the answer damaged.
EigenAnswers ==
    /\ eOut # <<>> /\ eState \in {"request", "receive"}
    /\ eOut' = Tail(eOut)
    /\ LET blocks == [i \in 1 .. eOut[1].len |-> eOut[1].addr + i - 1]
       IN \/ eIn' = Append(eIn, [ok |-> TRUE, data |-> blocks]) /\ UNCHANGED eFaults
          \/ EFault /\ eIn' \in {eIn, Append(eIn, [ok |-> FALSE, data |-> blocks])}
    /\ UNCHANGED <<eState, eLogVars, eDumpVars, eRet, eLate>>

EigenHost ==
    \/ SyncStart \/ SendGetInfoUsb \/ CreateDump \/ RequestData \/ ReceiveData
    \/ BadChecksum \/ AnswerTimeout \/ CellDone \/ LastCellDone \/ TooManyErrors

EigenNext ==
    \/ EigenSave \/ EigenReadFails \/ EigenTrigger \/ EigenDumpFails \/ EigenHost
    \/ EigenRestart \/ EigenAnswers

EigenFair == WF_eigenVars(EigenHost) /\ WF_eigenVars(EigenAnswers)

EigenSpec == EigenInit /\ [][EigenNext]_eigenVars /\ EigenFair
-----------------------------------------------------------------------------

\* The types of the state; the cells counted stay within RDReqCell for the
\* number of dumps of this instance, and the error count within its limit.
EigenTypeOK ==
    /\ eState \in {"log", "sync", "info", "create", "request", "receive", "end"}
    /\ eRet \in {-1, 0, 1} /\ eTime \in 0 .. ReadTimes
    /\ eCount \in 0 .. CellMax /\ eCell \in 1 .. CellMax
    /\ eOpen => eState # "end" /\ eLogs # <<>>
    /\ \A i \in DOMAIN eFile : eFile[i] \in Nat \cup {Zero}

Whole(c) == c.len >= ReadMax

\* The end of the module's memory, and how far from there a cell at 0 seems to be.
MemoryEnd == LET last == EigenCells[Len(EigenCells)] IN last.addr + last.len

Wrapped == Signed(0 - MemoryEnd)

\* A dump reported as caught is the image of the module's memory from its first
\* cell to its last, each block at the offset of its address and zeros between
\* the cells; as long as no request was repeated while the first one was still to
\* be answered and no cell is shorter than the first request for it
\* (GetDumpDataUsb).  A later dump, for which the cells are counted again, has the
\* same image, and zeros behind it only if the memory ends above 2^31: as many as
\* the 32-bit difference to the address 0 of the cell that was never filled.
EigenImage ==
    (eRet = 1 /\ ~eLate /\ \A i \in DOMAIN EigenCells : Whole(EigenCells[i])) =>
        LET base == EigenCells[1].addr
            InCell(a) == \E i \in DOMAIN EigenCells : a \in EigenCells[i].addr .. EigenCells[i].addr + EigenCells[i].len - 1
        IN  /\ Len(eFile) = (MemoryEnd - base) + IF eCount > Len(EigenCells) /\ Wrapped > 0 THEN Wrapped ELSE 0
            /\ \A i \in DOMAIN eFile : eFile[i] = IF InCell(base + i - 1) THEN base + i - 1 ELSE Zero

\* The packets after a, up to b, all began a dump.
OnlyTriggers(a, b) == a <= b /\ a + 1 .. b \subseteq eTriggers

\* The packets of the log are on disk in the order they came: within a file none
\* is missing, and from one file to the next, before the first and behind the
\* last only those are that announced a dump, which are looked at and not saved;
\* as long as nothing failed (message_handle_eigen, eigen_logfile_save).
EigenLogged ==
    eFaults = EigenFaults =>
        /\ \A i \in DOMAIN eLogs :
              /\ eLogs[i] # <<>> /\ \A k \in DOMAIN eLogs[i] : eLogs[i][k] = eLogs[i][1] + k - 1
              /\ OnlyTriggers(IF i = 1 THEN 0 ELSE Last(eLogs[i - 1]), eLogs[i][1] - 1)
        /\ OnlyTriggers(IF eLogs = <<>> THEN 0 ELSE Last(Last(eLogs)), ePacket)

\* What the log and the dumps between its files leave on disk is what the
\* module sent.
EigenFiles == EigenImage /\ EigenLogged

\* A dump that began comes to an end when the module keeps answering, whichever
\* requests are lost and answers damaged.
EigenDumpEnds == (eState = "sync") ~> (eState = "end")
==============================================================================
