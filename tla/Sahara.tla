-------------------------------- MODULE Sahara -------------------------------
(***************************************************************************)
(* The ram dump of a Qualcomm module over the Sahara protocol: sahara.c,   *)
(* started by main.c when the module shows up in its dump mode.            *)
(*                                                                         *)
(* The host is the state machine q_state of sahara_read_dump.  The line    *)
(* from the module carries commands and memory blocks; a block is the unit *)
(* of lengths (16 KB, the smallest request), [cmd |-> "DATA", seg, off] is *)
(* the block at off of segment seg.  Segment 0 is the table that lists the *)
(* segments.  Every receive waits five seconds: a timeout may be early,    *)
(* and the answer to the request may still arrive later.                   *)
(***************************************************************************)
EXTENDS Integers, Sequences, SequencesExt

CONSTANTS SaharaTables,   \* the tables a module may have: sequences of segment lengths
          RawBuf,         \* Q_SAHARA_RAW_BUF_SZ: the largest request, in blocks, and table
          Table32Max,     \* entries of a 32-bit table that fit RawBuf once widened
          Word,           \* 2^32, in blocks
          SaharaFaults    \* bound: lost requests, failed sends and writes

ASSUME SaharaAssumption ==
    /\ \A t \in SaharaTables : t \in Seq(Nat)
    /\ RawBuf \in Nat \ {0} /\ Table32Max \in 0 .. RawBuf /\ Word \in Nat \ {0} /\ SaharaFaults \in Nat

VARIABLES
    q_state,     \* sahara_data.q_state, and where the host is within it
    sahRet,      \* what sahara_catch_dump returned: "none", "true", "false", "exit"
    wide,        \* q_ram_dump_64bit
    maxRead,     \* q_max_ram_dump_read: static, kept from one dump to the next
    sahTable,    \* the module's memory table
    sahSeg,      \* i, the segment being read
    sahCur,      \* cur, the offset within it
    sahLen,      \* len, the length of the request under way
    sahFiles,    \* segment -> the blocks in its file
    fromModule,  \* what the module has sent and the host has not read
    toModule,    \* requests the module has not handled
    sahFaults,   \* faults left
    late,        \* history: a request was given up and its answer may still come
    gap          \* history: a write of a block was short

hostVars == <<q_state, sahRet, wide, maxRead, sahSeg, sahCur, sahLen, sahFiles>>
saharaVars == <<hostVars, sahTable, fromModule, toModule, sahFaults, late, gap>>

Block(s, o) == [cmd |-> "DATA", seg |-> s, off |-> o]

Cmd(c) == [cmd |-> c, seg |-> 0, off |-> 0]

Read(s, o, n) == [cmd |-> "READ", seg |-> s, off |-> o, len |-> n]

Request(c) == [cmd |-> c, seg |-> 0, off |-> 0, len |-> 0]

SaharaFresh ==
    /\ wide = FALSE /\ sahSeg = 1 /\ sahCur = 0 /\ sahLen = 0 /\ sahFiles = <<>>
    /\ toModule = <<>> /\ sahFaults = SaharaFaults /\ late = FALSE /\ gap = FALSE

\* The module may be silent until woken, say hello in dump mode (HELLO) or in
\* another mode, or send something else.
SaharaInit ==
    /\ q_state = "WAIT_ONE" /\ sahRet = "none" /\ SaharaFresh
    /\ maxRead \in {RawBuf \div d : d \in {1, 2}} \ {0}
    /\ sahTable \in SaharaTables
    /\ fromModule \in {<<>>} \cup {<<Cmd(c)>> : c \in {"HELLO", "HELLO_OTHER_MODE", "OTHER"}}

\* No dump of this kind takes place.
SaharaAbsent ==
    /\ q_state = "done" /\ sahRet = "false" /\ SaharaFresh
    /\ maxRead = RawBuf /\ sahTable = <<>> /\ fromModule = <<>>

Fault == sahFaults > 0 /\ sahFaults' = sahFaults - 1

Returns(r) == q_state' = "done" /\ sahRet' = r

\* sahara_tx_data(): the request goes out and the state changes, or the send
\* fails and the dump is over.
Send(request, next) ==
    \/ /\ toModule' = Append(toModule, request)
       /\ q_state' = next
       /\ UNCHANGED <<sahRet, sahFaults>>
    \/ Fault /\ Returns("false") /\ UNCHANGED toModule

send_reset_command == Send(Request("RESET"), "WAIT_THREE")

\* A command the host takes from what it reads: memory read as a header may
\* hold any command.
Commands == {"HELLO", "HELLO_OTHER_MODE", "DEBUG32", "DEBUG64", "DEBUG_INVALID", "RESET_RESP", "OTHER", "UNKNOWN"}

ReadAs(item, c) == IF item.cmd = "DATA" THEN c \in {"OTHER", "UNKNOWN", "RESET_RESP"} ELSE c = item.cmd

\* WAIT_ONE and the second attempt after the wake-up bytes: a hello in dump
\* mode is answered, another mode ends the dump, another command resets.
WaitOne ==
    /\ q_state \in {"WAIT_ONE", "WOKEN"} /\ fromModule # <<>>
    /\ fromModule' = Tail(fromModule)
    /\ CASE Head(fromModule).cmd = "HELLO" -> Send(Request("HELLO_RESP"), "WAIT_TWO")
         [] Head(fromModule).cmd = "HELLO_OTHER_MODE" -> Returns("false") /\ UNCHANGED <<toModule, sahFaults>>
         [] OTHER -> send_reset_command
    /\ UNCHANGED <<wide, maxRead, sahTable, sahSeg, sahCur, sahLen, sahFiles, late, gap>>

\* No header in time, or one whose body does not come with it: wakeUpDevice()
\* and one more attempt, which fails the dump.
HeaderFails(states) ==
    /\ q_state \in states
    /\ \/ fromModule = <<>> /\ UNCHANGED <<fromModule, sahFaults>>
       \/ fromModule # <<>> /\ Fault /\ fromModule' = Tail(fromModule)
    /\ UNCHANGED <<wide, maxRead, sahTable, sahSeg, sahCur, sahLen, sahFiles, late, gap>>

WakeUp ==
    /\ HeaderFails({"WAIT_ONE"})
    /\ q_state' = "WOKEN" /\ toModule' = Append(toModule, Request("WAKE")) /\ UNCHANGED sahRet

NoHeader ==
    /\ HeaderFails({"WOKEN", "WAIT_TWO"})
    /\ Returns("false") /\ UNCHANGED toModule

\* WAIT_TWO: the table is announced and asked for; a table of a length that is
\* no number of entries resets the module; a table larger than the buffer ends
\* the dump after the request for it was sent; a repeated hello is passed over.
TableLen == Len(sahTable)

TableAnnounced ==
    IF TableLen = 0
    THEN q_state' = "WAIT_SEVEN" /\ UNCHANGED <<sahRet, toModule, sahFaults>>
    ELSE IF TableLen > RawBuf
    THEN /\ Returns("false") /\ toModule' = Append(toModule, Read(0, 0, TableLen))
         /\ UNCHANGED sahFaults
    ELSE Send(Read(0, 0, TableLen), "WAIT_SEVEN")

WaitTwo ==
    /\ q_state = "WAIT_TWO" /\ fromModule # <<>>
    /\ fromModule' = Tail(fromModule)
    /\ LET c == Head(fromModule).cmd IN
       /\ CASE c \in {"DEBUG32", "DEBUG64"} -> TableAnnounced
            [] c = "HELLO" -> UNCHANGED <<q_state, sahRet, toModule, sahFaults>>
            [] OTHER -> send_reset_command
       /\ wide' = IF c \in {"DEBUG32", "DEBUG64"} THEN c = "DEBUG64" ELSE wide
    /\ UNCHANGED <<maxRead, sahTable, sahSeg, sahCur, sahLen, sahFiles, late, gap>>

\* WAIT_SEVEN: the table is read, as raw bytes, and gives the entries; those of
\* a 32-bit table are widened, if the buffer has room for them.
WaitSeven ==
    /\ q_state = "WAIT_SEVEN" /\ Len(fromModule) >= TableLen
    /\ fromModule' = SubSeq(fromModule, TableLen + 1, Len(fromModule))
    /\ IF ~wide /\ TableLen > Table32Max THEN Returns("false")
       ELSE q_state' = "WAIT_EIGHT" /\ UNCHANGED sahRet
    /\ UNCHANGED <<wide, maxRead, sahTable, sahSeg, sahCur, sahLen, sahFiles, toModule, sahFaults, late, gap>>

NoTable ==
    /\ q_state = "WAIT_SEVEN" /\ Len(fromModule) < TableLen
    /\ Returns("false")
    /\ UNCHANGED <<wide, maxRead, sahTable, sahSeg, sahCur, sahLen, sahFiles, fromModule, toModule, sahFaults, late, gap>>

\* WAIT_EIGHT, between two segments: the file of the next one is created, or
\* the program exits; after the last one the module is reset.
CreateFile ==
    /\ q_state = "WAIT_EIGHT" /\ sahSeg <= TableLen
    /\ \/ sahFiles' = Append(sahFiles, <<>>) /\ q_state' = "REQUEST" /\ UNCHANGED <<sahRet, sahFaults>>
       \/ Fault /\ Returns("exit") /\ UNCHANGED sahFiles
    /\ sahCur' = 0
    /\ UNCHANGED <<wide, maxRead, sahTable, sahSeg, sahLen, fromModule, toModule, late, gap>>

AllRead ==
    /\ q_state = "WAIT_EIGHT" /\ sahSeg > TableLen
    /\ send_reset_command
    /\ UNCHANGED <<wide, maxRead, sahTable, sahSeg, sahCur, sahLen, sahFiles, fromModule, late, gap>>

\* while (cur < q_len): the rest of the segment, cut to 32 bits, or the largest
\* request.  A rest that is a multiple of 2^32 asks for nothing.
NextLen(rest) == LET cut == rest % Word IN IF cut < maxRead THEN cut ELSE maxRead

MemoryRead ==
    /\ q_state = "REQUEST" /\ sahCur < sahTable[sahSeg]
    /\ sahLen' = NextLen(sahTable[sahSeg] - sahCur)
    /\ Send(Read(sahSeg, sahCur, sahLen'), "RECEIVE")
    /\ UNCHANGED <<wide, maxRead, sahTable, sahSeg, sahCur, sahFiles, fromModule, late, gap>>

\* Mutant: a segment ends one block early.
SegmentDoneEarly ==
    /\ q_state = "REQUEST" /\ sahCur + 1 >= sahTable[sahSeg]
    /\ q_state' = "WAIT_EIGHT" /\ sahSeg' = sahSeg + 1
    /\ UNCHANGED <<sahRet, wide, maxRead, sahTable, sahCur, sahLen, sahFiles, fromModule, toModule, sahFaults, late, gap>>

SegmentDone ==
    /\ q_state = "REQUEST" /\ sahCur >= sahTable[sahSeg]
    /\ q_state' = "WAIT_EIGHT" /\ sahSeg' = sahSeg + 1
    /\ UNCHANGED <<sahRet, wide, maxRead, sahTable, sahCur, sahLen, sahFiles, fromModule, toModule, sahFaults, late, gap>>

\* All the bytes asked for have come (whatever request they answer) and are
\* saved; a short write is reported only, a failing one ends the dump.
MemoryBlock ==
    /\ q_state = "RECEIVE" /\ sahLen > 0 /\ Len(fromModule) >= sahLen
    /\ fromModule' = SubSeq(fromModule, sahLen + 1, Len(fromModule))
    /\ sahCur' = sahCur + sahLen
    /\ \E n \in {sahLen, sahLen - 1, -1} :
        /\ IF n = sahLen THEN UNCHANGED sahFaults ELSE Fault
        /\ IF n < 0 THEN Returns("false") ELSE q_state' = "REQUEST" /\ UNCHANGED sahRet
        /\ sahFiles' = [sahFiles EXCEPT ![sahSeg] = @ \o SubSeq(fromModule, 1, n)]
        /\ gap' = (gap \/ n # sahLen)
    /\ UNCHANGED <<wide, maxRead, sahTable, sahSeg, sahLen, toModule, late>>

\* Mutant: the length is halved without end.
MemoryTimeoutNoFloor ==
    /\ q_state = "RECEIVE" /\ (sahLen = 0 \/ Len(fromModule) < sahLen)
    /\ maxRead' = maxRead \div 2 /\ q_state' = "REQUEST" /\ fromModule' = <<>>
    /\ UNCHANGED <<sahRet, wide, sahTable, sahSeg, sahCur, sahLen, sahFiles, toModule, sahFaults, late, gap>>

\* Mutant: the block that did not come is passed over.
MemoryTimeoutSkips ==
    /\ q_state = "RECEIVE" /\ Len(fromModule) < sahLen /\ sahLen > 0
    /\ sahCur' = sahCur + sahLen /\ q_state' = "REQUEST" /\ fromModule' = <<>>
    /\ late' = (late \/ fromModule # <<>> \/ Read(sahSeg, sahCur, sahLen) \in Range(toModule))
    /\ UNCHANGED <<sahRet, wide, maxRead, sahTable, sahSeg, sahLen, sahFiles, toModule, sahFaults, gap>>

\* A read that is not answered in time, or the header read that a request of
\* length 0 turns into: the request is repeated with half the largest length,
\* what has come of the answer is thrown away; at the smallest length the dump
\* ends.
MemoryTimeout ==
    /\ q_state = "RECEIVE" /\ (sahLen = 0 \/ Len(fromModule) < sahLen)
    /\ IF maxRead > 1 THEN maxRead' = maxRead \div 2 /\ q_state' = "REQUEST" /\ UNCHANGED sahRet
                      ELSE Returns("false") /\ UNCHANGED maxRead
    /\ fromModule' = IF sahLen = 0 /\ fromModule # <<>> THEN Tail(fromModule) ELSE <<>>
    /\ late' = \/ late
               \/ sahLen > 0 /\ fromModule # <<>>
               \/ sahLen > 0 /\ Read(sahSeg, sahCur, sahLen) \in Range(toModule)
    /\ UNCHANGED <<wide, sahTable, sahSeg, sahCur, sahLen, sahFiles, toModule, sahFaults, gap>>

ZeroRead ==
    /\ q_state = "RECEIVE" /\ sahLen = 0 /\ fromModule # <<>>
    /\ fromModule' = Tail(fromModule) /\ q_state' = "REQUEST"
    /\ UNCHANGED <<sahRet, wide, maxRead, sahTable, sahSeg, sahCur, sahLen, sahFiles, toModule, sahFaults, late, gap>>

\* WAIT_THREE: commands other than the reset response are passed over; a
\* header of the response without its body is as good as the response.
WaitThree ==
    /\ q_state = "WAIT_THREE" /\ fromModule # <<>>
    /\ fromModule' = Tail(fromModule)
    /\ \E c \in Commands :
        /\ ReadAs(Head(fromModule), c)
        /\ CASE c = "RESET_RESP" -> Returns("true")
             [] c = "UNKNOWN" -> Returns("false")
             [] OTHER -> UNCHANGED <<q_state, sahRet>>
    /\ UNCHANGED <<wide, maxRead, sahTable, sahSeg, sahCur, sahLen, sahFiles, toModule, sahFaults, late, gap>>

\* Mutant: the wait for the reset response has no timeout.
NoResetResponseWaits ==
    HeaderFails({"WAIT_THREE"}) /\ UNCHANGED <<q_state, sahRet, toModule>>

NoResetResponse ==
    /\ HeaderFails({"WAIT_THREE"})
    /\ Returns(IF fromModule # <<>> /\ Head(fromModule).cmd = "RESET_RESP" THEN "true" ELSE "false")
    /\ UNCHANGED toModule

\* The module handles a request: hello, the table, memory, reset; or loses it.
Answer(request) ==
    CASE request.cmd = "HELLO_RESP" -> 
            {<<Cmd("DEBUG32")>>, <<Cmd("HELLO"), Cmd("DEBUG64")>>, <<Cmd("DEBUG_INVALID")>>, <<Cmd("OTHER")>>}
      [] request.cmd = "WAKE" -> {<<Cmd("HELLO")>>, <<Cmd("OTHER")>>}
      [] request.cmd = "RESET" -> {<<Cmd("RESET_RESP")>>, <<Cmd("OTHER"), Cmd("RESET_RESP")>>}
      [] OTHER -> {[i \in 1 .. request.len |-> Block(request.seg, request.off + i - 1)]}

ModuleHandles ==
    /\ q_state # "done" /\ toModule # <<>>
    /\ \/ UNCHANGED sahFaults /\ \E a \in Answer(Head(toModule)) : fromModule' = fromModule \o a
       \/ Fault /\ UNCHANGED fromModule
    /\ toModule' = Tail(toModule)
    /\ UNCHANGED <<hostVars, sahTable, late, gap>>

Host ==
    \/ WaitOne \/ WakeUp \/ NoHeader \/ WaitTwo \/ WaitSeven \/ NoTable
    \/ CreateFile \/ AllRead \/ MemoryRead \/ SegmentDone \/ MemoryBlock
    \/ MemoryTimeout \/ ZeroRead \/ WaitThree \/ NoResetResponse

SaharaNext == Host \/ ModuleHandles

SaharaFair == WF_saharaVars(Host)

SaharaSpec == SaharaInit /\ [][SaharaNext]_saharaVars /\ SaharaFair
-----------------------------------------------------------------------------

\* The host's state stays within its types: among others the largest request
\* stays within 1 .. RawBuf however often it is halved, in this dump or earlier.
SaharaTypeOK ==
    /\ q_state \in {"WAIT_ONE", "WOKEN", "WAIT_TWO", "WAIT_SEVEN", "WAIT_EIGHT",
                    "REQUEST", "RECEIVE", "WAIT_THREE", "done"}
    /\ sahRet \in {"none", "true", "false", "exit"} /\ (q_state = "done" <=> sahRet # "none")
    /\ maxRead \in 1 .. RawBuf /\ wide \in BOOLEAN
    /\ sahSeg \in 1 .. TableLen + 1 /\ sahCur \in Nat /\ sahLen \in 0 .. RawBuf
    /\ Len(sahFiles) <= TableLen

\* The file of every segment is a prefix of the module's memory, block for block,
\* through any number of lost requests and of retries with smaller lengths, as
\* long as no request was given up while its answer was still on the way and no
\* write was short (sahara_read_dump, WAIT_EIGHT).
SaharaExact ==
    late \/ gap \/ \A s \in DOMAIN sahFiles :
        /\ Len(sahFiles[s]) <= sahTable[s]
        /\ \A i \in DOMAIN sahFiles[s] : sahFiles[s][i] = Block(s, i - 1)

\* A dump that read the memory and is reported as successful has every file of
\* the table at its full length, a segment of 4 GB included, unless a short
\* write was passed over (sahara_catch_dump's return value).
SaharaComplete ==
    (sahRet = "true" /\ sahFiles # <<>> /\ ~gap) =>
        /\ Len(sahFiles) = TableLen
        /\ \A s \in DOMAIN sahFiles : Len(sahFiles[s]) = sahTable[s]

\* The files of a dump are the module's memory: right as far as they go, and
\* whole when the dump is reported as successful.
SaharaImage == SaharaExact /\ SaharaComplete

\* Whatever the module answers, loses or delays, the dump comes to an end: every
\* receive gives up after five seconds and a request is repeated only while its
\* length can be halved.
SaharaEnds == <>(q_state = "done")
==============================================================================
