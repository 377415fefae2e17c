------------------------------ MODULE UnisocDump -----------------------------
(***************************************************************************)
(* The dumps of the Unisoc modules in unisoc.c: the blue screen dump of    *)
(* the EC600U family ("exx00u") and of the EC800G ("ec800g"), which read a *)
(* table of memory regions request by request, and the AP dump of the      *)
(* others ("apdump"), which the module sends by itself.                    *)
(*                                                                         *)
(* During a blue screen dump the filter thread may still send its status   *)
(* query, which advances the request number rid the main thread compares   *)
(* the answers with.  A region of the table is [type, base, size]; an      *)
(* entry "require" after a region names a register whose bits must be set  *)
(* for the region to be read.  Block o of region i is <<i, o>>, <<0, 0>>   *)
(* is a block that is not the answer to any request.                       *)
(***************************************************************************)
EXTENDS Integers, Sequences, SequencesExt

CONSTANTS BlueTable,   \* ql_exx00u_xml_data_defult, ql_ec800g_xml_data_defult
          BlueBits,    \* require entries of the table whose bits are set
          BlueMax,     \* the largest block asked for
          RidMax,      \* the request numbers are 1 .. RidMax
          BlueQueries, \* bound: status queries of the filter thread
          ApChunks,    \* the number of reads an AP dump takes
          BlueFaults   \* bound: failing sends and writes, cut answers, breaks of the AP dump

ASSUME UnisocDumpAssumption ==
    /\ BlueTable \in Seq([type : {"region", "skip", "require"}, size : Nat])
    /\ BlueBits \subseteq DOMAIN BlueTable
    /\ {BlueMax, RidMax} \subseteq Nat \ {0}
    /\ {BlueQueries, ApChunks, BlueFaults} \subseteq Nat

VARIABLES
    bChip,     \* which module: "exx00u", "ec800g", "apdump", "8310" (AP dump of the EC200D)
    bPc,       \* where the main thread is
    bWhat,     \* the request under way: "psram", "read32", "second" (read32), "block"
    bRid,      \* rid, rid_ec800g: shared with the filter thread
    bFlag,     \* unisoc_*_is_blue_screen
    bI,        \* i, the entry of the table
    bOff,      \* save_size, the blocks read of the region
    bVal,      \* rvalue: the required bits are set
    bFiles,    \* region -> the blocks in its file
    bLine,     \* answers of the module the main thread has not read
    bFilter,   \* the filter thread: "idle" or "checked" (about to send a query)
    bQueries,  \* queries sent
    bExit,     \* qlog_exit_requested
    bRet,      \* 0, or what the dump returned
    bFaults,   \* faults left
    bStale,    \* history: a decision or a block came from no answer to its request
    bLost      \* history: the request under way was not sent, or its answer thrown away unread

blueVars == <<bChip, bPc, bWhat, bRid, bFlag, bI, bOff, bVal, bFiles, bLine, bFilter,
              bQueries, bExit, bRet, bFaults, bStale, bLost>>

BlueFresh ==
    /\ bWhat = "psram"
    /\ bRid = RidMax /\ bFlag = FALSE /\ bI = 1 /\ bOff = 0 /\ bVal = FALSE
    /\ bFiles = [i \in DOMAIN BlueTable \cup {0} |-> <<>>] /\ bLine = <<>>
    /\ bFilter = "idle" /\ bQueries = 0 /\ bExit = FALSE /\ bRet = 0
    /\ bFaults = BlueFaults /\ bStale = FALSE /\ bLost = FALSE

BlueInit == bChip \in {"exx00u", "ec800g", "apdump", "8310"} /\ bPc = "log" /\ BlueFresh

\* No module of these kinds is captured.
BlueAbsent == bChip = "apdump" /\ bPc = "end" /\ BlueFresh

\* Mutant: the number does not wrap.
NextRidNoWrap(r) == r + 1

NextRid(r) == (r % RidMax) + 1

BFault == bFaults > 0 /\ bFaults' = bFaults - 1

IsApDump == bChip \in {"apdump", "8310"}

BlueReturns(r) == bPc' = "end" /\ bRet' = r

\* The filter thread asks for the panic status; on the EC800G it looks first
\* whether a dump is under way.  The two threads advance rid without a lock: an
\* increment may be lost.
FilterChecks ==
    /\ bFilter = "idle" /\ bQueries < BlueQueries /\ bPc # "end" /\ ~IsApDump
    /\ bChip = "ec800g" => ~bFlag
    /\ bFilter' = "checked"
    /\ UNCHANGED <<bChip, bPc, bWhat, bRid, bFlag, bI, bOff, bVal, bFiles, bLine, bQueries,
                   bExit, bRet, bFaults, bStale, bLost>>

FilterQueries ==
    /\ bFilter = "checked"
    /\ bFilter' = "idle" /\ bQueries' = bQueries + 1
    /\ bRid' \in {NextRid(bRid)} \cup (IF bPc = "send" THEN {bRid} ELSE {})
    /\ bLine' = Append(bLine, [kind |-> "status", rid |-> bRid', data |-> <<>>])
    /\ UNCHANGED <<bChip, bPc, bWhat, bFlag, bI, bOff, bVal, bFiles, bExit, bRet, bFaults, bStale, bLost>>

\* The answer to a query says that the module is in its blue screen: the dump
\* starts if it is the answer to the last query (exx00u); the EC800G sleeps five
\* seconds until the filter thread has seen the flag.
BlueDetected ==
    /\ bPc = "log" /\ ~IsApDump /\ bLine # <<>> /\ ~bExit
    /\ bChip = "exx00u" => Head(bLine).rid = bRid
    /\ bFlag' = TRUE /\ bLine' = Tail(bLine)
    /\ bPc' = IF bChip = "ec800g" THEN "sleep" ELSE "entry"
    /\ UNCHANGED <<bChip, bWhat, bRid, bI, bOff, bVal, bFiles, bFilter, bQueries, bExit, bRet, bFaults, bStale, bLost>>

BlueLogged ==
    /\ bPc = "log" /\ bChip = "exx00u" /\ bLine # <<>> /\ Head(bLine).rid # bRid
    /\ bLine' = Tail(bLine)
    /\ UNCHANGED <<bChip, bPc, bWhat, bRid, bFlag, bI, bOff, bVal, bFiles, bFilter, bQueries, bExit, bRet, bFaults, bStale, bLost>>

BlueSlept ==
    /\ bPc = "sleep" /\ bFilter = "idle"
    /\ bPc' = "bump" /\ bWhat' = "psram"
    /\ UNCHANGED <<bChip, bRid, bFlag, bI, bOff, bVal, bFiles, bLine, bFilter, bQueries, bExit, bRet, bFaults, bStale, bLost>>

IsRequire(i) == i \in DOMAIN BlueTable /\ BlueTable[i].type = "require"

\* One entry of the table: the end of the table ends the dump and clears the
\* flag, an exit request ends it and does not; a region followed by a
\* requirement asks for the register first.
BlueEntry ==
    /\ bPc = "entry"
    /\ \/ /\ bI > Len(BlueTable) /\ BlueReturns(1) /\ bFlag' = FALSE /\ UNCHANGED <<bWhat, bI>>
       \/ /\ bI <= Len(BlueTable) /\ bExit /\ BlueReturns(-1) /\ UNCHANGED <<bFlag, bWhat, bI>>
       \/ /\ bI <= Len(BlueTable) /\ ~bExit /\ BlueTable[bI].type # "region"
          /\ bI' = bI + 1 /\ UNCHANGED <<bPc, bRet, bFlag, bWhat>>
       \/ /\ bI <= Len(BlueTable) /\ ~bExit /\ BlueTable[bI].type = "region"
          /\ IF IsRequire(bI + 1) THEN bPc' = "bump" /\ bWhat' = "read32" ELSE bPc' = "open" /\ UNCHANGED bWhat
          /\ UNCHANGED <<bI, bRet, bFlag>>
    /\ UNCHANGED <<bChip, bRid, bOff, bVal, bFiles, bLine, bFilter, bQueries, bExit, bFaults, bStale, bLost>>

\* The file of the region is created, or the dump fails.
BlueOpen ==
    /\ bPc = "open"
    /\ \/ bPc' = "block" /\ bOff' = 0 /\ bFiles' = [bFiles EXCEPT ![bI] = <<>>] /\ UNCHANGED <<bRet, bFaults>>
       \/ BFault /\ BlueReturns(-1) /\ UNCHANGED <<bOff, bFiles>>
    /\ UNCHANGED <<bChip, bWhat, bRid, bFlag, bI, bVal, bLine, bFilter, bQueries, bExit, bStale, bLost>>

\* An exit request ends the loop over the blocks; the EC800G does not look for
\* it before the last block of a region.
ExitSeen == bExit /\ (bChip = "exx00u" \/ BlueTable[bI].size - bOff > BlueMax)

BlueBlock ==
    /\ bPc = "block"
    /\ \/ bOff >= BlueTable[bI].size /\ bPc' = "entry" /\ bI' = bI + 1 /\ UNCHANGED <<bWhat, bRet>>
       \/ bOff < BlueTable[bI].size /\ ExitSeen /\ BlueReturns(-1) /\ UNCHANGED <<bWhat, bI>>
       \/ bOff < BlueTable[bI].size /\ ~ExitSeen /\ bPc' = "bump" /\ bWhat' = "block" /\ UNCHANGED <<bI, bRet>>
    /\ UNCHANGED <<bChip, bRid, bFlag, bOff, bVal, bFiles, bLine, bFilter, bQueries, bExit, bFaults, bStale, bLost>>

\* unisoc_*_send_cmd_complete: rid is advanced, then read again into the
\* request, which is sent.
BumpRid ==
    /\ bPc = "bump" /\ bPc' = "send" /\ bRid' = NextRid(bRid)
    /\ UNCHANGED <<bChip, bWhat, bFlag, bI, bOff, bVal, bFiles, bLine, bFilter, bQueries, bExit, bRet, bFaults, bStale, bLost>>

BlockLen == IF BlueTable[bI].size - bOff < BlueMax THEN BlueTable[bI].size - bOff ELSE BlueMax

\* The module answers every request, in order.
AnswerTo(what) ==
    [kind |-> what, rid |-> bRid,
     data |-> IF what = "block" THEN [k \in 1 .. BlockLen |-> <<bI, bOff + k - 1>>] ELSE <<>>]

\* A request that cannot be sent fails the dump, but the sender of a request for
\* a register does not look: it waits for the answer.
SendRequest ==
    /\ bPc = "send"
    /\ \/ /\ bPc' = "wait" /\ bLine' = Append(bLine, AnswerTo(bWhat)) /\ bLost' = FALSE
          /\ UNCHANGED <<bRet, bFaults>>
       \/ bWhat \notin {"read32", "second"} /\ BFault /\ BlueReturns(-1) /\ UNCHANGED <<bLine, bLost>>
       \/ /\ bWhat \in {"read32", "second"} /\ BFault /\ bPc' = "wait" /\ bLost' = TRUE
          /\ UNCHANGED <<bLine, bRet>>
    /\ UNCHANGED <<bChip, bWhat, bRid, bFlag, bI, bOff, bVal, bFiles, bFilter, bQueries, bExit, bStale>>

\* What is done with an answer taken for the request under way: the size of
\* the psram, the bits of a register (on the EC800G of a second one, too, if
\* the table names it), or blocks, which are saved.
SecondRequire == bChip = "ec800g" /\ bWhat = "read32" /\ IsRequire(bI + 2)

\* Mutants: the size saved is not counted; the first block counts for the region.
AdvancedNot(n) == bOff

AdvancedFull(n) == BlueTable[bI].size

\* save_size after n blocks were written.
Advanced(n) == bOff + n

Taken(data, val, stale) ==
    /\ CASE bWhat = "psram" -> bPc' = "entry" /\ UNCHANGED <<bI, bOff, bVal, bFiles, bRet, bFaults>>
         [] bWhat \in {"read32", "second"} ->
              /\ bVal' = val
              /\ IF val THEN bPc' = (IF SecondRequire THEN "bump" ELSE "open") /\ UNCHANGED bI
                        ELSE bPc' = "entry" /\ bI' = bI + 1
              /\ UNCHANGED <<bOff, bFiles, bRet, bFaults>>
         [] OTHER ->
              \/ /\ bPc' = "block" /\ bOff' = Advanced(Len(data))
                 /\ bFiles' = [bFiles EXCEPT ![bI] = @ \o data]
                 /\ UNCHANGED <<bI, bVal, bRet, bFaults>>
              \/ BFault /\ BlueReturns(-1) /\ UNCHANGED <<bI, bOff, bVal, bFiles>>
    /\ bWhat' = IF SecondRequire THEN "second" ELSE bWhat
    /\ bStale' = (bStale \/ stale)

\* A read returns the first answer and what has come right behind it, which is
\* not looked at.
ReadsAnswers(k) ==
    /\ bLine' = SubSeq(bLine, k + 1, Len(bLine))
    /\ bLost' = (bLost \/ \E j \in 2 .. k : bLine[j].kind # "status")

\* The rest of a cut answer: it answers no request, as no request has number 0.
CutRest == [kind |-> "status", rid |-> 0, data |-> <<>>]

\* A read returns only a part of the first answer, one longer than a packet of
\* the bus, with its header.
ReadsPart ==
    /\ Head(bLine).kind \in {"psram", "block"} /\ BFault
    /\ bLine' = <<CutRest>> \o Tail(bLine)

\* Mutant: a block with another rid is not asked for again.
Exx00uReceivesWaits ==
    /\ bPc = "wait" /\ bChip = "exx00u" /\ bLine # <<>> /\ ~bExit
    /\ \E k \in 1 .. Len(bLine) : ReadsAnswers(k)
    /\ LET a == Head(bLine) IN
       \/ /\ a.kind = "status" \/ (a.kind = "block" /\ a.rid # bRid)
          /\ UNCHANGED <<bPc, bWhat, bI, bOff, bVal, bFiles, bRet, bFaults, bStale>>
       \/ /\ a.kind # "status" /\ a.rid = bRid
          /\ Taken(a.data, (bI + 1) \in BlueBits, FALSE)
       \/ /\ a.kind = "read32" /\ a.rid # bRid
          /\ Taken(a.data, bVal, TRUE)
    /\ UNCHANGED <<bChip, bRid, bFlag, bFilter, bQueries, bExit>>

\* EC600U: a read that does not begin with an answer to a request goes to the AP
\* log, whatever else is in it; a block with another rid, or cut, is thrown away
\* and asked for again; the bits of a register stay what they were.  An exit
\* request is not seen here: the read returns at once with nothing, for ever.
Exx00uReceives ==
    /\ bPc = "wait" /\ bChip = "exx00u" /\ bLine # <<>> /\ ~bExit
    /\ LET a == Head(bLine) IN
       \/ /\ \E k \in 1 .. Len(bLine) : ReadsAnswers(k)
          /\ \/ a.kind = "status" /\ UNCHANGED <<bPc, bWhat, bI, bOff, bVal, bFiles, bRet, bFaults, bStale>>
             \/ /\ a.kind # "status" /\ a.rid = bRid
                /\ Taken(a.data, (bI + 1) \in BlueBits, FALSE)
             \/ /\ a.kind = "block" /\ a.rid # bRid
                /\ bPc' = "block" /\ UNCHANGED <<bWhat, bI, bOff, bVal, bFiles, bRet, bFaults, bStale>>
             \/ /\ a.kind = "read32" /\ a.rid # bRid
                /\ Taken(a.data, bVal, TRUE)
       \/ ReadsPart /\ bPc' = "block" /\ UNCHANGED <<bWhat, bI, bOff, bVal, bFiles, bRet, bStale, bLost>>
    /\ UNCHANGED <<bChip, bRid, bFlag, bFilter, bQueries, bExit>>

\* EC800G: a read whose first answer has another rid or is cut is passed over,
\* until the exit request, after which what the buffer holds is taken.  The bits
\* of a register are read from the wrong buffer and may be anything; a failing
\* psram query ends the dump.
Ec800gReceives ==
    /\ bPc = "wait" /\ bChip = "ec800g"
    /\ \/ /\ bLine # <<>> /\ ~bExit
          /\ \E k \in 1 .. Len(bLine) : ReadsAnswers(k)
          /\ LET a == Head(bLine) IN
             \/ a.rid # bRid /\ UNCHANGED <<bPc, bWhat, bI, bOff, bVal, bFiles, bRet, bFaults, bStale>>
             \/ a.rid = bRid /\ \E v \in BOOLEAN : Taken(a.data, v, bWhat \in {"read32", "second"})
             \/ /\ a.rid = bRid /\ bWhat = "psram" /\ BFault /\ BlueReturns(-1)
                /\ UNCHANGED <<bWhat, bI, bOff, bVal, bFiles, bStale>>
       \/ /\ bLine # <<>> /\ ~bExit /\ ReadsPart /\ bLost' = TRUE
          /\ UNCHANGED <<bPc, bWhat, bI, bOff, bVal, bFiles, bRet, bStale>>
       \/ /\ bExit /\ UNCHANGED <<bLine, bLost>>
          /\ \E v \in BOOLEAN : Taken([k \in 1 .. (IF bWhat = "block" THEN BlockLen ELSE 0) |-> <<0, 0>>], v, TRUE)
    /\ UNCHANGED <<bChip, bRid, bFlag, bFilter, bQueries, bExit>>

\* unisoc_catch_dump and unisoc_catch_8310_dump: the commands that start the
\* dump, then every read saved until a read returns nothing, which is taken for
\* the end of the dump whether the module is done, silent for twelve seconds or
\* gone.  File 0 is the dump.
ApDumpStart ==
    /\ bPc = "log" /\ bChip = "apdump"
    /\ \/ bPc' = "apdump" /\ UNCHANGED <<bRet, bFaults>>
       \/ BFault /\ BlueReturns(-1)
    /\ UNCHANGED <<bChip, bWhat, bRid, bFlag, bI, bOff, bVal, bFiles, bLine, bFilter, bQueries, bExit, bStale, bLost>>

\* The EC200D dumps from within the log, into a directory of its own; too little
\* space on the disk also ends the program.
ApDumpStart8310 ==
    /\ bPc = "log" /\ bChip = "8310"
    /\ \/ bPc' = "apdump" /\ UNCHANGED <<bRet, bFaults, bExit>>
       \/ BFault /\ BlueReturns(-1) /\ bExit' \in {bExit, TRUE}
    /\ UNCHANGED <<bChip, bWhat, bRid, bFlag, bI, bOff, bVal, bFiles, bLine, bFilter, bQueries, bStale, bLost>>

ApDumpRead ==
    /\ bPc = "apdump" /\ ~bExit /\ bOff < ApChunks /\ bOff' = bOff + 1
    /\ \/ bFiles' = [bFiles EXCEPT ![0] = Append(@, <<0, bOff>>)] /\ UNCHANGED <<bPc, bRet, bFaults>>
       \/ BFault /\ BlueReturns(-1) /\ UNCHANGED bFiles
    /\ UNCHANGED <<bChip, bWhat, bRid, bFlag, bI, bVal, bLine, bFilter, bQueries, bExit, bStale, bLost>>

ApDumpQuiet ==
    /\ bPc = "apdump" /\ ~bExit
    /\ IF bOff = ApChunks THEN UNCHANGED <<bFaults, bStale>> ELSE BFault /\ bStale' = TRUE
    /\ BlueReturns(1)
    /\ UNCHANGED <<bChip, bWhat, bRid, bFlag, bI, bOff, bVal, bFiles, bLine, bFilter, bQueries, bExit, bLost>>

\* An exit request ends the loop with what the last send returned.
ApDumpExit ==
    /\ bPc = "apdump" /\ bExit /\ BlueReturns(2)
    /\ UNCHANGED <<bChip, bWhat, bRid, bFlag, bI, bOff, bVal, bFiles, bLine, bFilter, bQueries, bExit, bFaults, bStale, bLost>>

BlueSignal ==
    /\ ~bExit /\ bPc # "end" /\ bExit' = TRUE
    /\ UNCHANGED <<bChip, bPc, bWhat, bRid, bFlag, bI, bOff, bVal, bFiles, bLine, bFilter, bQueries, bRet, bFaults, bStale, bLost>>

BlueMain ==
    \/ BlueDetected \/ BlueLogged \/ BlueSlept \/ BlueEntry \/ BlueOpen \/ BlueBlock \/ BumpRid
    \/ SendRequest \/ Exx00uReceives \/ Ec800gReceives \/ ApDumpStart \/ ApDumpStart8310 \/ ApDumpRead
    \/ ApDumpQuiet \/ ApDumpExit

BlueNext == FilterChecks \/ FilterQueries \/ BlueMain \/ BlueSignal

BlueFair == WF_blueVars(BlueMain) /\ WF_blueVars(FilterQueries)

BlueSpec == BlueInit /\ [][BlueNext]_blueVars /\ BlueFair
-----------------------------------------------------------------------------

\* The types of the state, and the region being read is one of the table.
BlueTypeOK ==
    /\ bPc \in {"log", "sleep", "entry", "open", "block", "bump", "send", "wait", "apdump", "end"}
    /\ bRid \in 1 .. RidMax /\ bI \in 1 .. Len(BlueTable) + 1 /\ bRet \in {-1, 0, 1, 2}
    /\ bPc \in {"open", "block"} => bI \in DOMAIN BlueTable /\ BlueTable[bI].type = "region"

\* Every block saved is the block of the region at that offset, however the
\* filter thread's queries fall between the requests and their answers and
\* advance the rid both threads use (checkReadBlock), until an exit request.
BlueExact ==
    bExit \/ \A i \in DOMAIN bFiles : \A k \in DOMAIN bFiles[i] : bFiles[i][k] = <<i, k - 1>>

\* A dump that returns success has every region of the table in full: each one
\* without a requirement, and, unless a register's value was taken from no
\* answer, each whose bits are set and no other; an AP dump is whole unless the
\* module fell silent or went away in the middle of it.
BlueComplete ==
    (bRet = 1 /\ ~bExit) =>
        IF IsApDump THEN bStale \/ Len(bFiles[0]) = ApChunks
        ELSE \A i \in DOMAIN BlueTable :
            LET wanted == BlueTable[i].type = "region" /\ (IsRequire(i + 1) => (i + 1) \in BlueBits)
            IN  \/ Len(bFiles[i]) = IF wanted THEN BlueTable[i].size ELSE 0
                \/ bStale /\ IsRequire(i + 1)

\* The files of a blue screen or AP dump are the module's memory: right as far
\* as they go, and whole when the dump is reported as successful.
BlueImage == BlueExact /\ BlueComplete

\* The main thread waits for an answer that will not come: the request was not
\* sent, or the answer came with a read that was thrown away.  The EC800G stops
\* waiting when an exit is requested.
WaitsInVain == bPc = "wait" /\ bLost /\ (bChip = "ec800g" => ~bExit)

\* A dump of a module that stays attached ends although the filter thread advances
\* the rid the answers are compared with: the EC600U asks again for a block whose
\* answer was thrown away, and the EC800G has waited until no more queries come.
\* Two things keep it from ending: the EC600U does not see an exit request
\* while it waits for an answer, and neither module asks again when a read that
\* held the answer was thrown away, or a register's request was never sent.
BlueEnds == (bPc \notin {"log", "end"}) ~> (bPc = "end" \/ (bExit /\ bChip = "exx00u") \/ WaitsInVain)
==============================================================================
