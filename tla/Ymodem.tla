-------------------------------- MODULE Ymodem -------------------------------
(***************************************************************************)
(* The ram dump of an ASR module: asr_catch_dump of ymodem.c, a receiver   *)
(* of the (not standard) YMODEM protocol.                                  *)
(*                                                                         *)
(* A frame is <<file, n>>: n = 0 is the header of the file, 1 .. its       *)
(* number of frames are data, the next one is EOT; the header of the file  *)
(* after the last one has an empty name and ends the transfer.  The host   *)
(* answers with CNC and ACK bytes and looks at the tag of a frame, never   *)
(* at its index (but for a header) or its checksum.  The module sends its  *)
(* frame again when an answer does not come, and the next one when it      *)
(* does.                                                                   *)
(***************************************************************************)
EXTENDS Integers, Sequences, SequencesExt

CONSTANTS AsrFiles,      \* the module's files: a sequence of numbers of data frames
          WaitRetries,   \* 5, the limit of wait_file_retry
          AsrAhead,      \* bound: answers on the way to the module
          AsrFaults      \* bound: lost answers, repeated frames, failures

ASSUME YmodemAssumption ==
    AsrFiles \in Seq(Nat) /\ WaitRetries \in Nat \ {0} /\ AsrAhead \in Nat /\ AsrFaults \in Nat

Last_ == Len(AsrFiles) + 1

Silent == <<0, 0>>       \* the zeros of YmodemBuff before any frame

VARIABLES
    yState,    \* "header", "data", "again" (after the second ACK), "quit"
    yRet,      \* ret: the result of the last call, which asr_catch_dump returns
    yRetry,    \* wait_file_retry
    yBuff,     \* YmodemBuff, static: the frame received last
    yFile,     \* g_current_fd: the file open, or 0
    ySaved,    \* file -> the frames written to it
    yClosed,   \* files that ended with EOT
    yFrames,   \* frames on the way to the host
    yAnswers,  \* bytes on the way to the module
    yNext,     \* the frame the module sends next
    yFaults,   \* faults left
    yTrust     \* history: "stale" before the first frame of this dump, then "fresh";
               \* "misled" once a stale header opened a file; "exit" after an exit

yHost == <<yState, yRet, yRetry, yBuff, yFile, ySaved, yClosed, yTrust>>
ymodemVars == <<yHost, yFrames, yAnswers, yNext, yFaults>>

IsHeader(f) == f[2] = 0 /\ f # Silent

IsEnd(f) == f = Silent \/ f = <<Last_, 0>>

IsEot(f) == f # Silent /\ f[1] < Last_ /\ f[2] = AsrFiles[f[1]] + 1

YmodemFresh ==
    /\ yRetry = 0 /\ yFile = 0 /\ ySaved = [f \in 1 .. Len(AsrFiles) |-> <<>>] /\ yClosed = {}
    /\ yFrames = <<>> /\ yNext = <<1, 0>> /\ yFaults = AsrFaults /\ yTrust = "stale"

\* What YmodemBuff may hold when the dump begins: nothing, or the last frame of
\* an earlier dump of the process, a header and the end of the transfer too.
Leftover ==
    {Silent, <<Last_, 0>>} \cup
        UNION {{<<f, n>> : n \in 0 .. AsrFiles[f] + 1} : f \in 1 .. Len(AsrFiles)}

YmodemInit ==
    /\ yState = "header" /\ yRet = "ok" /\ YmodemFresh
    /\ yBuff \in Leftover /\ yAnswers = <<"CNC">>

\* No dump of this kind takes place.
YmodemAbsent ==
    yState = "quit" /\ yRet = "error" /\ YmodemFresh /\ yBuff = Silent /\ yAnswers = <<>>

YFault == yFaults > 0 /\ yFaults' = yFaults - 1

YReturns(r) == yState' = "quit" /\ yRet' = r

\* What follows the wait for a header, on the frame f in the buffer, fresh or
\* not, with the result r of the wait and the answers sent so far: the end of a
\* file or data is acknowledged and the wait begins again; an empty name ends the
\* transfer; a header opens its file, emptied, which may fail.
AfterWait(f, r, sent) ==
    \/ /\ ~IsHeader(f) /\ ~IsEnd(f)
       /\ yRetry' = 0 /\ yRet' = r /\ yAnswers' = Append(sent, "ACK")
       /\ UNCHANGED <<yState, yFile, ySaved, yFaults>>
    \/ /\ IsEnd(f)
       /\ YReturns("ok") /\ yAnswers' = sent \o <<"ACK", "CNC">>
       /\ UNCHANGED <<yRetry, yFile, ySaved, yFaults>>
    \/ /\ IsHeader(f) /\ ~IsEnd(f)
       /\ yState' = "data" /\ yRet' = "ok" /\ yAnswers' = Append(sent, "ACK")
       /\ yFile' = f[1] /\ ySaved' = [ySaved EXCEPT ![f[1]] = <<>>]
       /\ UNCHANGED <<yRetry, yFaults>>
    \/ /\ IsHeader(f) /\ ~IsEnd(f) /\ YFault
       /\ YReturns("error") /\ yAnswers' = sent
       /\ UNCHANGED <<yRetry, yFile, ySaved>>

HeaderFrame ==
    /\ yState = "header" /\ yFrames # <<>>
    /\ yFrames' = Tail(yFrames) /\ yBuff' = Head(yFrames)
    /\ AfterWait(Head(yFrames), "ok", yAnswers)
    /\ yTrust' = IF yTrust = "misled" THEN yTrust ELSE "fresh"
    /\ UNCHANGED <<yClosed, yNext>>

\* Mutant: after the last wait the transfer is over, whatever the buffer holds.
HeaderTimeoutEnds ==
    /\ yState = "header" /\ yFrames = <<>> /\ Len(yAnswers) < AsrAhead
    /\ IF yRetry + 1 < WaitRetries THEN yRetry' = yRetry + 1 /\ UNCHANGED <<yState, yRet>>
                                   ELSE YReturns("ok") /\ UNCHANGED yRetry
    /\ UNCHANGED <<yBuff, yFile, ySaved, yClosed, yFrames, yAnswers, yNext, yFaults, yTrust>>

\* Mutant: a wait without a timeout.
HeaderTimeoutNever == yState = "header" /\ yFrames = <<>> /\ UNCHANGED ymodemVars

\* A wait of ten seconds in vain sends CNC again; the last one then goes on with
\* what the buffer holds.
HeaderTimeout ==
    /\ yState = "header" /\ yFrames = <<>> /\ Len(yAnswers) < AsrAhead
    /\ IF yRetry + 1 < WaitRetries
       THEN /\ yRetry' = yRetry + 1 /\ yRet' = "error" /\ yAnswers' = Append(yAnswers, "CNC")
            /\ UNCHANGED <<yState, yFile, ySaved, yFaults>>
       ELSE AfterWait(yBuff, "error", Append(yAnswers, "CNC"))
    /\ yTrust' = IF yState' = "data" THEN "misled" ELSE yTrust
    /\ UNCHANGED <<yBuff, yClosed, yFrames, yNext>>

\* Mutant: a frame after a second ACK is taken for a repeated one.
save_dataOnce(f) ==
    ySaved' = IF yState = "again" THEN ySaved ELSE [ySaved EXCEPT ![yFile] = Append(@, f)]

\* save_data: the frame is written, with the padding behind the end of the file.
save_data(f) == ySaved' = [ySaved EXCEPT ![yFile] = Append(@, f)]

\* Mutant: the descriptor is not reset.
finishupKeepsFile == yClosed' = yClosed \cup {yFile} /\ yFile' = yFile

\* finishup closes the file.
finishup == yClosed' = yClosed \cup {yFile} /\ yFile' = 0

\* EOT is acknowledged and closes the file; any other frame is acknowledged
\* and then saved.  A write that fails is reported only.
DataFrame ==
    /\ yState \in {"data", "again"} /\ yFrames # <<>>
    /\ yFrames' = Tail(yFrames) /\ yBuff' = Head(yFrames)
    /\ yRet' = "ok" /\ yAnswers' = Append(yAnswers, "ACK")
    /\ IF IsEot(Head(yFrames))
       THEN /\ yState' = "header" /\ yRetry' = 0 /\ finishup /\ UNCHANGED ySaved
       ELSE /\ save_data(Head(yFrames)) /\ yState' = "data" /\ UNCHANGED <<yRetry, yFile, yClosed>>
    /\ UNCHANGED <<yNext, yFaults, yTrust>>

\* A wait in vain acknowledges again; a second one ends the dump, the file
\* stays open.
DataTimeout ==
    /\ yState \in {"data", "again"} /\ yFrames = <<>> /\ Len(yAnswers) < AsrAhead
    /\ yRet' = "error"
    /\ IF yState = "data" THEN yState' = "again" /\ yAnswers' = Append(yAnswers, "ACK")
                          ELSE yState' = "quit" /\ UNCHANGED yAnswers
    /\ UNCHANGED <<yRetry, yBuff, yFile, ySaved, yClosed, yFrames, yNext, yFaults, yTrust>>

\* A frame of the wrong size, a tag that is none of the three, a read error or
\* an answer that cannot be sent.
YError ==
    /\ yState # "quit" /\ YFault /\ YReturns("error")
    /\ UNCHANGED <<yRetry, yBuff, yFile, ySaved, yClosed, yFrames, yAnswers, yNext, yTrust>>

\* qlog_exit_requested ends both loops, tested before the first wait for a header
\* and before each frame of data; the file is closed.  What is returned is the
\* result of the last call, which is mostly success.
YExit ==
    /\ (yState = "header" /\ yRetry = 0) \/ yState = "data"
    /\ YFault /\ YReturns(yRet) /\ yFile' = 0
    /\ yTrust' = IF yTrust = "misled" THEN yTrust ELSE "exit"
    /\ UNCHANGED <<yRetry, yBuff, ySaved, yClosed, yFrames, yAnswers, yNext>>

\* The module takes an answer and sends the next frame; an answer may be lost,
\* and a frame sent again; after the last header it says nothing more.
Following(f) == IF IsEot(f) THEN <<f[1] + 1, 0>> ELSE <<f[1], f[2] + 1>>

AsrSends ==
    /\ yState # "quit" /\ yAnswers # <<>>
    /\ \/ /\ yNext[1] <= Last_ /\ yNext # <<Last_, 1>>
          /\ yFrames' = Append(yFrames, yNext) /\ yNext' = Following(yNext) /\ UNCHANGED yFaults
       \/ yNext = <<Last_, 1>> /\ UNCHANGED <<yFrames, yNext, yFaults>>
       \/ YFault /\ UNCHANGED <<yFrames, yNext>>
    /\ yAnswers' = Tail(yAnswers)
    /\ UNCHANGED yHost

AsrRepeats ==
    /\ yState # "quit" /\ yNext # <<1, 0>> /\ yBuff # Silent /\ yFrames = <<>> /\ YFault
    /\ yFrames' = <<yBuff>>
    /\ UNCHANGED <<yHost, yAnswers, yNext>>

YHostNext ==
    HeaderFrame \/ HeaderTimeout \/ DataFrame \/ DataTimeout \/ YError \/ YExit

YmodemNext == YHostNext \/ AsrSends \/ AsrRepeats

YmodemFair ==
    /\ WF_ymodemVars(HeaderFrame \/ HeaderTimeout \/ DataFrame \/ DataTimeout)
    /\ WF_ymodemVars(AsrSends)

YmodemSpec == YmodemInit /\ [][YmodemNext]_ymodemVars /\ YmodemFair
-----------------------------------------------------------------------------

\* The types of the receiver's state; a file is open exactly while its data are
\* read, or when the dump ended in the middle of it.
YmodemTypeOK ==
    /\ yState \in {"header", "data", "again", "quit"}
    /\ yRet \in {"ok", "error"} /\ yTrust \in {"stale", "fresh", "misled", "exit"}
    /\ yRetry \in 0 .. WaitRetries - 1
    /\ yFile \in 0 .. Len(AsrFiles) /\ yClosed \subseteq 1 .. Len(AsrFiles)
    /\ yState \in {"data", "again"} => yFile # 0
    /\ yState = "header" => yFile = 0

\* No frame of a file is skipped or saved after a later one, whichever answers
\* are lost, frames repeated and waits ended too early: each frame saved is the
\* one before it, repeated, or the next; a file closed by EOT has all of them.
\* The exception is a dump in which the header of an earlier one, still in the
\* static YmodemBuff after five timeouts, opened a file for the frames that came
\* late.
YmodemNoGap ==
    yTrust # "misled" =>
    \A f \in 1 .. Len(AsrFiles) :
        /\ \A i \in DOMAIN ySaved[f] :
            /\ ySaved[f][i][1] = f
            /\ ySaved[f][i][2] \in IF i = 1 THEN {0, 1} ELSE {ySaved[f][i - 1][2], ySaved[f][i - 1][2] + 1}
        /\ f \in yClosed /\ AsrFiles[f] > 0 =>
            ySaved[f] # <<>> /\ ySaved[f][Len(ySaved[f])] = <<f, AsrFiles[f]>>

\* asr_catch_dump returns success only when every file was received to its end,
\* but for what the code lets pass: an exit requested between two reads; a module
\* from which no frame came, with a buffer that is empty or holds the end of an
\* earlier transfer (no file is written then); and a dump misled by the header of
\* an earlier one.
YmodemSuccess ==
    yState = "quit" /\ yRet = "ok" =>
        \/ yClosed = 1 .. Len(AsrFiles)
        \/ yTrust \in {"exit", "misled"}
        \/ yTrust = "stale" /\ IsEnd(yBuff) /\ \A f \in 1 .. Len(AsrFiles) : ySaved[f] = <<>>

\* The files of a dump are the module's: none with a gap, and all of them when
\* the dump is reported as finished, with the exceptions of the two parts.
YmodemFiles == YmodemNoGap /\ YmodemSuccess

\* With a module that keeps answering, the transfer ends, however many answers
\* are lost on the way.
YmodemEnds == <>(yState = "quit")
==============================================================================
