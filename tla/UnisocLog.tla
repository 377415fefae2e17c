------------------------------ MODULE UnisocLog ------------------------------
(***************************************************************************)
(* The capture of a Unisoc module's diag log: the filter thread            *)
(* (unisoc_init_filter), which configures the module with AT commands and  *)
(* then asks for its time and version every five seconds, the main thread  *)
(* (message_handle_unisoc, unisoc_logfile_save, HandleDiagPkt), which      *)
(* handles and saves what the module sends, and the thread that asks for   *)
(* the memory of a crashed modem (unisoc_cpdump_thread_func).  They share  *)
(* s_pRequest, m_bAT_result, m_bUE_Obtained, m_bVer_Obtained, m_bSendTCmd  *)
(* and g_donot_split_logfile without a lock.                               *)
(*                                                                         *)
(* A packet is its kind; a command is "time", "version", "t" or an AT    *)
(* command with its number.  The last AT command is AT+ARMLOG=1, which turns the *)
(* log on and is repeated until it is accepted.                            *)
(***************************************************************************)
EXTENDS Integers, Sequences, SequencesExt

CONSTANTS AtCommands,  \* the number of AT commands
          AtTries,     \* 10, the limit of nTryNum for AT+ARMLOG=1
          UeTries,     \* 5, the limit for the time query
          UniLimit,    \* logfile_size, in packets
          UniLogs,     \* bound: log packets of the module
          UniCrash,    \* bound: memory packets of a crash; 0 is no crash
          UniRounds,   \* bound: rounds of the filter thread
          UniSessions  \* bound: sessions

ASSUME UnisocLogAssumption ==
    /\ {AtCommands, AtTries, UniLimit} \subseteq Nat \ {0}
    /\ {UeTries, UniLogs, UniCrash, UniRounds, UniSessions} \subseteq Nat

NoRequest == 0

VARIABLES
    uFilter,   \* the filter thread
    uAt,       \* the AT command it is at
    uTry,      \* nTryNum
    uRound,    \* rounds of queries
    uReq,      \* s_pRequest: the command waiting for its answer, or NoRequest
    uRes,      \* m_bAT_result
    uUe,       \* m_bUE_Obtained
    uVer,      \* m_bVer_Obtained
    uTcmd,     \* m_bSendTCmd
    uNoSplit,  \* g_donot_split_logfile
    uThread,   \* the crash thread: "off", "waiting", "sent"
    uMain,     \* the main thread: "read", "end"
    uSession,  \* number of the session
    uExit,     \* qlog_exit_requested
    uFiles,    \* the log files: sequences of packets
    uOpen,     \* a log file is open
    uSize,     \* savelog_size_total: packets received since it was created
    uOut,      \* commands the module has not handled
    uIn,       \* packets the main thread has not read
    uModule,   \* [logs, crash]: log packets sent, state of the crash
    uDone,     \* AT commands the module has accepted in this session
    uArm,      \* history: the filter thread took AT+ARMLOG=1 for accepted
    uLate,     \* history: an AT command was given up before its answer came
    uMissed    \* history: an assert was taken for one of a crash of an earlier session

filterVars == <<uFilter, uAt, uTry, uRound>>
flagVars == <<uReq, uRes, uUe, uVer, uTcmd, uNoSplit>>
mainVars == <<uMain, uSession, uExit, uFiles, uOpen, uSize>>
uniVars == <<filterVars, flagVars, uThread, mainVars, uOut, uIn, uModule, uDone, uArm, uLate, uMissed>>

UniInit ==
    /\ uFilter = "start" /\ uAt = 1 /\ uTry = 0 /\ uRound = 0
    /\ uReq = NoRequest /\ uRes = 0 /\ uUe = 0 /\ uVer = 0 /\ uTcmd = 0 /\ uNoSplit = 0
    /\ uThread = "off" /\ uMain = "read" /\ uSession = 1 /\ uExit = FALSE
    /\ uFiles = <<>> /\ uOpen = FALSE /\ uSize = 0 /\ uOut = <<>> /\ uIn = <<>>
    /\ uModule = [logs |-> 0, crash |-> "no", mem |-> 0] /\ uDone = {} /\ uArm = FALSE /\ uLate = FALSE
    /\ uMissed = FALSE

Command(c, n) == [cmd |-> c, at |-> n]

Commanded(c, n) == uOut' = Append(uOut, Command(c, n))

\* unisoc_init_filter resets what the main thread reads and sets.
FilterStart ==
    /\ uFilter = "start" /\ uMain = "read"
    /\ uUe' = 0 /\ uVer' = 0 /\ uTcmd' = 0
    /\ uFilter' = "request" /\ uAt' = 1 /\ uTry' = 0
    /\ UNCHANGED <<uRound, uReq, uRes, uNoSplit, uThread, mainVars, uOut, uIn, uModule, uDone, uArm, uLate, uMissed>>

\* unisco_send_at_command: the request is published, the result cleared, the
\* command written, the answer waited for; nothing is sent after a crash.
AtRequest ==
    /\ uFilter = "request" /\ uMain = "read"
    /\ IF uTcmd = 0 THEN uFilter' = "clear" /\ uReq' = uAt ELSE uFilter' = "refused" /\ UNCHANGED uReq
    /\ UNCHANGED <<uAt, uTry, uRound, uRes, uUe, uVer, uTcmd, uNoSplit, uThread, mainVars, uOut, uIn, uModule, uDone, uArm, uLate, uMissed>>

AtWrite ==
    /\ uFilter = "clear" /\ uMain = "read"
    /\ uRes' = 0 /\ Commanded("at", uAt) /\ uFilter' = "wait"
    /\ UNCHANGED <<uAt, uTry, uRound, uReq, uUe, uVer, uTcmd, uNoSplit, uThread, mainVars, uIn, uModule, uDone, uArm, uLate, uMissed>>

AtAnswered ==
    /\ uFilter = "wait" /\ uReq = NoRequest /\ uFilter' = "result"
    /\ UNCHANGED <<uAt, uTry, uRound, flagVars, uThread, mainVars, uOut, uIn, uModule, uDone, uArm, uLate, uMissed>>

AtTimeout ==
    /\ uFilter = "wait" /\ uReq # NoRequest /\ uMain = "read"
    /\ uFilter' = "result" /\ uReq' = NoRequest /\ uLate' = TRUE
    /\ UNCHANGED <<uAt, uTry, uRound, uRes, uUe, uVer, uTcmd, uNoSplit, uThread, mainVars, uOut, uIn, uModule, uDone, uArm, uMissed>>

\* The next command, or the last one again until it is accepted or tried out.
AtResult ==
    /\ uFilter \in {"result", "refused"}
    /\ LET ok == uFilter = "result" /\ uRes = 1 IN
       /\ uArm' = (uAt = AtCommands /\ ok)
       /\ IF uAt < AtCommands THEN uAt' = uAt + 1 /\ uFilter' = "request" /\ uTry' = 0
          ELSE IF ~ok /\ uTry + 1 < AtTries THEN uTry' = uTry + 1 /\ uFilter' = "request" /\ UNCHANGED uAt
          ELSE uFilter' = "query" /\ uTry' = 0 /\ UNCHANGED uAt
    /\ UNCHANGED <<uRound, flagVars, uThread, mainVars, uOut, uIn, uModule, uDone, uLate, uMissed>>

\* A round of the query loop: time and version as long as they are missing.
FilterQuery ==
    /\ uFilter = "query" /\ ~uExit /\ uMain = "read" /\ uRound < UniRounds
    /\ uRound' = uRound + 1
    /\ LET time == uTcmd = 0 /\ uUe = 0 /\ uTry < UeTries
           version == uTcmd = 0 /\ uVer = 0
       IN /\ uTry' = IF time THEN uTry + 1 ELSE uTry
          /\ uOut' = uOut \o (IF time THEN <<Command("time", 0)>> ELSE <<>>) \o (IF version THEN <<Command("version", 0)>> ELSE <<>>)
    /\ UNCHANGED <<uFilter, uAt, flagVars, uThread, mainVars, uIn, uModule, uDone, uArm, uLate, uMissed>>

FilterEnds ==
    /\ uFilter = "query" /\ uExit /\ uFilter' = "end"
    /\ UNCHANGED <<uAt, uTry, uRound, flagVars, uThread, mainVars, uOut, uIn, uModule, uDone, uArm, uLate, uMissed>>

\* Mutant: any answer is a success.
ProcessAtAny(p) ==
    /\ uReq' = IF p \in {"OK", "ERROR"} THEN NoRequest ELSE uReq
    /\ uRes' = IF p \in {"OK", "ERROR"} /\ uReq # NoRequest THEN 1 ELSE uRes

\* unisco_process_at_command: an answer counts for whatever request is waiting.
ProcessAt(p) ==
    /\ uReq' = IF p \in {"OK", "ERROR"} THEN NoRequest ELSE uReq
    /\ uRes' = IF p \in {"OK", "ERROR"} /\ uReq # NoRequest THEN (IF p = "OK" THEN 1 ELSE 0) ELSE uRes

\* Mutant: the asserts are counted.
HandleAssertProcCounts(p) ==
    /\ uTcmd' = IF p = "assert" THEN uTcmd + 1 ELSE IF p = "end" THEN 0 ELSE uTcmd
    /\ uNoSplit' = IF p = "assert" THEN 1 ELSE IF p = "end" THEN 0 ELSE uNoSplit
    /\ uThread' = IF p = "assert" THEN "waiting" ELSE uThread
    /\ uExit' = (uExit \/ p = "end")

\* Mutant: the log may be split during a crash.
HandleAssertProcSplits(p) ==
    /\ uTcmd' = IF p = "assert" THEN 1 ELSE IF p = "end" THEN 0 ELSE uTcmd
    /\ uThread' = IF p = "assert" /\ uTcmd = 0 THEN "waiting" ELSE uThread
    /\ uExit' = (uExit \/ p = "end")
    /\ UNCHANGED uNoSplit

\* HandleAssertProc: the first assert of a crash keeps the log in one file and
\* starts the thread that asks for the memory; its end ends the program.
HandleAssertProc(p) ==
    /\ uTcmd' = IF p = "assert" THEN 1 ELSE IF p = "end" THEN 0 ELSE uTcmd
    /\ uNoSplit' = IF p = "assert" /\ uTcmd = 0 THEN 1 ELSE IF p = "end" THEN 0 ELSE uNoSplit
    /\ uThread' = IF p = "assert" /\ uTcmd = 0 THEN "waiting" ELSE uThread
    /\ uExit' = (uExit \/ p = "end")

HandleDiagPkt(p) ==
    /\ ProcessAt(p) /\ HandleAssertProc(p)
    /\ uUe' = IF p = "time" THEN 1 ELSE uUe

\* What goes to the log: AT answers do not.
IsSaved(p) == p \notin {"OK", "ERROR"}

\* unisoc_logfile_init: the packages a log begins with.
NewLog == <<"reserved">>

\* Mutant: the version of an earlier log stays known.
VersionKnownStill(full, p) == IF p = "version" THEN 1 ELSE uVer

\* m_bVer_Obtained after a packet: a log that is closed makes it unknown.
VersionKnown(full, p) == IF full THEN 0 ELSE IF p = "version" THEN 1 ELSE uVer

\* An assert comes before the filter thread has cleared the m_bSendTCmd that an
\* earlier session left set: it neither keeps the log in one file nor starts the
\* thread that asks for the memory.
TakenForEarlier(p) == p = "assert" /\ uTcmd = 1 /\ uFilter = "start" /\ uNoSplit = 0

\* One read of the main loop: the file is created if none is open, the packet
\* handled and saved, and the log closed when enough has been received and no
\* crash is being saved; a new log makes the filter thread ask for the version again.
MainSaves ==
    /\ uMain = "read" /\ ~uExit /\ uIn # <<>> /\ uIn' = Tail(uIn)
    /\ HandleDiagPkt(Head(uIn))
    /\ LET files == IF uOpen THEN uFiles ELSE Append(uFiles, NewLog)
           log == IF IsSaved(Head(uIn)) THEN Append(files[Len(files)], Head(uIn)) ELSE files[Len(files)]
           full == uSize + 1 >= UniLimit /\ uNoSplit' = 0
       IN /\ uFiles' = [files EXCEPT ![Len(files)] = log]
          /\ uOpen' = ~full
          /\ uSize' = IF full THEN 0 ELSE uSize + 1
          /\ uVer' = VersionKnown(full, Head(uIn))
    /\ uMissed' = (uMissed \/ TakenForEarlier(Head(uIn)))
    /\ UNCHANGED <<filterVars, uMain, uSession, uOut, uModule, uDone, uArm, uLate>>

\* The device is gone or the exit requested: the log is closed, the filter
\* thread cancelled and joined.
MainEnds ==
    /\ uMain = "read" /\ (uExit \/ uIn = <<>>)
    /\ uMain' = "end" /\ uOpen' = FALSE /\ uSize' = 0 /\ uFilter' = "end"
    /\ UNCHANGED <<uAt, uTry, uRound, flagVars, uThread, uSession, uExit, uFiles, uOut, uIn, uModule, uDone, uArm, uLate, uMissed>>

\* main opens the device again: a new session.  The log may be split again; the
\* other flags are those of the last session until its filter thread starts.
UniRestart ==
    /\ uMain = "end" /\ ~uExit /\ uSession < UniSessions
    /\ uMain' = "read" /\ uSession' = uSession + 1 /\ uFilter' = "start"
    /\ uOut' = <<>> /\ uIn' = <<>> /\ uModule' = [uModule EXCEPT !.crash = "no"]
    /\ uNoSplit' = 0 /\ uDone' = {} /\ uArm' = FALSE /\ uLate' = FALSE
    /\ UNCHANGED <<uAt, uTry, uRound, uReq, uRes, uUe, uVer, uTcmd, uThread, uExit, uFiles, uOpen, uSize, uMissed>>

\* The crash thread waits until the log is quiet, at most fifteen seconds, and
\* asks for the memory.
CpDump ==
    /\ uThread = "waiting" /\ uThread' = "sent" /\ Commanded("t", 0)
    /\ UNCHANGED <<filterVars, flagVars, mainVars, uIn, uModule, uDone, uArm, uLate, uMissed>>

\* The module: it answers commands (an AT command in its own time), sends log,
\* crashes, and sends its memory when asked.
ModuleCommand ==
    /\ uOut # <<>> /\ uMain = "read" /\ uModule.crash # "mem"
    /\ uOut' = Tail(uOut)
    /\ LET c == Head(uOut) IN
       \/ /\ c.cmd = "at" /\ uIn' = Append(uIn, "OK") /\ uDone' = uDone \cup {c.at} /\ UNCHANGED uModule
       \/ /\ c.cmd = "at" /\ uIn' = Append(uIn, "ERROR") /\ UNCHANGED <<uDone, uModule>>
       \/ /\ c.cmd \in {"time", "version"} /\ uIn' = Append(uIn, c.cmd) /\ UNCHANGED <<uDone, uModule>>
       \/ /\ c.cmd = "t" /\ uModule' = [uModule EXCEPT !.crash = IF @ = "yes" THEN "mem" ELSE @]
          /\ UNCHANGED <<uIn, uDone>>
    /\ UNCHANGED <<filterVars, flagVars, uThread, mainVars, uArm, uLate, uMissed>>

ModuleLogs ==
    /\ uMain = "read" /\ uModule.crash = "no" /\ uModule.logs < UniLogs
    /\ uIn' = Append(uIn, "log") /\ uModule' = [uModule EXCEPT !.logs = @ + 1]
    /\ UNCHANGED <<filterVars, flagVars, uThread, mainVars, uOut, uDone, uArm, uLate, uMissed>>

ModuleCrashes ==
    /\ uMain = "read" /\ uModule.crash = "no" /\ UniCrash > 0 /\ uModule.mem = 0
    /\ uIn' = Append(uIn, "assert") /\ uModule' = [uModule EXCEPT !.crash = "yes"]
    /\ UNCHANGED <<filterVars, flagVars, uThread, mainVars, uOut, uDone, uArm, uLate, uMissed>>

ModuleMemory ==
    /\ uMain = "read" /\ uModule.crash = "mem"
    /\ IF uModule.mem < UniCrash
       THEN uIn' = Append(uIn, "mem") /\ uModule' = [uModule EXCEPT !.mem = @ + 1]
       ELSE uIn' = Append(uIn, "end") /\ uModule' = [uModule EXCEPT !.crash = "over"]
    /\ UNCHANGED <<filterVars, flagVars, uThread, mainVars, uOut, uDone, uArm, uLate, uMissed>>

FilterNext ==
    \/ FilterStart \/ AtRequest \/ AtWrite \/ AtAnswered \/ AtTimeout \/ AtResult
    \/ FilterQuery \/ FilterEnds

ModuleNext == ModuleCommand \/ ModuleLogs \/ ModuleCrashes \/ ModuleMemory

UniNext == FilterNext \/ MainSaves \/ MainEnds \/ UniRestart \/ CpDump \/ ModuleNext

UniSpec == UniInit /\ [][UniNext]_uniVars
-----------------------------------------------------------------------------

\* The types of the shared flags and of the threads' states.
UniTypeOK ==
    /\ uFilter \in {"start", "request", "clear", "wait", "result", "refused", "query", "end"}
    /\ uAt \in 1 .. AtCommands /\ uTry \in Nat /\ uReq \in 0 .. AtCommands
    /\ {uRes, uUe, uVer, uTcmd, uNoSplit} \subseteq {0, 1}
    /\ uThread \in {"off", "waiting", "sent"} /\ uMain \in {"read", "end"}
    /\ uOpen => uFiles # <<>>

\* The filter thread takes the log as turned on only if the module accepted the
\* command that turns it on, unless an earlier command was given up before its
\* answer came: an answer of before, or none, never counts for it.
ArmedIsAccepted == uArm => AtCommands \in uDone \/ uLate

\* Once the filter thread of the session has started, the version is taken as
\* known only if it is in the log file being written: rotation forgets it, so
\* that every file gets its own.
VersionInLog ==
    (uVer = 1 /\ uOpen /\ uFilter # "start" /\ uMain = "read") =>
        "version" \in Range(uFiles[Len(uFiles)])

\* The memory of a crashed modem is in one file, with the assert before it,
\* however small the limit of the log files and whatever an earlier session left
\* of its crash, except when the assert came so early in its session that it was
\* taken for one of that crash (HandleAssertProc looks at m_bSendTCmd, which
\* unisoc_init_filter clears, not at g_donot_split_logfile, which main has cleared).
CrashInOneFile ==
    uMissed \/ \A i \in DOMAIN uFiles : "mem" \in Range(uFiles[i]) => "assert" \in Range(uFiles[i])

\* Each log file can be read by itself: it has the version, and all of a crash.
UniFiles == VersionInLog /\ CrashInOneFile
==============================================================================
