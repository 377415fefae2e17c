------------------------------- MODULE Qshrink4 ------------------------------
(***************************************************************************)
(* Reading the hash files (.qdb) of a module that logs in qmdl2 format     *)
(* (qshrink4.c), before its filter is configured.  The filter thread runs  *)
(* mdm_create_qshrink4_file: it asks for the diag ids and for the list of  *)
(* hash files, then opens, reads block by block and closes each file it    *)
(* lacks, and completes the qmdl2 header.  Every request goes through      *)
(* mdm_send_cmd (module DiagCmd): it ends when an answer is handled or     *)
(* after 5 s, so a request may return at any time, with or without an      *)
(* answer, and an answer may come during a later request.  The main thread *)
(* handles an answer whenever a request with the same command code is      *)
(* pending; all requests but the first share one code.                     *)
(*                                                                         *)
(* A hash file is a number, its content the blocks 1 .. FileLen[f], and a  *)
(* read asks for at most MaxRead of them.                                  *)
(***************************************************************************)
EXTENDS Integers, Sequences, FiniteSets

CONSTANTS FileLen,      \* file -> its length
          MaxRead,      \* MAX_QSR4_DB_FILE_READ_PER_RSP
          MaxSessions,  \* bound: sessions
          MaxLate       \* bound: requests the module has yet to answer

ASSUME Qshrink4Assumption ==
    /\ FileLen \in Seq(Nat \ {0})
    /\ MaxRead \in Nat \ {0}
    /\ MaxSessions \in Nat \ {0} /\ MaxLate \in Nat \ {0}

Files == DOMAIN FileLen
NoFd == 0               \* read_file_fd = -1, disk_file_fd = -1

VARIABLES
    pc,        \* what the filter thread does next, or waits for
    waiting,   \* it is inside mdm_send_cmd
    op,        \* the request of g_mdm_req and the state flags, or "none"
    i,         \* index of the file in the loop
    off,       \* total_len
    readFd,    \* read_file_fd: the module's handle
    total,     \* read_file_total_len
    readLen,   \* read_file_len
    diskFd,    \* disk_file_fd: the file being written
    disk,      \* file -> the blocks in its .qdb, as <<file, block>>
    ids,       \* diag_id_count # 0
    list,      \* the guids of qshrink4_data
    header,    \* qshrink4_data.header_length # 0
    init4,     \* qshrink4_init
    got,       \* ftp_qdb_file_len # 0
    session,   \* number of sessions
    abnormal,  \* qlog_abnormal_exit
    fresh,     \* this session began with the globals reset
    reqs,      \* requests the module has yet to answer
    link,      \* answers on their way
    handles    \* the module's open files: handle -> file

request == <<waiting, op>>
reading == <<i, off, readFd, total, readLen, diskFd, disk>>
header4 == <<ids, list, header, init4, got>>
module == <<reqs, link, handles>>
sessions == <<session, abnormal, fresh>>
vars == <<pc, request, reading, header4, sessions, module>>

Init ==
    /\ pc = "off" /\ waiting = FALSE /\ op = "none"
    /\ i = 0 /\ off = 0 /\ readFd = NoFd /\ total = 0 /\ readLen = 0
    /\ diskFd = NoFd /\ disk = [f \in Files |-> <<>>]
    /\ ids = FALSE /\ list = <<>> /\ header = FALSE /\ init4 = FALSE /\ got = FALSE
    /\ session = 0 /\ abnormal = FALSE /\ fresh = TRUE
    /\ reqs = <<>> /\ link = <<>> /\ handles = <<>>

-----------------------------------------------------------------------------
(* Sessions.                                                               *)

\* The globals survive an abnormal exit.
StartSessionNoReset ==
    /\ pc = "off" /\ session < MaxSessions
    /\ session' = session + 1
    /\ fresh' = (session = 0 \/ abnormal)
    /\ abnormal' = FALSE
    /\ list' = <<>> /\ header' = FALSE
    /\ pc' = IF init4 \/ ids THEN "done" ELSE "id"
    /\ init4' = TRUE
    /\ UNCHANGED <<request, reading, ids, got, module>>

\* After an abnormal exit mdm_reset_global_variables makes the next session
\* query everything again; mdm_init_filter clears the header in any case.
StartSession ==
    /\ pc = "off" /\ session < MaxSessions
    /\ session' = session + 1
    /\ fresh' = (session = 0 \/ abnormal)
    /\ abnormal' = FALSE
    /\ list' = <<>> /\ header' = FALSE
    /\ LET known == init4 /\ ~abnormal
           haveIds == ids /\ ~abnormal
       IN  /\ pc' = IF known \/ haveIds THEN "done" ELSE "id"
           /\ ids' = haveIds
           /\ init4' = TRUE
    /\ UNCHANGED <<request, reading, got, module>>

\* The thread is cancelled, wherever it is, and the next session starts: the
\* module is gone, or (not noted as abnormal) the log could not be created.
EndSession ==
    /\ pc # "off" /\ session < MaxSessions
    /\ pc' = "off"
    /\ waiting' = FALSE
    /\ \/ /\ abnormal' = TRUE
          /\ reqs' = <<>> /\ link' = <<>> /\ handles' = <<>>
       \/ UNCHANGED <<abnormal, module>>
    /\ UNCHANGED <<op, reading, header4, session, fresh>>

-----------------------------------------------------------------------------
(* The filter thread: diag_send_data, and what follows when it returns.    *)

Send(o, r) ==
    /\ ~waiting /\ Len(reqs) < MaxLate
    /\ waiting' = TRUE
    /\ op' = o
    /\ reqs' = Append(reqs, r)

Return ==
    /\ waiting
    /\ waiting' = FALSE
    /\ op' = "none"

QueryIds ==
    /\ pc = "id"
    /\ Send("id", <<"id">>)
    /\ UNCHANGED <<pc, reading, header4, sessions, link, handles>>

\* A file list is asked for only when a diag id of the modem is known.
IdsReturn ==
    /\ pc = "id" /\ Return
    /\ pc' = IF ids THEN "list" ELSE "header"
    /\ UNCHANGED <<reading, header4, sessions, module>>

QueryList ==
    /\ pc = "list"
    /\ Send("list", <<"list">>)
    /\ UNCHANGED <<pc, reading, header4, sessions, link, handles>>

ListReturn ==
    /\ pc = "list" /\ Return
    /\ pc' = "next"
    /\ i' = 1
    /\ UNCHANGED <<off, readFd, total, readLen, diskFd, disk, header4, sessions,
                   module>>

\* The loop over the files: one that is there in full, or any once a file has
\* been fetched, is skipped.
Present(f) == Len(disk[f]) = FileLen[f]

NextFile ==
    /\ pc = "next"
    /\ IF i > Len(list)
       THEN pc' = "header" /\ UNCHANGED reading
       ELSE IF Present(list[i]) \/ got
       THEN pc' = "next" /\ i' = i + 1
            /\ UNCHANGED <<off, readFd, total, readLen, diskFd, disk>>
       ELSE pc' = "open" /\ total' = 0 /\ readFd' = NoFd
            /\ UNCHANGED <<i, off, readLen, diskFd, disk>>
    /\ UNCHANGED <<request, header4, sessions, module>>

SendOpen ==
    /\ pc = "open"
    /\ Send("open", <<"open", list[i]>>)
    /\ UNCHANGED <<pc, reading, header4, sessions, link, handles>>

\* The .qdb is opened without O_TRUNC.
OpenReturnAppends ==
    /\ pc = "open" /\ Return
    /\ pc' = "read"
    /\ off' = 0
    /\ IF readFd = NoFd
       THEN UNCHANGED <<total, diskFd>>
       ELSE total' = FileLen[list[i]] /\ diskFd' = list[i]
    /\ UNCHANGED <<i, readFd, readLen, disk, header4, sessions, module>>

OpenReturn ==
    /\ pc = "open" /\ Return
    /\ pc' = "read"
    /\ off' = 0
    /\ IF readFd = NoFd
       THEN UNCHANGED <<total, diskFd, disk>>
       ELSE /\ total' = FileLen[list[i]]
            /\ diskFd' = list[i]
            /\ disk' = [disk EXCEPT ![list[i]] = <<>>]
    /\ UNCHANGED <<i, readFd, readLen, header4, sessions, module>>

\* The last read asks for a full block.
AskedFull == MaxRead

\* What is left of the file, at most a block.
Asked == IF off + MaxRead > total THEN total - off ELSE MaxRead

SendRead ==
    /\ pc = "read" /\ readFd # NoFd /\ off < total
    /\ Send("read", <<"read", readFd, off, Asked>>)
    /\ readLen' = 0
    /\ UNCHANGED <<pc, i, off, readFd, total, diskFd, disk, header4, sessions,
                   link, handles>>

\* The loop goes on until the whole file has been read.
ReadReturnRetries ==
    /\ pc = "read" /\ Return
    /\ pc' = IF off + readLen < total THEN "read" ELSE "close"
    /\ off' = off + readLen
    /\ UNCHANGED <<i, readFd, total, readLen, diskFd, disk, header4, sessions,
                   module>>

\* The loop goes on only after a full block.
ReadReturn ==
    /\ pc = "read" /\ Return
    /\ pc' = IF readLen = MaxRead THEN "read" ELSE "close"
    /\ off' = off + readLen
    /\ UNCHANGED <<i, readFd, total, readLen, diskFd, disk, header4, sessions,
                   module>>

\* diag_send_qsr4_file_read_cmd_req returns 0 at once.
ReadNothing ==
    /\ pc = "read" /\ ~waiting /\ (readFd = NoFd \/ off >= total)
    /\ pc' = "close"
    /\ UNCHANGED <<request, reading, header4, sessions, module>>

SendClose ==
    /\ pc = "close" /\ readFd # NoFd
    /\ Send("close", <<"close", readFd>>)
    /\ diskFd' = NoFd
    /\ UNCHANGED <<pc, i, off, readFd, total, readLen, disk, header4, sessions,
                   link, handles>>

\* ftp_qdb_file_len is set whether or not the file was read.
FileDone ==
    /\ pc = "close"
    /\ \/ Return
       \/ ~waiting /\ readFd = NoFd /\ UNCHANGED request
    /\ pc' = "next"
    /\ i' = i + 1
    /\ readFd' = NoFd
    /\ got' = TRUE
    /\ UNCHANGED <<off, total, readLen, diskFd, disk, ids, list, header, init4, sessions, module>>

\* mdm_add_qshrink4_header.
AddHeader ==
    /\ pc = "header"
    /\ pc' = "done"
    /\ header' = TRUE
    /\ UNCHANGED <<request, reading, ids, list, init4, got, sessions, module>>

FilterThread ==
    \/ QueryIds \/ IdsReturn \/ QueryList \/ ListReturn \/ NextFile
    \/ SendOpen \/ OpenReturn \/ SendRead \/ ReadReturn \/ ReadNothing
    \/ SendClose \/ FileDone \/ AddHeader

-----------------------------------------------------------------------------
(* The module answers in order, or not at all.                             *)

Answers(r) ==
    CASE r[1] = "id"    -> {<< <<"id">> >>}
      [] r[1] = "list"  -> {<< <<"list">> >>}
      [] r[1] = "open"  -> {<< <<"open", Len(handles) + 1>> >>}
      [] r[1] = "read"  -> LET data == <<"data", handles[r[2]], r[3], r[4]>>
                           IN  {<<data>>, << <<"ack">>, data>>}
      [] r[1] = "close" -> {<< <<"closed", r[2]>> >>}

Serve ==
    /\ reqs # <<>>
    /\ reqs' = Tail(reqs)
    /\ \/ UNCHANGED <<link, handles>>
       \/ /\ \E a \in Answers(Head(reqs)) : link' = link \o a
          /\ handles' = IF Head(reqs)[1] = "open"
                        THEN Append(handles, Head(reqs)[2]) ELSE handles
    /\ UNCHANGED <<pc, request, reading, header4, sessions>>

-----------------------------------------------------------------------------
(* The main thread: mdm_handle_data_for_command_rsp.                       *)

Blocks(f, from, n) == [k \in 1 .. n |-> <<f, from + k>>]

\* A packet is ignored unless the pending request has its command code; then it
\* is dispatched on its own opcode.
Matches(a) ==
    IF a[1] = "id" THEN op = "id" ELSE op \in {"list", "open", "read", "close"}

Handle ==
    /\ link # <<>>
    /\ link' = Tail(link)
    /\ LET a == Head(link)
       IN  \/ /\ ~Matches(a) \/ a[1] = "ack"
              /\ UNCHANGED <<ids, list, readFd, readLen, disk>>
           \/ /\ Matches(a) /\ a[1] = "id"
              /\ ids' = TRUE
              /\ UNCHANGED <<list, readFd, readLen, disk>>
           \/ /\ Matches(a) /\ a[1] = "list"
              /\ list' = list \o [k \in 1 .. Len(FileLen) |-> k]
              /\ UNCHANGED <<ids, readFd, readLen, disk>>
           \/ /\ Matches(a) /\ a[1] = "open"
              /\ readFd' = a[2]
              /\ UNCHANGED <<ids, list, readLen, disk>>
           \/ /\ Matches(a) /\ a[1] = "data"
              /\ readLen' = a[4]
              /\ disk' = IF diskFd = NoFd THEN disk
                         ELSE [disk EXCEPT ![diskFd] = @ \o Blocks(a[2], a[3], a[4])]
              /\ UNCHANGED <<ids, list, readFd>>
           \/ /\ Matches(a) /\ a[1] = "closed"
              /\ readFd' = IF readFd = a[2] THEN NoFd ELSE readFd
              /\ UNCHANGED <<ids, list, readLen, disk>>
    /\ UNCHANGED <<pc, request, i, off, total, diskFd, header, init4, got, sessions, reqs, handles>>

\* The filter thread has gone on to the configuration, or the program ended.
Finished ==
    /\ pc \in {"done", "off"} /\ session = MaxSessions /\ reqs = <<>> /\ link = <<>>
    /\ UNCHANGED vars

Next == StartSession \/ EndSession \/ FilterThread \/ Serve \/ Handle \/ Finished

Spec == Init /\ [][Next]_vars

\* The thread runs, and every request ends by an answer or by its timeout.
FairSpec == Spec /\ WF_vars(FilterThread)

-----------------------------------------------------------------------------
(* Properties.                                                             *)

\* Types and ranges of the state.
TypeOK ==
    /\ pc \in {"off", "id", "list", "next", "open", "read", "close", "header", "done"}
    /\ waiting \in BOOLEAN /\ op \in {"none", "id", "list", "open", "read", "close"}
    /\ i \in Nat /\ off \in Nat /\ total \in Nat /\ readLen \in 0 .. MaxRead
    /\ readFd \in Nat /\ diskFd \in {NoFd} \cup Files
    /\ \A f \in Files : Len(disk[f]) <= FileLen[f]
    /\ list \in Seq(Files) /\ Len(list) <= Len(FileLen)
    /\ session \in 0 .. MaxSessions /\ abnormal \in BOOLEAN /\ fresh \in BOOLEAN

\* A .qdb on disk always holds the beginning of the hash file it is named
\* after: no block of another file, none twice, none missing in between,
\* whatever answers are late or lost (process_qsr_db_file_read_delayed_rsp).
QdbIsPrefix ==
    \A f \in Files : \A k \in 1 .. Len(disk[f]) : disk[f][k] = <<f, k>>

\* When mdm_create_qshrink4_file returns in a session that began with the globals
\* reset, the qmdl2 header is complete; until then mdm_logfile_save throws every
\* log packet away.  A session after one that could not create its log begins
\* with qshrink4_init set and the header cleared, and has none.
HeaderAtEnd == (pc = "done" /\ fresh) => header

\* The filter thread gets through, even when the module never answers.
GetsThrough == pc = "id" ~> pc \in {"done", "off"}
==============================================================================
