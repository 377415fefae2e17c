------------------------------ MODULE FtpSession -----------------------------
(***************************************************************************)
(* One session of qftp_server: the service process that reads commands     *)
(* (handle_child of ftpproto.c), the nobody process that opens the data    *)
(* connections for it (privparent.c), the socket pair between them, the    *)
(* signals SIGALRM and SIGURG, and a client that sends any command.        *)
(*                                                                         *)
(* A command is <<verb, argument>>, a reply <<code, verb it answers>>, a   *)
(* file a sequence of blocks, a port the number of the PASV that opened    *)
(* it.  A signal is handled before the next step of the service process;   *)
(* the line of an urgent ABOR has arrived when its SIGURG is.  The pairs   *)
(* of questions port_active and pasv_active ask one after the other get    *)
(* the same answer and are one question here.                              *)
(***************************************************************************)
EXTENDS Integers, Sequences, SequencesExt

CONSTANTS FtpNames,      \* how many files there are to store
          FtpCommands,   \* bound: commands of a client
          FtpAhead,      \* bound: commands sent and not read
          FtpBlocks,     \* bound: blocks sent on a data connection
          FtpFaults      \* bound: failures of the disk, the network, the nobody process

ASSUME FtpAssumption ==
    FtpNames \in Nat \ {0} /\ FtpCommands \in Nat /\ FtpAhead \in Nat /\ FtpBlocks \in Nat
    /\ FtpFaults \in Nat

VARIABLES
    spc,       \* service process: "idle", what it waits for, "up", "down", "spin", "end"
    cmd,       \* the command it handles
    restart,   \* restart_pos
    port,      \* port_addr is set
    rnfr,      \* rnfr_name is set
    dataFd,    \* data_fd: "none" (-1), "open", or "stale": closed, the number kept
    armed,     \* SIGURG has a handler: a PASS succeeded
    abor,      \* abor_received
    urg,       \* a SIGURG to handle
    alarm,     \* which handler SIGALRM has: "cmd", "data"
    process,   \* data_process
    pos,       \* offset of the file that is read or written
    moved,     \* history: data moved since the alarm was set
    expired,   \* history: the data alarm ended a session in which data moved
    npc,       \* nobody process: "serve", "end"
    pasvFd,    \* pasv_listen_fd: the port it listens on, or 0
    ports,     \* ports opened so far
    ask, ans,  \* the socket pair: request and answer under way
    cin, cout, \* control connection: commands not read, replies not read
    copen,     \* the client's end of it is open
    dsock,     \* data connection: "none", "queued" (not accepted), "open", "shut"
    dport,     \* the port the client connected to
    dq, dfin,  \* blocks not read yet; the client closed its end
    dsent,     \* history: the blocks the client sent on this connection
    disk,      \* file -> blocks
    ftpFaults, cmds

service == <<spc, cmd, restart, port, rnfr, dataFd, armed, abor, urg, alarm, process, pos, moved, expired>>
nobody == <<npc, pasvFd, ports>>
control == <<cin, cout, copen>>
data == <<dsock, dport, dq, dfin, dsent>>
sessionVars == <<service, nobody, ask, ans, control, data, disk, ftpFaults, cmds>>

None == <<"none", 0>>

SessionFresh ==
    /\ cmd = None /\ restart = 0 /\ port = FALSE /\ rnfr = FALSE /\ dataFd = "none"
    /\ armed = FALSE /\ abor = FALSE /\ urg = FALSE /\ alarm = "cmd" /\ process = FALSE
    /\ pos = 0 /\ moved = FALSE /\ expired = FALSE
    /\ pasvFd = 0 /\ ports = 0 /\ ask = "none" /\ ans = "none"
    /\ cin = <<>>
    /\ dsock = "none" /\ dport = 0 /\ dq = <<>> /\ dfin = FALSE /\ dsent = <<>>
    /\ disk = [f \in 1 .. FtpNames |-> <<>>] /\ ftpFaults = FtpFaults /\ cmds = 0

SessionInit ==
    spc = "idle" /\ npc = "serve" /\ cout = <<<<220, "greet">>>> /\ copen = TRUE /\ SessionFresh

\* There is no session.
SessionAbsent == spc = "end" /\ npc = "end" /\ cout = <<>> /\ copen = FALSE /\ SessionFresh

FtpFault == ftpFaults > 0 /\ ftpFaults' = ftpFaults - 1

(* What the commands that leave the session as it is may answer.           *)

do_user == {<<530>>, <<331>>}
do_cwd == {<<550>>, <<250>>}
do_cdup == {<<550>>, <<250>>}
do_type == {<<200>>, <<500>>}
do_pwd == {<<>>, <<257>>}
do_mkd == {<<550>>, <<257>>, <<>>}
do_rmd == {<<550, 250>>, <<250>>}     \* no return after the failure
do_dele == {<<550>>, <<250>>}
do_site == {<<500>>, <<214>>}
do_site_chmod == {<<500>>, <<504>>, <<200>>}
do_site_umask == {<<200>>}
do_size == {<<550>>, <<213>>}
do_feat == {<<211, 211>>}
do_stat == {<<211, 211>>}
do_help == {<<214, 214>>}
do_fixed == {<<215>>, <<200>>, <<502>>, <<500>>}   \* SYST, NOOP, not implemented, unknown

Plain == [v \in {"USER", "TYPE", "ABOR", "other"} |->
            CASE v = "USER" -> do_user
              [] v = "TYPE" -> do_type
              [] v = "ABOR" -> {<<225>>}
              [] v = "other" -> do_cwd \cup do_cdup \cup do_pwd \cup do_mkd \cup do_rmd \cup do_dele
                                  \cup do_site \cup do_site_chmod \cup do_site_umask \cup do_size
                                  \cup do_feat \cup do_stat \cup do_help \cup do_fixed]

ftp_relply(codes) == cout' = cout \o [i \in DOMAIN codes |-> <<codes[i], cmd[1]>>]

\* exit(): the sockets of the service process are closed, its data connection too.
Exits == spc' = "end" /\ dsock' = IF dsock = "open" THEN "shut" ELSE dsock

Runs == spc # "end" /\ ~urg

(* handle_child: one command line.  The alarm is set again before it is    *)
(* read, and the handler of the data alarm replaced.                       *)

Receives == Runs /\ spc = "idle" /\ cin # <<>> /\ cin' = Tail(cin)

Line(v) == Receives /\ Head(cin)[1] = v

Answers(codes) == cout' = cout \o [i \in DOMAIN codes |-> <<codes[i], Head(cin)[1]>>]

KeptByPlain == UNCHANGED <<spc, cmd, dataFd, abor, urg, alarm, process, pos, moved, expired, nobody, ask,
                           ans, copen, data, disk, ftpFaults, cmds>>

PlainCommand ==
    /\ \E v \in DOMAIN Plain : Line(v) /\ \E codes \in Plain[v] : Answers(codes)
    /\ KeptByPlain /\ UNCHANGED <<restart, port, rnfr, armed>>

do_pass ==
    /\ Line("PASS")
    /\ \/ Answers(<<530>>) /\ UNCHANGED armed
       \/ armed' = TRUE /\ \E codes \in {<<230>>, <<>>} : Answers(codes)
    /\ KeptByPlain /\ UNCHANGED <<restart, port, rnfr>>

\* ERR_EXIT: setegid or seteuid fails.
PassFails ==
    /\ Line("PASS") /\ FtpFault /\ Exits
    /\ UNCHANGED <<cmd, restart, port, rnfr, dataFd, armed, abor, urg, alarm, process, pos, moved, expired, nobody,
                   ask, ans, cout, copen, dport, dq, dfin, dsent, disk, cmds>>

do_port == Line("PORT") /\ port' = TRUE /\ Answers(<<200>>) /\ KeptByPlain /\ UNCHANGED <<restart, rnfr, armed>>

do_rest == Line("REST") /\ restart' = 1 /\ Answers(<<350>>) /\ KeptByPlain /\ UNCHANGED <<port, rnfr, armed>>

do_rnfr == Line("RNFR") /\ rnfr' = TRUE /\ Answers(<<350>>) /\ KeptByPlain /\ UNCHANGED <<restart, port, armed>>

do_rnto ==
    /\ Line("RNTO") /\ rnfr' = FALSE /\ KeptByPlain /\ UNCHANGED <<restart, port, armed>>
    /\ \E code \in (IF rnfr THEN {550, 250} ELSE {503}) : Answers(<<code>>)

do_quit ==
    /\ Line("QUIT") /\ Answers(<<221>>) /\ Exits
    /\ UNCHANGED <<cmd, restart, port, rnfr, dataFd, armed, abor, urg, alarm, process, pos, moved, expired, nobody,
                   ask, ans, copen, dport, dq, dfin, dsent, disk, ftpFaults, cmds>>

\* readline returned 0.
ClientGone ==
    /\ Runs /\ spc = "idle" /\ cin = <<>> /\ ~copen /\ Exits
    /\ UNCHANGED <<cmd, restart, port, rnfr, dataFd, armed, abor, urg, alarm, process, pos, moved, expired,
                   nobody, ask, ans, control, dport, dq, dfin, dsent, disk, ftpFaults, cmds>>

\* A request to the nobody process: SIGPIPE when that has ended.
Asks(request, wait) ==
    IF npc = "serve" THEN ask' = request /\ spc' = wait /\ UNCHANGED dsock
                     ELSE Exits /\ UNCHANGED ask

KeptByAsk == UNCHANGED <<restart, rnfr, dataFd, armed, abor, urg, alarm, process, pos, moved, expired, nobody,
                         copen, dport, dq, dfin, dsent, disk, ftpFaults, cmds>>

do_pasv == Line("PASV") /\ cmd' = Head(cin) /\ Asks("LISTEN", "pasv") /\ KeptByAsk /\ UNCHANGED <<port, ans, cout>>

\* do_retr, upload_common, do_list: get_transfer_fd comes first.
TransferCommand ==
    /\ \E v \in {"STOR", "APPE", "RETR", "LIST"} : Line(v)
    /\ cmd' = Head(cin)
    /\ Asks("ACTIVE", "query") /\ KeptByAsk /\ UNCHANGED <<port, ans, cout>>

Takes(answer) == Runs /\ ans = answer /\ ans' = "none"

PasvReply ==
    /\ spc = "pasv" /\ Takes("port") /\ ftp_relply(<<227>>) /\ spc' = "idle"
    /\ KeptByAsk /\ UNCHANGED <<cmd, port, ask, cin, dsock>>

\* get_transfer_fd.  With both a PORT and a PASV, port_active and pasv_active call each other
\* until the stack is full.
Queried ==
    /\ spc = "query" /\ \E a \in {"yes", "no"} :
         /\ Takes(a)
         /\ IF port THEN IF a = "yes" THEN Exits /\ UNCHANGED <<ask, cout>>
                                      ELSE Asks("GETSOCK", "connect") /\ UNCHANGED cout
                    ELSE IF a = "yes" THEN Asks("ACCEPT", "accept") /\ UNCHANGED cout
                                      ELSE ftp_relply(<<425>>) /\ spc' = "idle" /\ UNCHANGED <<ask, dsock>>
    /\ KeptByAsk /\ UNCHANGED <<cmd, port, cin>>

\* No connection: back to the loop, and nothing is answered.
NoTransfer ==
    /\ spc \in {"connect", "accept"} /\ Takes("bad") /\ spc' = "idle" /\ port' = FALSE
    /\ KeptByAsk /\ UNCHANGED <<cmd, ask, cin, cout, dsock>>

\* An exit of the nobody process: the read of the answer is short.
NobodyGone ==
    /\ Runs /\ spc \in {"pasv", "query", "connect", "accept"} /\ npc = "end" /\ ans = "none" /\ Exits
    /\ KeptByAsk /\ UNCHANGED <<cmd, port, ask, ans, cin, cout>>

KeptByTransfer == UNCHANGED <<cmd, rnfr, armed, urg, expired, nobody, ask, cin, copen, dport, dq, dfin, dsent,
                              cmds>>

\* start_data_alarm, after the descriptor has come.
Connected(fd) == /\ spc \in {"connect", "accept"} /\ Takes("ok") /\ dataFd' = fd /\ port' = FALSE
                 /\ moved' = FALSE

do_list ==
    /\ Connected("stale") /\ cmd[1] = "LIST" /\ ftp_relply(<<150, 226>>)
    /\ spc' = "idle" /\ dsock' = "shut" /\ alarm' = "cmd"
    /\ KeptByTransfer /\ UNCHANGED <<restart, abor, process, pos, disk, ftpFaults>>

\* A line of the listing is written to a connection that the client has reset: SIGPIPE.
ListBroken ==
    /\ Connected("stale") /\ cmd[1] = "LIST" /\ FtpFault /\ ftp_relply(<<150>>) /\ Exits
    /\ KeptByTransfer /\ UNCHANGED <<restart, abor, alarm, process, pos, disk>>

\* upload_common up to its loop.  The alarm is that of the data connection until the next command.
UploadStarts ==
    /\ Connected("open") /\ cmd[1] \in {"STOR", "APPE"} /\ ftp_relply(<<150>>)
    /\ restart' = 0 /\ spc' = "up" /\ alarm' = "data"
    /\ disk' = IF cmd[1] = "STOR" /\ restart = 0 THEN [disk EXCEPT ![cmd[2]] = <<>>] ELSE disk
    /\ pos' = IF cmd[1] = "APPE" THEN Len(disk[cmd[2]]) ELSE restart
    /\ KeptByTransfer /\ UNCHANGED <<abor, process, dsock, ftpFaults>>

DownloadStarts ==
    /\ Connected("open") /\ cmd[1] = "RETR" /\ ftp_relply(<<150>>)
    /\ restart' = 0 /\ spc' = "down" /\ alarm' = "data" /\ pos' = restart
    /\ KeptByTransfer /\ UNCHANGED <<abor, process, dsock, disk, ftpFaults>>

\* open, the lock or lseek fails, or it is no regular file: data_fd stays open.
FileFails ==
    /\ Connected("open") /\ cmd[1] # "LIST" /\ FtpFault
    /\ \E codes \in (IF cmd[1] = "RETR" THEN {<<550>>} ELSE {<<553>>, <<>>}) : ftp_relply(codes)
    /\ restart' = 0 /\ spc' = "idle" /\ alarm' = "cmd"
    /\ KeptByTransfer /\ UNCHANGED <<abor, process, pos, dsock, disk>>

\* The end of both transfers: the reply by flag, check_abor, start_cmdio_alarm.
TransferEnds(flag) ==
    /\ spc' = "idle" /\ dataFd' = "none" /\ dsock' = "shut" /\ alarm' = "cmd" /\ abor' = FALSE
    /\ ftp_relply((CASE flag = 0 /\ ~abor -> <<226>> [] flag = 0 /\ abor -> <<>>
                     [] flag = 1 -> <<451>> [] flag = 2 -> <<426>>) \o (IF abor THEN <<226>> ELSE <<>>))

WriteAt(s, at, b) == [i \in 1 .. (IF Len(s) > at THEN Len(s) ELSE at + 1) |->
                        IF i = at + 1 THEN b ELSE IF i <= Len(s) THEN s[i] ELSE 0]

KeptByLoop == UNCHANGED <<cmd, restart, port, rnfr, armed, urg, expired, nobody, ask, ans, cin, copen,
                          dport, dfin, dsent, cmds>>

\* Mutant: every block is written where the transfer began.
UploadBlockStays ==
    /\ Runs /\ spc = "up" /\ dq # <<>> /\ dq' = Tail(dq)
    /\ disk' = [disk EXCEPT ![cmd[2]] = WriteAt(@, pos, Head(dq))]
    /\ KeptByLoop /\ UNCHANGED <<process, ftpFaults, pos, moved, spc, dataFd, dsock, alarm, abor, cout>>

\* One turn of the loop of upload_common: read, the check for an abort, writen.
UploadBlock ==
    /\ Runs /\ spc = "up" /\ dq # <<>> /\ dq' = Tail(dq)
    /\ IF abor THEN TransferEnds(2) /\ UNCHANGED <<pos, moved, disk>>
       ELSE /\ disk' = [disk EXCEPT ![cmd[2]] = WriteAt(@, pos, Head(dq))]
            /\ pos' = pos + 1 /\ moved' = TRUE
            /\ UNCHANGED <<spc, dataFd, dsock, alarm, abor, cout>>
    /\ KeptByLoop /\ UNCHANGED <<process, ftpFaults>>

\* Mutant: the end is taken note of before the blocks that came with it.
UploadEofEarly ==
    /\ Runs /\ spc = "up" /\ (dfin \/ dsock = "shut") /\ TransferEnds(0)
    /\ KeptByLoop /\ UNCHANGED <<process, pos, moved, dq, disk, ftpFaults>>

\* read returns 0: the client closed, or handle_sigurg shut the connection down.
UploadEof ==
    /\ Runs /\ spc = "up" /\ dq = <<>> /\ (dfin \/ dsock = "shut") /\ TransferEnds(0)
    /\ KeptByLoop /\ UNCHANGED <<process, pos, moved, dq, disk, ftpFaults>>

\* The connection is reset, or the file cannot be written.
UploadFails ==
    /\ Runs /\ spc = "up" /\ FtpFault
    /\ \/ dq' = <<>> /\ TransferEnds(2)
       \/ dq # <<>> /\ dq' = Tail(dq) /\ TransferEnds(IF abor THEN 2 ELSE 1)
    /\ KeptByLoop /\ UNCHANGED <<process, pos, moved, disk>>

\* limit_rate marks the transfer alive; it divides by download_max_rate, which may be 0, and the
\* trap, where the processor has one, ends the process.
limit_rate == process' = TRUE /\ (UNCHANGED <<spc, dsock>> \/ Exits)

\* One turn of the loop of do_retr.
DownloadBlock ==
    /\ Runs /\ spc = "down" /\ pos < Len(disk[cmd[2]]) /\ ~abor /\ dsock = "open"
    /\ limit_rate /\ pos' = pos + 1 /\ moved' = TRUE
    /\ KeptByLoop /\ UNCHANGED <<dataFd, abor, alarm, dq, disk, cout, ftpFaults>>

\* sendfile fails, or finds the file shorter than it was: the count of what is left never gets to 0.
DownloadSpins ==
    /\ Runs /\ spc = "down" /\ pos < Len(disk[cmd[2]]) /\ ~abor /\ FtpFault /\ spc' = "spin" /\ process' = TRUE
    /\ KeptByLoop /\ UNCHANGED <<dataFd, abor, alarm, pos, moved, dq, disk, cout, dsock>>

DownloadEnds ==
    /\ Runs /\ spc = "down" /\ pos >= Len(disk[cmd[2]]) /\ TransferEnds(0)
    /\ KeptByLoop /\ UNCHANGED <<process, pos, moved, dq, disk, ftpFaults>>

\* An abort: sendfile was under way and returns, or it is called on the connection that is shut
\* and SIGPIPE ends the process.
DownloadAborted ==
    /\ Runs /\ spc \in {"down", "spin"} /\ pos < Len(disk[cmd[2]]) /\ abor
    /\ \/ TransferEnds(2)
       \/ Exits /\ UNCHANGED <<dataFd, alarm, abor, cout>>
    /\ KeptByLoop /\ UNCHANGED <<process, pos, moved, dq, disk, ftpFaults>>

\* Mutant: there is no alarm between two transfers.
AlarmDataOnly ==
    /\ Runs /\ alarm = "data" /\ cout' = Append(cout, <<421, alarm>>) /\ Exits
    /\ UNCHANGED <<cmd, restart, port, rnfr, dataFd, armed, abor, urg, alarm, process, pos, moved, expired,
                   nobody, ask, ans, cin, copen, dport, dq, dfin, dsent, disk, ftpFaults, cmds>>

\* handle_alarm_timeout and handle_siglarm, at any point of the service process.
Alarm ==
    /\ Runs
    /\ IF alarm = "data" /\ (process \/ spc = "spin")
       THEN process' = FALSE /\ moved' = FALSE /\ UNCHANGED <<spc, dsock, cout, expired>>
       ELSE /\ cout' = Append(cout, <<421, alarm>>) /\ Exits /\ UNCHANGED <<process, moved>>
            /\ expired' = (expired \/ (alarm = "data" /\ moved))
    /\ UNCHANGED <<cmd, restart, port, rnfr, dataFd, armed, abor, urg, alarm, pos, nobody, ask, ans, cin,
                   copen, dport, dq, dfin, dsent, disk, ftpFaults, cmds>>

\* handle_sigurg takes a line from the control connection, be it ABOR or not.
handle_sigurg ==
    /\ spc # "end" /\ urg /\ urg' = FALSE
    /\ IF dataFd = "none" THEN UNCHANGED <<cin, cout, abor, dsock>>
       ELSE /\ cin' = Tail(cin)
            /\ IF Head(cin)[1] = "ABOR"
               THEN /\ abor' = TRUE /\ dsock' = (IF dataFd = "open" THEN "shut" ELSE dsock)
                    /\ UNCHANGED cout
               ELSE cout' = Append(cout, <<500, Head(cin)[1]>>) /\ UNCHANGED <<abor, dsock>>
    /\ UNCHANGED <<spc, cmd, restart, port, rnfr, dataFd, armed, alarm, process, pos, moved, expired,
                   nobody, ask, ans, copen, dport, dq, dfin, dsent, disk, ftpFaults, cmds>>

(* The nobody process: one request, one answer.                            *)

Request(r) == npc = "serve" /\ ask = r /\ ask' = "none"

KeptByNobody == UNCHANGED <<service, control, disk, cmds>>

privop_pasv_active ==
    /\ Request("ACTIVE") /\ ans' = (IF pasvFd # 0 THEN "yes" ELSE "no")
    /\ KeptByNobody /\ UNCHANGED <<nobody, data, ftpFaults>>

\* Mutant: the new port is not counted.
privop_pasv_listenSame ==
    /\ Request("LISTEN") /\ ans' = "port" /\ pasvFd' = ports + 1
    /\ KeptByNobody /\ UNCHANGED <<npc, ports, data, ftpFaults>>

\* A port it listens on already is forgotten, not closed.
privop_pasv_listen ==
    /\ Request("LISTEN") /\ ans' = "port" /\ ports' = ports + 1 /\ pasvFd' = ports + 1
    /\ KeptByNobody /\ UNCHANGED <<npc, data, ftpFaults>>

\* A connection that waits at the port, or the timeout.
accept_timeout == IF dsock = "queued" /\ dport = pasvFd THEN "ok" ELSE "bad"

\* Mutant: nothing is answered after the timeout.
privop_pasv_acceptQuiet ==
    /\ Request("ACCEPT") /\ pasvFd' = 0 /\ ans' = IF accept_timeout = "ok" THEN "ok" ELSE "none"
    /\ dsock' = IF accept_timeout = "ok" THEN "open" ELSE dsock
    /\ KeptByNobody /\ UNCHANGED <<npc, ports, dport, dq, dfin, dsent, ftpFaults>>

privop_pasv_accept ==
    /\ Request("ACCEPT") /\ pasvFd' = 0 /\ ans' = accept_timeout
    /\ dsock' = IF accept_timeout = "ok" THEN "open" ELSE dsock
    /\ KeptByNobody /\ UNCHANGED <<npc, ports, dport, dq, dfin, dsent, ftpFaults>>

\* The client of a PORT takes the connection or does not.
connect_timeout == {"ok", "bad"}

privop_pasv_get_data_sock ==
    /\ Request("GETSOCK") /\ ans' \in connect_timeout
    /\ IF ans' = "bad" THEN UNCHANGED data
       ELSE dsock' = "open" /\ dq' = <<>> /\ dfin' = FALSE /\ dsent' = <<>> /\ UNCHANGED dport
    /\ KeptByNobody /\ UNCHANGED <<nobody, ftpFaults>>

\* ERR_EXIT: no socket, no address to bind to.
NobodyFails ==
    /\ \/ Request("LISTEN") \/ Request("GETSOCK")
    /\ FtpFault /\ npc' = "end"
    /\ KeptByNobody /\ UNCHANGED <<pasvFd, ports, ans, data>>

\* Mutant: the end of file is met only in the middle of a request.
NobodyEndsAsked ==
    /\ npc = "serve" /\ spc = "end" /\ ask # "none" /\ npc' = "end"
    /\ UNCHANGED <<service, pasvFd, ports, ask, ans, control, data, disk, ftpFaults, cmds>>

\* priv_sock_get_cmd reads the end of file; an answer nobody reads is a SIGPIPE.
NobodyEnds ==
    /\ npc = "serve" /\ spc = "end" /\ npc' = "end"
    /\ UNCHANGED <<service, pasvFd, ports, ask, ans, control, data, disk, ftpFaults, cmds>>

ServiceStep ==
    \/ PlainCommand \/ do_pass \/ PassFails \/ do_port \/ do_rest \/ do_rnfr \/ do_rnto \/ do_quit \/ do_pasv
    \/ ClientGone \/ TransferCommand \/ PasvReply \/ Queried \/ NoTransfer \/ NobodyGone \/ do_list
    \/ ListBroken \/ UploadStarts \/ DownloadStarts \/ FileFails \/ UploadBlock \/ UploadEof \/ UploadFails
    \/ DownloadBlock \/ DownloadSpins \/ DownloadEnds \/ DownloadAborted \/ handle_sigurg

NobodyStep ==
    \/ privop_pasv_active \/ privop_pasv_listen \/ privop_pasv_accept \/ privop_pasv_get_data_sock
    \/ NobodyFails \/ NobodyEnds

(* The network under a client, whichever it is.                            *)

Types(c, urgent) ==
    /\ copen /\ Len(cin) < FtpAhead /\ cmds < FtpCommands /\ cmds' = cmds + 1
    /\ cin' = Append(cin, c) /\ urg' = (urg \/ (urgent /\ armed /\ spc # "end"))

Connects(p) == /\ dsock' = "queued" /\ dport' = p /\ dq' = <<>> /\ dfin' = FALSE /\ dsent' = <<>>

SendsBlock(b) == /\ dsock \in {"queued", "open"} /\ ~dfin /\ dq' = Append(dq, b) /\ dsent' = Append(dsent, b)

ClosesData == dsock # "none" /\ ~dfin /\ dfin' = TRUE

(* A client that sends what it likes, until the service process has ended. *)

AnyCommands == {<<v, 1>> : v \in {"USER", "PASS", "TYPE", "other", "PORT", "PASV", "REST", "STOR", "APPE",
                                  "RETR", "LIST", "RNFR", "RNTO", "ABOR", "QUIT"}}

\* It reads what has come before it sends more.  The commands that change nothing another one
\* looks at come first.
AnyTypes ==
    /\ \E c \in AnyCommands : /\ c[1] \in {"USER", "TYPE", "other", "RNFR"} => cmds = 0
                              /\ c[1] = "RNTO" => cmds <= 1
                              /\ Types(c, FALSE) \/ (c[1] = "ABOR" /\ Types(c, TRUE))
    /\ cout' = <<>>
    /\ UNCHANGED <<spc, cmd, restart, port, rnfr, dataFd, armed, abor, alarm, process, pos, moved, expired,
                   nobody, ask, ans, copen, data, disk, ftpFaults>>

AnyLeaves == copen /\ copen' = FALSE /\ UNCHANGED <<service, nobody, ask, ans, cin, cout, data, disk, ftpFaults, cmds>>

AnyData ==
    /\ copen
    /\ \/ \E p \in 1 .. ports : p = pasvFd /\ dport # p /\ Connects(p)
       \/ Len(dsent) < FtpBlocks /\ SendsBlock(Len(dsent) + 1) /\ UNCHANGED <<dsock, dport, dfin>>
       \/ ClosesData /\ UNCHANGED <<dsock, dport, dq, dsent>>
    /\ UNCHANGED <<service, nobody, ask, ans, control, disk, ftpFaults, cmds>>

AnyClient == spc # "end" /\ (AnyTypes \/ AnyLeaves \/ AnyData)

\* SIGALRM comes at the latest when its time is over; a process that can run does.
ServerFair == WF_sessionVars(ServiceStep) /\ WF_sessionVars(NobodyStep) /\ WF_sessionVars(Alarm)

SessionNext == ServiceStep \/ NobodyStep \/ Alarm \/ AnyClient

SessionSpec == SessionInit /\ [][SessionNext]_sessionVars /\ ServerFair

(***************************************************************************)
(* What the session promises.                                              *)
(***************************************************************************)

\* Each variable has its type.
SessionTypeOK ==
    /\ spc \in {"idle", "pasv", "query", "connect", "accept", "up", "down", "spin", "end"}
    /\ cmd \in AnyCommands \cup {None} \cup ({"STOR", "PASV", "USER", "PASS", "TYPE", "QUIT"} \X (0 .. FtpNames))
    /\ restart \in {0, 1} /\ dataFd \in {"none", "open", "stale"} /\ alarm \in {"cmd", "data"}
    /\ {port, rnfr, armed, abor, urg, process, moved, expired, copen, dfin} \subseteq BOOLEAN
    /\ npc \in {"serve", "end"} /\ pasvFd \in 0 .. ports
    /\ ask \in {"none", "ACTIVE", "LISTEN", "ACCEPT", "GETSOCK"}
    /\ ans \in {"none", "yes", "no", "port", "ok", "bad"}
    /\ dsock \in {"none", "queued", "open", "shut"} /\ ftpFaults \in 0 .. FtpFaults
    /\ \A f \in DOMAIN disk : disk[f] \in Seq(Nat)

\* The service process and the nobody process stay in step whatever signal, failure or exit comes
\* between: an answer is always of the kind the service process waits for, no question is asked
\* before the last one was answered, and between two commands nothing is left in the socket pair.
PrivInStep ==
    spc # "end" =>
      /\ ask = "none" \/ ans = "none"
      /\ spc \in {"idle", "up", "down", "spin"} => ask = "none" /\ ans = "none"
      /\ spc = "pasv" => ask \in {"none", "LISTEN"} /\ ans \in {"none", "port"}
      /\ spc = "query" => ask \in {"none", "ACTIVE"} /\ ans \in {"none", "yes", "no"}
      /\ spc \in {"connect", "accept"} => ask \in {"none", "GETSOCK", "ACCEPT"} /\ ans \in {"none", "ok", "bad"}
      /\ spc \in {"pasv", "query", "connect", "accept"} /\ npc = "serve" => ask # "none" \/ ans # "none"

\* The state of a session: its types, and its two processes in step.
SessionInv == SessionTypeOK /\ PrivInStep

\* "226 Transfer complete" after STOR or APPE: every block the client sent on the data connection
\* is in the file, in order, where the transfer began, however reads, signals and the end of the
\* connection came.
UploadExact ==
    [][spc = "up" /\ spc' = "idle" /\ ~abor /\ Last(cout')[1] = 226
         => /\ Len(dsent) <= pos /\ SubSeq(disk[cmd[2]], pos - Len(dsent) + 1, pos) = dsent
            /\ dq = <<>>]_sessionVars

\* The two processes of a session end together: neither is left when the other has gone (the
\* service process notices at its next question or at its alarm at the latest).
EndTogether == (spc = "end" ~> npc = "end") /\ (npc = "end" ~> spc = "end" \/ spc = "spin")

\* "421 Data timeout. Reconnect. Sorry." ends a session only when no data moved for the whole of
\* data_connection_timeout.
TimeoutIsIdle == ~expired
==============================================================================
