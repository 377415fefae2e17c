------------------------------ MODULE FtpClient ------------------------------
(***************************************************************************)
(* qlog's upload of log files to an ftp server (ftp.c, as                  *)
(* qlog_logfile_create and ftp_quit call it), connected to a session of    *)
(* qftp_server: FtpSession with this client in place of the one that sends *)
(* anything.  The answer to a STOR is read when the next file is opened.   *)
(* qlog leaves SIGPIPE at its default: the second write to a connection    *)
(* the other side has closed ends the program.                             *)
(*                                                                         *)
(* This is the connection of the logs (index 0), used by the main thread.  *)
(* The filter thread has one of its own (index 3) for the hash files, but  *)
(* both put their commands into the same static buf and read their replies *)
(* into it: what a thread sends, evaluates or parses may be the other's.   *)
(***************************************************************************)
EXTENDS FtpSession

CONSTANT FtpMixed    \* bound: times the other thread's text is in buf when this one uses it

ASSUME FtpClientAssumption == FtpMixed \in Nat

VARIABLES
    qpc,      \* the command of ftp.c that is next, "stream", "between" two files, "killed", "gone"
    qwait,    \* it is written, and read() waits for the reply
    qfile,    \* files opened so far
    qlogin,   \* login is "on"
    qcode,    \* code of the last reply, 0 when read() returned nothing
    qof,      \* history: the command the last reply was for
    qsock,    \* ftp_send returned a data socket
    qrst,     \* a write to the closed control connection, or to the closed data connection
    qwrote,   \* history: file -> what qlog wrote into its socket
    qacked,   \* history: files whose 226 was read
    qaway,    \* the data socket is connected to the other thread's session
    qmixed    \* history: times the text in buf was the other thread's

client == <<qpc, qwait, qfile, qlogin, qcode, qof, qsock, qrst, qwrote, qacked, qaway, qmixed>>
clientVars == <<sessionVars, client>>

ClientFresh ==
    /\ qwait = FALSE /\ qfile = 0 /\ qlogin = FALSE /\ qcode = 0
    /\ qof = "none" /\ qsock = FALSE /\ qrst = {} /\ qwrote = [f \in 1 .. FtpNames |-> <<>>] /\ qacked = {}
    /\ qaway = FALSE /\ qmixed = 0

ClientInit == SessionInit /\ qpc = "between" /\ ClientFresh

\* No log goes to an ftp server.
ClientAbsent == SessionAbsent /\ qpc = "gone" /\ ClientFresh

Closed == spc = "end"   \* the server's end of the control connection

\* Mutant: the answer to the last STOR is not read.
ftp_write_requestHasty ==
    /\ qpc = "between" /\ qfile < FtpNames /\ qfile' = qfile + 1
    /\ qpc' = (IF qlogin THEN "PASV" ELSE "greet") /\ qwait' = ~qlogin /\ qlogin' = TRUE
    /\ UNCHANGED <<sessionVars, qcode, qof, qsock, qrst, qwrote, qacked, qaway, qmixed>>

\* ftp_write_request: log in, or read the answer to the last STOR.
ftp_write_request ==
    /\ qpc = "between" /\ qfile < FtpNames /\ qfile' = qfile + 1
    /\ qpc' = (IF qlogin THEN "final" ELSE "greet") /\ qwait' = TRUE /\ qlogin' = TRUE
    /\ UNCHANGED <<sessionVars, qcode, qof, qsock, qrst, qwrote, qacked, qaway, qmixed>>

\* connect() fails: no login, and the next file tries again.
ftp_login_fails ==
    /\ qpc = "between" /\ qfile < FtpNames /\ ~qlogin /\ FtpFault /\ qfile' = qfile + 1
    /\ UNCHANGED <<service, nobody, ask, ans, control, data, disk, cmds, qpc, qwait, qlogin, qcode, qof,
                   qsock, qrst, qwrote, qacked, qaway, qmixed>>

\* The text in buf is the other thread's.
Mixed == qmixed < FtpMixed /\ qmixed' = qmixed + 1

\* The write of ftpcmd.
ftpcmd ==
    /\ qpc \in {"USER", "PASS", "TYPE", "PASV", "STOR", "QUIT"} /\ ~qwait
    /\ IF Closed /\ "ctrl" \in qrst
       THEN qpc' = "killed" /\ copen' = FALSE /\ dfin' = TRUE /\ UNCHANGED <<qwait, qrst, cin, urg, cmds>>
       ELSE /\ Types(<<qpc, qfile>>, FALSE) /\ qwait' = TRUE
            /\ qrst' = (IF Closed THEN qrst \cup {"ctrl"} ELSE qrst) /\ UNCHANGED <<qpc, copen, dfin>>
    /\ UNCHANGED <<spc, cmd, restart, port, rnfr, dataFd, armed, abor, alarm, process, pos, moved, expired,
                   nobody, ask, ans, cout, dsock, dport, dq, dsent, disk, ftpFaults, qfile, qlogin, qcode,
                   qof, qsock, qwrote, qacked, qaway, qmixed>>

\* The other thread has written buf between snprintf and write: its command goes out, or a
\* reply it has read, which is no command, or "EOF", which is no line.  "other" stands for all
\* that only get a reply.
ftpcmdMixed ==
    /\ qpc \in {"USER", "PASS", "TYPE", "PASV", "STOR", "QUIT"} /\ ~qwait /\ ~Closed /\ Mixed /\ qwait' = TRUE
    /\ \/ \E v \in {"PASS", "PASV", "STOR", "other"} : Types(<<v, qfile>>, FALSE)
       \/ UNCHANGED <<cin, urg, cmds>>
    /\ UNCHANGED <<spc, cmd, restart, port, rnfr, dataFd, armed, abor, alarm, process, pos, moved, expired,
                   nobody, ask, ans, cout, copen, data, disk, ftpFaults, qpc, qfile, qlogin, qcode,
                   qof, qsock, qrst, qwrote, qacked, qaway>>

\* Where ftp.c goes after a reply; ftp_die only prints.
After(code) ==
    CASE qpc = "greet" -> "USER"
      [] qpc = "USER" -> IF code = 331 THEN "PASS" ELSE "TYPE"
      [] qpc = "PASS" -> "TYPE"
      [] qpc = "TYPE" -> "PASV"
      [] qpc = "final" -> "PASV"
      [] qpc = "PASV" -> "connect"
      [] qpc = "STOR" -> "stream"
      [] qpc = "last" -> "QUIT"
      [] qpc = "QUIT" -> "gone"

\* ftpcmd returns the code of a reply.
Evaluates(code, of) ==
    /\ qcode' = code /\ qof' = of /\ qwait' = FALSE
    /\ qpc' = (IF qpc = "STOR" /\ ~qsock THEN "between" ELSE After(code))
    /\ qacked' = (IF code # 226 THEN qacked
                  ELSE IF qpc = "final" THEN qacked \cup {qfile - 1}
                  ELSE IF qpc = "last" THEN qacked \cup {qfile} ELSE qacked)
    /\ copen' = (copen /\ qpc # "QUIT")

\* The read of ftpcmd: all that has come is taken, its first reply is the answer.
Reply ==
    /\ qwait /\ (cout # <<>> \/ Closed) /\ cout' = <<>>
    /\ IF cout = <<>> THEN Evaluates(0, "eof") ELSE Evaluates(Head(cout)[1], Head(cout)[2])
    /\ UNCHANGED <<service, nobody, ask, ans, cin, data, disk, ftpFaults, cmds, qfile, qlogin, qsock, qrst, qwrote,
                   qaway, qmixed>>

\* The other thread has written buf after the read: the code is that of its reply; a command or
\* "EOF" is no reply, and ftpcmd reads again although its own has come.  500 stands for the codes
\* ftp.c does not tell apart.
ReplyMixed ==
    /\ qwait /\ cout # <<>> /\ cout' = <<>> /\ Mixed
    /\ \/ \E code \in {226, 331, 500} : Evaluates(code, "other")
       \/ UNCHANGED <<qcode, qof, qwait, qpc, qacked, copen>>
    /\ UNCHANGED <<service, nobody, ask, ans, cin, data, disk, ftpFaults, cmds, qfile, qlogin, qsock, qrst, qwrote, qaway>>

\* ftp_send: parse_pasv_epsv and the data connection; STOR is sent whether it came about or not.
ftp_send ==
    /\ qpc = "connect" /\ qpc' = "STOR" /\ qof # "other" /\ qaway' = FALSE
    /\ \/ /\ qcode = 227 /\ ~Closed /\ Connects(ports)
          /\ qsock' = TRUE /\ qrst' = qrst \ {"data"} /\ UNCHANGED ftpFaults
       \/ /\ qcode = 227 => Closed
          /\ qsock' = FALSE /\ UNCHANGED <<data, qrst, ftpFaults>>
       \/ /\ qcode = 227 /\ ~Closed /\ FtpFault
          /\ qsock' = FALSE /\ UNCHANGED <<data, qrst>>
    /\ UNCHANGED <<service, nobody, ask, ans, control, disk, cmds, qwait, qfile, qlogin, qcode, qof, qwrote, qacked,
                   qmixed>>

\* parse_pasv_epsv finds the other thread's text: its port, or none.
ftp_sendMixed ==
    /\ qpc = "connect" /\ qpc' = "STOR" /\ IF qof = "other" THEN UNCHANGED qmixed ELSE Mixed
    /\ qaway' \in BOOLEAN /\ qsock' = qaway'
    /\ UNCHANGED <<sessionVars, qwait, qfile, qlogin, qcode, qof, qrst, qwrote, qacked>>

\* qlog writes a block of the log into the socket.
Stream ==
    /\ qpc = "stream" /\ ~qaway /\ Len(qwrote[qfile]) < FtpBlocks
    /\ IF dsock = "shut" /\ "data" \in qrst
       THEN qpc' = "killed" /\ copen' = FALSE /\ dfin' = TRUE /\ UNCHANGED <<qrst, qwrote, dq, dsent>>
       ELSE /\ qwrote' = [qwrote EXCEPT ![qfile] = Append(@, Len(@) + 1)]
            /\ IF dsock = "shut" THEN qrst' = qrst \cup {"data"} /\ UNCHANGED <<dq, dsent>>
                                 ELSE SendsBlock(Len(qwrote[qfile]) + 1) /\ UNCHANGED qrst
            /\ UNCHANGED <<qpc, copen, dfin>>
    /\ UNCHANGED <<service, nobody, ask, ans, cin, cout, dsock, dport, disk, ftpFaults, cmds, qwait, qfile,
                   qlogin, qcode, qof, qsock, qacked, qaway, qmixed>>

\* The file is closed: the next is opened, or ftp_quit reads the last answer.
EndFile ==
    /\ qpc = "stream" /\ ~qaway /\ ClosesData /\ qpc' = "between"
    /\ UNCHANGED <<service, nobody, ask, ans, control, dsock, dport, dq, dsent, disk, ftpFaults, cmds, qwait,
                   qfile, qlogin, qcode, qof, qsock, qrst, qwrote, qacked, qaway, qmixed>>

\* The blocks, and the end of the file, go to the other thread's session.
StreamAway ==
    /\ qpc = "stream" /\ qaway
    /\ \/ /\ Len(qwrote[qfile]) < FtpBlocks
          /\ qwrote' = [qwrote EXCEPT ![qfile] = Append(@, Len(@) + 1)] /\ UNCHANGED qpc
       \/ qpc' = "between" /\ UNCHANGED qwrote
    /\ UNCHANGED <<sessionVars, qwait, qfile, qlogin, qcode, qof, qsock, qrst, qacked, qaway, qmixed>>

ftp_quit ==
    /\ qpc = "between" /\ qlogin /\ qpc' = "last" /\ qwait' = TRUE
    /\ UNCHANGED <<sessionVars, qfile, qlogin, qcode, qof, qsock, qrst, qwrote, qacked, qaway, qmixed>>

QlogAlone == ftp_write_request \/ ftp_login_fails \/ ftpcmd \/ Reply \/ ftp_send \/ Stream \/ EndFile \/ ftp_quit

QlogMixed == ftpcmdMixed \/ ReplyMixed \/ ftp_sendMixed \/ StreamAway

QlogStep == QlogAlone \/ QlogMixed

ServerStep == (ServiceStep \/ NobodyStep \/ Alarm) /\ UNCHANGED client

\* qlog goes on with what it has begun; when it opens the next file is up to the log.
ClientFair ==
    /\ WF_clientVars(ServiceStep /\ UNCHANGED client) /\ WF_clientVars(NobodyStep /\ UNCHANGED client)
    /\ WF_clientVars(Alarm /\ UNCHANGED client) /\ WF_clientVars(ftpcmd \/ Reply \/ ftp_send \/ ftpcmdMixed \/ ReplyMixed \/ ftp_sendMixed)

ClientNext == ServerStep \/ QlogStep

ClientSpec == ClientInit /\ [][ClientNext]_clientVars /\ ClientFair

(***************************************************************************)
(* What the upload promises.                                               *)
(***************************************************************************)

\* A reply is taken for the answer to the command it answers, although ftpcmd never looks at what
\* it reads but for the code, takes several replies for one, and asks for the answer to a STOR a
\* file later: a 4xx timeout and the end of the connection are the only others it can meet, until
\* the filter thread opens a hash file in the middle of an exchange and its text is in buf.
RepliesInStep ==
    [][qwait /\ ~qwait' => qmixed' > 0 \/
         qof' \in {"eof", "cmd", "data", IF qpc \in {"final", "last"} THEN "STOR" ELSE qpc}]_clientVars

\* End to end: a file whose 226 qlog has read is on the server's disk, all of it, as long as the
\* two threads' texts were not mixed up in buf.
Uploaded == qmixed = 0 => \A f \in qacked : disk[f] = qwrote[f]

\* qlog is never left in read(): the server answers, or its alarm closes the connection, also when
\* the server has silently refused a STOR, when the file before was never answered, and when the
\* command was not the one meant or its answer was lost in the shared buf.
NeverStuck == qwait ~> ~qwait
==============================================================================
