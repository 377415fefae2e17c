------------------------------ MODULE LogFiles -------------------------------
(***************************************************************************)
(* The log files of a capture: their rotation (-m), the ring of kept files *)
(* (-n) and compression with a limit on the directory (-C), as main.c      *)
(* implements them in qlog_logfile_create, qlog_logfile_close,             *)
(* checkWorkDirSize, remove_oldest_logfile and qCompressThread, called     *)
(* from the loop of message_handle_mdm and its siblings.                   *)
(*                                                                         *)
(* A log is a number, in order of creation, and has one file <<log, part>> *)
(* per part: the diag log (1), the second (2) and the third (3) file.  The *)
(* time stamp in a name makes it unique.  Sizes are in units: every saved  *)
(* packet adds one, every zip archive has one.  The compress threads run   *)
(* beside the main thread; one is created for each log closed, so it is    *)
(* named by that log.                                                      *)
(***************************************************************************)
EXTENDS Integers, Sequences, FiniteSetsExt, SequencesExt

CONSTANTS Parts,     \* the parts of a log: 1, and 2, 3 when configured
          MaxLogs,   \* bound: logs ever created
          Options    \* the ways qlog may be started, and bounds: how long it then runs,
                     \* and up to which log the compress threads get to run

ASSUME LogFilesAssumption ==
    /\ Parts \subseteq 1 .. 3 /\ 1 \in Parts /\ MaxLogs \in Nat
    /\ \A o \in Options :
           /\ {o.num, o.maxDir, o.dumps, o.sessions, o.threads} \subseteq Nat /\ o.limit \in Nat \ {0}
           /\ o.logs \in 0 .. MaxLogs /\ o.openMayFail \in BOOLEAN

Logs == 1 .. MaxLogs

None == 0

DumpDir == <<0, 0>>     \* a dump_<time> directory among the logs

NoFile == <<0, 1>>      \* an empty compress_*_filename

VARIABLES
    opt,       \* the options of this run of qlog
    mpc,       \* where the main thread is
    session,   \* number of sessions so far
    plain,     \* files on disk
    zips,      \* files whose .zip is on disk
    size,      \* size of each file
    dumps,     \* the dump directories: the number of logs made before each
    made,      \* number of logs created, failed ones included
    seq,       \* s_logfile_seq
    ring,      \* s_logfile_List: slot -> log or None
    ringIdx,   \* s_logfile_idx
    cur,       \* the log being written, or None
    saved,     \* savelog_size_total
    queue,     \* g_queue
    total,     \* total_size in checkWorkDirSize
    rest,      \* calls of remove_oldest_logfile left in this round
    names,     \* compress_first/second/third_filename
    thr,       \* log -> its compress thread: [pc, part, file]
    preDump    \* logs that were the newest one when a dump was caught

disk == <<plain, zips, size, dumps>>
ringVars == <<made, seq, ring, ringIdx>>
queueVars == <<queue, total, rest>>
zipVars == <<names, thr>>
vars == <<opt, mpc, session, disk, ringVars, cur, saved, queueVars, zipVars, preDump>>

Num == opt.num                  \* s_logfile_num (-n); 0 keeps all logs

MaxDir == opt.maxDir            \* g_use_compress_cmd (-C); 0 is no compression

Limit == opt.limit              \* logfile_size (-m)

OpenMayFail == opt.openMayFail  \* open(2) of the diag log may fail

Slot(n) == n % Num

LogsOnDisk == {l \in Logs : \E p \in Parts : <<l, p>> \in plain \cup zips}

Files(log) == {log} \X Parts

Idle == [pc |-> "off", part |-> 1, file |-> NoFile]

Init ==
    /\ opt \in Options
    /\ mpc = "between" /\ session = 0
    /\ plain = {} /\ zips = {} /\ size = [f \in Logs \X Parts |-> 0] /\ dumps = <<>>
    /\ made = 0 /\ seq = 0 /\ ring = [i \in 0 .. Num - 1 |-> None] /\ ringIdx = 0
    /\ cur = None /\ saved = 0
    /\ queue = <<>> /\ total = 0 /\ rest = 0
    /\ names = [p \in 1 .. 3 |-> NoFile]
    /\ thr = [l \in Logs |-> Idle]
    /\ preDump = {}

-----------------------------------------------------------------------------
(* Sessions.                                                               *)

\* qlog_handle: the queue is created anew, message_handle_* starts its loop.
StartSession ==
    /\ mpc = "between" /\ session < opt.sessions
    /\ mpc' = "idle"
    /\ session' = session + 1
    /\ saved' = 0
    /\ queue' = <<>>
    /\ UNCHANGED <<disk, ringVars, cur, total, rest, zipVars, preDump>>

\* The slot of the next log is cleared instead of the last one's.
ProtectNext == [ring EXCEPT ![Slot(seq)] = None]

Protect == [ring EXCEPT ![ringIdx] = None]

\* main, bNumInterfaces = 1: a dump is caught into a directory of its own; the
\* log before it leaves the ring.
CatchDump ==
    /\ mpc = "between" /\ Len(dumps) < opt.dumps
    /\ dumps' = Append(dumps, made)
    /\ ring' = IF Num > 0 THEN Protect ELSE ring
    /\ preDump' = preDump \cup {l \in LogsOnDisk : \A k \in LogsOnDisk : k <= l}
    /\ UNCHANGED <<mpc, session, plain, zips, size, made, seq, ringIdx, cur, saved,
                   queueVars, zipVars>>

-----------------------------------------------------------------------------
(* checkWorkDirSize.                                                       *)

\* What scandir may find: names with .zip cut off, oldest first.  A log and a dump
\* are as old as their last change, an archive may be younger than its log.  Entries
\* of the same age, in seconds, come in any order.
Scanned ==
    LET logs == {[file |-> f, from |-> 2 * f[1], to |-> 2 * f[1], what |-> 0] : f \in plain}
        archives == {[file |-> f, from |-> 2 * f[1], to |-> 2 * made + 1, what |-> 1] : f \in zips}
        dirs == {[file |-> DumpDir, from |-> 2 * dumps[i] + 1, to |-> 2 * dumps[i] + 1, what |-> i]
                    : i \in 1 .. Len(dumps)}
        entries == logs \cup archives \cup dirs
        order == {s \in SetToSeqs(entries) : \A i, j \in DOMAIN s : i < j => s[i].from <= s[j].to}
    IN  {[i \in DOMAIN s |-> s[i].file] : s \in order}

\* The units of the logs on disk, an archive and a dump directory are one each.
DirSize ==
    Cardinality({u \in plain \X (1 .. Limit) : u[2] <= size[u[1]]}) + Cardinality(zips) + Len(dumps)

\* A packet arrives and no log is open.
CreateBegin ==
    /\ mpc = "idle" /\ made < opt.logs
    /\ IF MaxDir > 0
       THEN /\ mpc' = "check"
            /\ total' = DirSize
            /\ queue' \in IF queue = <<>> THEN Scanned ELSE {queue}
            /\ rest' = 0
       ELSE mpc' = "create" /\ UNCHANGED queueVars
    /\ UNCHANGED <<session, disk, ringVars, cur, saved, zipVars, preDump>>

MoreToRemove == queue # <<>> /\ (rest > 0 \/ total >= MaxDir)

\* The name of a removed file stays at the head.
NotDequeued == queue

Dequeued == Tail(queue)

\* remove_oldest_logfile: the zip, else the log itself, else nothing.  A dump
\* directory is not empty and cannot be removed.
RemoveOldest ==
    /\ mpc = "check" /\ MoreToRemove
    /\ rest' = IF rest > 0 THEN rest - 1 ELSE Cardinality(Parts) - 1
    /\ LET f == Head(queue)
       IN  \/ /\ f \in zips
              /\ zips' = zips \ {f}
              /\ total' = total - 1
              /\ queue' = Dequeued
              /\ UNCHANGED plain
           \/ /\ f \notin zips /\ f \in plain
              /\ plain' = plain \ {f}
              /\ total' = total - size[f]
              /\ queue' = Dequeued
              /\ UNCHANGED zips
           \/ f \notin zips \cup plain /\ UNCHANGED <<plain, zips, total, queue>>
    /\ UNCHANGED <<mpc, session, size, dumps, ringVars, cur, saved, zipVars, preDump>>

CheckDone ==
    /\ mpc = "check" /\ ~MoreToRemove
    /\ mpc' = "create"
    /\ UNCHANGED <<session, disk, ringVars, cur, saved, queueVars, zipVars, preDump>>

-----------------------------------------------------------------------------
(* qlog_logfile_create after the check, and the loop that calls it.        *)

\* Off by one: the slot after the one that is written next.
NextOfRing == IF Num = 0 THEN None ELSE ring[Slot(seq + 1)]

\* The log that has to make room for the next one.
OldestOfRing == IF Num = 0 THEN None ELSE ring[Slot(seq)]

\* Only the diag log of the oldest entry is removed.
EvictedDiagOnly == {<<OldestOfRing, 1>>}

Evicted == Files(OldestOfRing)

\* The name of a part, if it is configured.
Name(log, p) == IF p \in Parts THEN << <<log, p>> >> ELSE <<>>

\* ok: open(2) of the diag log succeeds.  The name enters ring and queue either
\* way; when it fails the loop is left without a file.
CreateFile(ok) ==
    /\ mpc = "create"
    /\ made' = made + 1
    /\ plain' = (plain \ Evicted) \cup {f \in Files(made + 1) : ok \/ f[2] # 1}
    /\ ring' = IF Num > 0 THEN [ring EXCEPT ![Slot(seq)] = made + 1] ELSE ring
    /\ ringIdx' = IF Num > 0 THEN Slot(seq) ELSE ringIdx
    /\ queue' = IF MaxDir > 0
                THEN queue \o Name(made + 1, 1) \o Name(made + 1, 2) \o Name(made + 1, 3)
                ELSE queue
    /\ IF ok
       THEN mpc' = "open" /\ cur' = made + 1 /\ seq' = seq + 1
       ELSE mpc' = "between" /\ UNCHANGED <<cur, seq>>
    /\ UNCHANGED <<session, zips, size, dumps, saved, total, rest, zipVars, preDump>>

\* The thread is left to read the g_compress_*_file_name of the next log.
CompressNext ==
    /\ names' = [p \in 1 .. 3 |-> IF p \in Parts THEN <<cur + 1, p>> ELSE NoFile]
    /\ thr' = [thr EXCEPT ![cur].pc = "next"]

\* updataComressFilename and pthread_create(qCompressThread).
StartCompress ==
    /\ names' = [p \in 1 .. 3 |-> IF p \in Parts THEN <<cur, p>> ELSE NoFile]
    /\ thr' = [thr EXCEPT ![cur].pc = "next"]

\* logfile_fd is not reset.
CloseLogKeepsFd(exiting) ==
    /\ cur' = cur
    /\ IF MaxDir > 0 /\ ~exiting THEN StartCompress ELSE UNCHANGED zipVars

\* qlog_logfile_close.
CloseLog(exiting) ==
    /\ cur' = None
    /\ IF MaxDir > 0 /\ ~exiting THEN StartCompress ELSE UNCHANGED zipVars

\* A packet for part p is saved; a full log is closed.
Save(p) ==
    /\ mpc = "open"
    /\ size' = [size EXCEPT ![<<cur, p>>] = @ + 1]
    /\ IF saved + 1 >= Limit
       THEN mpc' = "idle" /\ saved' = 0 /\ CloseLog(FALSE)
       ELSE saved' = saved + 1 /\ UNCHANGED <<mpc, cur, zipVars>>
    /\ UNCHANGED <<session, plain, zips, dumps, ringVars, queueVars, preDump>>

\* Nothing can be read any more, or the user wants to exit.
Leave(exiting) ==
    /\ mpc \in {"idle", "open"}
    /\ mpc' = IF exiting THEN "exited" ELSE "between"
    /\ IF cur = None THEN UNCHANGED <<cur, zipVars>> ELSE CloseLog(exiting)
    /\ UNCHANGED <<session, disk, ringVars, saved, queueVars, preDump>>

-----------------------------------------------------------------------------
(* qCompressThread of log l: qcompress.sh, that is zip -9 -m, per part.    *)

LastPart == CHOOSE p \in Parts : \A q \in Parts : q <= p

\* The shared name is read when its turn comes.  It names another log once that
\* has been closed; read while it is overwritten it names nothing.
ThreadTake(l) ==
    /\ thr[l].pc = "next"
    /\ IF thr[l].part > LastPart
       THEN thr' = [thr EXCEPT ![l].pc = "done"]
       ELSE LET f == names[thr[l].part]
            IN  \/ /\ f \in plain
                   /\ thr' = [thr EXCEPT ![l].pc = "zip", ![l].file = f]
                \/ thr' = [thr EXCEPT ![l].part = @ + 1]
    /\ UNCHANGED <<mpc, session, disk, ringVars, cur, saved, queueVars, names, preDump>>

\* The script removes the original though zip failed.
ThreadZipFails(l) ==
    /\ thr[l].pc = "zip"
    /\ thr' = [thr EXCEPT ![l].pc = "delete"]
    /\ UNCHANGED <<mpc, session, disk, ringVars, cur, saved, queueVars, names, preDump>>

\* The archive is complete; the original may have gone meanwhile.
ThreadZip(l) ==
    /\ thr[l].pc = "zip"
    /\ zips' = zips \cup {thr[l].file}
    /\ thr' = [thr EXCEPT ![l].pc = "delete"]
    /\ UNCHANGED <<mpc, session, plain, size, dumps, ringVars, cur, saved, queueVars, names,
                   preDump>>

\* zip -m removes the original.
ThreadDelete(l) ==
    /\ thr[l].pc = "delete"
    /\ plain' = plain \ {thr[l].file}
    /\ thr' = [thr EXCEPT ![l].pc = "next", ![l].part = @ + 1]
    /\ UNCHANGED <<mpc, session, zips, size, dumps, ringVars, cur, saved, queueVars, names,
                   preDump>>

Compress(l) == ThreadTake(l) \/ ThreadZip(l) \/ ThreadDelete(l)

-----------------------------------------------------------------------------
Check == RemoveOldest \/ CheckDone

Finished ==
    /\ \/ mpc = "exited"
       \/ mpc = "idle" /\ made = opt.logs
       \/ mpc = "between" /\ session = opt.sessions
    /\ UNCHANGED vars

Step ==
    \/ StartSession
    \/ CatchDump
    \/ CreateBegin
    \/ Check
    \/ \E ok \in {TRUE, ~OpenMayFail} : CreateFile(ok)
    \/ \E p \in Parts : Save(p)
    \/ \E exiting \in BOOLEAN : Leave(exiting)
    \/ \E l \in Logs : l <= opt.threads /\ Compress(l)
    \/ Finished

Next == Step /\ UNCHANGED opt

Spec == Init /\ [][Next]_vars

\* The main thread runs inside checkWorkDirSize, which waits for nothing.
FairSpec == Spec /\ WF_vars(Check /\ UNCHANGED opt)

-----------------------------------------------------------------------------
(* Properties.                                                             *)

\* Types and ranges of the state.
TypeOK ==
    /\ mpc \in {"between", "idle", "check", "create", "open", "exited"}
    /\ session \in 0 .. opt.sessions
    /\ plain \subseteq Logs \X Parts /\ zips \subseteq Logs \X Parts
    /\ size \in [Logs \X Parts -> 0 .. Limit]
    /\ dumps \in Seq(0 .. made) /\ Len(dumps) <= opt.dumps
    /\ made \in 0 .. MaxLogs /\ seq \in 0 .. made
    /\ ring \in [0 .. Num - 1 -> 0 .. made] /\ ringIdx \in Nat
    /\ cur \in {None, made} /\ (mpc = "open" <=> cur # None)
    /\ saved \in 0 .. Limit - 1
    /\ queue \in Seq((Logs \X Parts) \cup {DumpDir})
    /\ total \in Int /\ rest \in 0 .. 2
    /\ names \in [1 .. 3 -> (Logs \X Parts) \cup {NoFile}]
    /\ \A l \in Logs : /\ thr[l].pc \in {"off", "next", "zip", "delete", "done"}
                       /\ thr[l].part \in 1 .. 4
    /\ preDump \subseteq Logs

\* -n keeps its promise: never more than s_logfile_num logs are on disk, apart
\* from those set aside because a dump followed them (qlog_logfile_create).  With -C
\* it does not: what the directory limit removes stays in the ring.
RingBounded == Num > 0 /\ MaxDir = 0 => Cardinality(LogsOnDisk \ preDump) <= Num

\* Only the oldest log makes room: whatever qlog_logfile_create removes from
\* the directory is at least s_logfile_num logs older than the new one, unless
\* it is what a failed creation left behind.
EvictsOldest ==
    [][mpc = "create" /\ (Num > 0 => MaxDir = 0) =>
          \A f \in plain \ plain' : <<f[1], 1>> \in plain => f[1] + Num <= made']_vars

\* "to prevent this log delete, log before dump": no later log ever evicts the
\* log that was the newest one when a dump was caught (main), as long as every
\* log could be created: a failed creation has taken the slot that is cleared.
PreDumpKept == seq = made /\ MaxDir = 0 => \A l \in preDump : <<l, 1>> \in plain \cup zips

\* Neither the ring, nor the limit on the directory, nor a compress thread
\* working on a name it read late ever takes away the file being written.
CurrentSafe == cur # None => Files(cur) \subseteq plain

\* A name in the queue may be that of nothing on disk: a dump directory; with -n and
\* -C together a log that the ring has removed; or, after a restart, a log that the
\* scan found twice, because it was being replaced by its archive.
MayBeGone(f) == f = DumpDir \/ Num > 0 \/ session > 1

\* But for these the queue of a session names only what is there, as a log or as its archive,
\* however the compress threads and remove_oldest_logfile interleave: the head can
\* be removed.
QueuedOnDisk ==
    mpc \notin {"between", "exited"} =>
        \A i \in 1 .. Len(queue) : queue[i] \in plain \cup zips \/ MayBeGone(queue[i])

\* The compress threads and the main thread, which share names and the queue
\* without a lock, agree on what is in the directory.
FilesInPlace == QueuedOnDisk /\ CurrentSafe

\* The head of the queue is neither a log nor an archive, so it is never taken off.
HeadStuck ==
    queue # <<>> /\ Head(queue) \notin plain \cup zips /\ MayBeGone(Head(queue))

\* checkWorkDirSize comes to an end, so that logging goes on, unless it meets one of
\* the heads that cannot be removed, with which it never does (main.c:671).
CheckEnds == []<>(mpc # "check" \/ HeadStuck)
==============================================================================
