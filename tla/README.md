# QLog: models, checks and proofs

This directory holds a verification development of QLog, the program that
captures the log of a Quectel modem (diag packets of Qualcomm, Unisoc, ASR, MTK,
Eigen and Sony chipsets) to files, to a tcp socket or to a tftp or ftp server,
and that catches a RAM dump of a module that crashed. Two servers, `qftp_server`
and `qsocket_server`, live in the same repository.

Every module is translated from the C source; `PROJECT.json` maps each definition
to the lines it stands for. Paths below are relative to the repository.

## 1. The system

### 1.1 Components

| Component | Source | State | Operations |
|---|---|---|---|
| write cache | `tty2tcp.c:24-200` | a table of 12 slots, each with descriptor, buffer, `in`, `out`, `size` | `kfifo_alloc`, `kfifo_write`, `kfifo_free`, `kfifo_idx` |
| capture loop | `main.c:2355-2560`, `mdm.c:392-430` | size saved, exit flag, descriptors, qmdl2 header | read, create a log, save, rotate, leave |
| diag commands | `mdm.c`, `qshrink4.c:25-130` | `g_mdm_req`, state flags, mutex and condition | `mdm_send_cmd`, `diag_send_data`, `mdm_handle_diag_pkt_func` |
| qmdl2 hash files | `qshrink4.c` | guid list, file being read, header | id, list, open, read, close requests, header |
| packet framing | `diag_pkt.c` | partial packet, pending escape | `diag_pkt_input` |
| log files | `main.c:600-960`, `cqueue.c` | ring of names, queue of names, compress threads and their shared names | create, rotate, evict, make room, compress |
| program driver | `main.c` | options, device, session | discover, dump or log, restart |
| USB access | `usb_linux.c`, `device.c` | descriptors, reader threads | scan sysfs, bulk transfers |
| Qualcomm RAM dump | `sahara.c` | protocol state, memory table, largest request | hello, memory debug, read, reset |
| tftp client | `tftp.c` | block numbers, block being sent, retries | write request, data, acknowledgement |
| ftp client | `ftp.c` | four control connections, one reply buffer for all | login, store, finish |
| tty to tcp | `tty2tcp.c`, `ql-tty2tcp.c` | client descriptors and their cache slots | accept, forward, disconnect |
| ASR | `asr.c`, `ymodem.c` | version header, receiver state, open file | log, dump |
| Unisoc | `unisoc.c` | request under way, flags of three threads, `rid`, SMP buffer | configure, log, save a crash, three kinds of dump |
| Eigen | `eigen.c` | cells of memory, error count | log, dump in the middle of the log |
| MTK, Sony, qdss | `mtk.c`, `sony.c`, `qdss1.c` | configuration | configure, log |
| qserver mode | `qserver.c` | three server threads, their files | accept, save, rotate |
| qsocket_server | `qsocket_server/` | monitor connection, files | query, transfer filter, start, stop |
| qftp_server | `qftp_server/` | tables of clients and addresses; per session a service and a privileged process | accept, reap; the ftp commands, data connections, alarms |

### 1.2 How they interact

```
 module --usb--> reader threads --> capture loop --> packet framing
   ^                                   |  |
   |                                   |  +--answers--> diag commands <--+
   +----commands-----------------------|---------------------|           |
                                       v                     v           |
                                  log files <-- qmdl2 header      filter thread
                                       |                          (hash files,
                                  write cache                      filter file)
                                       |
                              disk | tcp | tftp | ftp
```

* The main thread reads the module and saves what it reads; the filter thread,
  created in each session, configures the module. They meet in `g_mdm_req`, the
  state flags, `diag_cmd_mutex` and `diag_cmd_cond`. The main thread cancels and
  joins the filter thread when the session ends.
* Saving goes through the write cache, because the descriptor may be a socket
  that accepts only a part. Rotation closes one log and creates the next; the
  creation evicts an old log (ring) or makes room in the directory (compression),
  while compress threads turn closed logs into archives.
* When the module disappears the session ends and the program waits for it to
  come back: as a module that logs, or as one that offers a RAM dump.
* The chipsets differ in their loops: an Eigen module announces its dump in the
  log; a Unisoc module is configured, asked for its version and watched by a filter
  thread, and a third thread asks for the memory of a crashed modem. These threads
  share plain variables without a lock.
* A log may be uploaded while it is written: over tftp by a thread behind a socket
  pair, or over ftp on a data connection. The repository has the server for the
  latter: one listening process, and for each client a service process and a
  privileged one that opens the data connections for it.

### 1.3 What is hard here

* *Concurrency*: the filter thread against the main thread; compress threads
  against the main thread, through three shared file names; both threads' ftp
  connections through one buffer for commands and replies; reader threads
  against the table of cache slots; signal handlers of `qftp_server` against its
  loops, and its two processes against each other.
* *Failure*: partial and failed writes, a full disk, a failing `malloc`, a log
  that cannot be created for the packet just read, a module that disappears at any moment and comes back.
* *Ordering*: answers that come late, joined in one read, or in the next session; frames cut anywhere
  by a read; bytes that wait in the cache while later ones are offered.
* *Timeouts*: commands nobody answers, dump blocks repeated with half the length
  while the first answer may still come, tftp retransmissions, alarms that end a
  session or a transfer.

`PROJECT.json` lists the main ones, at their lines, with the properties
that would show them.

### 1.4 What correct means

| Component | Properties |
|---|---|
| write cache | order kept, no packet torn, nothing dropped that fits, lossy ordered stream implemented |
| capture loop | until the disk is full every byte read is in some log, across rotations, but for the packets before the qmdl2 header and the one whose log could not be created; a qmdl2 log begins with its header |
| diag commands | an answer is compared with the current command, or with what a cancelled thread left until the next one publishes; the filter thread ends, exit on a signal |
| hash files | a `.qdb` is a prefix of its file, header complete at the end, the thread gets through |
| packet framing | packets exactly once and whole, independent of how reads split them |
| log files | number of logs bounded, oldest evicted, open log safe, log before a dump kept, making room ends unless the head of the queue is one of the three kinds that cannot be removed |
| RAM dumps | what is saved is the module's memory at its place, success means complete, a dump ends unless it waits for what was thrown away or never asked for |
| Unisoc log | an answer counts only for its command, the version is in every log, a crash stays in one file unless a restart hides its assert |
| SMP packets | the buffer is never overrun, splits do not matter, no packet of legal length is lost |
| tftp, ftp upload | the server's file is a prefix of the log, a confirmed file is complete, nobody waits for ever |
| qftp_server | never more clients than allowed, service and privileged process in step, confirmed uploads complete |

## 2. The modules

| Module | Models | Composition |
|---|---|---|
| `LossyStream` | what the cache promises: an ordered stream that may lose whole packets | abstract |
| `Kfifo` | one slot of the write cache | implements `LossyStream` |
| `CaptureLoop` | `message_handle_mdm` on a disk of limited size or a connection, with qmdl2 headers | extends `Kfifo` |
| `DiagCmd` | filter thread, main thread and module | |
| `Qshrink4` | the hash files, on top of requests as `DiagCmd` models them | |
| `DiagPkt`, `Smp` | `diag_pkt_input`; `unisoc_proc_log_buf` | side by side in `MCFraming` |
| `LogFiles` | rotation, ring, compression, dumps between sessions | |
| `Sahara`, `Ymodem`, `Eigen`, `UnisocDump` | the RAM dumps | |
| `Dump` | the module found decides which dump runs | the four above, one at work |
| `UnisocLog` | filter, main and dump thread of a Unisoc log | |
| `FtpSession` | the two processes of a session of `qftp_server` and any client | |
| `FtpListener` | the listening process of `qftp_server` and its SIGCHLD handler | side by side with `FtpSession` in `MCFtpServer` |
| `FtpClient` | qlog's ftp upload | extends `FtpSession`: the server's real session |
| `Tftp` | qlog's tftp upload, a server and a network | with `FtpClient` in `MCUploads` |
| `KfifoProof` | theorems about `Kfifo` and `CaptureLoop` | extends `CaptureLoop` |
| `DiagCmdProof`, `Qshrink4Proof`, `LogFilesProof`, `TftpProof` | theorems about the module of that name | each extends it |
| `FtpProof` | theorems about `FtpListener`, `FtpSession` and `FtpClient` | extends `FtpListener` and `FtpClient` |
| `DumpProof` | theorems about the four dumps and `Dump` | extends `Dump` |
| `UnisocProof` | theorems about `UnisocLog` | extends it |
| `MC*` | instances for TLC | |

A module that shares an instance with others has, next to its initial predicate, one
for its absence (`SaharaAbsent`, `TftpAbsent`, ...): the program captures one kind of
module and uploads one way at a time.

### 2.1 Kfifo

`fifo` is the slot (`in`, `out`, `size`, `data`), `file` what was written to the
descriptor since it was opened, `seen` the number of bytes offered, `base` the
number offered before the open, `chunks` the packets offered. Bytes are numbered
in the order they are offered, so a lost, repeated or exchanged byte shows.
`KfifoWrite` is one call of `kfifo_write` with the outcome of its `write(2)`
chosen: all, a part, nothing, or `ECONNRESET`. `Compact`, `Grow` and `Append` are
the steps of `__kfifo_write` between the first attempt and the second. The
allocation may fail when `MallocMayFail`.

### 2.2 CaptureLoop

The loop reads a packet, creates a log when none is open, saves the packet with
`KfifoWrite`, adds up the size, rotates at the limit, and leaves when the read fails,
the log cannot be created, the save comes back short or the user interrupts. A log
goes to a `target`: on the disk, `used` is the space taken, a write takes what has
room and no more, and on a disk with room only the first write of a packet may be cut
short, by a signal (the rest then goes through the cache, for which memory is
available, and out); a connection (ftp, tcp) takes any part and may be reset.
With `qmdl2` a log begins with a header that the filter thread completes at any time:
a log created before that is noted (`miss`) and gets it with the first packet after
it, and packets before it are reported as saved and are not. The histories `early`
and `unsaved` count these and the packet whose log could not be created.

### 2.3 DiagCmd

`fpc` and `mpc` are the program counters of the two threads. The script is the
sequence of `mdm_send_cmd` calls of `init_filter`. Publishing the request, writing
the command, taking the mutex, waiting and clearing the request are separate
steps, because the code takes the mutex only for the wait. Condition waits give up
the mutex and take it again, also when they are cancelled: this is what POSIX
says of `pthread_cond_timedwait`. `ndk` is the build without
`pthread_cancel`. The module answers in order, not at all, or not before it
disappears; packets on their way when it disappears are lost. An answer handled
before the filter thread waits signals nobody and the command ends by its timeout.
A thread cancelled inside a command leaves its request published; `RequestIsCurrent`
says that the handler meets it only until the thread of the next session publishes
its first.

### 2.4 Qshrink4

A request is sent, then returns at any time: with its answer, or after 5 s
without. The answers to abandoned requests are still on their way and are handled
during a later request. `disk` holds the blocks written in each `.qdb`, named by
file and number. A session ends because the module is gone, which resets the
globals, or because the log could not be created, which does not; `fresh` remembers
which. `HeaderAtEnd` speaks of the sessions that begin with the globals reset.

### 2.5 DiagPkt and Smp

`Input` is `diag_pkt_input` on one read: a loop over its bytes, with the pending
escape carried between reads. `Encode` is the reference: the framing the module
applies. The crc bytes are part of the body. `Smp` is the other decoder: start
bytes, a header that is checked, a length; what is left of a read waits in a buffer
of `SmpMax` bytes, and a read that does not fit behind it is dropped. The checks of
the header (checksum, lcn, type, reserved) are one: the byte is a header or not.

### 2.6 LogFiles

A log is a number with one file per part. `CreateBegin`, `RemoveOldest`,
`CheckDone` and `CreateFile` are the steps of `qlog_logfile_create` with
`checkWorkDirSize` in between, so that compress threads run between two removals.
A compress thread takes the shared name of a part, runs `zip -m` and goes on to
the next part; it is one disjunct per step. The listing of the directory is ordered by
age; entries of the same age come in any order, as `scandir` and `qsort` leave them.
An archive may be younger than its log. `opt` are the
options of the program: ring and compression each by itself, both together, and
compression with dumps and restarts. In the last two cases, and for dump directories, the
queue may name what is not there (`MayBeGone`).

### 2.7 The RAM dumps

`Sahara` is `q_state` of `sahara_read_dump`. The line from the module carries
commands and memory blocks. A receive may time out early, so that the answer to an
abandoned request is still on its way (`late`); lengths are cut to `Word`, the 32
bits of `sahara.c:582`. `Ymodem` is the receiver of `asr_catch_dump`: the module
sends its frame again when no acknowledgement comes, and the receiver never looks at
the index of a data frame. Its static buffer begins with any frame an earlier dump may
have left (`Leftover`); `yTrust` remembers whether a frame of this dump has come, and
whether the receiver acted on a stale one before (`misled`). `Eigen` is the log and the
dump that begins in it: the packet that announces it is read and not saved. The image
is one file with zeros between the cells, whose number is the code's 32-bit difference
taken as signed (`Padding`, with 2 * `AddrHalf` addresses). `UnisocDump` has the two
blue screen dumps, which compare answers with `rid`, a number that the filter thread's
status query advances too, and the AP dumps, which end when a read returns nothing. A
read may join the answers on the line or, for an answer longer than a USB packet, end in
the middle of one (`ReadsAnswers`, `ReadsPart`); a request may fail to be sent, which the
code notices for blocks and not for registers. Left out are a block whose data looks like
the header of an answer, and a module that is unplugged in the middle.

### 2.8 UnisocLog

The filter thread publishes an AT command, clears the result, writes and polls;
the main thread handles the answer whenever it comes. `uDone` are the commands the
module accepted, `uLate` says that a command was given up before its answer came.
A crash turns splitting off until its end is received; the dump thread asks for the
memory. Flags survive a session, as the globals do, except the one that turns splitting
off, which every restart clears (`main.c:2126`); `uMissed` says that an assert came before
the filter thread had cleared the `m_bSendTCmd` of the session before, and so was taken
for one of that session's crash.

### 2.9 The ftp server and the uploads

`FtpSession` has one action per group of commands: those that only answer are in
`PlainCommand` with the reply each one gives, those with state of their own are
actions. `spc` is the service process, `npc` the privileged one; `ask` and `ans` are
the socket pair between them. SIGALRM and SIGURG run between any two steps. A
transfer moves block by block. `FtpListener` models increments of the counts as a
read and a write, because SIGCHLD's handler runs in between. `FtpClient` replaces
"any client" by `ftp.c`: it asks for the answer to a STOR only when the next file is
opened, and dies of SIGPIPE when it writes twice to a connection the server closed. The
filter thread's connection has the same static `buf`: a command may be sent, a code
evaluated or a port parsed from the other thread's text (`Mixed`, `ftp_sendMixed`). A data
connection made with the other's port leads away from this session (`qaway`).
`Tftp` has the request, which may fail or be refused (the refusal is then sent back to the
server, as the packet it overwrote would have been), the loop with its idle polls and `tftp_send_data_pkt`, with
block numbers that wrap and the assertions of the code as ends of the program.

## 3. The runs

| Run | Result | Shows |
|---|---|---|
| `kfifo` | pass | order, whole packets, drops only when full, refinement of `LossyStream` |
| `capture` | pass | until the disk is full all that is read is in some log but for the two cases `AllOnDisk` names, across short writes and rotations; a qmdl2 log begins with its header |
| `diagcmd` | pass | both builds, two sessions: the request an answer is compared with is the current one, or one left behind until the next thread publishes; filter thread and program end unless the mutex is orphaned |
| `diagcmd_orphan` | violation | a cancelled wait keeps the mutex: the next session cannot exit |
| `logfiles` | pass | ring bound, order of eviction, log before a dump, with creations that fail; under compression the queue names what is on disk, the open log is safe, making room ends, with the exceptions after a restart and with a ring that `MayBeGone` names |
| `framing` | pass | diag and SMP packets: any stream, any split; encoded packets come out exactly; the SMP buffer |
| `qshrink4` | pass | `.qdb` is a prefix, header complete in a session that starts anew, the thread gets through with a silent module |
| `dump` | pass | the four dump protocols: exact, complete when successful, and they end, but for the cases the properties name |
| `unisoc_log` | pass | accepted commands, version in every log, crash in one file, across a restart that allows splitting again |
| `ftpserver` | pass | processes in step, confirmed uploads of two blocks complete and in order, limit of clients |
| `uploads` | pass | ftp client against the server's session, up to and beyond another thread's text in its buffer; tftp over a lossy network |
| `ftp_timeout` | violation | the data alarm ends an upload that is not idle |

A run checks few properties, several of them conjunctions whose parts are defined and
explained one by one in the modules:

| Property | Parts |
|---|---|
| `ThreadsEnd` | `ExitUnlessOrphaned`, `FilterEnds` |
| `FilesInPlace` | `QueuedOnDisk`, `CurrentSafe` |
| `FramingTypeOK` | `TypeOK` of `DiagPkt`, `SmpFits` |
| `SmpPackets` | `SmpSplit`, `SmpKept` |
| `DumpTypeOK` | the type invariants of the four dumps |
| `SaharaImage` | `SaharaExact`, `SaharaComplete` |
| `YmodemFiles` | `YmodemNoGap`, `YmodemSuccess` |
| `EigenFiles` | `EigenImage`, `EigenLogged` |
| `BlueImage` | `BlueExact`, `BlueComplete` |
| `DumpsEnd` | `SaharaEnds`, `YmodemEnds`, `EigenDumpEnds`, `BlueEnds` |
| `UniFiles` | `VersionInLog`, `CrashInOneFile` |
| `SessionInv` | `SessionTypeOK`, `PrivInStep` |
| `ListenerInv` | `ListenerTypeOK`, `ClientLimit` |
| `TftpDelivers` | `TftpTypeOK`, `TftpPrefix`, `TftpComplete`, `TftpInOrder` |
| `UploadsEnd` | `NeverStuck`, `EndTogether`, `TftpEnds` |

`PROJECT.json` has at least one mutant of the code for each of these parts.

### 3.1 Bounds, and why they are enough

* `Kfifo`: a cache of two growth steps of two bytes, packets of one and two bytes,
  eight bytes in all. Partial writes, both growths,
  compaction, the exact fit, the full cache and a second open after data was lost
  all happen. The theorems remove the bounds.
* `CaptureLoop`: a log limit of three, a disk of seven, nine bytes and a header of one:
  two rotations before the disk is full, and packets after it; disk, ftp and tcp, with
  and without qmdl2, the header known from the start, later or never.
* `DiagCmd`: one flagged query and a filter of two commands with the codes
  exchanged, so that a late answer to one command can meet the next; in `diagcmd` five
  commands, one more than the four timeouts that stop a filter, and two packets on their
  way; in `diagcmd_orphan` two commands and one packet. Two sessions, the second starting
  in every state the first can leave. Deadlock is not checked in `diagcmd`, because the
  build with `pthread_cancel` may stop in the second session (finding 1); `ThreadsEnd`
  says that it stops in no other way.
* `LogFiles`: a ring of two and four logs, so that it wraps, up to two dumps
  and three sessions; for compression a directory of three units and three logs of
  two files, so that several compress threads and a removal run together; the thread of
  the third log, which no removal can meet, is left to the theorems (`threads`). For the
  heads that cannot be removed two more instances: two sessions under compression with a
  dump between them and creations that fail, and a ring of one with compression.
* `DiagPkt`: every stream of up to six bytes over four that matter (escape, flag,
  an escaped one, a plain one), every split into reads of up to three; every
  packet of two or three bytes, and lists of up to three packets.
* `Qshrink4`: a file of five blocks read by two, and one of exactly one block; three
  outstanding requests; three sessions.
* `Smp`: every stream of up to seven bytes, two start bytes, a buffer of six: packets
  of legal length, one that never fits, and the buffer at its end.
* `Sahara`: no segment, one, several, empty ones, a table too large for the buffer and
  a segment whose length is zero in 32 bits; requests of up to four blocks, so that
  they are halved twice; two lost or failing steps.
* `Ymodem`: two files of two and one frames, three waits, two lost answers or repeats,
  and any frame of these files, or the end header, left in the buffer.
* `Eigen`: two cells with a gap, requests of two blocks, two sessions with a dump each,
  five packets; sixteen addresses, so that the second dump's padding wraps.
* `UnisocDump`: regions of one and three blocks, with and without requirements that
  hold; three request numbers, so that they wrap, three queries of the filter
  thread, and one read that joins or cuts answers or request that is not sent.
* `UnisocLog`: two AT commands, two tries, a log limit of two packets, one crash, two
  sessions.
* `FtpSession`: four commands, two of them ahead of the answers, one name, two blocks per
  transfer and one failure for any client; eight commands, two files of two blocks, one
  failure and one use of the other thread's text for qlog. `FtpListener`: three processes, two addresses, four connections,
  a limit of two clients.
* `Tftp`: four blocks of two units and a last one, four block numbers, so that they
  wrap and two blocks share one; two tries; two losses or failures, as many as the
  theorem of section 4 allows for four numbers.

### 3.2 Fairness

* `DiagCmd`: weak fairness of the filter thread's steps, of the packet handler, of
  leaving the loop, of the join and of the exit. Threads are scheduled, timed
  waits end and `poll` returns when there is something to read. Nothing is assumed
  of the module, of the user or of a packet arriving.
* `LogFiles`: weak fairness of `Check`: `checkWorkDirSize` waits for nothing. A
  removal that removes nothing is a step that changes nothing, so it takes part
  without making progress, as in the code.
* `Qshrink4`: weak fairness of the filter thread; every request ends after 5 s.
* Dumps: weak fairness of the host's steps (every receive has a timeout), and for
  `Ymodem` and `Eigen` of a module that answers: without one these two repeat their
  requests for ever, which `YmodemEnds` and `EigenDumpEnds` therefore leave out.
  `Sahara` ends with any module. For `UnisocDump` the filter thread's query, once
  decided, is sent; a wait for an answer that was thrown away, or to a register request
  that was never sent, is not repeated by the code, and `BlueEnds` names it
  (`WaitsInVain`).
* `FtpSession`, `FtpClient`: weak fairness of the two processes, of the alarm, which
  the kernel delivers, and of qlog's steps within one call; nothing is assumed of when
  a file is opened, written or closed.
* `Tftp`: weak fairness of the thread, whose polls have timeouts, and of the server.
  Faults are bounded by their constants.

`CaptureLoop`, `DiagPkt`, `Smp`, `UnisocLog` and `FtpListener` have safety properties
only.

### 3.3 Findings

Two runs show the code at odds with what the repository says of it; the
quotations are in `PROJECT.json`.

1. A filter thread cancelled in its wait leaves `diag_cmd_mutex` locked; after the
   module comes back the program does not exit on a signal (`mdm.c:264`).
2. An upload never marks the data connection as active, because its call of
   `limit_rate` is commented out; the data alarm ends it after
   `data_connection_timeout` as if nothing had moved (`ftpproto.c:983`).

What else the models show, in the order of the modules; the properties name these
cases where they have to leave them out.

* *Cache.* A full disk is not noticed, because the cache reports success
  (`tty2tcp.c:59`); `AllOnDisk` holds until it is full.
* *Capture.* The log is created after its first packet was read; when that fails, the
  packet is lost with the session (`main.c:2431`). With qmdl2, packets that come before
  the header are reported as saved and are not (`mdm.c:415`).
* *Commands.* An answer handled before the filter thread waits is lost; four of them
  cut a filter short although every command was answered (`mdm.c:257`). A cancelled
  thread's request is still compared with the first packets of the next session
  (`mdm.c:264`).
* *Hash files.* After a session that could not create its log, the next one has no
  qmdl2 header and saves nothing (`qshrink4.c:883`). `ftp_qdb_file_len` is set after
  the first hash file, read or not, and never reset, so later files are never fetched
  (`qshrink4.c:907`).
* *Log files.* Making room never ends when the head of the queue cannot be removed: a
  dump directory, a log the ring has removed (`-n` with `-C`), or a log the scan after a
  restart found twice, as a log and as its archive (`main.c:671`, `main.c:742`).
  `CheckEnds` names these heads, and `logfiles` has them. With compression the log before
  a dump is deleted for room, which the ring is told to keep (`main.c:2167`); after a
  creation that failed, the slot cleared for a dump is the failed log's. `PreDumpKept` is
  stated for the ring and for sequences in which every creation succeeded.
* *Sahara.* The answer to an abandoned request is taken for that of the next one
  (`sahara.c:602`), a short write is only reported (`sahara.c:619`), and a module that
  does not begin with HELLO is reset and reported as dumped with no file.
* *Ymodem.* A repeated frame is saved twice (`ymodem.c:255`). The buffer is not cleared
  between dumps (`ymodem.c:194`): with the end header in it a silent module is a
  successful dump of nothing, and a stale file header makes the receiver open that file
  and take what follows for its data. An exit request between two reads reports
  success (`ymodem.c:212`). A module that is silent after EOT is acknowledged for ever.
* *Eigen.* Cells are never cleared, so each dump appends to the last one's list
  (`eigen.c:496`), and the padding of a second dump may be up to 2^31 zeros, as its
  32-bit difference wraps (`eigen.c:807`); the packet that announces a dump is in no log
  (`main.c:3248`); timeouts are not counted (`eigen.c:613`), and an answer to the
  request before is written as the next block. The first request for a cell has the
  full length, also for a shorter cell (`eigen.c:538`).
* *Unisoc.* A register's value is used although its answer was not recognised
  (`unisoc.c:1521`), and a register request that could not be sent is waited for for ever
  (`unisoc.c:1517`), as is an answer that was read together with another and thrown away
  with it (`unisoc.c:1457`); an assert early in a second session is taken for one of the
  crash before, so that its file may be split (`unisoc.c:896`); the EC600U dump does not see an exit request while it waits
  (`unisoc.c:1454`), and the EC800G takes what is in its buffer for a block then
  (`unisoc.c:1868`); an AP dump that breaks off is a success (`unisoc.c:1284`); the OK
  of a command given up counts for the next (`unisoc.c:544`).
* *tftp.* A failing `sendto` skips a block (`tftp.c:364`); an acknowledgement older than
  the last, or retries used up, end the program by an assertion (`tftp.c:201`, `407`);
  the fourteenth idle poll in a file ends its upload, because `re_send` is never reset
  (`tftp.c:131`); an answer to the request other than OACK is sent back to the server
  (`tftp.c:337`).
* *ftp.* A session the server has closed stays logged in, and the second write to it
  ends qlog by SIGPIPE (`ftp.c:98`). The main and the filter thread share one buffer for
  commands and replies (`ftp.c:45`): after a mixing, a file may count as confirmed that is
  not. `Uploaded` and `RepliesInStep` hold until then.
* *qftp_server.* `get_transfer_fd` may fail without an answer (`ftpproto.c:1033`); a
  failing or empty `sendfile` repeats for ever (`ftpproto.c:429`); `do_list` leaves the
  data descriptor behind (`ftpproto.c:485`); urgent data eats a command that is not
  ABOR (`ftpproto.c:1220`); a child that ends before it is entered in the table leaves
  its address counted (`main.c:108`), and an entry freed under `handle_ip_count` loses
  a count (`main.c:168`), so that only the limit of all clients is a property.

## 4. The proofs

Every theorem is for all values of the constants that satisfy the assumption of the
module (numbers of the right sign, non-empty sets); a hypothesis beyond that is named
below with the reason for it. The pattern is the same everywhere: an inductive
invariant `IInv`, a conjunction of named parts, one lemma for each action, and the
property from `IInv`. The invariants were checked with TLC before they were proved.

| Theorem | States | Hypothesis |
|---|---|---|
| `KfifoProof.TypeCorrect`, `OrderPreserved` | `TypeOK`, `InOrder` | none |
| `KfifoProof.ChunksStayWhole`, `LossOnlyWhenFull`, `Refinement` | `NoTornChunk`, `DropOnlyWhenFull`, `ImplementsLossyStream` | `RoomForChunks` |
| `KfifoProof.NothingLost` | `AllOnDisk` of `CaptureLoop` | a packet fits a growth step |
| `KfifoProof.HeadersFirst` | `HeaderFirst` of `CaptureLoop` | none |
| `DiagCmdProof.TypeCorrect` | `TypeOK` | none |
| `DiagCmdProof.RequestCurrent` | `RequestIsCurrent` | none |
| `DiagCmdProof.HandlerNotBlocked` | the packet handler gets the mutex | in states with `NoOrphan` |
| `Qshrink4Proof.TypeCorrect`, `PrefixOnDisk`, `HeaderComplete` | `TypeOK`, `QdbIsPrefix`, `HeaderAtEnd` | none |
| `LogFilesProof.TypeCorrect`, `WrittenFileStays` | `TypeOK`, `CurrentSafe` | none |
| `LogFilesProof.RingKept`, `OldestEvicted`, `LogBeforeDumpKept` | `RingBounded`, `EvictsOldest`, `PreDumpKept` | none |
| `LogFilesProof.QueueInPlace` | `FilesInPlace` | `OneRun` |
| `FtpProof.ListenerCorrect` | `ListenerInv` | none |
| `FtpProof.SessionCorrect`, `UploadComplete` | `SessionInv`, `UploadExact` | none |
| `FtpProof.UploadedComplete`, `RepliesAnswer` | `Uploaded`, `RepliesInStep` | none |
| `TftpProof.LogDelivered` | `TftpDelivers` | `FewFaults` |
| `DumpProof.SaharaCorrect` | `SaharaTypeOK`, `SaharaImage` | none |
| `DumpProof.YmodemCorrect` | `YmodemTypeOK`, `YmodemFiles` | none |
| `DumpProof.BlueCorrect` | `BlueTypeOK`, `BlueImage` | `RidsSuffice` |
| `DumpProof.EigenCorrect` | `EigenTypeOK`, `EigenFiles` | `CellsFit`, `CellsAscend` |
| `DumpProof.DumpCorrect` | `DumpTypeOK` and the four images, of `Dump` | those of the two above |
| `UnisocProof.UniTypeCorrect`, `ArmedAccepted`, `LogFilesComplete` | `UniTypeOK`, `ArmedIsAccepted`, `UniFiles` | none |

### 4.1 The write cache and the capture loop

`RoomForChunks` says that memory is available and that a growth step
has room for a packet. It is needed: when `malloc` fails, or a packet exceeds the
step, a packet may be torn.

`InOrder` speaks of the file and of the pending bytes
as two sequences. It is not inductive: a partial write moves bytes from one to the
other, compaction and growth move the pending ones in the buffer. `IInv` therefore
says that `Owed`, the file followed by the pending bytes, is increasing between
`base + 1` and `seen`; that the cache is well formed; and that an empty cache has
`in = 0` (`Normal`), which the code relies on when it writes through only if
nothing is pending. Each step is then a lemma on `Owed`: `Compact` and `Grow` leave
the pending bytes as they are, `Append_` adds the offered run or nothing, `Drained`
moves a prefix. The lemmas about sequences (concatenation, association, equality
by elements) are stated once and cited.

*Refinement.* The mapping takes `pending` to the bytes between `out` and `in`. An
open, a close and a write map to `Open`, `Close` and `Offer`. `Offer` lets the file
grow by any prefix of what is pending and offered, and the packet be kept whole or
dropped whole.

*Loss.* A packet that is not owed after the write was dropped by `Append_`
(`DropStep`, by comparing lengths); a growth step has room for it, so the cache did not
grow any more, and compaction would not have made room (`DroppedLemma`).

*Capture.* `AllOnDisk` needs that the cache is empty as long as the disk is not full
(`DiskInv`): this is what makes it harmless that a rotation forgets the cache. A packet
cut by a short write finds the cache empty, hence room (`RoomLemma`). `LoopInv` has the
types of the cache and says when the two histories may count. `HeaderFirst` is inductive
only with `HeaderInv`: a log without a header holds nothing, in its file and in the cache,
and its descriptor is the one that waits for the header.

### 4.2 The diag commands

The parts of `IInv`: `Published`, within a command the code and the flag of that command
are published; `Threads`, which pairs of program counters of filter and main thread
meet and who owns the mutex; `LeftBehind`, what a cancelled thread leaves: its request,
until the next thread publishes, and possibly the mutex. `RequestCurrent` holds in both
builds and all sessions. A thread cancelled in its wait keeps the mutex (finding 1), so
`HandlerNotBlocked` speaks of the states without such a predecessor: `NoOrphan` is a build
without `pthread_cancel`, or the first session.

### 4.3 The hash files

An answer may come after its request was given up, so `QdbIsPrefix` must say what may
still be written. `IInv`: at most one block, as request or as answer, is under way
(`BlocksUnderWay`), and one that can still be written is the next block of the file
that is open; a session fetches one file, so all handles on their way are of it
(`OneFile`); `Epochs` keeps what belongs to an earlier session apart, which a reset of
the globals makes unwritable; `Waiting`, `ListOnce` and `ReadLoop` tie the program
counter to what is under way. `HeaderAtEnd` then follows for sessions that begin with
the globals reset.

### 4.4 The log files

* `RingBounded`: every log on disk that is not set aside for a dump is named by a slot
  of the ring (`RingNames`), and there are `Num` slots. A slot keeps its name until its
  log is removed.
* `EvictsOldest`: the names that pass through one slot are at least `Num` apart, in
  order (`RingOrder`).
* `PreDumpKept`: the log before a dump has left the ring (`SetAside`); with a directory
  limit it is deleted for room all the same (section 3.3), so the property is about the ring without one.
* `FilesInPlace`: a compress thread deletes the original only when the archive is there
  or its name has left the queue, and a name is queued once (`Queued`, `Compressing`).
  `OneRun`, with compression no ring, one session, no dump and creations that succeed,
  is the scope in which the code keeps the queue: section 3.3 says what happens beyond.
* `CurrentSafe` needs none of this: it holds with every option.

The ring and the directory limit together remove logs behind each other's back; the
properties of the ring therefore speak of a ring without the other.

### 4.5 The ftp server and the upload to it

*Listener.* The count is read before a signal and written after it, so it may be above
the number of processes; that it is never below is the invariant. The count a child
carries is that of its fork: of any set of live processes the one that was forked last
copied a count of at least their number (`LastKnows`), so that a child above the limit
is always told so.

*Session.* `PrivInStep` pairs each program counter of the service process with what the
privileged one may be doing; it is inductive only together with the messages in the
socket pair, which are part of it. `UploadExact` needs three parts more: nobody listens
while a transfer runs, so the client cannot exchange the connection under it
(`NotListening`); the blocks not yet read are the end of what the client sent (`Unread`);
and what was read is in the file up to its position (`Written`).

*Upload.* qlog's client reads the answer to a file one file later, and nothing in
`ftp.c` compares an answer with the command it belongs to. `ClientInv` therefore follows
one command through both programs:

* what the service process is doing is the one command of qlog that has no answer yet
  (`Engaged`), and the question it has put to the nobody process fits it
  (`QuestionInStep`);
* the replies qlog has not read belong to what it waits for; that of an alarm is among
  them only once the session has ended (`RepliesExpected`);
* a 226 that is not read yet stands for a complete file that is not written any more
  (`Complete`);
* a connection made for an earlier file is not taken for this one, which the port
  number shows (`PortFresh`);
* the blocks on disk and those under way are what qlog wrote (`FileBlocks`; `Halves`
  splits it at the file's position);
* the files acknowledged are whole (`Uploaded`) and lie before the one being stored
  (`Acked`).

`RepliesInStep` follows from `RepliesExpected`. All of this ends when the other thread's text
is in the shared buffer: `BufferInv` says that `ClientInv` holds until then (`AloneStep`), and
`MixedStep` that the steps with the other's text are the ones that count it. The
commands that qlog never sends are shown impossible once, in `ClientNever` and
`ClientNeverTransfers`.

### 4.6 The tftp upload

Datagrams carry numbers modulo 2^16, in both directions, and may be lost or repeated.
`IInv` says that there are sequences `no` and `ack`, the true block of each datagram
under way, and `off`, where each block begins in the log (`Ghost`). `Numbered`: the
datagrams carry the remainders. `Window`: both sequences are ordered; what goes to the
server lies between the block before the one it expects and the last one sent, what
comes back between the block before the current one, less the blocks skipped, and the
one the server took last. `Layout`: the blocks, the buffer and the socket pair are the
log. `Carries`: a datagram has the units of its block. A number then stands for one
block only (`SameNumber`), because the window is narrower than the numbers. The
witnesses are updated explicitly in the lemmas (`PacketSent`, `BlockAccepted`,
`BlockRepeated`, `NextBlock`, `BufferFills`, ...).

`FewFaults`: at most `BlockNumbers - 2` failures. A failing `sendto` skips a block, and
nothing else lets the client run ahead of the server. With one failure more the theorem
is false: TLC finds a behaviour in which a block with the expected number, one round
later, is taken into the file. With 2^16 numbers this takes 65535 failures in one upload.

### 4.7 The RAM dumps

*Sahara.* `SaharaImage` is not inductive: it says nothing of what is on the line.
`SaharaInv` adds the place of the dump (`Place`: which file is open, and how far), the
lengths of the files (`Lengths`), and the line (`Line`): while no request was given up
with its answer under way, what is on its way to the host is the answer to the
request in hand, or the module has that request still to answer.

*Ymodem.* The host never looks at the index of a data frame, so order can only come from
the module. `YmodemInv`: the frames under way are a chain of successors, up to the one
the module sends next (`Chain`); the first of them is the frame in the buffer again, or
the one that follows it (`Heard`), or the first header while the buffer still holds what
an earlier dump left there (`Unheard`). A receiver that acts on a stale header is `misled`
for the rest of the dump; `YmodemWhole` keeps the types and the flow of frames (`Flow`) in
that case too, and claims nothing of the files. Otherwise each frame saved is the one
before it again or the next, and a file ends after its last frame.

*Blue screen and AP dumps.* Two threads make requests on one line and advance one `rid`.
`BlueInv`: which thread may be doing what (`BluePlace`); what is on the line of each chip;
and how far each file is (`BlueFilesInv`). On the EC600U an answer is told from that to a
status query by its kind, so `Exx00uLine` says that at most one answer of another kind is
under way, the one waited for, and nothing of `rid`. A read that joins or cuts answers takes a
prefix of the line, so that a suffix of it remains, with a first answer that may be cut: the
lemmas `BlueDropped`, `BlueSuffix`, `BlueCut` and `BlueAgain` carry the lines over. The
EC800G takes any answer with the number it waits for: `Ec800gLine` follows the numbers of the filter thread's queries, none
of which is sent once requests are made, up to the first answer that empties the line.
`RidsSuffice` bounds the unread queries by the numbers there are, for that chip only: with
more the theorem is false, as TLC shows with three queries and two numbers. `rid_ec800g`
has 32 bits (`unisoc.c:378`), so this takes 2^32 queries that are never read.

*Eigen.* `EigenImage` speaks of the finished file. `ReadSoFar` says what it is on the way:
while cell `i` is read, the file is the image up to the address of the request, and the
request is for what is left of the cell or for `ReadMax`. Cells are stored from the first
entry on but added to the count, so that the second dump of a run goes on behind the last
cell: `CellsCounted` says that those entries are empty, and the image is complete already
when they are reached. `RequestInStep` ties the line to the request, as long as none was
repeated too early. Two hypotheses: the cells of all dumps fit `RDReqCell` (`CellsFit`; the
code does not check it), and the module names its memory from the lowest address on without
overlaps and with gaps below 2^31 (`CellsAscend`), since a file that is written front to back
with a signed 32-bit padding cannot be the image otherwise. The zeros that a second dump's
wrapped padding puts behind the image are part of what `EigenImage` says. `EigenLogged` says of each file
where it begins after the one before, not of the files concatenated, which keeps it free of
recursion; the packets missing between are those that announced a dump.

*Together.* `DumpCorrect` is the conjunction of the four invariants: a step of one protocol
leaves the variables of the others alone, and the initial states of a protocol that is
absent satisfy its invariant as well.

### 4.8 The Unisoc log

`s_pRequest`, `m_bAT_result` and the version flag are written by one thread and read by
another without a lock. `AtInStep`: as long as no command was given up with its answer
still to come, at most one command or one answer is under way, that of the command waited
for, and none when the filter does not wait; so a positive result is that of the
current command. `VersionKept` says that the version counts as known only while the file
that has it is open. `CrashKept` follows a crash through three threads: which packets of
it the module has still to send, which are on the line (`Guarded`), and what the
file must hold by then; the file is not split in between. It holds until an assert was missed
(`uMissed`).

### 4.9 Only model-checked

* Liveness under fairness (`ThreadsEnd`, `CheckEnds`, `GetsThrough`,
  `DumpsEnd`, `UploadsEnd`).
* What the decoders compute for every stream (`SplitIndependent`, `Framing`,
  `SmpPackets`, with `FramingTypeOK` of the same run): it needs induction over the
  stream, and the decoders are recursive.

## 5. What is not modelled

* Logging text, option parsing, file name formats, sysfs scanning, ioctl calls,
  serial port settings: input and output without state of their own.
* `mtk.c`, `sony.c`, `qdss1.c`, the log of `asr.c`: the shape of the capture loop and
  of the diag commands, with other constants.
* `qserver.c`: its threads read their type from a frame that may be gone
  (`qserver.c:165`); whatever follows is undefined. `qsocket_server`: one writer per
  file and a linear monitor protocol; its rotation test compares a size that is never
  reset (`qfile.c:257`).
* The forwarding of `tty2tcp.c` and `ql-tty2tcp.c` beyond the write cache.
* `parseconf.c`, `str.c`, `tunable.c` of `qftp_server`: its configuration is constants.
* The table of cache slots: `Kfifo` is one slot. Two threads that take the same
  slot (`tty2tcp.c:154`), and a descriptor number that is reused, are not seen.
* A module that is silent for 30 s and still attached also ends a session as an abnormal
  exit (`main.c:2417`); in `Qshrink4` a session of that kind ends with the module gone, so
  no answer of it comes later.
* SMP headers with a length below the header's own (`unisoc.c:862`): the module's headers
  are assumed legal. The `errno` of an earlier call that `ymodem.c` may look at.
* `FtpListener` joins the increment of `s_children` and its copy to `num_clients`, which no
  signal can tell apart.
* Widths: `total_size` and `max_size` in `checkWorkDirSize` are `int`; the model's
  sizes are far below.
* `DiagPkt` with `start_7e`: outside a frame an escaped byte is an error but is not
  skipped (`diag_pkt.c:73-76`), so what follows depends on the split. The split
  property is checked without `start_7e`, complete frames with and without.
* The escape branch of `diag_pkt_input` past the packet limit.
* `delete_logs` at start-up, and `qmdl2` with the ignore option.

## 6. Plan

Done: the modules of section 2, the runs of section 3 and the proofs of section 4. What
section 4.9 names stays with TLC; what section 5 names is open.
