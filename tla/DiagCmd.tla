------------------------------- MODULE DiagCmd -------------------------------
(***************************************************************************)
(* The synchronous diag command handshake of mdm.c and qshrink4.c, and the *)
(* life of the two threads that take part in it.                           *)
(*                                                                         *)
(* The filter thread (qlog_logfile_init_filter_thread) issues commands     *)
(* with mdm_send_cmd: it publishes the command code in g_mdm_req, writes   *)
(* the command and waits up to 5 s on diag_cmd_cond.  The main thread      *)
(* (message_handle_mdm) reads what the module sends; while g_mdm_req is    *)
(* set it hands every packet to mdm_handle_diag_pkt_func, which matches    *)
(* the code, dispatches on the state flags and signals.  When reading      *)
(* fails, or the user asks to exit, the main thread cancels and joins the  *)
(* filter thread; after a disconnection it starts a new session.           *)
(*                                                                         *)
(* A packet is abstracted to its command code.  The script is the sequence *)
(* of mdm_send_cmd calls init_filter makes: each has the state flag raised *)
(* around it (diag_id_state, parser_state, ...) and the codes of the       *)
(* commands in its buffer.  The filter configuration (Plain) is passed to  *)
(* mdm_send_cmd directly, every query goes through diag_send_data.  What   *)
(* clean_filter writes at exit is read by nobody and left out.             *)
(***************************************************************************)
EXTENDS Integers, Sequences

CONSTANTS Codes,        \* command codes
          Kinds,        \* state flags: diag_id_state, parser_state, ...
          Plain,        \* no state flag (the filter configuration)
          Script,       \* <<[kind, codes], ...>>: the calls of mdm_send_cmd
          Builds,       \* with USE_NDK (TRUE) there is no pthread_cancel
          MaxSessions,  \* bound: number of sessions, for each build
          MaxLink       \* bound: packets on their way to the host

ASSUME DiagCmdAssumption ==
    /\ Plain \notin Kinds
    /\ Script \in Seq([kind : Kinds \cup {Plain}, codes : Seq(Codes)])
    /\ Builds \subseteq BOOLEAN
    /\ MaxSessions \in [Builds -> Nat \ {0}]
    /\ MaxLink \in Nat

NoReq == "none"         \* g_mdm_req = -1
LogPacket == "log"      \* a packet that answers no command

RetryLimit == 3         \* retry_time > 3

VARIABLES
    ndk,       \* USE_NDK is defined
    fpc,       \* where the filter thread is
    call,      \* index in Script of the current mdm_send_cmd call
    idx,       \* index of the current command in the call's buffer
    retry,     \* retry_time
    timedOut,  \* pthread_cond_timedwait returned ETIMEDOUT
    cancel,    \* pthread_cancel was called for the filter thread
    mutex,     \* diag_cmd_mutex: "free" or its owner
    req,       \* g_mdm_req
    flag,      \* the state flag that is raised, or Plain
    mpc,       \* where the main thread is
    pkt,       \* the packet the main thread handles
    owed,      \* commands the module has received and not answered
    link,      \* packets on their way to the host
    attached,  \* the module is there
    exitReq,   \* qlog_exit_requested
    session    \* number of sessions started

filterVars == <<call, idx, retry, timedOut, flag>>
linkVars == <<owed, link, attached>>
vars == <<ndk, fpc, filterVars, cancel, mutex, req, mpc, pkt, linkVars, exitReq, session>>

Code == Script[call].codes[idx]

-----------------------------------------------------------------------------
(* A session starts: the filter thread is created, the loop entered.       *)

SessionStart ==
    /\ mpc' = "loop"
    /\ fpc' = "call"
    /\ call' = 1
    /\ idx' = 1
    /\ retry' = 0
    /\ cancel' = FALSE
    /\ session' = session + 1
    /\ UNCHANGED <<ndk, timedOut, flag, mutex, req, pkt, linkVars, exitReq>>

Init ==
    /\ ndk \in Builds
    /\ mpc = "down" /\ fpc = "off"
    /\ call = 1 /\ idx = 1 /\ retry = 0 /\ timedOut = FALSE
    /\ flag = Plain
    /\ cancel = FALSE
    /\ mutex = "free"
    /\ req = NoReq
    /\ pkt = LogPacket
    /\ owed = <<>> /\ link = <<>>
    /\ attached = TRUE
    /\ exitReq = FALSE
    /\ session = 0

-----------------------------------------------------------------------------
(* The filter thread: mdm_send_cmd.                                        *)

MoreCommands ==
    /\ ~exitReq
    /\ retry <= RetryLimit
    /\ idx <= Len(Script[call].codes)

\* The next command's code is published, without the mutex.
FilterPublish ==
    /\ fpc = "call" /\ call <= Len(Script) /\ MoreCommands
    /\ fpc' = "write"
    /\ flag' = Script[call].kind
    /\ req' = Code
    /\ UNCHANGED <<ndk, call, idx, retry, timedOut, cancel, mutex, mpc, pkt, linkVars,
                   exitReq, session>>

\* qlog_poll_write of the command; nothing happens when the module is gone.
FilterWrite ==
    /\ fpc = "write"
    /\ fpc' = "lock"
    /\ owed' = IF attached THEN Append(owed, Code) ELSE owed
    /\ UNCHANGED <<ndk, filterVars, cancel, mutex, req, mpc, pkt, link, attached,
                   exitReq, session>>

\* pthread_mutex_lock, then pthread_cond_timedwait releases it again.
FilterWait ==
    /\ fpc = "lock" /\ mutex = "free"
    /\ fpc' = "wait"
    /\ UNCHANGED <<ndk, filterVars, cancel, mutex, req, mpc, pkt, linkVars, exitReq,
                   session>>

\* pthread_cond_wait: no timeout.
FilterWaitsForever == FALSE /\ UNCHANGED vars

FilterTimeout ==
    /\ fpc = "wait"
    /\ fpc' = "relock"
    /\ timedOut' = TRUE
    /\ UNCHANGED <<ndk, call, idx, retry, flag, cancel, mutex, req, mpc, pkt, linkVars,
                   exitReq, session>>

\* g_mdm_req is not reset.
FilterClearKeepsReq ==
    /\ fpc = "relock" /\ mutex = "free"
    /\ fpc' = "call"
    /\ retry' = IF timedOut THEN retry + 1 ELSE retry
    /\ idx' = idx + 1
    /\ UNCHANGED <<ndk, call, timedOut, flag, cancel, mutex, req, mpc, pkt, linkVars, exitReq,
                   session>>

\* The timeout path misses the unlock.
FilterClearKeepsMutex ==
    /\ fpc = "relock" /\ mutex = "free"
    /\ fpc' = "call"
    /\ retry' = IF timedOut THEN retry + 1 ELSE retry
    /\ idx' = idx + 1
    /\ req' = NoReq
    /\ mutex' = IF timedOut THEN "filter" ELSE "free"
    /\ UNCHANGED <<ndk, call, timedOut, flag, cancel, mpc, pkt, linkVars, exitReq, session>>

\* The wait has the mutex again; the command is over.
FilterClear ==
    /\ fpc = "relock" /\ mutex = "free"
    /\ fpc' = "call"
    /\ retry' = IF timedOut THEN retry + 1 ELSE retry
    /\ idx' = idx + 1
    /\ req' = NoReq
    /\ UNCHANGED <<ndk, call, timedOut, flag, cancel, mutex, mpc, pkt, linkVars, exitReq,
                   session>>

\* retry_time survives from one call to the next.
FilterReturnKeepsRetry ==
    /\ fpc = "call" /\ call <= Len(Script) /\ ~MoreCommands
    /\ call' = call + 1
    /\ idx' = 1
    /\ flag' = Plain
    /\ UNCHANGED <<ndk, fpc, retry, timedOut, cancel, mutex, req, mpc, pkt, linkVars, exitReq,
                   session>>

\* mdm_send_cmd returns: buffer exhausted, too many timeouts, or exit.  When
\* exit is requested before the call, diag_send_data writes the query and does
\* not wait for its answer.
FilterReturn ==
    /\ fpc = "call" /\ call <= Len(Script) /\ ~MoreCommands
    /\ call' = call + 1
    /\ idx' = 1
    /\ retry' = 0
    /\ flag' = Plain
    /\ \/ owed' = owed
       \/ /\ exitReq /\ attached /\ idx = 1 /\ Script[call].kind # Plain
          /\ owed' = owed \o Script[call].codes
    /\ UNCHANGED <<ndk, fpc, timedOut, cancel, mutex, req, mpc, pkt, link, attached, exitReq,
                   session>>

FilterDone ==
    /\ fpc = "call" /\ call > Len(Script)
    /\ fpc' = "done"
    /\ UNCHANGED <<ndk, filterVars, cancel, mutex, req, mpc, pkt, linkVars, exitReq,
                   session>>

\* Cancelled in usleep(3) or open(2) between two commands, or in write(2) or
\* poll(2) inside one: the thread is gone, g_mdm_req and the flag stay.
FilterCancelled ==
    /\ cancel /\ fpc \in {"call", "write"}
    /\ fpc' = "cancelled"
    /\ UNCHANGED <<ndk, filterVars, cancel, mutex, req, mpc, pkt, linkVars, exitReq,
                   session>>

\* Cancelled in pthread_cond_timedwait: the wait reacquires the mutex, and no
\* cleanup handler releases it.
FilterCancelledInWait ==
    /\ cancel /\ fpc = "wait" /\ mutex = "free"
    /\ fpc' = "cancelled"
    /\ mutex' = "filter"
    /\ UNCHANGED <<ndk, filterVars, cancel, req, mpc, pkt, linkVars, exitReq, session>>

Filter ==
    \/ FilterPublish \/ FilterWrite \/ FilterWait \/ FilterTimeout
    \/ FilterClear \/ FilterReturn \/ FilterDone
    \/ FilterCancelled \/ FilterCancelledInWait

-----------------------------------------------------------------------------
(* The main thread: message_handle_mdm and the restart loop of main.       *)

\* The loop's test of qlog_exit_requested; then the thread polls.
MainPoll ==
    /\ mpc = "loop" /\ ~exitReq
    /\ mpc' = "poll"
    /\ UNCHANGED <<ndk, fpc, filterVars, cancel, mutex, req, pkt, linkVars, exitReq, session>>

\* A packet is read and saved; it is parsed only while a command is pending.
MainRead ==
    /\ mpc = "poll" /\ attached /\ link # <<>>
    /\ link' = Tail(link)
    /\ IF req = NoReq
       THEN mpc' = "loop" /\ pkt' = pkt
       ELSE mpc' = "lock" /\ pkt' = Head(link)
    /\ UNCHANGED <<ndk, fpc, filterVars, cancel, mutex, req, owed, attached, exitReq,
                   session>>

\* mdm_handle_diag_pkt_func under the mutex: the signal reaches the filter
\* thread only if it is waiting.
MainHandle ==
    /\ mpc = "lock" /\ mutex = "free"
    /\ mpc' = "loop"
    /\ IF pkt = req /\ fpc = "wait"
       THEN fpc' = "relock" /\ timedOut' = FALSE
       ELSE UNCHANGED <<fpc, timedOut>>
    /\ UNCHANGED <<ndk, call, idx, retry, flag, cancel, mutex, req, pkt, linkVars, exitReq,
                   session>>

\* The user wants to exit, or qlog_poll_read_fds returns nothing: the module is
\* gone, or silent for 30 s, or the signal interrupted poll(2).
MainLeave ==
    /\ \/ mpc = "loop" /\ exitReq
       \/ mpc = "poll" /\ (~attached \/ link = <<>>)
    /\ mpc' = "join"
    /\ cancel' = ~ndk
    /\ UNCHANGED <<ndk, fpc, filterVars, mutex, req, pkt, linkVars, exitReq,
                   session>>

MainJoin ==
    /\ mpc = "join" /\ fpc \in {"done", "cancelled"}
    /\ mpc' = "down"
    /\ fpc' = "off"
    /\ UNCHANGED <<ndk, filterVars, cancel, mutex, req, pkt, linkVars, exitReq,
                   session>>

\* __restart: waits for the module, then prepares a new session.
MainRestart ==
    /\ mpc = "down" /\ ~exitReq /\ attached /\ session < MaxSessions[ndk]
    /\ SessionStart

MainExit ==
    /\ mpc = "down" /\ exitReq
    /\ mpc' = "exited"
    /\ UNCHANGED <<ndk, fpc, filterVars, cancel, mutex, req, pkt, linkVars, exitReq,
                   session>>

Main == MainPoll \/ MainRead \/ MainHandle \/ MainLeave \/ MainJoin \/ MainRestart \/ MainExit

-----------------------------------------------------------------------------
(* The module and the user.                                                *)

\* The module answers the oldest command, or ignores it.
ModuleAnswer ==
    /\ attached /\ owed # <<>> /\ Len(link) < MaxLink
    /\ owed' = Tail(owed)
    /\ link' \in {link, Append(link, Head(owed))}
    /\ UNCHANGED <<ndk, fpc, filterVars, cancel, mutex, req, mpc, pkt, attached, exitReq,
                   session>>

ModuleLog ==
    /\ attached /\ Len(link) < MaxLink
    /\ link' = Append(link, LogPacket)
    /\ UNCHANGED <<ndk, fpc, filterVars, cancel, mutex, req, mpc, pkt, owed, attached, exitReq,
                   session>>

Detach ==
    /\ attached /\ session < MaxSessions[ndk]
    /\ attached' = FALSE
    /\ owed' = <<>> /\ link' = <<>>
    /\ UNCHANGED <<ndk, fpc, filterVars, cancel, mutex, req, mpc, pkt, exitReq,
                   session>>

Attach ==
    /\ ~attached
    /\ attached' = TRUE
    /\ UNCHANGED <<ndk, fpc, filterVars, cancel, mutex, req, mpc, pkt, owed, link, exitReq,
                   session>>

\* ql_sigaction.
Signal ==
    /\ ~exitReq
    /\ exitReq' = TRUE
    /\ UNCHANGED <<ndk, fpc, filterVars, cancel, mutex, req, mpc, pkt, linkVars,
                   session>>

Environment == ModuleAnswer \/ ModuleLog \/ Detach \/ Attach \/ Signal

\* The program has ended.
Terminated == mpc = "exited" /\ UNCHANGED vars

Next == Filter \/ Main \/ Environment \/ Terminated

\* Both threads run, and a timed wait ends; nothing is assumed of the module
\* or of the user.
Fairness ==
    /\ WF_vars(Filter)
    /\ WF_vars(MainHandle)
    /\ WF_vars(MainPoll \/ MainRead \/ MainLeave)
    /\ WF_vars(MainJoin)
    /\ WF_vars(MainExit)

Spec == Init /\ [][Next]_vars

FairSpec == Spec /\ Fairness

-----------------------------------------------------------------------------
(* Properties.                                                             *)

\* The locations and values of the handshake; retry_time counts timeouts of the
\* current call of mdm_send_cmd only.
TypeOK ==
    /\ fpc \in {"off", "call", "write", "lock", "wait", "relock", "done", "cancelled"}
    /\ call \in 1 .. Len(Script) + 1 /\ idx \in Nat \ {0}
    /\ retry \in 0 .. RetryLimit + 1 /\ retry < idx
    /\ timedOut \in BOOLEAN /\ cancel \in BOOLEAN
    /\ mutex \in {"free", "filter"}
    /\ req \in Codes \cup {NoReq}
    /\ flag \in Kinds \cup {Plain}
    /\ mpc \in {"loop", "poll", "lock", "join", "down", "exited"}
    /\ pkt \in Codes \cup {LogPacket}
    /\ owed \in Seq(Codes) /\ link \in Seq(Codes \cup {LogPacket})
    /\ attached \in BOOLEAN /\ exitReq \in BOOLEAN
    /\ ndk \in Builds /\ session \in 0 .. MaxSessions[ndk]

\* The filter thread of this session is inside the command that g_mdm_req names,
\* and the state flag on which the answer is dispatched is that command's.
InsideRequest ==
    /\ fpc \in {"write", "lock", "wait", "relock"}
    /\ req = Code
    /\ flag = Script[call].kind

\* pthread_cancel has killed the thread of an earlier session inside a command, and
\* the thread of this session has not published one yet.
RequestOfTheDead ==
    /\ ~ndk /\ session > 1
    /\ fpc \in {"call", "done"} /\ idx = 1

\* The request on which mdm_handle_diag_pkt_func acts, across sessions and in both
\* builds: whenever it runs and g_mdm_req is set, that is the command the filter
\* thread is inside, or one that a cancelled thread has left behind and that lasts
\* until the new thread publishes its first command.
RequestIsCurrent == mpc = "lock" /\ req # NoReq => InsideRequest \/ RequestOfTheDead

\* A signal ends the program, whatever the filter thread is doing.
ExitOnSignal == exitReq ~> mpc = "exited"

\* A thread that was cancelled in the wait of an earlier session has kept the mutex.
MutexOrphaned == ~ndk /\ session > 1 /\ mutex = "filter"

\* A signal ends the program in every session, unless the mutex is orphaned.
ExitUnlessOrphaned == exitReq ~> (mpc = "exited" \/ MutexOrphaned)

\* The filter thread of a session comes to an end (a lost answer or a missing
\* module only costs timeouts), unless the mutex is orphaned.
FilterEnds == fpc = "call" ~> (fpc \in {"done", "cancelled"} \/ MutexOrphaned)

\* Neither thread waits for ever: the main thread, which joins the filter thread, nor
\* that one, which waits for answers (mdm_send_cmd, message_handle_mdm).  The mutex
\* that pthread_cancel leaves locked is the only thing that can keep them.
ThreadsEnd == ExitUnlessOrphaned /\ FilterEnds
==============================================================================
