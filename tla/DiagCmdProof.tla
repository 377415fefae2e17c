----------------------------- MODULE DiagCmdProof ----------------------------
(***************************************************************************)
(* Proofs about the diag command handshake, for every script of commands,  *)
(* every number of sessions and of packets on their way.                   *)
(***************************************************************************)
EXTENDS DiagCmd, SequenceTheorems, TLAPS

\* The filter thread is between publishing a command's code and clearing it.
Inside == fpc \in {"write", "lock", "wait", "relock"}

\* The filter thread has not been cancelled in an earlier session: without
\* pthread_cancel, or before the first restart.
NoOrphan == ndk \/ session <= 1

\* Inside a command the indices name it, its code and its flag are published,
\* and the call has not used up its timeouts.
Published ==
    Inside => /\ call \in 1 .. Len(Script) /\ idx \in 1 .. Len(Script[call].codes)
              /\ retry <= RetryLimit
              /\ req = Code /\ flag = Script[call].kind

\* The filter thread exists exactly during a session, and is cancelled only
\* when the main thread has left its loop.
Threads ==
    /\ fpc = "off" <=> mpc \in {"down", "exited"}
    /\ cancel => ~ndk /\ mpc \in {"join", "down", "exited"}
    /\ fpc = "cancelled" => cancel
    /\ session = 0 => fpc = "off"

\* A request and the mutex outlive the thread that left them only if it was
\* cancelled.
LeftBehind ==
    /\ ndk => mutex = "free" /\ (fpc \in {"call", "done", "off"} => req = NoReq)
    /\ session = 0 => mutex = "free" /\ req = NoReq
    /\ session = 1 => /\ fpc \in {"call", "done"} => req = NoReq
                      /\ mutex = "filter" => cancel
    /\ fpc \in {"call", "done"} /\ req # NoReq => idx = 1

IInv == TypeOK /\ Published /\ Threads /\ LeftBehind

\* mdm_handle_diag_pkt_func never waits for a mutex that nobody will release.
HandlerGetsMutex == mpc = "lock" /\ NoOrphan => mutex = "free"

-----------------------------------------------------------------------------
(* Facts about the constants and the indices.                              *)

\* The calls of the script and the codes of each.
LEMMA ScriptFacts ==
    /\ Len(Script) \in Nat
    /\ \A c \in 1 .. Len(Script) :
           /\ Script[c].kind \in Kinds \cup {Plain}
           /\ Script[c].codes \in Seq(Codes) /\ Len(Script[c].codes) \in Nat
           /\ \A k \in 1 .. Len(Script[c].codes) : Script[c].codes[k] \in Codes
  <1>1. Len(Script) \in Nat
    BY DiagCmdAssumption
  <1>2. ASSUME NEW c \in 1 .. Len(Script)
        PROVE  Script[c] \in [kind : Kinds \cup {Plain}, codes : Seq(Codes)]
    BY <1>2, DiagCmdAssumption, ElementOfSeq
  <1> QED BY <1>1, <1>2

\* The code of the current command is one.
LEMMA CodeType ==
    ASSUME call \in 1 .. Len(Script), idx \in 1 .. Len(Script[call].codes)
    PROVE  Code \in Codes /\ Script[call].kind \in Kinds \cup {Plain}
  BY ScriptFacts DEF Code

\* A build has at least one session.
LEMMA SessionType ==
    ASSUME TypeOK
    PROVE  ndk \in BOOLEAN /\ MaxSessions[ndk] \in Nat \ {0} /\ session \in Nat
  BY DiagCmdAssumption DEF TypeOK

-----------------------------------------------------------------------------
(* The filter thread.                                                      *)

\* The code is published and its flag is raised before the command is written.
LEMMA FilterPublishStep == IInv /\ FilterPublish => IInv'
  <1> SUFFICES ASSUME IInv, FilterPublish PROVE IInv'
    OBVIOUS
  <1>1. TypeOK'
    BY CodeType, ScriptFacts, SessionType DEF IInv, TypeOK, Published, Inside, FilterPublish,
       filterVars, linkVars, MoreCommands, RetryLimit
  <1>2. Published'
    BY CodeType, ScriptFacts, SessionType DEF IInv, TypeOK, Published, Inside, Code,
       FilterPublish, filterVars, linkVars, MoreCommands, RetryLimit
  <1>3. Threads'
    BY SessionType DEF IInv, TypeOK, Threads, FilterPublish, filterVars, linkVars
  <1>4. LeftBehind'
    BY SessionType DEF IInv, TypeOK, LeftBehind, Threads, FilterPublish, filterVars, linkVars
  <1> QED BY <1>1, <1>2, <1>3, <1>4 DEF IInv

\* Writing the command changes neither request nor flag.
LEMMA FilterWriteStep == IInv /\ FilterWrite => IInv'
  <1> SUFFICES ASSUME IInv, FilterWrite PROVE IInv'
    OBVIOUS
  <1>1. TypeOK'
    BY CodeType, SessionType DEF IInv, TypeOK, Published, Inside, FilterWrite, filterVars, linkVars
  <1>2. Published'
    BY CodeType, SessionType DEF IInv, TypeOK, Published, Inside, Code, FilterWrite, filterVars,
       linkVars
  <1>3. Threads'
    BY SessionType DEF IInv, TypeOK, Threads, FilterWrite, filterVars, linkVars
  <1>4. LeftBehind'
    BY SessionType DEF IInv, TypeOK, LeftBehind, Threads, FilterWrite, filterVars, linkVars
  <1> QED BY <1>1, <1>2, <1>3, <1>4 DEF IInv

\* The wait gives the mutex back.
LEMMA FilterWaitStep == IInv /\ FilterWait => IInv'
  <1> SUFFICES ASSUME IInv, FilterWait PROVE IInv'
    OBVIOUS
  <1>1. TypeOK'
    BY SessionType DEF IInv, TypeOK, Published, Inside, FilterWait, filterVars, linkVars
  <1>2. Published'
    BY SessionType DEF IInv, TypeOK, Published, Inside, Code, FilterWait, filterVars, linkVars
  <1>3. Threads'
    BY SessionType DEF IInv, TypeOK, Threads, FilterWait, filterVars, linkVars
  <1>4. LeftBehind'
    BY SessionType DEF IInv, TypeOK, LeftBehind, Threads, FilterWait, filterVars, linkVars
  <1> QED BY <1>1, <1>2, <1>3, <1>4 DEF IInv

\* A timeout leaves the request for FilterClear.
LEMMA FilterTimeoutStep == IInv /\ FilterTimeout => IInv'
  <1> SUFFICES ASSUME IInv, FilterTimeout PROVE IInv'
    OBVIOUS
  <1>1. TypeOK'
    BY SessionType DEF IInv, TypeOK, Published, Inside, FilterTimeout, filterVars, linkVars
  <1>2. Published'
    BY SessionType DEF IInv, TypeOK, Published, Inside, Code, FilterTimeout, filterVars, linkVars
  <1>3. Threads'
    BY SessionType DEF IInv, TypeOK, Threads, FilterTimeout, filterVars, linkVars
  <1>4. LeftBehind'
    BY SessionType DEF IInv, TypeOK, LeftBehind, Threads, FilterTimeout, filterVars, linkVars
  <1> QED BY <1>1, <1>2, <1>3, <1>4 DEF IInv

\* The request is cleared before the next command.
LEMMA FilterClearStep == IInv /\ FilterClear => IInv'
  <1> SUFFICES ASSUME IInv, FilterClear PROVE IInv'
    OBVIOUS
  <1>1. TypeOK'
    BY SessionType DEF IInv, TypeOK, Published, Inside, FilterClear, filterVars, linkVars,
       RetryLimit
  <1>2. Published'
    BY SessionType DEF IInv, TypeOK, Published, Inside, Code, FilterClear, filterVars, linkVars,
       RetryLimit
  <1>3. Threads'
    BY SessionType DEF IInv, TypeOK, Threads, FilterClear, filterVars, linkVars
  <1>4. LeftBehind'
    BY SessionType DEF IInv, TypeOK, LeftBehind, Threads, FilterClear, filterVars, linkVars
  <1> QED BY <1>1, <1>2, <1>3, <1>4 DEF IInv

\* A call that ends has cleared its last request.
LEMMA FilterReturnStep == IInv /\ FilterReturn => IInv'
  <1> SUFFICES ASSUME IInv, FilterReturn PROVE IInv'
    OBVIOUS
  <1>1. TypeOK'
    <2>1. call \in 1 .. Len(Script) /\ call + 1 \in 1 .. Len(Script) + 1
      BY ScriptFacts DEF IInv, TypeOK, FilterReturn
    <2>2. owed \o Script[call].codes \in Seq(Codes)
      BY <2>1, ScriptFacts, ConcatProperties DEF IInv, TypeOK
    <2>3. owed' \in Seq(Codes)
      BY <2>2 DEF IInv, TypeOK, FilterReturn
    <2> QED BY <2>1, <2>3, SessionType DEF IInv, TypeOK, FilterReturn, RetryLimit
  <1>2. Published'
    BY ScriptFacts, SessionType DEF IInv, TypeOK, Published, Inside, Code, FilterReturn,
       filterVars, linkVars
  <1>3. Threads'
    BY SessionType DEF IInv, TypeOK, Threads, FilterReturn, filterVars, linkVars
  <1>4. LeftBehind'
    BY SessionType DEF IInv, TypeOK, LeftBehind, Threads, FilterReturn, filterVars, linkVars
  <1> QED BY <1>1, <1>2, <1>3, <1>4 DEF IInv

\* The thread ends between two commands.
LEMMA FilterDoneStep == IInv /\ FilterDone => IInv'
  <1> SUFFICES ASSUME IInv, FilterDone PROVE IInv'
    OBVIOUS
  <1>1. TypeOK'
    BY SessionType DEF IInv, TypeOK, Published, Inside, FilterDone, filterVars, linkVars
  <1>2. Published'
    BY SessionType DEF IInv, TypeOK, Published, Inside, Code, FilterDone, filterVars, linkVars
  <1>3. Threads'
    BY SessionType DEF IInv, TypeOK, Threads, FilterDone, filterVars, linkVars
  <1>4. LeftBehind'
    BY SessionType DEF IInv, TypeOK, LeftBehind, Threads, FilterDone, filterVars, linkVars
  <1> QED BY <1>1, <1>2, <1>3, <1>4 DEF IInv

\* The request stays behind, but the main thread has left its loop.
LEMMA FilterCancelledStep == IInv /\ FilterCancelled => IInv'
  <1> SUFFICES ASSUME IInv, FilterCancelled PROVE IInv'
    OBVIOUS
  <1>1. TypeOK'
    BY SessionType DEF IInv, TypeOK, Published, Inside, FilterCancelled, filterVars, linkVars
  <1>2. Published'
    BY SessionType DEF IInv, TypeOK, Published, Inside, Code, FilterCancelled, filterVars, linkVars
  <1>3. Threads'
    BY SessionType DEF IInv, TypeOK, Threads, FilterCancelled, filterVars, linkVars
  <1>4. LeftBehind'
    BY SessionType DEF IInv, TypeOK, LeftBehind, Threads, FilterCancelled, filterVars, linkVars
  <1> QED BY <1>1, <1>2, <1>3, <1>4 DEF IInv

\* The mutex stays locked, but the main thread has left its loop.
LEMMA FilterCancelledInWaitStep == IInv /\ FilterCancelledInWait => IInv'
  <1> SUFFICES ASSUME IInv, FilterCancelledInWait PROVE IInv'
    OBVIOUS
  <1>1. TypeOK'
    BY SessionType DEF IInv, TypeOK, Published, Inside, FilterCancelledInWait, filterVars, linkVars
  <1>2. Published'
    BY SessionType DEF IInv, TypeOK, Published, Inside, Code, FilterCancelledInWait, filterVars,
       linkVars
  <1>3. Threads'
    BY SessionType DEF IInv, TypeOK, Threads, FilterCancelledInWait, filterVars, linkVars
  <1>4. LeftBehind'
    BY SessionType DEF IInv, TypeOK, LeftBehind, Threads, FilterCancelledInWait, filterVars,
       linkVars
  <1> QED BY <1>1, <1>2, <1>3, <1>4 DEF IInv

-----------------------------------------------------------------------------
(* The main thread, the module and the user.                               *)

LEMMA MainPollStep == IInv /\ MainPoll => IInv'
  <1> SUFFICES ASSUME IInv, MainPoll PROVE IInv'
    OBVIOUS
  <1>1. TypeOK'
    BY SessionType DEF IInv, TypeOK, Published, Inside, MainPoll, filterVars, linkVars
  <1>2. Published'
    BY SessionType DEF IInv, TypeOK, Published, Inside, Code, MainPoll, filterVars, linkVars
  <1>3. Threads'
    BY SessionType DEF IInv, TypeOK, Threads, MainPoll, filterVars, linkVars
  <1>4. LeftBehind'
    BY SessionType DEF IInv, TypeOK, LeftBehind, Threads, MainPoll, filterVars, linkVars
  <1> QED BY <1>1, <1>2, <1>3, <1>4 DEF IInv

LEMMA MainReadStep == IInv /\ MainRead => IInv'
  <1> SUFFICES ASSUME IInv, MainRead PROVE IInv'
    OBVIOUS
  <1>1. TypeOK'
    BY HeadTailProperties, SessionType DEF IInv, TypeOK, Published, Inside, MainRead, filterVars,
       linkVars
  <1>2. Published'
    BY HeadTailProperties, SessionType DEF IInv, TypeOK, Published, Inside, Code, MainRead,
       filterVars, linkVars
  <1>3. Threads'
    BY SessionType DEF IInv, TypeOK, Threads, MainRead, filterVars, linkVars
  <1>4. LeftBehind'
    BY SessionType DEF IInv, TypeOK, LeftBehind, Threads, MainRead, filterVars, linkVars
  <1> QED BY <1>1, <1>2, <1>3, <1>4 DEF IInv

LEMMA MainHandleStep == IInv /\ MainHandle => IInv'
  <1> SUFFICES ASSUME IInv, MainHandle PROVE IInv'
    OBVIOUS
  <1>1. TypeOK'
    BY SessionType, ZenonT(60) DEF IInv, TypeOK, Published, Inside, MainHandle, filterVars, linkVars
  <1>2. Published'
    BY SessionType DEF IInv, TypeOK, Published, Inside, Code, MainHandle, filterVars, linkVars
  <1>3. Threads'
    BY SessionType DEF IInv, TypeOK, Threads, MainHandle, filterVars, linkVars
  <1>4. LeftBehind'
    BY SessionType DEF IInv, TypeOK, LeftBehind, Threads, MainHandle, filterVars, linkVars
  <1> QED BY <1>1, <1>2, <1>3, <1>4 DEF IInv

LEMMA MainLeaveStep == IInv /\ MainLeave => IInv'
  <1> SUFFICES ASSUME IInv, MainLeave PROVE IInv'
    OBVIOUS
  <1>1. TypeOK'
    BY SessionType DEF IInv, TypeOK, Published, Inside, MainLeave, filterVars, linkVars
  <1>2. Published'
    BY SessionType DEF IInv, TypeOK, Published, Inside, Code, MainLeave, filterVars, linkVars
  <1>3. Threads'
    BY SessionType DEF IInv, TypeOK, Threads, MainLeave, filterVars, linkVars
  <1>4. LeftBehind'
    BY SessionType DEF IInv, TypeOK, LeftBehind, Threads, MainLeave, filterVars, linkVars
  <1> QED BY <1>1, <1>2, <1>3, <1>4 DEF IInv

LEMMA MainJoinStep == IInv /\ MainJoin => IInv'
  <1> SUFFICES ASSUME IInv, MainJoin PROVE IInv'
    OBVIOUS
  <1>1. TypeOK'
    BY SessionType DEF IInv, TypeOK, Published, Inside, MainJoin, filterVars, linkVars
  <1>2. Published'
    BY SessionType DEF IInv, TypeOK, Published, Inside, Code, MainJoin, filterVars, linkVars
  <1>3. Threads'
    BY SessionType DEF IInv, TypeOK, Threads, MainJoin, filterVars, linkVars
  <1>4. LeftBehind'
    BY SessionType DEF IInv, TypeOK, LeftBehind, Threads, MainJoin, filterVars, linkVars
  <1> QED BY <1>1, <1>2, <1>3, <1>4 DEF IInv

\* Nothing is left behind by the thread of the session before, if there was one.
LEMMA MainRestartStep == IInv /\ MainRestart => IInv'
  <1> SUFFICES ASSUME IInv, MainRestart PROVE IInv'
    OBVIOUS
  <1>1. TypeOK'
    <2>1. session + 1 \in 0 .. MaxSessions[ndk] /\ 1 \in 1 .. Len(Script) + 1
      BY ScriptFacts, SessionType DEF IInv, TypeOK, MainRestart
    <2>2. /\ call' = 1 /\ idx' = 1 /\ retry' = 0 /\ session' = session + 1
          /\ fpc' = "call" /\ mpc' = "loop" /\ cancel' = FALSE
      BY DEF MainRestart, SessionStart
    <2>3. UNCHANGED <<ndk, timedOut, flag, mutex, req, pkt, owed, link, attached, exitReq>>
      BY DEF MainRestart, SessionStart, linkVars
    <2>4. /\ call' \in 1 .. Len(Script) + 1 /\ idx' \in Nat \ {0}
          /\ retry' \in 0 .. RetryLimit + 1 /\ retry' < idx'
          /\ session' \in 0 .. MaxSessions[ndk']
      BY <2>1, <2>2, <2>3 DEF RetryLimit
    <2>5. cancel' \in BOOLEAN
      BY <2>2
    <2> QED BY <2>2, <2>3, <2>4, <2>5 DEF IInv, TypeOK
  <1>2. Published'
    BY ScriptFacts, SessionType DEF IInv, TypeOK, Published, Inside, Code, MainRestart,
       filterVars, linkVars, SessionStart
  <1>3. Threads'
    BY SessionType DEF IInv, TypeOK, Threads, MainRestart, filterVars, linkVars, SessionStart
  <1>4. LeftBehind'
    BY SessionType DEF IInv, TypeOK, LeftBehind, Threads, MainRestart, filterVars, linkVars,
       SessionStart
  <1> QED BY <1>1, <1>2, <1>3, <1>4 DEF IInv

LEMMA MainExitStep == IInv /\ MainExit => IInv'
  <1> SUFFICES ASSUME IInv, MainExit PROVE IInv'
    OBVIOUS
  <1>1. TypeOK'
    BY SessionType DEF IInv, TypeOK, Published, Inside, MainExit, filterVars, linkVars
  <1>2. Published'
    BY SessionType DEF IInv, TypeOK, Published, Inside, Code, MainExit, filterVars, linkVars
  <1>3. Threads'
    BY SessionType DEF IInv, TypeOK, Threads, MainExit, filterVars, linkVars
  <1>4. LeftBehind'
    BY SessionType DEF IInv, TypeOK, LeftBehind, Threads, MainExit, filterVars, linkVars
  <1> QED BY <1>1, <1>2, <1>3, <1>4 DEF IInv

LEMMA ModuleAnswerStep == IInv /\ ModuleAnswer => IInv'
  <1> SUFFICES ASSUME IInv, ModuleAnswer PROVE IInv'
    OBVIOUS
  <1>1. TypeOK'
    <2>1. Head(owed) \in Codes /\ Tail(owed) \in Seq(Codes)
      BY HeadTailProperties DEF IInv, TypeOK, ModuleAnswer
    <2>2. Append(link, Head(owed)) \in Seq(Codes \cup {LogPacket})
      BY <2>1 DEF IInv, TypeOK
    <2>3. link' \in Seq(Codes \cup {LogPacket}) /\ owed' \in Seq(Codes)
      BY <2>1, <2>2 DEF IInv, TypeOK, ModuleAnswer
    <2> QED BY <2>3 DEF IInv, TypeOK, ModuleAnswer, filterVars
  <1>2. Published'
    BY SessionType DEF IInv, TypeOK, Published, Inside, Code, ModuleAnswer, filterVars, linkVars
  <1>3. Threads'
    BY SessionType DEF IInv, TypeOK, Threads, ModuleAnswer, filterVars, linkVars
  <1>4. LeftBehind'
    BY SessionType DEF IInv, TypeOK, LeftBehind, Threads, ModuleAnswer, filterVars, linkVars
  <1> QED BY <1>1, <1>2, <1>3, <1>4 DEF IInv

LEMMA ModuleLogStep == IInv /\ ModuleLog => IInv'
  <1> SUFFICES ASSUME IInv, ModuleLog PROVE IInv'
    OBVIOUS
  <1>1. TypeOK'
    BY SessionType DEF IInv, TypeOK, Published, Inside, ModuleLog, filterVars, linkVars
  <1>2. Published'
    BY SessionType DEF IInv, TypeOK, Published, Inside, Code, ModuleLog, filterVars, linkVars
  <1>3. Threads'
    BY SessionType DEF IInv, TypeOK, Threads, ModuleLog, filterVars, linkVars
  <1>4. LeftBehind'
    BY SessionType DEF IInv, TypeOK, LeftBehind, Threads, ModuleLog, filterVars, linkVars
  <1> QED BY <1>1, <1>2, <1>3, <1>4 DEF IInv

LEMMA DetachStep == IInv /\ Detach => IInv'
  <1> SUFFICES ASSUME IInv, Detach PROVE IInv'
    OBVIOUS
  <1>1. TypeOK'
    <2>1. owed' \in Seq(Codes) /\ link' \in Seq(Codes \cup {LogPacket})
      BY EmptySeq DEF Detach
    <2>2. attached' \in BOOLEAN
      BY DEF Detach
    <2>3. UNCHANGED <<ndk, fpc, call, idx, retry, timedOut, flag, cancel, mutex, req, mpc, pkt,
                      exitReq, session>>
      BY DEF Detach, filterVars
    <2> QED BY <2>1, <2>2, <2>3 DEF IInv, TypeOK
  <1>2. Published'
    BY SessionType DEF IInv, TypeOK, Published, Inside, Code, Detach, filterVars, linkVars
  <1>3. Threads'
    BY SessionType DEF IInv, TypeOK, Threads, Detach, filterVars, linkVars
  <1>4. LeftBehind'
    BY SessionType DEF IInv, TypeOK, LeftBehind, Threads, Detach, filterVars, linkVars
  <1> QED BY <1>1, <1>2, <1>3, <1>4 DEF IInv

LEMMA AttachStep == IInv /\ Attach => IInv'
  <1> SUFFICES ASSUME IInv, Attach PROVE IInv'
    OBVIOUS
  <1>1. TypeOK'
    BY SessionType DEF IInv, TypeOK, Published, Inside, Attach, filterVars, linkVars
  <1>2. Published'
    BY SessionType DEF IInv, TypeOK, Published, Inside, Code, Attach, filterVars, linkVars
  <1>3. Threads'
    BY SessionType DEF IInv, TypeOK, Threads, Attach, filterVars, linkVars
  <1>4. LeftBehind'
    BY SessionType DEF IInv, TypeOK, LeftBehind, Threads, Attach, filterVars, linkVars
  <1> QED BY <1>1, <1>2, <1>3, <1>4 DEF IInv

LEMMA SignalStep == IInv /\ Signal => IInv'
  <1> SUFFICES ASSUME IInv, Signal PROVE IInv'
    OBVIOUS
  <1>1. TypeOK'
    BY SessionType DEF IInv, TypeOK, Published, Inside, Signal, filterVars, linkVars
  <1>2. Published'
    BY SessionType DEF IInv, TypeOK, Published, Inside, Code, Signal, filterVars, linkVars
  <1>3. Threads'
    BY SessionType DEF IInv, TypeOK, Threads, Signal, filterVars, linkVars
  <1>4. LeftBehind'
    BY SessionType DEF IInv, TypeOK, LeftBehind, Threads, Signal, filterVars, linkVars
  <1> QED BY <1>1, <1>2, <1>3, <1>4 DEF IInv

-----------------------------------------------------------------------------
(* The theorems.                                                           *)

LEMMA InitIInv == Init => IInv
  <1> SUFFICES ASSUME Init PROVE IInv
    OBVIOUS
  <1>1. MaxSessions[ndk] \in Nat /\ 1 \in 1 .. Len(Script) + 1
    BY DiagCmdAssumption, ScriptFacts DEF Init
  <1>2. owed \in Seq(Codes) /\ link \in Seq(Codes \cup {LogPacket})
    BY EmptySeq DEF Init
  <1>3. /\ call \in 1 .. Len(Script) + 1 /\ idx \in Nat \ {0} /\ retry \in 0 .. RetryLimit + 1
        /\ retry < idx /\ session \in 0 .. MaxSessions[ndk]
    BY <1>1 DEF Init, RetryLimit
  <1>4. {timedOut, cancel, attached, exitReq} \subseteq BOOLEAN /\ ndk \in Builds
    BY DEF Init
  <1>5. /\ fpc = "off" /\ mpc = "down" /\ mutex = "free" /\ req = NoReq /\ flag = Plain
        /\ pkt = LogPacket
    BY DEF Init
  <1>6. TypeOK
    BY <1>2, <1>3, <1>4, <1>5 DEF TypeOK
  <1> QED BY <1>6 DEF Init, IInv, Published, Inside, Threads, LeftBehind

LEMMA NextIInv == IInv /\ [Next]_vars => IInv'
  <1> SUFFICES ASSUME IInv, [Next]_vars PROVE IInv'
    OBVIOUS
  <1>1. CASE Filter
    BY <1>1, FilterPublishStep, FilterWriteStep, FilterWaitStep, FilterTimeoutStep,
       FilterClearStep, FilterReturnStep, FilterDoneStep, FilterCancelledStep,
       FilterCancelledInWaitStep DEF Filter
  <1>2. CASE Main
    BY <1>2, MainPollStep, MainReadStep, MainHandleStep, MainLeaveStep, MainJoinStep,
       MainRestartStep, MainExitStep DEF Main
  <1>3. CASE Environment
    BY <1>3, ModuleAnswerStep, ModuleLogStep, DetachStep, AttachStep, SignalStep
       DEF Environment
  <1>4. CASE UNCHANGED vars
    BY <1>4 DEF IInv, TypeOK, Published, Inside, Code, Threads, LeftBehind, vars, filterVars,
       linkVars
  <1> QED BY <1>1, <1>2, <1>3, <1>4 DEF Next, Terminated

LEMMA Invariance == Spec => []IInv
  BY InitIInv, NextIInv, PTL DEF Spec

\* Locations, indices and the retry count of the handshake stay in range.
THEOREM TypeCorrect == Spec => []TypeOK
  <1>1. IInv => TypeOK
    BY DEF IInv
  <1> QED BY <1>1, Invariance, PTL

\* For both builds and every number of sessions, the packet handler acts on the
\* command the filter thread is inside, or on one left by a cancelled thread before
\* the thread of the new session has published its first (mdm_send_cmd,
\* mdm_handle_diag_pkt_func).
THEOREM RequestCurrent == Spec => []RequestIsCurrent
  <1>1. ASSUME IInv PROVE RequestIsCurrent
    <2> SUFFICES ASSUME mpc = "lock", req # NoReq
                 PROVE  InsideRequest \/ RequestOfTheDead
      BY DEF RequestIsCurrent
    <2>1. fpc \notin {"off", "cancelled"} /\ session \in Nat \ {0}
      BY <1>1, SessionType DEF IInv, Threads, TypeOK
    <2>2. CASE fpc \in {"call", "done"}
      BY <1>1, <2>1, <2>2, SessionType DEF IInv, LeftBehind, RequestOfTheDead
    <2>3. CASE fpc \notin {"call", "done"}
      <3>1. Inside
        BY <1>1, <2>1, <2>3 DEF IInv, TypeOK, Inside
      <3> QED BY <1>1, <3>1 DEF IInv, Published, Inside, InsideRequest
    <2> QED BY <2>2, <2>3
  <1>2. IInv => RequestIsCurrent
    BY <1>1
  <1> QED BY <1>2, Invariance, PTL

\* Without an orphan the handler finds the mutex free, so that the main
\* thread never waits for a filter thread that was cancelled with it: what
\* ExitOnSignal rests on, and what the build with pthread_cancel loses after a
\* restart.
THEOREM HandlerNotBlocked == Spec => []HandlerGetsMutex
  <1>1. ASSUME IInv PROVE HandlerGetsMutex
    <2> SUFFICES ASSUME mpc = "lock", NoOrphan PROVE mutex = "free"
      BY DEF HandlerGetsMutex
    <2>1. session \in Nat \ {0} /\ ~cancel /\ mutex \in {"free", "filter"}
      BY <1>1, SessionType DEF IInv, Threads, TypeOK
    <2> QED BY <1>1, <2>1, SessionType DEF IInv, LeftBehind, NoOrphan
  <1>2. IInv => HandlerGetsMutex
    BY <1>1
  <1> QED BY <1>2, Invariance, PTL
==============================================================================
