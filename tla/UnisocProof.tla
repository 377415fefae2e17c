----------------------------- MODULE UnisocProof -----------------------------
(***************************************************************************)
(* Proofs about the capture of a Unisoc module, for any number of AT       *)
(* commands, retries, packets, crashes and sessions.                       *)
(***************************************************************************)
EXTENDS UnisocLog, SequenceTheorems, TLAPS

\* What the host reads, and what it writes.
Packets == {"OK", "ERROR", "time", "version", "log", "assert", "mem", "end", "reserved"}

Lines == [cmd : {"at", "time", "version", "t"}, at : Nat]

\* The state of the crash as the module has it.
Crashes == {"no", "yes", "mem", "over"}

\* The answers to an AT command, and the commands.
Answers == {"OK", "ERROR"}

AtLines == {c \in Lines : c.cmd = "at"}

\* No element of s is in X; at most one is.
None(s, X) == \A i \in 1 .. Len(s) : s[i] \notin X

One(s, X) == \A i, j \in 1 .. Len(s) : s[i] \in X /\ s[j] \in X => i = j

\* The types of all variables.
UniTyped ==
    /\ UniTypeOK /\ uOut \in Seq(Lines) /\ uIn \in Seq(Packets) /\ uFiles \in Seq(Seq(Packets))
    /\ uModule \in [logs : Nat, crash : Crashes, mem : Nat] /\ uSize \in Nat /\ uRound \in Nat /\ uSession \in Nat
    /\ uExit \in BOOLEAN /\ uOpen \in BOOLEAN /\ uArm \in BOOLEAN /\ uLate \in BOOLEAN /\ uMissed \in BOOLEAN

-----------------------------------------------------------------------------
(* The invariant of the AT commands *)

\* No AT command and no answer to one is under way.
Quiet == None(uOut, AtLines) /\ None(uIn, Answers)

\* At most the command waited for, or its answer, is under way.
Pending ==
    /\ One(uOut, AtLines) /\ One(uIn, Answers) /\ (None(uOut, AtLines) \/ None(uIn, Answers))
    /\ \A i \in 1 .. Len(uOut) : uOut[i].cmd = "at" => uOut[i].at = uAt
    /\ \A j \in 1 .. Len(uIn) : uIn[j] = "OK" => uAt \in uDone

\* The filter waits for the answer of its command.
Waiting == uFilter = "wait" /\ uReq # NoRequest

\* The answer has come.
Answered == uFilter = "result" \/ (uFilter = "wait" /\ uReq = NoRequest)

\* One command at a time, as long as none was given up with its answer still to come.
AtInStep ==
    (uMain = "read" /\ ~uLate) =>
        /\ (Waiting => Pending) /\ (~Waiting => Quiet) /\ (uFilter = "clear" => uReq # NoRequest)
        /\ (Answered /\ uRes = 1 => uAt \in uDone)

AtInv == AtInStep /\ ArmedIsAccepted /\ (uMain = "end" => uFilter = "end")

-----------------------------------------------------------------------------
(* The invariant of the log files *)

\* The log file being written.
Current == uFiles[Len(uFiles)]

\* The version is known only while the file that has it is open.
VersionKept ==
    (uVer = 1 /\ uFilter # "start" /\ uMain = "read") => uOpen /\ "version" \in Range(Current)

\* The assert is in the file being written, which is not closed before the end of the crash.
AssertSaved == uOpen /\ uNoSplit = 1 /\ "assert" \in Range(Current)

\* Memory comes after the assert, which is saved or on its way before it, and nothing of it
\* after the end.
Guarded(s, crash, saved) ==
    /\ \A j \in 1 .. Len(s) : s[j] = "mem" => (saved \/ \E i \in 1 .. j - 1 : s[i] = "assert")
    /\ crash \in {"yes", "mem"} => (saved \/ \E i \in 1 .. Len(s) : s[i] = "assert")
    /\ \A j \in 1 .. Len(s) : s[j] = "end" => crash = "over" /\ \A k \in j + 1 .. Len(s) : s[k] # "mem"

\* The log is not split during a crash that is known of, unless the flags are still those of an
\* earlier session.
CrashKept ==
    /\ CrashInOneFile
    /\ ~uExit => (uTcmd = 1 => uNoSplit = 1 \/ uFilter = "start" \/ uMain = "end")
    /\ (uMain = "read" /\ ~uExit /\ ~uMissed) => Guarded(uIn, uModule.crash, AssertSaved)

UniInv == UniTyped /\ AtInv /\ VersionKept /\ CrashKept

-----------------------------------------------------------------------------
(* Sequences *)

\* The rest of a sequence.
LEMMA TailFacts ==
    ASSUME NEW S, NEW s \in Seq(S), s # <<>>
    PROVE  /\ Tail(s) \in Seq(S) /\ Len(Tail(s)) = Len(s) - 1 /\ Len(s) \in Nat /\ Len(s) >= 1
           /\ Head(s) = s[1] /\ Head(s) \in S
           /\ \A i \in 1 .. Len(s) - 1 : Tail(s)[i] = s[i + 1]
  OBVIOUS

\* An element more.
LEMMA AppendFacts ==
    ASSUME NEW S, NEW s \in Seq(S), NEW x \in S
    PROVE  /\ Append(s, x) \in Seq(S) /\ Len(Append(s, x)) = Len(s) + 1 /\ Len(s) \in Nat
           /\ Append(s, x)[Len(s) + 1] = x /\ Append(s, x) # <<>>
           /\ \A i \in 1 .. Len(s) : Append(s, x)[i] = s[i]
  OBVIOUS

\* An element that is not in X, or the only one that is.
LEMMA AppendNone ==
    ASSUME NEW S, NEW s \in Seq(S), NEW x \in S, NEW X, None(s, X)
    PROVE  /\ (x \notin X => None(Append(s, x), X)) /\ One(Append(s, x), X)
  <1>1. PICK n \in Nat : n = Len(s)
    OBVIOUS
  <1>2. PICK t : t = Append(s, x)
    OBVIOUS
  <1>3. Len(t) = n + 1 /\ t[n + 1] = x /\ \A i \in 1 .. n : t[i] = s[i]
    BY <1>1, <1>2, AppendFacts
  <1>4. \A i \in 1 .. n + 1 : t[i] \in X => i = n + 1
    BY <1>1, <1>3 DEF None
  <1>5. One(t, X)
    BY <1>3, <1>4 DEF One
  <1>6. x \notin X => None(t, X)
    BY <1>3, <1>4 DEF None
  <1> QED BY <1>2, <1>5, <1>6

\* An element more, where there was none of its kind.
LEMMA AppendOne ==
    ASSUME NEW S, NEW s \in Seq(S), NEW x \in S, NEW X, One(s, X), x \notin X
    PROVE  One(Append(s, x), X)
  <1>1. PICK n \in Nat : n = Len(s)
    OBVIOUS
  <1>2. PICK t : t = Append(s, x)
    OBVIOUS
  <1>3. Len(t) = n + 1 /\ t[n + 1] = x /\ \A i \in 1 .. n : t[i] = s[i]
    BY <1>1, <1>2, AppendFacts
  <1>4. \A i \in 1 .. n + 1 : t[i] \in X => i \in 1 .. n /\ s[i] \in X
    BY <1>1, <1>3
  <1>5. One(t, X)
    BY <1>1, <1>3, <1>4 DEF One
  <1> QED BY <1>2, <1>5

\* The first element is taken.
LEMMA TailNone ==
    ASSUME NEW S, NEW s \in Seq(S), s # <<>>, NEW X
    PROVE  /\ (None(s, X) => None(Tail(s), X) /\ Head(s) \notin X) /\ (One(s, X) => One(Tail(s), X))
           /\ (One(s, X) /\ Head(s) \in X => None(Tail(s), X))
  <1>1. PICK n \in Nat : n = Len(s) /\ n >= 1
    BY TailFacts
  <1>2. PICK t : t = Tail(s)
    OBVIOUS
  <1>3. Len(t) = n - 1 /\ Head(s) = s[1] /\ \A i \in 1 .. n - 1 : t[i] = s[i + 1]
    BY <1>1, <1>2, TailFacts
  <1>4. \A i \in 1 .. n - 1 : i + 1 \in 1 .. n /\ i + 1 # 1
    BY <1>1
  <1>5. 1 \in 1 .. n
    BY <1>1
  <1>6. None(s, X) => None(t, X) /\ Head(s) \notin X
    BY <1>1, <1>3, <1>4, <1>5 DEF None
  <1>7. ASSUME One(s, X), NEW i \in 1 .. n - 1, NEW j \in 1 .. n - 1, t[i] \in X, t[j] \in X PROVE i = j
    <2>1. i + 1 = j + 1
      BY <1>1, <1>3, <1>4, <1>7 DEF One
    <2> QED BY <2>1
  <1>8. One(s, X) => One(t, X)
    BY <1>3, <1>7 DEF One
  <1>9. One(s, X) /\ Head(s) \in X => None(t, X)
    BY <1>1, <1>3, <1>4, <1>5 DEF None, One
  <1> QED BY <1>2, <1>6, <1>8, <1>9

\* None is one at most, and the empty sequence has none.
LEMMA NoneOne == \A s, X : None(s, X) => One(s, X)
  BY DEF None, One

\* Nothing has no element of any kind.
LEMMA EmptyNone == \A X : None(<<>>, X)
  BY DEF None

\* Two sequences.
LEMMA ConcatNone ==
    ASSUME NEW S, NEW s \in Seq(S), NEW t \in Seq(S), NEW X, None(s, X), None(t, X)
    PROVE  s \o t \in Seq(S) /\ None(s \o t, X)
  <1>1. PICK n \in Nat : n = Len(s)
    OBVIOUS
  <1>2. PICK m \in Nat : m = Len(t)
    OBVIOUS
  <1>3. PICK u : u = s \o t
    OBVIOUS
  <1>4. u \in Seq(S) /\ Len(u) = n + m /\ \A i \in 1 .. n + m : u[i] = IF i <= n THEN s[i] ELSE t[i - n]
    BY <1>1, <1>2, <1>3
  <1>5. \A i \in 1 .. n + m : IF i <= n THEN i \in 1 .. n ELSE i - n \in 1 .. m
    BY <1>1, <1>2
  <1>6. None(u, X)
    BY <1>1, <1>2, <1>4, <1>5 DEF None
  <1> QED BY <1>3, <1>4, <1>6

-----------------------------------------------------------------------------
(* Crashes *)

\* Nothing read, nothing to guard.
LEMMA GuardedEmpty == \A b : Guarded(<<>>, "no", b)
  BY DEF Guarded

\* A packet is added.
LEMMA GuardedAppend ==
    ASSUME NEW s \in Seq(Packets), NEW p \in Packets, NEW c \in Crashes, NEW d \in Crashes, NEW b \in BOOLEAN,
           Guarded(s, c, b),
           \/ d = c /\ p \notin {"mem", "end"}
           \/ d = "yes" /\ c = "no" /\ p = "assert"
           \/ d = "mem" /\ c = "mem" /\ p = "mem"
           \/ d = "over" /\ c = "mem" /\ p = "end"
    PROVE  Guarded(Append(s, p), d, b)
  <1>1. PICK n \in Nat : n = Len(s)
    OBVIOUS
  <1>2. PICK t : t = Append(s, p)
    OBVIOUS
  <1>3. Len(t) = n + 1 /\ t[n + 1] = p /\ \A i \in 1 .. n : t[i] = s[i]
    BY <1>1, <1>2, AppendFacts
  <1>4. (\E i \in 1 .. n : s[i] = "assert") => \E i \in 1 .. n : t[i] = "assert"
    BY <1>3
  <1>5. (\E i \in 1 .. n : t[i] = "assert") => \E i \in 1 .. n + 1 : t[i] = "assert"
    BY <1>1
  <1>6. ASSUME NEW j \in 1 .. n + 1, t[j] = "mem" PROVE b \/ \E i \in 1 .. j - 1 : t[i] = "assert"
    <2>1. CASE j \in 1 .. n
      <3>1. \A i \in 1 .. j - 1 : i \in 1 .. n
        BY <1>1, <2>1
      <3> QED BY <1>1, <1>3, <1>6, <2>1, <3>1 DEF Guarded
    <2>2. CASE j = n + 1
      <3>1. c = "mem" /\ p = "mem"
        BY <1>3, <1>6, <2>2
      <3>2. b \/ \E i \in 1 .. n : t[i] = "assert"
        BY <1>1, <1>4, <3>1 DEF Guarded
      <3>3. j - 1 = n
        BY <1>1, <2>2
      <3> QED BY <3>2, <3>3
    <2> QED BY <1>1, <2>1, <2>2
  <1>7. d \in {"yes", "mem"} => (b \/ \E i \in 1 .. n + 1 : t[i] = "assert")
    <2>1. CASE p = "assert"
      <3>1. n + 1 \in 1 .. n + 1
        BY <1>1
      <3> QED BY <1>3, <2>1, <3>1
    <2>2. CASE p # "assert"
      BY <1>1, <1>4, <1>5, <2>2 DEF Guarded
    <2> QED BY <2>1, <2>2
  <1>8. ASSUME NEW j \in 1 .. n + 1, t[j] = "end" PROVE d = "over" /\ \A k \in j + 1 .. n + 1 : t[k] # "mem"
    <2>1. CASE j \in 1 .. n
      <3>1. c = "over" /\ \A k \in j + 1 .. n : s[k] # "mem"
        BY <1>1, <1>3, <1>8, <2>1 DEF Guarded
      <3>2. d = "over" /\ p # "mem"
        BY <3>1
      <3>3. \A k \in j + 1 .. n + 1 : k = n + 1 \/ (k \in j + 1 .. n /\ k \in 1 .. n)
        BY <1>1, <2>1
      <3> QED BY <1>3, <3>1, <3>2, <3>3
    <2>2. CASE j = n + 1
      <3>1. p = "end" 
        BY <1>3, <1>8, <2>2
      <3>2. \A k \in j + 1 .. n + 1 : FALSE
        BY <1>1, <2>2
      <3> QED BY <1>1, <1>3, <1>8, <2>2, <3>1, <3>2 DEF Guarded
    <2> QED BY <1>1, <2>1, <2>2
  <1>9. Guarded(t, d, b)
    BY <1>3, <1>6, <1>7, <1>8 DEF Guarded
  <1> QED BY <1>2, <1>9

\* The first packet is handled.
LEMMA GuardedTail ==
    ASSUME NEW s \in Seq(Packets), s # <<>>, NEW c \in Crashes, NEW b \in BOOLEAN, NEW d \in BOOLEAN,
           Guarded(s, c, b), b => d, Head(s) = "assert" => d
    PROVE  Guarded(Tail(s), c, d) /\ (Head(s) = "mem" => b)
  <1>1. PICK n \in Nat : n = Len(s) /\ n >= 1
    BY TailFacts
  <1>2. PICK t : t = Tail(s)
    OBVIOUS
  <1>3. Len(t) = n - 1 /\ Head(s) = s[1] /\ \A i \in 1 .. n - 1 : t[i] = s[i + 1]
    BY <1>1, <1>2, TailFacts
  <1>4. \A i \in 1 .. n - 1 : i + 1 \in 1 .. n
    BY <1>1
  <1>5. Head(s) = "mem" => b
    <2>1. 1 \in 1 .. n /\ \A i \in 1 .. 1 - 1 : FALSE
      BY <1>1
    <2> QED BY <1>1, <1>3, <2>1 DEF Guarded
  <1>6. ASSUME NEW j \in 1 .. n, ~d, \E i \in 1 .. j : s[i] = "assert" PROVE \E i \in 1 .. j - 1 : t[i] = "assert"
    <2>1. PICK i \in 1 .. j : s[i] = "assert"
      BY <1>6
    <2>2. i # 1
      BY <1>3, <1>6, <2>1
    <2>3. PICK h \in 1 .. j - 1 : h + 1 = i
      <3>1. i - 1 \in 1 .. j - 1 /\ (i - 1) + 1 = i
        BY <1>1, <2>2
      <3> QED BY <3>1
    <2>4. h \in 1 .. n - 1
      BY <1>1
    <2> QED BY <1>3, <2>1, <2>3, <2>4
  <1>7. ASSUME NEW j \in 1 .. n - 1, t[j] = "mem" PROVE d \/ \E i \in 1 .. j - 1 : t[i] = "assert"
    <2>1. j + 1 \in 1 .. n /\ s[j + 1] = "mem" /\ (j + 1) - 1 = j /\ j \in 1 .. n
      BY <1>1, <1>3, <1>4, <1>7
    <2>2. b \/ \E i \in 1 .. j : s[i] = "assert"
      BY <1>1, <2>1 DEF Guarded
    <2> QED BY <1>6, <2>1, <2>2
  <1>8. c \in {"yes", "mem"} => (d \/ \E i \in 1 .. n - 1 : t[i] = "assert")
    <2>1. n \in 1 .. n
      BY <1>1
    <2> QED BY <1>1, <1>6, <2>1 DEF Guarded
  <1>9. ASSUME NEW j \in 1 .. n - 1, t[j] = "end" PROVE c = "over" /\ \A k \in j + 1 .. n - 1 : t[k] # "mem"
    <2>1. j + 1 \in 1 .. n /\ s[j + 1] = "end"
      BY <1>3, <1>4, <1>9
    <2>2. c = "over" /\ \A k \in (j + 1) + 1 .. n : s[k] # "mem"
      BY <1>1, <2>1 DEF Guarded
    <2>3. \A k \in j + 1 .. n - 1 : k \in 1 .. n - 1 /\ k + 1 \in (j + 1) + 1 .. n
      BY <1>1
    <2> QED BY <1>3, <2>2, <2>3
  <1>10. Guarded(t, c, d)
    BY <1>3, <1>7, <1>8, <1>9 DEF Guarded
  <1> QED BY <1>2, <1>5, <1>10

\* The module begins to send its memory.
LEMMA GuardedMemory == \A s, b : Guarded(s, "yes", b) => Guarded(s, "mem", b)
  BY DEF Guarded

-----------------------------------------------------------------------------
(* The filter thread *)

\* The initial states.
LEMMA UniInitially ==
    ASSUME UniInit
    PROVE  UniInv
  <1>1. UniTyped
    <2>1. UniTypeOK
      BY UnisocLogAssumption DEF UniInit, UniTypeOK, NoRequest
    <2>2. uModule \in [logs : Nat, crash : Crashes, mem : Nat]
      BY DEF UniInit, Crashes
    <2>3. uOut \in Seq(Lines) /\ uIn \in Seq(Packets) /\ uFiles \in Seq(Seq(Packets))
      BY DEF UniInit
    <2> QED BY <2>1, <2>2, <2>3 DEF UniInit, UniTyped
  <1>2. AtInv
    BY EmptyNone DEF UniInit, AtInv, AtInStep, ArmedIsAccepted, Waiting, Answered, Quiet, NoRequest
  <1>3. VersionKept
    BY DEF UniInit, VersionKept
  <1>4. CrashKept
    BY GuardedEmpty DEF UniInit, CrashKept, CrashInOneFile
  <1> QED BY <1>1, <1>2, <1>3, <1>4 DEF UniInv

\* The crash is left alone.
LEMMA CrashFrame ==
    ASSUME CrashKept, UNCHANGED <<uFiles, uOpen, uExit, uNoSplit, uMain, uIn, uModule, uMissed>>,
           uTcmd' = 0 \/ (uTcmd' = uTcmd /\ (uFilter # "start" \/ uFilter' = "start"))
    PROVE  CrashKept'
  BY DEF CrashKept, CrashInOneFile, AssertSaved, Current

\* The version is left alone.
LEMMA VersionFrame ==
    ASSUME VersionKept, UNCHANGED <<uFiles, uOpen, uMain>>,
           uVer' = 0 \/ (uVer' = uVer /\ (uFilter # "start" \/ uFilter' = "start"))
    PROVE  VersionKept'
  BY DEF VersionKept, Current

\* The AT commands are left alone, and the filter thread is not at one.
LEMMA AtFrame ==
    ASSUME AtInv, UNCHANGED <<uOut, uIn, uMain, uDone, uArm, uLate>>, ~Waiting, ~Waiting', ~Answered',
           uMain = "end" => uFilter' = "end", uFilter' = "clear" => uReq' # NoRequest
    PROVE  AtInv'
  BY DEF AtInv, AtInStep, ArmedIsAccepted, Quiet

\* One lemma per action: it keeps the invariant.
LEMMA FilterStartStep ==
    ASSUME UniInv, FilterStart
    PROVE  UniInv'
  <1>1. /\ uFilter = "start" /\ uMain = "read" /\ uUe' = 0 /\ uVer' = 0 /\ uTcmd' = 0 /\ uFilter' = "request"
        /\ uAt' = 1 /\ uTry' = 0
        /\ UNCHANGED <<uRound, uReq, uRes, uNoSplit, uThread, uMain, uSession, uExit, uFiles, uOpen, uSize, uOut,
                       uIn, uModule, uDone, uArm, uLate, uMissed>>
    BY DEF FilterStart, mainVars
  <1>2. UniTyped'
    BY <1>1, UnisocLogAssumption DEF UniInv, UniTyped, UniTypeOK
  <1>3. AtInv'
    BY <1>1, AtFrame DEF UniInv, Waiting, Answered
  <1>4. VersionKept' /\ CrashKept'
    BY <1>1, VersionFrame, CrashFrame DEF UniInv
  <1> QED BY <1>2, <1>3, <1>4 DEF UniInv

\* The request is set before the command goes out.
LEMMA AtRequestStep ==
    ASSUME UniInv, AtRequest
    PROVE  UniInv'
  <1>1. /\ uFilter = "request" /\ uMain = "read"
        /\ \/ uFilter' = "clear" /\ uReq' = uAt
           \/ uFilter' = "refused" /\ uReq' = uReq
        /\ UNCHANGED <<uAt, uTry, uRound, uRes, uUe, uVer, uTcmd, uNoSplit, uThread, uMain, uSession, uExit, uFiles,
                       uOpen, uSize, uOut, uIn, uModule, uDone, uArm, uLate, uMissed>>
    BY DEF AtRequest, mainVars
  <1>2. UniTyped'
    <2>1. uFilter' \in {"clear", "refused"} /\ uReq' \in {uAt, uReq}
      BY <1>1
    <2>2. uReq' \in 0 .. AtCommands
      <3>1. uAt \in 1 .. AtCommands /\ uReq \in 0 .. AtCommands /\ AtCommands \in Nat
        BY UnisocLogAssumption DEF UniInv, UniTyped, UniTypeOK
      <3>2. uAt \in 0 .. AtCommands
        BY <3>1
      <3> QED BY <2>1, <3>1, <3>2, Zenon
    <2> QED BY <1>1, <2>1, <2>2 DEF UniInv, UniTyped, UniTypeOK
  <1>3. AtInv'
    <2>1. uAt # NoRequest
      BY UnisocLogAssumption DEF UniInv, UniTyped, UniTypeOK, NoRequest
    <2> QED BY <1>1, <2>1, AtFrame DEF UniInv, Waiting, Answered
  <1>4. VersionKept' /\ CrashKept'
    BY <1>1, VersionFrame, CrashFrame DEF UniInv
  <1> QED BY <1>2, <1>3, <1>4 DEF UniInv

\* A command is one of those the module knows.
LEMMA CommandFacts ==
    ASSUME NEW c \in {"at", "time", "version", "t"}, NEW n \in Nat
    PROVE  /\ Command(c, n) \in Lines /\ Command(c, n).cmd = c /\ Command(c, n).at = n
           /\ (Command(c, n) \in AtLines <=> c = "at")
  BY DEF Command, Lines, AtLines

\* The command goes out when nothing of an earlier one is under way.
LEMMA AtWriteStep ==
    ASSUME UniInv, AtWrite
    PROVE  UniInv'
  <1>1. /\ uFilter = "clear" /\ uMain = "read" /\ uRes' = 0 /\ uOut' = Append(uOut, Command("at", uAt))
        /\ uFilter' = "wait"
        /\ UNCHANGED <<uAt, uTry, uRound, uReq, uUe, uVer, uTcmd, uNoSplit, uThread, uMain, uSession, uExit, uFiles,
                       uOpen, uSize, uIn, uModule, uDone, uArm, uLate, uMissed>>
    BY DEF AtWrite, Commanded, mainVars
  <1>2. uAt \in Nat /\ uOut \in Seq(Lines) /\ uIn \in Seq(Packets)
    BY UnisocLogAssumption DEF UniInv, UniTyped, UniTypeOK
  <1>3. PICK c \in Lines : c = Command("at", uAt) /\ c.cmd = "at" /\ c.at = uAt /\ c \in AtLines
    BY <1>2, CommandFacts
  <1>4. /\ uOut' \in Seq(Lines) /\ Len(uOut') = Len(uOut) + 1 /\ uOut'[Len(uOut) + 1] = c /\ Len(uOut) \in Nat
        /\ \A i \in 1 .. Len(uOut) : uOut'[i] = uOut[i]
    BY <1>1, <1>2, <1>3, AppendFacts
  <1>5. UniTyped'
    BY <1>1, <1>4 DEF UniInv, UniTyped, UniTypeOK
  <1>6. AtInv'
    <2>1. ASSUME ~uLate PROVE Pending'
      <3>1. None(uOut, AtLines) /\ None(uIn, Answers)
        BY <1>1, <2>1 DEF UniInv, AtInv, AtInStep, Waiting, Quiet
      <3>2. One(uOut', AtLines)
        BY <1>1, <1>2, <1>3, <3>1, AppendNone
      <3>3. One(uIn', Answers) /\ None(uIn', Answers)
        BY <1>1, <3>1, NoneOne
      <3>4. \A i \in 1 .. Len(uOut') : uOut'[i].cmd = "at" => uOut'[i].at = uAt'
        <4>1. ASSUME NEW i \in 1 .. Len(uOut) PROVE uOut'[i].cmd # "at"
          <5>1. uOut[i] \in Lines /\ uOut[i] \notin AtLines
            BY <1>2, <3>1 DEF None
          <5> QED BY <1>4, <5>1 DEF AtLines
        <4>2. \A i \in 1 .. Len(uOut') : i \in 1 .. Len(uOut) \/ i = Len(uOut) + 1
          BY <1>4
        <4> QED BY <1>1, <1>3, <1>4, <4>1, <4>2
      <3>5. \A j \in 1 .. Len(uIn') : uIn'[j] = "OK" => uAt' \in uDone'
        BY <1>1, <3>1 DEF None, Answers
      <3> QED BY <3>2, <3>3, <3>4, <3>5 DEF Pending
    <2>2. ~uLate => Waiting'
      BY <1>1 DEF UniInv, AtInv, AtInStep, Waiting
    <2>3. ArmedIsAccepted'
      BY <1>1 DEF UniInv, AtInv, ArmedIsAccepted
    <2>4. AtInStep'
      BY <1>1, <2>1, <2>2 DEF AtInStep
    <2> QED BY <1>1, <2>3, <2>4 DEF AtInv
  <1>7. VersionKept' /\ CrashKept'
    BY <1>1, VersionFrame, CrashFrame DEF UniInv
  <1> QED BY <1>5, <1>6, <1>7 DEF UniInv

\* The wait ends with the answer.
LEMMA AtAnsweredStep ==
    ASSUME UniInv, AtAnswered
    PROVE  UniInv'
  <1>1. /\ uFilter = "wait" /\ uReq = NoRequest /\ uFilter' = "result"
        /\ UNCHANGED <<uAt, uTry, uRound, uReq, uRes, uUe, uVer, uTcmd, uNoSplit, uThread, uMain, uSession, uExit,
                       uFiles, uOpen, uSize, uOut, uIn, uModule, uDone, uArm, uLate, uMissed>>
    BY DEF AtAnswered, flagVars, mainVars
  <1>2. UniTyped'
    BY <1>1 DEF UniInv, UniTyped, UniTypeOK
  <1>3. AtInv'
    <2>1. ~Waiting /\ Answered /\ ~Waiting' /\ uFilter' # "clear" /\ uMain # "end"
      BY <1>1 DEF Waiting, Answered, UniInv, AtInv
    <2>2. AtInStep'
      BY <1>1, <2>1 DEF UniInv, AtInv, AtInStep, Quiet
    <2> QED BY <1>1, <2>1, <2>2 DEF UniInv, AtInv, ArmedIsAccepted
  <1>4. VersionKept' /\ CrashKept'
    BY <1>1, VersionFrame, CrashFrame DEF UniInv
  <1> QED BY <1>2, <1>3, <1>4 DEF UniInv

\* The wait is given up: from here on an answer may come late.
LEMMA AtTimeoutStep ==
    ASSUME UniInv, AtTimeout
    PROVE  UniInv'
  <1>1. /\ uFilter = "wait" /\ uMain = "read" /\ uFilter' = "result" /\ uReq' = NoRequest /\ uLate' = TRUE
        /\ UNCHANGED <<uAt, uTry, uRound, uRes, uUe, uVer, uTcmd, uNoSplit, uThread, uMain, uSession, uExit,
                       uFiles, uOpen, uSize, uOut, uIn, uModule, uDone, uArm, uMissed>>
    BY DEF AtTimeout, mainVars
  <1>2. UniTyped'
    BY <1>1, UnisocLogAssumption DEF UniInv, UniTyped, UniTypeOK, NoRequest
  <1>3. AtInv'
    BY <1>1 DEF AtInv, AtInStep, ArmedIsAccepted
  <1>4. VersionKept' /\ CrashKept'
    BY <1>1, VersionFrame, CrashFrame DEF UniInv
  <1> QED BY <1>2, <1>3, <1>4 DEF UniInv

\* The command is repeated, or the next one is due.
LEMMA AtResultStep ==
    ASSUME UniInv, AtResult
    PROVE  UniInv'
  <1>1. /\ uFilter \in {"result", "refused"} /\ uArm' = (uAt = AtCommands /\ uFilter = "result" /\ uRes = 1)
        /\ \/ uAt < AtCommands /\ uAt' = uAt + 1 /\ uFilter' = "request" /\ uTry' = 0
           \/ uAt' = uAt /\ uFilter' = "request" /\ uTry' = uTry + 1
           \/ uAt' = uAt /\ uFilter' = "query" /\ uTry' = 0
        /\ UNCHANGED <<uRound, uReq, uRes, uUe, uVer, uTcmd, uNoSplit, uThread, uMain, uSession, uExit,
                       uFiles, uOpen, uSize, uOut, uIn, uModule, uDone, uLate, uMissed>>
    <2>1. uArm' = (uAt = AtCommands /\ uFilter = "result" /\ uRes = 1)
      BY Zenon DEF AtResult
    <2> QED BY <2>1 DEF AtResult, flagVars, mainVars
  <1>2. uAt \in 1 .. AtCommands /\ uTry \in Nat /\ AtCommands \in Nat
    BY UnisocLogAssumption DEF UniInv, UniTyped, UniTypeOK
  <1>3. uAt' \in 1 .. AtCommands /\ uTry' \in Nat
    <2>1. uAt < AtCommands => uAt + 1 \in 1 .. AtCommands
      BY <1>2
    <2>2. uTry + 1 \in Nat /\ 0 \in Nat
      BY <1>2
    <2> QED BY <1>1, <1>2, <2>1, <2>2
  <1>4. uArm' \in BOOLEAN
    BY <1>1, Zenon
  <1>5. UniTyped'
    BY <1>1, <1>3, <1>4 DEF UniInv, UniTyped, UniTypeOK
  <1>6. AtInv'
    <2>1. uMain = "read" /\ ~Waiting /\ ~Waiting' /\ ~Answered' /\ uFilter' # "clear"
      <3>1. uMain \in {"read", "end"}
        BY DEF UniInv, UniTyped, UniTypeOK
      <3>2. uMain # "end"
        BY <1>1 DEF UniInv, AtInv
      <3> QED BY <1>1, <3>1, <3>2 DEF Waiting, Answered
    <2>2. AtInStep'
      BY <1>1, <2>1 DEF UniInv, AtInv, AtInStep, Quiet
    <2>3. ArmedIsAccepted'
      <3>1. ASSUME uArm', ~uLate PROVE AtCommands \in uDone
        BY <1>1, <2>1, <3>1 DEF UniInv, AtInv, AtInStep, Answered
      <3> QED BY <1>1, <3>1 DEF ArmedIsAccepted
    <2> QED BY <1>1, <2>1, <2>2, <2>3 DEF AtInv
  <1>7. VersionKept' /\ CrashKept'
    BY <1>1, VersionFrame, CrashFrame DEF UniInv
  <1> QED BY <1>5, <1>6, <1>7 DEF UniInv

\* The queries of the filter thread are no AT commands.
LEMMA FilterQueryStep ==
    ASSUME UniInv, FilterQuery
    PROVE  UniInv'
  <1> DEFINE times == IF uTcmd = 0 /\ uUe = 0 /\ uTry < UeTries THEN <<Command("time", 0)>> ELSE <<>>
             versions == IF uTcmd = 0 /\ uVer = 0 THEN <<Command("version", 0)>> ELSE <<>>
  <1>1. /\ uFilter = "query" /\ uMain = "read" /\ uRound' = uRound + 1 /\ (uTry' = uTry + 1 \/ uTry' = uTry)
        /\ uOut' = (uOut \o times) \o versions
        /\ UNCHANGED <<uFilter, uAt, uReq, uRes, uUe, uVer, uTcmd, uNoSplit, uThread, uMain, uSession, uExit,
                       uFiles, uOpen, uSize, uIn, uModule, uDone, uArm, uLate, uMissed>>
    BY DEF FilterQuery, flagVars, mainVars
  <1>2. uTry \in Nat /\ uOut \in Seq(Lines) /\ uRound \in Nat
    BY DEF UniInv, UniTyped, UniTypeOK
  <1>3. times \in Seq(Lines) /\ None(times, AtLines) /\ versions \in Seq(Lines) /\ None(versions, AtLines)
    <2>1. ASSUME NEW c \in {"time", "version"}
          PROVE  <<Command(c, 0)>> \in Seq(Lines) /\ None(<<Command(c, 0)>>, AtLines)
      <3>1. Command(c, 0) \in Lines /\ Command(c, 0) \notin AtLines
        BY CommandFacts
      <3> QED BY <3>1 DEF None
    <2>2. <<>> \in Seq(Lines) /\ None(<<>>, AtLines)
      BY EmptyNone
    <2> QED BY <2>1, <2>2
  <1> HIDE DEF times, versions
  <1>4. uOut' \in Seq(Lines) /\ (None(uOut, AtLines) => None(uOut', AtLines))
    <2>1. uOut \o times \in Seq(Lines) /\ uOut' \in Seq(Lines)
      BY <1>1, <1>2, <1>3
    <2>2. None(uOut, AtLines) => None(uOut \o times, AtLines)
      BY <1>2, <1>3, ConcatNone
    <2>3. None(uOut \o times, AtLines) => None((uOut \o times) \o versions, AtLines)
      BY <1>3, <2>1, ConcatNone
    <2> QED BY <1>1, <2>1, <2>2, <2>3
  <1>5. uTry' \in Nat /\ uRound' \in Nat
    BY <1>1, <1>2
  <1>6. UniTyped'
    BY <1>1, <1>4, <1>5 DEF UniInv, UniTyped, UniTypeOK
  <1>7. AtInv'
    <2>1. ~Waiting /\ ~Waiting' /\ ~Answered'
      BY <1>1 DEF Waiting, Answered
    <2>2. AtInStep'
      BY <1>1, <1>4, <2>1 DEF UniInv, AtInv, AtInStep, Quiet
    <2> QED BY <1>1, <2>2 DEF UniInv, AtInv, ArmedIsAccepted
  <1>8. VersionKept' /\ CrashKept'
    BY <1>1, VersionFrame, CrashFrame DEF UniInv
  <1> QED BY <1>6, <1>7, <1>8 DEF UniInv

\* The filter thread ends.
LEMMA FilterEndsStep ==
    ASSUME UniInv, FilterEnds
    PROVE  UniInv'
  <1>1. /\ uFilter = "query" /\ uFilter' = "end"
        /\ UNCHANGED <<uAt, uTry, uRound, uReq, uRes, uUe, uVer, uTcmd, uNoSplit, uThread, uMain, uSession, uExit,
                       uFiles, uOpen, uSize, uOut, uIn, uModule, uDone, uArm, uLate, uMissed>>
    BY DEF FilterEnds, flagVars, mainVars
  <1>2. UniTyped'
    BY <1>1 DEF UniInv, UniTyped, UniTypeOK
  <1>3. AtInv'
    BY <1>1, AtFrame DEF UniInv, Waiting, Answered
  <1>4. VersionKept' /\ CrashKept'
    BY <1>1, VersionFrame, CrashFrame DEF UniInv
  <1> QED BY <1>2, <1>3, <1>4 DEF UniInv

-----------------------------------------------------------------------------
(* The main thread *)

\* Handling a packet: the flags keep their types.
LEMMA HandledTypes ==
    ASSUME UniInv, NEW p \in Packets, HandleDiagPkt(p)
    PROVE  /\ uReq' \in 0 .. AtCommands /\ {uRes', uUe', uTcmd', uNoSplit'} \subseteq {0, 1}
           /\ uThread' \in {"off", "waiting", "sent"} /\ uExit' \in BOOLEAN
           /\ (uExit' <=> uExit \/ p = "end")
  <1>1. /\ uReq \in 0 .. AtCommands /\ {uRes, uUe, uTcmd, uNoSplit} \subseteq {0, 1} /\ uThread \in {"off", "waiting", "sent"}
        /\ 0 \in 0 .. AtCommands
    BY UnisocLogAssumption DEF UniInv, UniTyped, UniTypeOK
  <1>2. uExit' = (uExit \/ p = "end")
    BY DEF HandleDiagPkt, HandleAssertProc
  <1>3. uExit' \in BOOLEAN /\ (uExit' <=> uExit \/ p = "end")
    BY <1>2, Zenon
  <1>4. uReq' \in 0 .. AtCommands
    BY <1>1 DEF HandleDiagPkt, ProcessAt, NoRequest
  <1>5. uRes' \in {0, 1}
    BY <1>1 DEF HandleDiagPkt, ProcessAt
  <1>6. uTcmd' \in {0, 1} /\ uNoSplit' \in {0, 1} /\ uThread' \in {"off", "waiting", "sent"}
    BY <1>1 DEF HandleDiagPkt, HandleAssertProc
  <1>7. uUe' \in {0, 1}
    BY <1>1 DEF HandleDiagPkt
  <1> QED BY <1>3, <1>4, <1>5, <1>6, <1>7

\* Handling a packet: an answer counts for the command that waits, and there is no other.
LEMMA HandledAt ==
    ASSUME UniInv, uMain = "read", uIn # <<>>, uIn' = Tail(uIn), HandleDiagPkt(Head(uIn)),
           UNCHANGED <<uFilter, uAt, uMain, uOut, uDone, uArm, uLate>>
    PROVE  AtInv'
  <1>1. uIn \in Seq(Packets) /\ uOut \in Seq(Lines)
    BY DEF UniInv, UniTyped
  <1>2. PICK p \in Packets : p = Head(uIn) /\ p = uIn[1]
    BY <1>1, TailFacts
  <1>3. /\ uReq' = (IF p \in Answers THEN NoRequest ELSE uReq)
        /\ uRes' = (IF p \in Answers /\ uReq # NoRequest THEN (IF p = "OK" THEN 1 ELSE 0) ELSE uRes)
    BY <1>2 DEF HandleDiagPkt, ProcessAt, Answers
  <1>4. /\ (None(uIn, Answers) => None(uIn', Answers) /\ p \notin Answers)
        /\ (One(uIn, Answers) => One(uIn', Answers))
        /\ (One(uIn, Answers) /\ p \in Answers => None(uIn', Answers))
    BY <1>1, <1>2, TailNone
  <1>5. Len(uIn) \in Nat /\ Len(uIn') = Len(uIn) - 1 /\ \A i \in 1 .. Len(uIn) - 1 : uIn'[i] = uIn[i + 1]
    BY <1>1, TailFacts
  <1>6. 1 \in 1 .. Len(uIn) /\ \A i \in 1 .. Len(uIn') : i \in 1 .. Len(uIn) - 1 /\ i + 1 \in 1 .. Len(uIn)
    <2>1. Len(uIn) >= 1
      BY <1>1, TailFacts
    <2> QED BY <1>5, <2>1
  <1>7. ASSUME ~uLate
        PROVE  /\ (Waiting' => Pending') /\ (~Waiting' => Quiet') /\ (uFilter' = "clear" => uReq' # NoRequest)
               /\ (Answered' /\ uRes' = 1 => uAt' \in uDone')
    <2>1. /\ (Waiting => Pending) /\ (~Waiting => Quiet) /\ (uFilter = "clear" => uReq # NoRequest)
          /\ (Answered /\ uRes = 1 => uAt \in uDone)
      BY <1>7 DEF UniInv, AtInv, AtInStep
    <2>2. CASE p \in Answers
      <3>1. Waiting /\ Pending
        BY <1>4, <2>1, <2>2 DEF Quiet
      <3>2. uFilter' = "wait" /\ uReq' = NoRequest /\ ~Waiting'
        BY <1>3, <2>2, <3>1 DEF Waiting
      <3>3. Quiet'
        BY <1>4, <2>2, <3>1 DEF Pending, Quiet
      <3>4. uRes' = 1 => uAt \in uDone
        <4>1. uRes' = 1 => p = "OK"
          BY <1>3, <2>2, <3>1 DEF Waiting
        <4> QED BY <1>2, <1>6, <3>1, <4>1 DEF Pending
      <3> QED BY <3>2, <3>3, <3>4
    <2>3. CASE p \notin Answers
      <3>1. uReq' = uReq /\ uRes' = uRes
        BY <1>3, <2>3
      <3>2. Pending => Pending'
        <4>1. Pending => \A j \in 1 .. Len(uIn') : uIn'[j] = "OK" => uAt \in uDone
          BY <1>5, <1>6 DEF Pending
        <4> QED BY <1>4, <4>1 DEF Pending
      <3>3. Quiet => Quiet'
        BY <1>4 DEF Quiet
      <3>4. (Waiting' <=> Waiting) /\ (Answered' <=> Answered)
        BY <3>1 DEF Waiting, Answered
      <3> QED BY <2>1, <3>1, <3>2, <3>3, <3>4
    <2> QED BY <2>2, <2>3
  <1>8. AtInStep'
    BY <1>7 DEF AtInStep
  <1> QED BY <1>8 DEF UniInv, AtInv, ArmedIsAccepted

\* A packet more in a file.
LEMMA RangeAppend ==
    ASSUME NEW s \in Seq(Packets), NEW p \in Packets
    PROVE  Append(s, p) \in Seq(Packets) /\ Range(Append(s, p)) = Range(s) \cup {p}
  <1>1. PICK n \in Nat : n = Len(s)
    OBVIOUS
  <1>2. PICK t : t = Append(s, p)
    OBVIOUS
  <1>3. t \in Seq(Packets) /\ Len(t) = n + 1 /\ t[n + 1] = p /\ \A i \in 1 .. n : t[i] = s[i]
    BY <1>1, <1>2, AppendFacts
  <1>4. DOMAIN t = 1 .. n + 1 /\ DOMAIN s = 1 .. n
    BY <1>1, <1>3
  <1>5. Range(t) \subseteq Range(s) \cup {p}
    BY <1>1, <1>3, <1>4 DEF Range
  <1>6. Range(s) \cup {p} \subseteq Range(t)
    <2>1. n + 1 \in 1 .. n + 1 /\ \A i \in 1 .. n : i \in 1 .. n + 1
      BY <1>1
    <2> QED BY <1>3, <1>4, <2>1 DEF Range
  <1> QED BY <1>2, <1>3, <1>5, <1>6

\* t is s with its element k exchanged for x.
Exchanged(t, s, k, x) == t = [s EXCEPT ![k] = x]

\* An element exchanged: the others stay.
LEMMA ExceptFacts ==
    ASSUME NEW S, NEW s \in Seq(S), NEW k \in 1 .. Len(s), NEW x \in S, NEW t, Exchanged(t, s, k, x)
    PROVE  t \in Seq(S) /\ Len(t) = Len(s) /\ t[k] = x /\ \A i \in 1 .. Len(s) : i # k => t[i] = s[i]
  BY DEF Exchanged

\* The file a packet goes to: the one that is open, or a new one.
LEMMA FileWritten ==
    ASSUME UniInv, NEW p \in Packets, NEW files,
           files = (IF uOpen THEN uFiles ELSE Append(uFiles, NewLog)),
           uFiles' = [files EXCEPT ![Len(files)] = IF IsSaved(p) THEN Append(files[Len(files)], p) ELSE files[Len(files)]]
    PROVE  /\ uFiles' \in Seq(Seq(Packets)) /\ uFiles' # <<>>
           /\ Range(Current') = (IF uOpen THEN Range(Current) ELSE {"reserved"}) \cup (IF IsSaved(p) THEN {p} ELSE {})
           /\ \A i \in DOMAIN uFiles' : i = Len(uFiles') \/ (i \in DOMAIN uFiles /\ uFiles'[i] = uFiles[i])
           /\ uOpen => Len(uFiles) \in DOMAIN uFiles
  <1>1. uFiles \in Seq(Seq(Packets)) /\ (uOpen => uFiles # <<>>)
    BY DEF UniInv, UniTyped, UniTypeOK
  <1>2. PICK n \in Nat : n = Len(uFiles)
    BY <1>1
  <1>3. NewLog \in Seq(Packets) /\ Range(NewLog) = {"reserved"}
    BY DEF NewLog, Packets, Range
  <1>4. PICK m \in Nat : /\ m = Len(files) /\ m >= 1 /\ files \in Seq(Seq(Packets))
                         /\ files[m] = (IF uOpen THEN uFiles[n] ELSE NewLog)
                         /\ \A i \in 1 .. m : i = m \/ (i \in 1 .. n /\ files[i] = uFiles[i])
    <2>1. CASE uOpen
      <3>1. n >= 1
        BY <1>1, <1>2, <2>1, TailFacts
      <3> QED BY <1>1, <1>2, <2>1, <3>1
    <2>2. CASE ~uOpen
      <3>1. /\ files \in Seq(Seq(Packets)) /\ Len(files) = n + 1 /\ files[n + 1] = NewLog
            /\ \A i \in 1 .. n : files[i] = uFiles[i]
        BY <1>1, <1>2, <1>3, <2>2, AppendFacts
      <3>2. n + 1 \in Nat /\ n + 1 >= 1 /\ \A i \in 1 .. n + 1 : i = n + 1 \/ i \in 1 .. n
        BY <1>2
      <3> QED BY <2>2, <3>1, <3>2
    <2> QED BY <2>1, <2>2
  <1>5. PICK log \in Seq(Packets) : log = files[m]
    BY <1>4
  <1>6. PICK new \in Seq(Packets) : /\ new = (IF IsSaved(p) THEN Append(log, p) ELSE log)
                                    /\ Range(new) = Range(log) \cup (IF IsSaved(p) THEN {p} ELSE {})
    BY <1>5, RangeAppend
  <1>7. uFiles' = [files EXCEPT ![m] = new]
    BY <1>4, <1>5, <1>6
  <1>8. m \in DOMAIN files /\ DOMAIN files = 1 .. m
    BY <1>4
  <1>9. /\ uFiles' \in Seq(Seq(Packets)) /\ Len(uFiles') = m /\ uFiles'[m] = new /\ uFiles' # <<>>
        /\ \A i \in 1 .. m : i # m => uFiles'[i] = files[i]
    <2>1. PICK t : t = uFiles' /\ Exchanged(t, files, m, new)
      BY <1>7 DEF Exchanged
    <2>2. /\ t \in Seq(Seq(Packets)) /\ Len(t) = m /\ t[m] = new
          /\ \A i \in 1 .. m : i # m => t[i] = files[i]
      <3>1. m \in 1 .. Len(files)
        BY <1>4
      <3>2. PICK T : T = Seq(Packets)
        OBVIOUS
      <3>3. files \in Seq(T) /\ new \in T
        BY <1>4, <1>6, <3>2
      <3>4. PICK s \in Seq(T) : s = files
        BY <3>3
      <3>5. m \in 1 .. Len(s)
        BY <3>1, <3>4, Zenon
      <3>6. Exchanged(t, s, m, new) /\ Len(s) = m
        BY <1>4, <2>1, <3>4, Zenon
      <3>7. t \in Seq(T) /\ Len(t) = Len(s) /\ t[m] = new /\ \A i \in 1 .. Len(s) : i # m => t[i] = s[i]
        BY <3>3, <3>5, <3>6, ExceptFacts, SMTT(30)
      <3> QED BY <3>2, <3>4, <3>6, <3>7, Zenon
    <2>3. t # <<>>
      BY <1>4, <2>2
    <2> QED BY <1>7, <2>1, <2>2, <2>3
  <1>10. DOMAIN uFiles' = 1 .. m /\ DOMAIN uFiles = 1 .. n
    BY <1>1, <1>2, <1>9
  <1>11. \A i \in DOMAIN uFiles' : i = Len(uFiles') \/ (i \in DOMAIN uFiles /\ uFiles'[i] = uFiles[i])
    BY <1>4, <1>9, <1>10
  <1>12. Range(log) = (IF uOpen THEN Range(Current) ELSE {"reserved"})
    BY <1>2, <1>3, <1>4, <1>5 DEF Current
  <1>13. Range(Current') = Range(new)
    BY <1>9 DEF Current
  <1>14. uOpen => Len(uFiles) \in DOMAIN uFiles
    BY <1>1, <1>2, <1>10, TailFacts
  <1> QED BY <1>6, <1>9, <1>11, <1>12, <1>13, <1>14

\* A packet is read: it may answer the command, and it is in the file when the file is closed.
LEMMA MainSavesStep ==
    ASSUME UniInv, MainSaves
    PROVE  UniInv'
  <1>1. /\ uMain = "read" /\ ~uExit /\ uIn # <<>> /\ uIn' = Tail(uIn) /\ HandleDiagPkt(Head(uIn))
        /\ UNCHANGED <<uFilter, uAt, uTry, uRound, uMain, uSession, uOut, uModule, uDone, uArm, uLate>>
    BY DEF MainSaves, filterVars
  <1>2. uIn \in Seq(Packets) /\ uSize \in Nat /\ uVer \in {0, 1} /\ UniLimit \in Nat /\ uModule.crash \in Crashes
    BY UnisocLogAssumption DEF UniInv, UniTyped, UniTypeOK
  <1>3. PICK p \in Packets : p = Head(uIn)
    BY <1>1, <1>2, TailFacts
  <1>4. PICK full \in BOOLEAN :
            /\ full = (uSize + 1 >= UniLimit /\ uNoSplit' = 0)
            /\ uOpen' = ~full /\ uSize' = (IF full THEN 0 ELSE uSize + 1)
            /\ uVer' = IF full THEN 0 ELSE IF p = "version" THEN 1 ELSE uVer
    BY <1>3, Zenon DEF MainSaves, VersionKnown
  <1>5. PICK files : /\ files = (IF uOpen THEN uFiles ELSE Append(uFiles, NewLog))
                     /\ uFiles' = [files EXCEPT ![Len(files)] = IF IsSaved(p) THEN Append(files[Len(files)], p) ELSE files[Len(files)]]
    BY <1>3, Zenon DEF MainSaves
  <1>6. /\ uFiles' \in Seq(Seq(Packets)) /\ uFiles' # <<>>
        /\ Range(Current') = (IF uOpen THEN Range(Current) ELSE {"reserved"}) \cup (IF IsSaved(p) THEN {p} ELSE {})
        /\ \A i \in DOMAIN uFiles' : i = Len(uFiles') \/ (i \in DOMAIN uFiles /\ uFiles'[i] = uFiles[i])
        /\ uOpen => Len(uFiles) \in DOMAIN uFiles
    BY <1>5, FileWritten
  <1>7. /\ uReq' \in 0 .. AtCommands /\ {uRes', uUe', uTcmd', uNoSplit'} \subseteq {0, 1}
        /\ uThread' \in {"off", "waiting", "sent"} /\ uExit' \in BOOLEAN /\ (uExit' <=> uExit \/ p = "end")
    BY <1>1, <1>3, HandledTypes
  <1>8. uOpen' \in BOOLEAN /\ (uOpen' <=> ~full)
    BY <1>4, Zenon
  <1>9. uMissed' \in BOOLEAN /\ (uMissed' <=> uMissed \/ TakenForEarlier(p))
    <2>1. uMissed' = (uMissed \/ TakenForEarlier(p))
      BY <1>3, Zenon DEF MainSaves
    <2> QED BY <2>1, Zenon
  <1>10. UniTyped'
    <2>1. uSize' \in Nat /\ uVer' \in {0, 1}
      BY <1>2, <1>4
    <2>2. uIn' \in Seq(Packets)
      BY <1>1, <1>2, TailFacts
    <2>3. UniTypeOK'
      BY <1>1, <1>6, <1>7, <2>1 DEF UniInv, UniTyped, UniTypeOK
    <2> QED BY <1>1, <1>6, <1>7, <1>8, <1>9, <2>1, <2>2, <2>3 DEF UniInv, UniTyped
  <1>11. AtInv'
    BY <1>1, HandledAt
  <1>12. VersionKept'
    <2> SUFFICES ASSUME uVer' = 1, uFilter' # "start", uMain' = "read"
                 PROVE  uOpen' /\ "version" \in Range(Current')
      BY DEF VersionKept
    <2>1. ~full /\ (p = "version" \/ uVer = 1)
      BY <1>4
    <2>2. CASE p = "version"
      BY <1>6, <1>8, <2>1, <2>2 DEF IsSaved
    <2>3. CASE uVer = 1
      <3>1. uOpen /\ "version" \in Range(Current)
        BY <1>1, <2>3 DEF UniInv, VersionKept
      <3> QED BY <1>6, <1>8, <2>1, <3>1
    <2> QED BY <2>1, <2>2, <2>3
  <1>13. CrashKept'
    <2>1. /\ uTcmd' = (IF p = "assert" THEN 1 ELSE IF p = "end" THEN 0 ELSE uTcmd)
          /\ uNoSplit' = (IF p = "assert" /\ uTcmd = 0 THEN 1 ELSE IF p = "end" THEN 0 ELSE uNoSplit)
      BY <1>1, <1>3 DEF HandleDiagPkt, HandleAssertProc
    <2>2. /\ CrashInOneFile /\ (uTcmd = 1 => uNoSplit = 1 \/ uFilter = "start") /\ uTcmd \in {0, 1} /\ uNoSplit \in {0, 1}
          /\ ~uMissed => Guarded(uIn, uModule.crash, AssertSaved)
      BY <1>1 DEF UniInv, UniTyped, UniTypeOK, CrashKept
    <2>3. uTcmd' = 1 => uNoSplit' = 1 \/ uFilter' = "start"
      BY <1>1, <2>1, <2>2
    <2>4. CASE uMissed'
      BY <2>4, <2>3 DEF CrashKept, CrashInOneFile
    <2>5. SUFFICES ASSUME ~uMissed' PROVE CrashKept'
      BY <2>4
    <2>6. ~uMissed /\ (p = "assert" => uTcmd = 0 \/ uNoSplit = 1)
      BY <1>3, <1>9, <2>2, <2>5 DEF TakenForEarlier
    <2>7. AssertSaved /\ p # "end" => AssertSaved'
      <3> SUFFICES ASSUME uOpen, uNoSplit = 1, "assert" \in Range(Current), p # "end"
                   PROVE  uOpen' /\ uNoSplit' = 1 /\ "assert" \in Range(Current')
        BY DEF AssertSaved
      <3>1. uNoSplit' = 1
        BY <2>1
      <3> QED BY <1>4, <1>6, <1>8, <3>1
    <2>8. p = "assert" => AssertSaved'
      <3> SUFFICES ASSUME p = "assert"
                   PROVE  uOpen' /\ uNoSplit' = 1 /\ "assert" \in Range(Current')
        BY DEF AssertSaved
      <3>1. uNoSplit' = 1
        BY <2>1, <2>2, <2>6
      <3> QED BY <1>4, <1>6, <1>8, <3>1 DEF IsSaved
    <2>9. PICK b \in BOOLEAN : b <=> AssertSaved
      OBVIOUS
    <2>10. PICK d \in BOOLEAN : d <=> (AssertSaved' \/ p = "end")
      OBVIOUS
    <2>11. Guarded(uIn, uModule.crash, b)
      BY <2>2, <2>6, <2>9 DEF Guarded
    <2>12. Guarded(uIn', uModule.crash, d) /\ (p = "mem" => b)
      BY <1>1, <1>2, <1>3, <2>7, <2>8, <2>9, <2>10, <2>11, GuardedTail
    <2>13. ~uExit' => Guarded(uIn', uModule'.crash, AssertSaved')
      BY <1>1, <1>7, <2>10, <2>12 DEF Guarded
    <2>14. CrashInOneFile'
      <3> SUFFICES ASSUME NEW i \in DOMAIN uFiles', "mem" \in Range(uFiles'[i])
                   PROVE  "assert" \in Range(uFiles'[i])
        BY <2>5 DEF CrashInOneFile
      <3>1. CASE i # Len(uFiles')
        BY <1>6, <2>2, <2>6, <3>1 DEF CrashInOneFile
      <3>2. CASE i = Len(uFiles')
        <4>1. "mem" \in Range(Current')
          BY <3>2 DEF Current
        <4>2. CASE p = "mem"
          <5>1. "assert" \in Range(Current')
            BY <2>7, <2>9, <2>12, <4>2 DEF AssertSaved
          <5> QED BY <3>2, <5>1 DEF Current
        <4>3. CASE p # "mem"
          <5>1. uOpen /\ "mem" \in Range(Current)
            BY <1>6, <4>1, <4>3
          <5>2. "assert" \in Range(Current)
            BY <1>6, <2>2, <2>6, <5>1 DEF CrashInOneFile, Current
          <5>3. "assert" \in Range(Current')
            BY <1>6, <5>1, <5>2
          <5> QED BY <3>2, <5>3 DEF Current
        <4> QED BY <4>2, <4>3
      <3> QED BY <3>1, <3>2
    <2> QED BY <1>1, <2>3, <2>13, <2>14 DEF CrashKept
  <1> QED BY <1>10, <1>12, <1>13, <1>11 DEF UniInv

\* The main thread ends when the filter has.
LEMMA MainEndsStep ==
    ASSUME UniInv, MainEnds
    PROVE  UniInv'
  <1>1. /\ uMain' = "end" /\ uOpen' = FALSE /\ uSize' = 0 /\ uFilter' = "end"
        /\ UNCHANGED <<uAt, uTry, uRound, uReq, uRes, uUe, uVer, uTcmd, uNoSplit, uThread, uSession, uExit, uFiles,
                       uOut, uIn, uModule, uDone, uArm, uLate, uMissed>>
    BY DEF MainEnds, flagVars
  <1>2. UniTyped'
    <2>1. UniTypeOK'
      BY <1>1 DEF UniInv, UniTyped, UniTypeOK
    <2> QED BY <1>1, <2>1 DEF UniInv, UniTyped
  <1>3. AtInv'
    BY <1>1 DEF UniInv, AtInv, AtInStep, ArmedIsAccepted
  <1>4. VersionKept' /\ CrashKept'
    BY <1>1 DEF UniInv, VersionKept, CrashKept, CrashInOneFile
  <1> QED BY <1>2, <1>3, <1>4 DEF UniInv

\* A new session finds nothing under way.
LEMMA UniRestartStep ==
    ASSUME UniInv, UniRestart
    PROVE  UniInv'
  <1>1. /\ uMain = "end" /\ ~uExit /\ uMain' = "read" /\ uSession' = uSession + 1 /\ uFilter' = "start"
        /\ uOut' = <<>> /\ uIn' = <<>> /\ uModule' = [uModule EXCEPT !.crash = "no"]
        /\ uDone' = {} /\ uArm' = FALSE /\ uLate' = FALSE
        /\ UNCHANGED <<uAt, uTry, uRound, uReq, uRes, uUe, uVer, uTcmd, uThread, uExit, uFiles, uOpen, uSize, uMissed>>
        /\ uNoSplit' = 0
    BY DEF UniRestart
  <1>2. uModule' \in [logs : Nat, crash : Crashes, mem : Nat] /\ uModule'.crash = "no"
    BY <1>1 DEF UniInv, UniTyped, Crashes
  <1>3. uOut' \in Seq(Lines) /\ uIn' \in Seq(Packets) /\ uSession' \in Nat
    BY <1>1 DEF UniInv, UniTyped
  <1>4. UniTyped'
    <2>1. UniTypeOK'
      BY <1>1 DEF UniInv, UniTyped, UniTypeOK
    <2> QED BY <1>1, <1>2, <1>3, <2>1 DEF UniInv, UniTyped
  <1>5. AtInv'
    <2>1. ~Waiting' /\ ~Answered' /\ Quiet'
      BY <1>1, EmptyNone DEF Waiting, Answered, Quiet
    <2> QED BY <1>1, <2>1 DEF AtInv, AtInStep, ArmedIsAccepted
  <1>6. VersionKept'
    BY <1>1 DEF VersionKept
  <1>7. CrashKept'
    <2>1. Guarded(uIn', uModule'.crash, AssertSaved')
      BY <1>1, <1>2, GuardedEmpty
    <2> QED BY <1>1, <2>1 DEF UniInv, CrashKept, CrashInOneFile
  <1> QED BY <1>4, <1>5, <1>6, <1>7 DEF UniInv

\* The dump of the module begins and ends.
LEMMA CpDumpStep ==
    ASSUME UniInv, CpDump
    PROVE  UniInv'
  <1>1. /\ uThread' = "sent" /\ uOut' = Append(uOut, Command("t", 0))
        /\ UNCHANGED <<uFilter, uAt, uTry, uRound, uReq, uRes, uUe, uVer, uTcmd, uNoSplit, uMain, uSession, uExit,
                       uFiles, uOpen, uSize, uIn, uModule, uDone, uArm, uLate, uMissed>>
    BY DEF CpDump, Commanded, filterVars, flagVars, mainVars
  <1>2. uOut \in Seq(Lines)
    BY DEF UniInv, UniTyped
  <1>3. PICK c \in Lines : c = Command("t", 0) /\ c.cmd = "t" /\ c \notin AtLines
    BY CommandFacts
  <1>4. /\ uOut' \in Seq(Lines) /\ Len(uOut') = Len(uOut) + 1 /\ uOut'[Len(uOut) + 1] = c /\ Len(uOut) \in Nat
        /\ \A i \in 1 .. Len(uOut) : uOut'[i] = uOut[i]
    BY <1>1, <1>2, <1>3, AppendFacts
  <1>5. UniTyped'
    BY <1>1, <1>4 DEF UniInv, UniTyped, UniTypeOK
  <1>6. (None(uOut, AtLines) => None(uOut', AtLines)) /\ (One(uOut, AtLines) => One(uOut', AtLines))
    BY <1>1, <1>2, <1>3, AppendNone, AppendOne
  <1>7. AtInv'
    <2>1. Pending => Pending'
      <3>1. \A i \in 1 .. Len(uOut') : i \in 1 .. Len(uOut) \/ i = Len(uOut) + 1
        BY <1>4
      <3>2. Pending => \A i \in 1 .. Len(uOut') : uOut'[i].cmd = "at" => uOut'[i].at = uAt
        BY <1>3, <1>4, <3>1 DEF Pending
      <3> QED BY <1>1, <1>6, <3>2 DEF Pending
    <2>2. Quiet => Quiet'
      BY <1>1, <1>6 DEF Quiet
    <2>3. AtInStep'
      BY <1>1, <2>1, <2>2 DEF UniInv, AtInv, AtInStep, Waiting, Answered
    <2> QED BY <1>1, <2>3 DEF UniInv, AtInv, ArmedIsAccepted
  <1>8. VersionKept' /\ CrashKept'
    BY <1>1, CrashFrame DEF UniInv, VersionKept, Current
  <1> QED BY <1>5, <1>7, <1>8 DEF UniInv

-----------------------------------------------------------------------------
(* The module *)

\* The module sends a packet that is no answer to an AT command.
LEMMA ModulePacket ==
    ASSUME UniInv, uMain = "read", NEW p \in Packets, p \notin Answers, uIn' = Append(uIn, p),
           UNCHANGED <<filterVars, flagVars, uThread, mainVars, uOut, uDone, uArm, uLate, uMissed>>,
           uModule' \in [logs : Nat, crash : Crashes, mem : Nat],
           \/ uModule'.crash = uModule.crash /\ p \notin {"mem", "end"}
           \/ uModule'.crash = "yes" /\ uModule.crash = "no" /\ p = "assert"
           \/ uModule'.crash = "mem" /\ uModule.crash = "mem" /\ p = "mem"
           \/ uModule'.crash = "over" /\ uModule.crash = "mem" /\ p = "end"
    PROVE  UniInv'
  <1>1. UNCHANGED <<uFilter, uAt, uTry, uRound, uReq, uRes, uUe, uVer, uTcmd, uNoSplit, uThread, uMain, uSession, uExit,
                    uFiles, uOpen, uSize, uOut, uDone, uArm, uLate, uMissed>>
    BY DEF filterVars, flagVars, mainVars
  <1>2. uIn \in Seq(Packets) /\ uModule.crash \in Crashes /\ uModule'.crash \in Crashes
    BY DEF UniInv, UniTyped
  <1>3. /\ uIn' \in Seq(Packets) /\ Len(uIn') = Len(uIn) + 1 /\ uIn'[Len(uIn) + 1] = p /\ Len(uIn) \in Nat
        /\ \A i \in 1 .. Len(uIn) : uIn'[i] = uIn[i]
    BY <1>2, AppendFacts
  <1>4. (None(uIn, Answers) => None(uIn', Answers)) /\ (One(uIn, Answers) => One(uIn', Answers))
    BY <1>2, AppendNone, AppendOne
  <1>5. UniTyped'
    BY <1>1, <1>3 DEF UniInv, UniTyped, UniTypeOK
  <1>6. AtInv'
    <2>1. Pending => Pending'
      <3>1. \A i \in 1 .. Len(uIn') : i \in 1 .. Len(uIn) \/ i = Len(uIn) + 1
        BY <1>3
      <3>2. p # "OK"
        BY DEF Answers
      <3>3. Pending => \A j \in 1 .. Len(uIn') : uIn'[j] = "OK" => uAt \in uDone
        BY <1>3, <3>1, <3>2 DEF Pending
      <3> QED BY <1>1, <1>4, <3>3 DEF Pending
    <2>2. Quiet => Quiet'
      BY <1>1, <1>4 DEF Quiet
    <2>3. AtInStep'
      BY <1>1, <2>1, <2>2 DEF UniInv, AtInv, AtInStep, Waiting, Answered
    <2> QED BY <1>1, <2>3 DEF UniInv, AtInv, ArmedIsAccepted
  <1>7. VersionKept'
    BY <1>1 DEF UniInv, VersionKept, Current
  <1>8. CrashKept'
    <2>1. AssertSaved' <=> AssertSaved
      BY <1>1 DEF AssertSaved, Current
    <2>2. ~uExit /\ ~uMissed => Guarded(uIn', uModule'.crash, AssertSaved')
      <3> SUFFICES ASSUME ~uExit, ~uMissed PROVE Guarded(uIn', uModule'.crash, AssertSaved')
        OBVIOUS
      <3>1. PICK b \in BOOLEAN : b <=> AssertSaved
        OBVIOUS
      <3>2. Guarded(uIn, uModule.crash, b)
        BY <3>1 DEF UniInv, CrashKept, Guarded
      <3>3. PICK c \in Crashes : c = uModule.crash
        BY <1>2
      <3>4. PICK d \in Crashes : d = uModule'.crash
        BY <1>2
      <3>5. Guarded(Append(uIn, p), d, b)
        BY <1>2, <3>2, <3>3, <3>4, GuardedAppend
      <3> QED BY <2>1, <3>1, <3>4, <3>5 DEF Guarded
    <2> QED BY <1>1, <2>2 DEF UniInv, CrashKept, CrashInOneFile
  <1> QED BY <1>5, <1>6, <1>7, <1>8 DEF UniInv

\* The module sends a packet of its own.
LEMMA ModuleLogsStep ==
    ASSUME UniInv, ModuleLogs \/ ModuleCrashes \/ ModuleMemory
    PROVE  UniInv'
  <1>1. uMain = "read" /\ UNCHANGED <<filterVars, flagVars, uThread, mainVars, uOut, uDone, uArm, uLate, uMissed>>
    BY DEF ModuleLogs, ModuleCrashes, ModuleMemory
  <1>2. PICK m \in [logs : Nat, crash : Crashes, mem : Nat] : m = uModule
    BY DEF UniInv, UniTyped
  <1>3. m.logs + 1 \in Nat /\ m.mem + 1 \in Nat
    BY <1>2
  <1>4. CASE ModuleLogs
    <2>1. uIn' = Append(uIn, "log") /\ uModule' = [m EXCEPT !.logs = @ + 1]
      BY <1>2, <1>4 DEF ModuleLogs
    <2>2. uModule' \in [logs : Nat, crash : Crashes, mem : Nat] /\ uModule'.crash = uModule.crash
      BY <1>2, <1>3, <2>1
    <2>3. "log" \in Packets /\ "log" \notin Answers
      BY DEF Packets, Answers
    <2> QED BY <1>1, <2>1, <2>2, <2>3, ModulePacket
  <1>5. CASE ModuleCrashes
    <2>1. uIn' = Append(uIn, "assert") /\ uModule' = [m EXCEPT !.crash = "yes"] /\ uModule.crash = "no"
      BY <1>2, <1>5 DEF ModuleCrashes
    <2>2. uModule' \in [logs : Nat, crash : Crashes, mem : Nat] /\ uModule'.crash = "yes"
      BY <1>2, <2>1 DEF Crashes
    <2>3. "assert" \in Packets /\ "assert" \notin Answers
      BY DEF Packets, Answers
    <2> QED BY <1>1, <2>1, <2>2, <2>3, ModulePacket
  <1>6. CASE ModuleMemory
    <2>1. /\ uModule.crash = "mem"
          /\ \/ uIn' = Append(uIn, "mem") /\ uModule' = [m EXCEPT !.mem = @ + 1]
             \/ uIn' = Append(uIn, "end") /\ uModule' = [m EXCEPT !.crash = "over"]
      BY <1>2, <1>6 DEF ModuleMemory
    <2>2. CASE uIn' = Append(uIn, "mem") /\ uModule' = [m EXCEPT !.mem = @ + 1]
      <3>1. uModule' \in [logs : Nat, crash : Crashes, mem : Nat] /\ uModule'.crash = "mem"
        BY <1>2, <1>3, <2>1, <2>2
      <3>2. "mem" \in Packets /\ "mem" \notin Answers
        BY DEF Packets, Answers
      <3> QED BY <1>1, <2>1, <2>2, <3>1, <3>2, ModulePacket
    <2>3. CASE uIn' = Append(uIn, "end") /\ uModule' = [m EXCEPT !.crash = "over"]
      <3>1. uModule' \in [logs : Nat, crash : Crashes, mem : Nat] /\ uModule'.crash = "over"
        BY <1>2, <2>3 DEF Crashes
      <3>2. "end" \in Packets /\ "end" \notin Answers
        BY DEF Packets, Answers
      <3> QED BY <1>1, <2>1, <2>3, <3>1, <3>2, ModulePacket
    <2> QED BY <2>1, <2>2, <2>3
  <1> QED BY <1>4, <1>5, <1>6

\* The module handles a command: an answer takes its place.
LEMMA ModuleCommandStep ==
    ASSUME UniInv, ModuleCommand
    PROVE  UniInv'
  <1>1. /\ uOut # <<>> /\ uMain = "read" /\ uOut' = Tail(uOut)
        /\ UNCHANGED <<uFilter, uAt, uTry, uRound, uReq, uRes, uUe, uVer, uTcmd, uNoSplit, uThread, uMain, uSession,
                       uExit, uFiles, uOpen, uSize, uArm, uLate, uMissed>>
    BY DEF ModuleCommand, filterVars, flagVars, mainVars
  <1>2. /\ uOut \in Seq(Lines) /\ uIn \in Seq(Packets)
        /\ uModule \in [logs : Nat, crash : Crashes, mem : Nat] /\ uModule.crash \in Crashes
    BY DEF UniInv, UniTyped
  <1>3. PICK c \in Lines : c = Head(uOut) /\ c = uOut[1]
    BY <1>1, <1>2, TailFacts
  <1>4. \/ /\ c.cmd = "at" /\ uModule' = uModule
           /\ \/ uIn' = Append(uIn, "OK") /\ uDone' = uDone \cup {c.at}
              \/ uIn' = Append(uIn, "ERROR") /\ uDone' = uDone
        \/ /\ c.cmd \in {"time", "version"} /\ uIn' = Append(uIn, c.cmd) /\ uDone' = uDone /\ uModule' = uModule
        \/ /\ c.cmd = "t" /\ uIn' = uIn /\ uDone' = uDone
           /\ uModule' = [uModule EXCEPT !.crash = IF @ = "yes" THEN "mem" ELSE @]
    BY <1>3 DEF ModuleCommand
  <1>5. /\ uOut' \in Seq(Lines) /\ Len(uOut) \in Nat /\ Len(uOut') = Len(uOut) - 1
        /\ \A i \in 1 .. Len(uOut) - 1 : uOut'[i] = uOut[i + 1]
    BY <1>1, <1>2, TailFacts
  <1>6. 1 \in 1 .. Len(uOut) /\ \A i \in 1 .. Len(uOut') : i \in 1 .. Len(uOut) - 1 /\ i + 1 \in 1 .. Len(uOut)
    <2>1. Len(uOut) >= 1
      BY <1>1, <1>2, TailFacts
    <2> QED BY <1>5, <2>1
  <1>7. /\ (None(uOut, AtLines) => None(uOut', AtLines) /\ c \notin AtLines)
        /\ (One(uOut, AtLines) => One(uOut', AtLines))
        /\ (One(uOut, AtLines) /\ c \in AtLines => None(uOut', AtLines))
    BY <1>1, <1>2, <1>3, TailNone
  <1>8. Pending => \A i \in 1 .. Len(uOut') : uOut'[i].cmd = "at" => uOut'[i].at = uAt
    BY <1>5, <1>6 DEF Pending
  <1>9. /\ uIn' = uIn \/ \E p \in Packets \ {"mem", "end"} : uIn' = Append(uIn, p) /\ (c.cmd # "at" => p \notin Answers)
        /\ uDone \subseteq uDone'
    BY <1>4 DEF Packets, Answers
  <1>10. uIn' \in Seq(Packets)
    BY <1>2, <1>9, AppendFacts, SMTT(30)
  <1>11. uModule' \in [logs : Nat, crash : Crashes, mem : Nat]
    BY <1>2, <1>4 DEF Crashes
  <1>12. UniTyped'
    BY <1>1, <1>5, <1>10, <1>11 DEF UniInv, UniTyped, UniTypeOK
  <1>13. AtInv'
    <2>1. ASSUME ~uLate
          PROVE  (Waiting => Pending') /\ (~Waiting => Quiet')
      <3>1. (Waiting => Pending) /\ (~Waiting => Quiet)
        BY <1>1, <2>1 DEF UniInv, AtInv, AtInStep
      <3>2. CASE c.cmd = "at"
        <4>1. c \in AtLines
          BY <3>2 DEF AtLines
        <4>2. Waiting /\ Pending
          BY <1>7, <3>1, <4>1 DEF Quiet
        <4>3. None(uOut', AtLines) /\ One(uOut', AtLines) /\ None(uIn, Answers) /\ c.at = uAt
          BY <1>3, <1>6, <1>7, <3>2, <4>1, <4>2 DEF Pending
        <4>4. PICK p \in Packets : uIn' = Append(uIn, p) /\ (p = "OK" => uAt \in uDone')
          BY <1>4, <3>2, <4>3 DEF Packets
        <4>5. One(uIn', Answers)
          BY <1>2, <4>3, <4>4, AppendNone
        <4>6. \A j \in 1 .. Len(uIn') : uIn'[j] = "OK" => uAt \in uDone'
          <5>1. /\ Len(uIn') = Len(uIn) + 1 /\ Len(uIn) \in Nat /\ uIn'[Len(uIn) + 1] = p
                /\ \A i \in 1 .. Len(uIn) : uIn'[i] = uIn[i]
            BY <1>2, <4>4, AppendFacts
          <5>2. \A i \in 1 .. Len(uIn') : i \in 1 .. Len(uIn) \/ i = Len(uIn) + 1
            BY <5>1
          <5> QED BY <4>3, <4>4, <5>1, <5>2 DEF None, Answers
        <4> QED BY <1>1, <1>8, <4>2, <4>3, <4>5, <4>6 DEF Pending
      <3>3. CASE c.cmd # "at"
        <4>1. (None(uIn, Answers) => None(uIn', Answers)) /\ (One(uIn, Answers) => One(uIn', Answers))
          <5>1. CASE uIn' = uIn
            BY <5>1
          <5>2. ASSUME NEW p \in Packets, uIn' = Append(uIn, p), p \notin Answers
                PROVE  (None(uIn, Answers) => None(uIn', Answers)) /\ (One(uIn, Answers) => One(uIn', Answers))
            BY <1>2, <5>2, AppendNone, AppendOne
          <5> QED BY <1>9, <3>3, <5>1, <5>2
        <4>2. Quiet => Quiet'
          BY <1>7, <4>1 DEF Quiet
        <4>3. Pending => \A j \in 1 .. Len(uIn') : uIn'[j] = "OK" => uAt \in uDone'
          <5>1. CASE uIn' = uIn
            BY <1>9, <5>1 DEF Pending
          <5>2. ASSUME NEW p \in Packets, uIn' = Append(uIn, p), p \notin Answers
                PROVE  Pending => \A j \in 1 .. Len(uIn') : uIn'[j] = "OK" => uAt \in uDone'
            <6>1. /\ Len(uIn') = Len(uIn) + 1 /\ Len(uIn) \in Nat /\ uIn'[Len(uIn) + 1] = p
                  /\ \A i \in 1 .. Len(uIn) : uIn'[i] = uIn[i]
              BY <1>2, <5>2, AppendFacts
            <6>2. \A i \in 1 .. Len(uIn') : i \in 1 .. Len(uIn) \/ i = Len(uIn) + 1
              BY <6>1
            <6> QED BY <1>9, <5>2, <6>1, <6>2 DEF Pending, Answers
          <5> QED BY <1>9, <3>3, <5>1, <5>2
        <4>4. Pending => Pending'
          BY <1>1, <1>7, <1>8, <4>1, <4>3 DEF Pending
        <4> QED BY <3>1, <4>2, <4>4
      <3> QED BY <3>2, <3>3
    <2>2. AtInStep'
      BY <1>1, <1>9, <2>1 DEF UniInv, AtInv, AtInStep, Waiting, Answered
    <2> QED BY <1>1, <1>9, <2>2 DEF UniInv, AtInv, ArmedIsAccepted
  <1>14. VersionKept'
    BY <1>1 DEF UniInv, VersionKept, Current
  <1>15. CrashKept'
    <2>1. AssertSaved' <=> AssertSaved
      BY <1>1 DEF AssertSaved, Current
    <2>2. ~uExit /\ ~uMissed => Guarded(uIn', uModule'.crash, AssertSaved')
      <3> SUFFICES ASSUME ~uExit, ~uMissed PROVE Guarded(uIn', uModule'.crash, AssertSaved')
        OBVIOUS
      <3>1. PICK b \in BOOLEAN : b <=> AssertSaved
        OBVIOUS
      <3>2. Guarded(uIn, uModule.crash, b)
        BY <1>1, <3>1 DEF UniInv, CrashKept, Guarded
      <3>3. Guarded(uIn', uModule'.crash, b)
        <4>1. CASE c.cmd = "t"
          <5>1. uIn' = uIn /\ uModule'.crash = IF uModule.crash = "yes" THEN "mem" ELSE uModule.crash
            BY <1>2, <1>4, <4>1
          <5> QED BY <3>2, <5>1, GuardedMemory
        <4>2. CASE c.cmd # "t"
          <5>1. PICK p \in Packets : uIn' = Append(uIn, p) /\ p \notin {"mem", "end"} /\ uModule' = uModule
            BY <1>4, <4>2 DEF Packets
          <5>2. PICK k \in Crashes : k = uModule.crash
            BY <1>2
          <5>3. Guarded(Append(uIn, p), k, b)
            BY <1>2, <3>2, <5>1, <5>2, GuardedAppend
          <5> QED BY <5>1, <5>2, <5>3
        <4> QED BY <4>1, <4>2
      <3> QED BY <2>1, <3>1, <3>3 DEF Guarded
    <2> QED BY <1>1, <2>2 DEF UniInv, CrashKept, CrashInOneFile
  <1> QED BY <1>12, <1>13, <1>14, <1>15 DEF UniInv

\* Every step of the threads and of the module keeps the invariant.
LEMMA UniStep ==
    ASSUME UniInv, [UniNext]_uniVars
    PROVE  UniInv'
  <1>1. CASE UNCHANGED uniVars
    <2>1. UNCHANGED <<uFilter, uAt, uTry, uRound, uReq, uRes, uUe, uVer, uTcmd, uNoSplit, uThread, uMain, uSession,
                      uExit, uFiles, uOpen, uSize, uOut, uIn, uModule, uDone, uArm, uLate, uMissed>>
      BY <1>1 DEF uniVars, filterVars, flagVars, mainVars
    <2>2. UniTyped'
      BY <2>1 DEF UniInv, UniTyped, UniTypeOK
    <2>3. AtInv'
      BY <2>1 DEF UniInv, AtInv, AtInStep, ArmedIsAccepted, Waiting, Answered, Quiet, Pending
    <2>4. VersionKept'
      BY <2>1 DEF UniInv, VersionKept, Current
    <2>5. CrashKept'
      BY <2>1, CrashFrame DEF UniInv
    <2> QED BY <2>2, <2>3, <2>4, <2>5 DEF UniInv
  <1>2. CASE UniNext
    BY <1>2, FilterStartStep, AtRequestStep, AtWriteStep, AtAnsweredStep, AtTimeoutStep, AtResultStep,
       FilterQueryStep, FilterEndsStep, MainSavesStep, MainEndsStep, UniRestartStep, CpDumpStep, ModuleLogsStep,
       ModuleCommandStep DEF UniNext, FilterNext, ModuleNext
  <1> QED BY <1>1, <1>2

\* The invariant of the capture.
LEMMA UniAlways == UniSpec => []UniInv
  <1>1. UniInit => UniInv
    BY UniInitially
  <1>2. UniInv /\ [UniNext]_uniVars => UniInv'
    BY UniStep
  <1> QED BY <1>1, <1>2, PTL DEF UniSpec

\* The flags the three threads share without a lock, and their states, keep their types,
\* whatever the module sends and whenever (unisoc_init_filter, HandleDiagPkt).
THEOREM UniTypeCorrect == UniSpec => []UniTypeOK
  <1>1. UniInv => UniTypeOK
    BY DEF UniInv, UniTyped
  <1> QED BY <1>1, UniAlways, PTL

\* The filter thread takes the log as turned on only if the module accepted AT+ARMLOG=1,
\* unless a command was given up before its answer came: s_pRequest and m_bAT_result are
\* read and written by two threads, but with one command under way no answer counts for
\* another (unisco_send_at_command, unisco_process_at_command).
THEOREM ArmedAccepted == UniSpec => []ArmedIsAccepted
  <1>1. UniInv => ArmedIsAccepted
    BY DEF UniInv, AtInv
  <1> QED BY <1>1, UniAlways, PTL

\* Each log file can be read by itself: while the version counts as known it is in the file
\* being written, and a file with the memory of a crash has the assert before it, for every
\* limit of the files and in every session until an assert comes before the filter thread has
\* cleared what a crash of an earlier session left (unisoc_logfile_save, HandleAssertProc).
THEOREM LogFilesComplete == UniSpec => []UniFiles
  <1>1. UniInv => UniFiles
    BY DEF UniInv, UniFiles, VersionKept, VersionInLog, CrashKept, Current
  <1> QED BY <1>1, UniAlways, PTL
==============================================================================
