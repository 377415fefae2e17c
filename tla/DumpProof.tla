------------------------------ MODULE DumpProof ------------------------------
(***************************************************************************)
(* Proofs about the ram dumps, for every memory of the module, any number  *)
(* of lost requests and failures, and every length of a request.           *)
(***************************************************************************)
EXTENDS Dump, SequenceTheorems, TLAPS

-----------------------------------------------------------------------------
(* Sequences *)

\* The rest of a sequence.
LEMMA TailFacts ==
    ASSUME NEW S, NEW s \in Seq(S), s # <<>>
    PROVE  /\ Tail(s) \in Seq(S) /\ Len(Tail(s)) = Len(s) - 1 /\ Len(s) \in Nat /\ Len(s) >= 1
           /\ Head(s) = s[1] /\ Head(s) \in S
           /\ \A i \in 1 .. Len(s) - 1 : Tail(s)[i] = s[i + 1]
  OBVIOUS

\* An element more.
LEMMA AppendFacts ==
    ASSUME NEW S, NEW s \in Seq(S), NEW e \in S
    PROVE  /\ Append(s, e) \in Seq(S) /\ Len(Append(s, e)) = Len(s) + 1 /\ Len(s) \in Nat
           /\ \A i \in 1 .. Len(s) : Append(s, e)[i] = s[i]
           /\ Append(s, e)[Len(s) + 1] = e
  OBVIOUS

\* Nothing is a sequence of anything.
LEMMA NothingFacts ==
    ASSUME NEW S
    PROVE  <<>> \in Seq(S)
  OBVIOUS

\* Two sequences one behind the other.
LEMMA ConcatFacts ==
    ASSUME NEW S, NEW s \in Seq(S), NEW t \in Seq(S)
    PROVE  /\ s \o t \in Seq(S) /\ Len(s \o t) = Len(s) + Len(t) /\ Len(s) \in Nat /\ Len(t) \in Nat
           /\ \A i \in 1 .. Len(s) : (s \o t)[i] = s[i]
           /\ \A i \in 1 .. Len(t) : (s \o t)[Len(s) + i] = t[i]
  OBVIOUS

\* The first n elements, and the others.
LEMMA CutFacts ==
    ASSUME NEW S, NEW s \in Seq(S), NEW n \in Nat, n <= Len(s)
    PROVE  /\ SubSeq(s, 1, n) \in Seq(S) /\ Len(SubSeq(s, 1, n)) = n
           /\ \A i \in 1 .. n : SubSeq(s, 1, n)[i] = s[i]
           /\ SubSeq(s, n + 1, Len(s)) \in Seq(S) /\ Len(SubSeq(s, n + 1, Len(s))) = Len(s) - n
  <1>1. SubSeq(s, 1, n) \in Seq(S) /\ Len(SubSeq(s, 1, n)) = n
        /\ \A i \in 1 .. n : SubSeq(s, 1, n)[i] = s[i]
    OBVIOUS
  <1>2. SubSeq(s, n + 1, Len(s)) \in Seq(S) /\ Len(SubSeq(s, n + 1, Len(s))) = Len(s) - n
    OBVIOUS
  <1> QED BY <1>1, <1>2

\* Nothing of a sequence.
LEMMA NoneFacts ==
    ASSUME NEW S, NEW s \in Seq(S)
    PROVE  SubSeq(s, 1, -1) \in Seq(S) /\ SubSeq(s, 1, -1) = <<>>
  OBVIOUS

\* What is left of a division.
LEMMA ModBelow ==
    ASSUME NEW a \in Nat, NEW w \in Nat \ {0}
    PROVE  a % w \in Nat /\ a % w <= a
  <1>1. a % w \in 0 .. w - 1
    OBVIOUS
  <1>2. CASE a < w
    <2>1. a % w = a
      BY <1>2
    <2> QED BY <2>1
  <1>3. CASE a >= w
    BY <1>1, <1>3
  <1> QED BY <1>2, <1>3

-----------------------------------------------------------------------------
(* Sahara: the invariant *)

Items == [cmd : Commands \cup {"DATA"}, seg : Nat, off : Nat]

Requests == [cmd : {"HELLO_RESP", "WAKE", "RESET", "READ"}, seg : Nat, off : Nat, len : Nat]

SaharaTyped ==
    /\ SaharaTypeOK
    /\ sahTable \in Seq(Nat) /\ sahFiles \in Seq(Seq(Items))
    /\ fromModule \in Seq(Items) /\ toModule \in Seq(Requests)
    /\ late \in BOOLEAN /\ gap \in BOOLEAN /\ sahFaults \in Nat

Before == q_state \in {"WAIT_ONE", "WOKEN", "WAIT_TWO", "WAIT_SEVEN"}

Within == q_state \in {"REQUEST", "RECEIVE"}

\* The files are those of the segments up to the one being read; a request ends within its
\* segment; the module is reset before the first file or after the last one.
Place ==
    /\ Before => sahFiles = <<>> /\ sahSeg = 1
    /\ q_state = "WAIT_EIGHT" => Len(sahFiles) = sahSeg - 1
    /\ Within => Len(sahFiles) = sahSeg /\ sahSeg \in 1 .. TableLen /\ sahCur <= sahTable[sahSeg]
    /\ q_state = "RECEIVE" => sahCur + sahLen <= sahTable[sahSeg]
    /\ (q_state = "WAIT_THREE" \/ sahRet = "true") =>
            sahFiles = <<>> \/ (Len(sahFiles) = TableLen /\ sahSeg = TableLen + 1)

\* A file has the length its segment was read to.
Lengths ==
    ~gap => /\ \A s \in 1 .. Len(sahFiles) :
                 Len(sahFiles[s]) <= sahTable[s] /\ (s < sahSeg => Len(sahFiles[s]) = sahTable[s])
            /\ Within => Len(sahFiles[sahSeg]) = sahCur

Blocks(s, o, n) == [i \in 1 .. n |-> Block(s, o + i - 1)]

Empty(r) == r.cmd = "READ" /\ r.len = 0

\* Requests for nothing may be left, as the host does not wait for their answer.
Empties == \A i \in 1 .. Len(toModule) : Empty(toModule[i])

\* The request of the host is the last one the module has not handled.
Asking ==
    /\ Len(toModule) > 0 /\ toModule[Len(toModule)] = Read(sahSeg, sahCur, sahLen)
    /\ \A i \in 1 .. Len(toModule) - 1 : Empty(toModule[i])

\* What is on the line, as long as no request was given up that is still answered.
Line ==
    ~late =>
        /\ q_state = "WAIT_ONE" => toModule = <<>> /\ Len(fromModule) <= 1
        /\ q_state = "WOKEN" => \/ fromModule = <<>> /\ (toModule = <<>> \/ toModule = <<Request("WAKE")>>)
                                \/ toModule = <<>> /\ Len(fromModule) = 1
        /\ q_state = "WAIT_TWO" =>
            \/ fromModule = <<>> /\ (toModule = <<>> \/ toModule = <<Request("HELLO_RESP")>>)
            \/ toModule = <<>> /\ Len(fromModule) = 1
            \/ toModule = <<>> /\ Len(fromModule) = 2 /\ fromModule[1].cmd = "HELLO"
        /\ q_state = "WAIT_SEVEN" =>
            \/ fromModule = <<>> /\ (toModule = <<>> \/ (TableLen > 0 /\ toModule = <<Read(0, 0, TableLen)>>))
            \/ toModule = <<>> /\ Len(fromModule) = TableLen
        /\ q_state \in {"WAIT_EIGHT", "REQUEST"} => fromModule = <<>> /\ Empties
        /\ q_state = "RECEIVE" =>
            \/ fromModule = <<>> /\ (Asking \/ Empties)
            \/ sahLen > 0 /\ fromModule = Blocks(sahSeg, sahCur, sahLen) /\ Empties

SaharaInv == SaharaTyped /\ Place /\ Lengths /\ Line /\ SaharaExact

-----------------------------------------------------------------------------
(* Sahara: what the actions have in common *)

\* Requests and commands have their types.
LEMMA RequestFacts ==
    /\ \A c \in {"HELLO_RESP", "WAKE", "RESET"} : Request(c) \in Requests
    /\ \A s, o, n \in Nat : Read(s, o, n) \in Requests
    /\ \A c \in Commands : Cmd(c) \in Items
    /\ \A s, o \in Nat : Block(s, o) \in Items
  BY DEF Request, Requests, Read, Cmd, Items, Commands, Block

\* A fault is one less.
LEMMA FaultFacts ==
    ASSUME sahFaults \in Nat, Fault
    PROVE  sahFaults' \in Nat
  BY DEF Fault

\* A send goes out, or ends the dump.
LEMMA SendFacts ==
    ASSUME NEW r \in Requests, NEW next, Send(r, next), SaharaTyped
    PROVE  /\ toModule' \in Seq(Requests) /\ sahFaults' \in Nat
           /\ \/ q_state' = next /\ sahRet' = sahRet /\ toModule' = Append(toModule, r)
              \/ q_state' = "done" /\ sahRet' = "false"
  <1>1. sahFaults \in Nat /\ toModule \in Seq(Requests)
    BY DEF SaharaTyped
  <1>2. Append(toModule, r) \in Seq(Requests)
    BY <1>1, AppendFacts
  <1> QED BY <1>1, <1>2, FaultFacts DEF Send, Returns

\* The files and the place in them are left alone.
LEMMA FilesKept ==
    ASSUME UNCHANGED <<sahTable, sahSeg, sahFiles>>, (late => late'), (gap => gap'),
           (Within' => Within /\ sahCur' = sahCur), Lengths, SaharaExact
    PROVE  Lengths' /\ SaharaExact'
  <1>1. Lengths'
    BY DEF Lengths
  <1>2. SaharaExact'
    BY DEF SaharaExact
  <1> QED BY <1>1, <1>2

\* The dump ends, and not as a successful one.
LEMMA Ended ==
    ASSUME SaharaInv, q_state' = "done", sahRet' \in {"false", "exit"},
           UNCHANGED <<maxRead, sahTable, sahSeg, sahLen, sahFiles>>, sahCur' \in Nat, wide' \in BOOLEAN,
           (late => late'), (gap => gap'), late' \in BOOLEAN, gap' \in BOOLEAN,
           fromModule' \in Seq(Items), toModule' \in Seq(Requests), sahFaults' \in Nat
    PROVE  SaharaInv'
  <1>1. SaharaTyped'
    BY DEF SaharaInv, SaharaTyped, SaharaTypeOK, TableLen
  <1>2. Place'
    BY DEF Place, Before, Within
  <1>3. Lengths' /\ SaharaExact'
    <2>1. ~Within'
      BY DEF Within
    <2> QED BY <2>1, FilesKept DEF SaharaInv, SaharaTyped
  <1>4. Line'
    BY DEF Line
  <1> QED BY <1>1, <1>2, <1>3, <1>4 DEF SaharaInv

\* The module is told to reset, before the first file or after the last one.
LEMMA ResetSent ==
    ASSUME SaharaInv, send_reset_command, q_state # "done",
           sahFiles = <<>> \/ (Len(sahFiles) = TableLen /\ sahSeg = TableLen + 1),
           UNCHANGED <<maxRead, sahTable, sahSeg, sahLen, sahCur, sahFiles, late, gap>>,
           wide' = wide, fromModule' \in Seq(Items)
    PROVE  SaharaInv'
  <1>1. Request("RESET") \in Requests
    BY RequestFacts
  <1>2. /\ toModule' \in Seq(Requests) /\ sahFaults' \in Nat
        /\ \/ q_state' = "WAIT_THREE" /\ sahRet' = sahRet
           \/ q_state' = "done" /\ sahRet' = "false"
    BY <1>1, SendFacts DEF send_reset_command, SaharaInv
  <1>3. CASE q_state' = "done" /\ sahRet' = "false"
    BY <1>2, <1>3, Ended DEF SaharaInv, SaharaTyped, SaharaTypeOK
  <1>4. CASE q_state' = "WAIT_THREE" /\ sahRet' = sahRet
    <2>1. SaharaTyped'
      BY <1>2, <1>4 DEF SaharaInv, SaharaTyped, SaharaTypeOK, TableLen
    <2>2. Place'
      BY <1>4 DEF Place, Before, Within, TableLen
    <2>3. ~Within'
      BY <1>4 DEF Within
    <2>4. Lengths' /\ SaharaExact'
      BY <2>3, FilesKept DEF SaharaInv, SaharaTyped
    <2>5. Line'
      BY <1>4 DEF Line
    <2> QED BY <2>1, <2>2, <2>4, <2>5 DEF SaharaInv
  <1> QED BY <1>2, <1>3, <1>4

-----------------------------------------------------------------------------
(* Sahara: the actions *)

\* The invariant holds at the start of a dump.
LEMMA SaharaInitially ==
    ASSUME SaharaInit
    PROVE  SaharaInv
  <1>1. RawBuf \in Nat \ {0} /\ SaharaFaults \in Nat /\ sahTable \in Seq(Nat) /\ TableLen \in Nat
    BY SaharaAssumption DEF SaharaInit, TableLen
  <1>2. maxRead \in 1 .. RawBuf
    <2>1. PICK d \in {1, 2} : maxRead = RawBuf \div d /\ maxRead # 0
      BY DEF SaharaInit
    <2>2. CASE d = 1
      BY <1>1, <2>1, <2>2
    <2>3. CASE d = 2
      BY <1>1, <2>1, <2>3
    <2> QED BY <2>1, <2>2, <2>3
  <1>3. fromModule \in Seq(Items) /\ Len(fromModule) <= 1
    <2>1. CASE fromModule = <<>>
      BY <2>1
    <2>2. ASSUME NEW c \in {"HELLO", "HELLO_OTHER_MODE", "OTHER"}, fromModule = <<Cmd(c)>>
          PROVE  fromModule \in Seq(Items) /\ Len(fromModule) <= 1
      <3>1. Cmd(c) \in Items
        BY RequestFacts DEF Commands
      <3> QED BY <2>2, <3>1
    <2> QED BY <2>1, <2>2 DEF SaharaInit
  <1>4. SaharaTyped
    <2>1. wide \in BOOLEAN /\ late \in BOOLEAN /\ gap \in BOOLEAN
      BY Zenon DEF SaharaInit, SaharaFresh
    <2>2. sahFiles = <<>> /\ toModule = <<>> /\ sahSeg = 1 /\ sahCur = 0 /\ sahLen = 0
      BY DEF SaharaInit, SaharaFresh
    <2>3. SaharaTypeOK
      <3>1. Len(sahFiles) <= TableLen
        BY <1>1, <2>2
      <3>2. sahSeg \in 1 .. TableLen + 1 /\ sahCur \in Nat /\ sahLen \in 0 .. RawBuf
        BY <1>1, <2>2
      <3>3. q_state = "WAIT_ONE" /\ sahRet = "none"
        BY DEF SaharaInit
      <3> QED BY <1>2, <2>1, <3>1, <3>2, <3>3 DEF SaharaTypeOK
    <2>4. sahFiles \in Seq(Seq(Items)) /\ toModule \in Seq(Requests)
      BY <2>2
    <2>5. sahFaults \in Nat
      BY <1>1 DEF SaharaInit, SaharaFresh
    <2> QED BY <1>1, <1>3, <2>1, <2>3, <2>4, <2>5 DEF SaharaTyped
  <1>5. Place /\ Lengths /\ SaharaExact
    BY DEF SaharaInit, SaharaFresh, Place, Lengths, SaharaExact, Before, Within
  <1>6. Line
    BY <1>3 DEF SaharaInit, SaharaFresh, Line
  <1> QED BY <1>4, <1>5, <1>6 DEF SaharaInv

\* The host goes on without files: only the line has to be looked at.
LEMMA NoFileYet ==
    ASSUME SaharaInv, Before, Before', sahRet' = sahRet,
           UNCHANGED <<maxRead, sahTable, sahSeg, sahLen, sahCur, sahFiles, late, gap>>,
           wide' \in BOOLEAN, fromModule' \in Seq(Items), toModule' \in Seq(Requests), sahFaults' \in Nat, Line'
    PROVE  SaharaInv'
  <1>1. SaharaTyped'
    BY DEF SaharaInv, SaharaTyped, SaharaTypeOK, TableLen, Before
  <1>2. Place'
    BY DEF SaharaInv, Place, Before, Within, SaharaTyped, SaharaTypeOK
  <1>3. ~Within'
    BY DEF Before, Within
  <1>4. Lengths' /\ SaharaExact'
    BY <1>3, FilesKept DEF SaharaInv, SaharaTyped
  <1> QED BY <1>1, <1>2, <1>4 DEF SaharaInv

\* A header arrives before any dump has begun.
LEMMA WaitOneStep ==
    ASSUME SaharaInv, WaitOne
    PROVE  SaharaInv'
  <1>1. /\ q_state \in {"WAIT_ONE", "WOKEN"} /\ fromModule # <<>> /\ fromModule' = Tail(fromModule)
        /\ UNCHANGED <<wide, maxRead, sahTable, sahSeg, sahCur, sahLen, sahFiles, late, gap>>
    BY DEF WaitOne
  <1>2. /\ fromModule' \in Seq(Items) /\ Len(fromModule') = Len(fromModule) - 1 /\ Len(fromModule) \in Nat
    BY <1>1, TailFacts DEF SaharaInv, SaharaTyped
  <1>3. /\ Before /\ sahFiles = <<>> /\ wide \in BOOLEAN /\ sahFaults \in Nat /\ toModule \in Seq(Requests)
        /\ late \in BOOLEAN /\ gap \in BOOLEAN /\ sahCur \in Nat
    BY <1>1 DEF SaharaInv, Place, Before, SaharaTyped, SaharaTypeOK
  <1>4. CASE Head(fromModule).cmd = "HELLO"
    <2>1. Send(Request("HELLO_RESP"), "WAIT_TWO")
      BY <1>4 DEF WaitOne
    <2>2. Request("HELLO_RESP") \in Requests
      BY RequestFacts
    <2>3. /\ toModule' \in Seq(Requests) /\ sahFaults' \in Nat
          /\ \/ q_state' = "WAIT_TWO" /\ sahRet' = sahRet /\ toModule' = Append(toModule, Request("HELLO_RESP"))
             \/ q_state' = "done" /\ sahRet' = "false"
      BY <2>1, <2>2, SendFacts DEF SaharaInv
    <2>4. CASE q_state' = "done" /\ sahRet' = "false"
      BY <1>1, <1>2, <1>3, <2>3, <2>4, Ended
    <2>5. CASE q_state' = "WAIT_TWO" /\ sahRet' = sahRet /\ toModule' = Append(toModule, Request("HELLO_RESP"))
      <3>1. ~late => toModule = <<>> /\ Len(fromModule) = 1
        BY <1>1, <1>2 DEF SaharaInv, Line
      <3>2. ~late => fromModule' = <<>>
        <4>1. ~late => Len(fromModule') = 0
          BY <1>2, <3>1
        <4> QED BY <1>2, <4>1, EmptySeq
      <3>3. ~late => toModule' = <<Request("HELLO_RESP")>>
        BY <2>5, <3>1
      <3>4. Line'
        BY <1>1, <2>5, <3>2, <3>3 DEF Line
      <3>5. Before'
        BY <2>5 DEF Before
      <3> QED BY <1>1, <1>2, <1>3, <2>3, <2>5, <3>4, <3>5, NoFileYet
    <2> QED BY <2>3, <2>4, <2>5
  <1>5. CASE Head(fromModule).cmd = "HELLO_OTHER_MODE"
    <2>1. q_state' = "done" /\ sahRet' = "false" /\ UNCHANGED <<toModule, sahFaults>>
      BY <1>5 DEF WaitOne, Returns
    <2> QED BY <1>1, <1>2, <1>3, <2>1, Ended
  <1>6. CASE Head(fromModule).cmd \notin {"HELLO", "HELLO_OTHER_MODE"}
    <2>1. send_reset_command
      BY <1>6 DEF WaitOne
    <2> QED BY <1>1, <1>2, <1>3, <2>1, ResetSent
  <1> QED BY <1>4, <1>5, <1>6

\* A header that does not come, or not whole, is gone.
LEMMA HeaderFailsFacts ==
    ASSUME SaharaInv, NEW states, HeaderFails(states)
    PROVE  /\ q_state \in states /\ sahFaults' \in Nat
           /\ fromModule' \in Seq(Items)
           /\ UNCHANGED <<wide, maxRead, sahTable, sahSeg, sahCur, sahLen, sahFiles, late, gap>>
           /\ (Len(fromModule) <= 1 => fromModule' = <<>>)
  <1>1. fromModule \in Seq(Items) /\ sahFaults \in Nat
    BY DEF SaharaInv, SaharaTyped
  <1>2. CASE fromModule = <<>> /\ UNCHANGED <<fromModule, sahFaults>>
    BY <1>1, <1>2 DEF HeaderFails
  <1>3. CASE fromModule # <<>> /\ Fault /\ fromModule' = Tail(fromModule)
    <2>1. fromModule' \in Seq(Items) /\ Len(fromModule') = Len(fromModule) - 1 /\ Len(fromModule) \in Nat /\ Len(fromModule) >= 1
      BY <1>1, <1>3, TailFacts
    <2>2. Len(fromModule) <= 1 => Len(fromModule') = 0
      BY <2>1
    <2>3. Len(fromModule) <= 1 => fromModule' = <<>>
      BY <2>1, <2>2, EmptySeq
    <2>4. sahFaults' \in Nat
      BY <1>1, <1>3, FaultFacts
    <2> QED BY <2>1, <2>3, <2>4 DEF HeaderFails
  <1> QED BY <1>2, <1>3 DEF HeaderFails

\* No header comes, and the module is woken up.
LEMMA WakeUpStep ==
    ASSUME SaharaInv, WakeUp
    PROVE  SaharaInv'
  <1>1. q_state = "WAIT_ONE" /\ q_state' = "WOKEN" /\ toModule' = Append(toModule, Request("WAKE")) /\ sahRet' = sahRet
    BY DEF WakeUp, HeaderFails
  <1>2. /\ sahFaults' \in Nat /\ fromModule' \in Seq(Items)
        /\ UNCHANGED <<wide, maxRead, sahTable, sahSeg, sahCur, sahLen, sahFiles, late, gap>>
        /\ (Len(fromModule) <= 1 => fromModule' = <<>>)
    BY HeaderFailsFacts DEF WakeUp
  <1>3. toModule \in Seq(Requests) /\ wide \in BOOLEAN
    BY DEF SaharaInv, SaharaTyped, SaharaTypeOK
  <1>4. toModule' \in Seq(Requests)
    <2>1. Request("WAKE") \in Requests
      BY RequestFacts
    <2> QED BY <1>1, <1>3, <2>1, AppendFacts
  <1>5. ~late => toModule = <<>> /\ Len(fromModule) <= 1
    BY <1>1 DEF SaharaInv, Line
  <1>6. ~late => toModule' = <<Request("WAKE")>>
    BY <1>1, <1>5
  <1>7. Line'
    BY <1>1, <1>2, <1>5, <1>6 DEF Line
  <1>8. Before /\ Before'
    BY <1>1 DEF Before
  <1> QED BY <1>1, <1>2, <1>3, <1>4, <1>7, <1>8, NoFileYet

\* No header comes, and the dump fails.
LEMMA NoHeaderStep ==
    ASSUME SaharaInv, NoHeader
    PROVE  SaharaInv'
  <1>1. q_state' = "done" /\ sahRet' = "false" /\ toModule' = toModule
    BY DEF NoHeader, Returns
  <1>2. /\ sahFaults' \in Nat /\ fromModule' \in Seq(Items)
        /\ UNCHANGED <<wide, maxRead, sahTable, sahSeg, sahCur, sahLen, sahFiles, late, gap>>
    BY HeaderFailsFacts DEF NoHeader
  <1> QED BY <1>1, <1>2, Ended DEF SaharaInv, SaharaTyped, SaharaTypeOK

\* The table is announced.
LEMMA WaitTwoStep ==
    ASSUME SaharaInv, WaitTwo
    PROVE  SaharaInv'
  <1> DEFINE c == Head(fromModule).cmd
  <1>1. /\ q_state = "WAIT_TWO" /\ fromModule # <<>> /\ fromModule' = Tail(fromModule)
        /\ UNCHANGED <<maxRead, sahTable, sahSeg, sahCur, sahLen, sahFiles, late, gap>>
        /\ wide' = IF c \in {"DEBUG32", "DEBUG64"} THEN c = "DEBUG64" ELSE wide
    BY DEF WaitTwo
  <1>2. /\ fromModule' \in Seq(Items) /\ Len(fromModule') = Len(fromModule) - 1 /\ Len(fromModule) \in Nat
        /\ Len(fromModule) >= 1 /\ Head(fromModule) = fromModule[1]
    BY <1>1, TailFacts DEF SaharaInv, SaharaTyped
  <1>3. /\ Before /\ sahFiles = <<>> /\ wide \in BOOLEAN /\ sahFaults \in Nat /\ toModule \in Seq(Requests)
        /\ late \in BOOLEAN /\ gap \in BOOLEAN /\ TableLen \in Nat /\ sahCur \in Nat
    BY <1>1 DEF SaharaInv, Place, Before, SaharaTyped, SaharaTypeOK, TableLen
  <1>4. wide' \in BOOLEAN
    <2>1. (c = "DEBUG64") \in BOOLEAN
      BY Zenon
    <2> QED BY <1>1, <1>3, <2>1, Zenon
  <1>5. ~late => toModule = <<>> /\ (Len(fromModule) = 1 \/ (Len(fromModule) = 2 /\ c = "HELLO"))
    BY <1>1, <1>2 DEF SaharaInv, Line
  <1>6. ~late /\ Len(fromModule) = 1 => fromModule' = <<>>
    <2>1. Len(fromModule) = 1 => Len(fromModule') = 0
      BY <1>2
    <2> QED BY <1>2, <2>1, EmptySeq
  <1>7. CASE c \in {"DEBUG32", "DEBUG64"}
    <2>1. TableAnnounced
      BY <1>7 DEF WaitTwo
    <2>2. ~late => toModule = <<>> /\ fromModule' = <<>>
      BY <1>5, <1>6, <1>7
    <2>3. Read(0, 0, TableLen) \in Requests
      BY <1>3, RequestFacts
    <2>4. CASE q_state' = "WAIT_SEVEN" /\ sahRet' = sahRet /\ toModule' \in Seq(Requests) /\ sahFaults' \in Nat
               /\ (toModule' = toModule \/ (TableLen > 0 /\ toModule' = Append(toModule, Read(0, 0, TableLen))))
      <3>1. ~late => toModule' = <<>> \/ (TableLen > 0 /\ toModule' = <<Read(0, 0, TableLen)>>)
        BY <2>2, <2>4
      <3>2. TableLen' = TableLen
        BY <1>1 DEF TableLen
      <3>3. Line'
        BY <1>1, <2>2, <2>4, <3>1, <3>2 DEF Line
      <3>4. Before'
        BY <2>4 DEF Before
      <3> QED BY <1>1, <1>2, <1>3, <1>4, <2>4, <3>3, <3>4, NoFileYet
    <2>5. CASE q_state' = "done" /\ sahRet' = "false" /\ toModule' \in Seq(Requests) /\ sahFaults' \in Nat
      BY <1>1, <1>2, <1>3, <1>4, <2>5, Ended
    <2>6. CASE TableLen = 0
      BY <1>3, <2>1, <2>4, <2>6 DEF TableAnnounced
    <2>7. CASE TableLen # 0 /\ TableLen > RawBuf
      <3>1. Append(toModule, Read(0, 0, TableLen)) \in Seq(Requests)
        BY <1>3, <2>3, AppendFacts
      <3> QED BY <1>3, <2>1, <2>5, <2>7, <3>1 DEF TableAnnounced, Returns
    <2>8. CASE TableLen # 0 /\ ~(TableLen > RawBuf)
      <3>1. Send(Read(0, 0, TableLen), "WAIT_SEVEN")
        BY <2>1, <2>8 DEF TableAnnounced
      <3>2. TableLen > 0
        BY <1>3, <2>8
      <3> QED BY <2>3, <2>4, <2>5, <3>1, <3>2, SendFacts DEF SaharaInv
    <2> QED BY <2>6, <2>7, <2>8
  <1>8. CASE c = "HELLO"
    <2>1. UNCHANGED <<q_state, sahRet, toModule, sahFaults>>
      BY <1>8 DEF WaitTwo
    <2>2. Len(fromModule) = 2 => Len(fromModule') = 1
      BY <1>2
    <2>3. Line'
      BY <1>1, <1>5, <1>6, <2>1, <2>2 DEF Line
    <2>4. Before'
      BY <1>1, <2>1 DEF Before
    <2> QED BY <1>1, <1>2, <1>3, <1>4, <2>1, <2>3, <2>4, NoFileYet
  <1>9. CASE c \notin {"DEBUG32", "DEBUG64", "HELLO"}
    <2>1. send_reset_command /\ wide' = wide
      BY <1>1, <1>9 DEF WaitTwo
    <2> QED BY <1>1, <1>2, <1>3, <2>1, ResetSent
  <1> QED BY <1>7, <1>8, <1>9

\* The table is read.
LEMMA WaitSevenStep ==
    ASSUME SaharaInv, WaitSeven
    PROVE  SaharaInv'
  <1>1. /\ q_state = "WAIT_SEVEN" /\ Len(fromModule) >= TableLen
        /\ fromModule' = SubSeq(fromModule, TableLen + 1, Len(fromModule))
        /\ UNCHANGED <<wide, maxRead, sahTable, sahSeg, sahCur, sahLen, sahFiles, toModule, sahFaults, late, gap>>
    BY DEF WaitSeven
  <1>2. /\ Before /\ sahFiles = <<>> /\ sahSeg = 1 /\ sahFaults \in Nat /\ toModule \in Seq(Requests)
        /\ late \in BOOLEAN /\ gap \in BOOLEAN /\ TableLen \in Nat /\ sahCur \in Nat /\ fromModule \in Seq(Items)
    BY <1>1 DEF SaharaInv, Place, Before, SaharaTyped, SaharaTypeOK, TableLen
  <1>3. fromModule' \in Seq(Items) /\ Len(fromModule') = Len(fromModule) - TableLen
    BY <1>1, <1>2, CutFacts
  <1>4. CASE ~wide /\ TableLen > Table32Max
    <2>1. q_state' = "done" /\ sahRet' = "false"
      BY <1>4 DEF WaitSeven, Returns
    <2> QED BY <1>1, <1>2, <1>3, <2>1, Ended DEF SaharaInv, SaharaTyped, SaharaTypeOK
  <1>5. CASE ~(~wide /\ TableLen > Table32Max)
    <2>1. q_state' = "WAIT_EIGHT" /\ sahRet' = sahRet
      BY <1>5 DEF WaitSeven
    <2>2. ~late => toModule = <<>> /\ fromModule' = <<>>
      <3>1. Len(fromModule) \in Nat /\ (fromModule = <<>> => Len(fromModule) = 0)
        BY <1>2
      <3>2. ~late => Len(fromModule) = TableLen /\ toModule = <<>>
        <4>1. fromModule = <<>> => TableLen = 0
          BY <1>1, <1>2, <3>1
        <4> QED BY <1>1, <1>2, <3>1, <4>1 DEF SaharaInv, Line
      <3>3. ~late => Len(fromModule') = 0
        BY <1>2, <1>3, <3>1, <3>2
      <3> QED BY <1>3, <3>2, <3>3, EmptySeq
    <2>3. SaharaTyped'
      BY <1>1, <1>3, <2>1 DEF SaharaInv, SaharaTyped, SaharaTypeOK, TableLen
    <2>4. Place'
      <3>1. Len(sahFiles') = sahSeg' - 1
        BY <1>1, <1>2
      <3> QED BY <1>1, <2>1, <3>1 DEF SaharaInv, SaharaTyped, SaharaTypeOK, Place, Before, Within
    <2>5. ~Within'
      BY <2>1 DEF Within
    <2>6. Lengths' /\ SaharaExact'
      BY <1>1, <2>5, FilesKept DEF SaharaInv
    <2>7. Line'
      <3>1. ~late => Empties'
        BY <1>1, <2>2 DEF Empties
      <3> QED BY <1>1, <2>1, <2>2, <3>1 DEF Line
    <2> QED BY <2>3, <2>4, <2>6, <2>7 DEF SaharaInv
  <1> QED BY <1>4, <1>5

\* The host gives up on the table.
LEMMA NoTableStep ==
    ASSUME SaharaInv, NoTable
    PROVE  SaharaInv'
  <1>1. /\ q_state' = "done" /\ sahRet' = "false"
        /\ UNCHANGED <<wide, maxRead, sahTable, sahSeg, sahCur, sahLen, sahFiles, fromModule, toModule, sahFaults, late, gap>>
    BY DEF NoTable, Returns
  <1> QED BY <1>1, Ended DEF SaharaInv, SaharaTyped, SaharaTypeOK

\* The file of the next segment is created, or the program exits.
LEMMA CreateFileStep ==
    ASSUME SaharaInv, CreateFile
    PROVE  SaharaInv'
  <1>1. /\ q_state = "WAIT_EIGHT" /\ sahSeg <= TableLen /\ sahCur' = 0
        /\ UNCHANGED <<wide, maxRead, sahTable, sahSeg, sahLen, fromModule, toModule, late, gap>>
    BY DEF CreateFile
  <1>2. /\ sahFiles \in Seq(Seq(Items)) /\ sahTable \in Seq(Nat) /\ sahSeg \in Nat /\ sahSeg >= 1 /\ TableLen \in Nat
        /\ Len(sahFiles) = sahSeg - 1 /\ sahFaults \in Nat /\ late \in BOOLEAN /\ gap \in BOOLEAN
        /\ Len(sahFiles) \in Nat
    BY <1>1 DEF SaharaInv, Place, SaharaTyped, SaharaTypeOK, TableLen
  <1>3. CASE Fault /\ Returns("exit") /\ UNCHANGED sahFiles
    <2>1. sahFaults' \in Nat
      BY <1>2, <1>3, FaultFacts
    <2> QED BY <1>1, <1>2, <1>3, <2>1, Ended DEF SaharaInv, SaharaTyped, SaharaTypeOK, Returns
  <1>4. CASE sahFiles' = Append(sahFiles, <<>>) /\ q_state' = "REQUEST" /\ UNCHANGED <<sahRet, sahFaults>>
    <2>1. /\ sahFiles' \in Seq(Seq(Items)) /\ Len(sahFiles') = sahSeg
          /\ \A i \in 1 .. sahSeg - 1 : sahFiles'[i] = sahFiles[i]
          /\ sahFiles'[sahSeg] = <<>>
      <3>1. PICK e \in Seq(Items) : e = <<>>
        BY NothingFacts, Zenon
      <3>2. /\ Append(sahFiles, e) \in Seq(Seq(Items)) /\ Len(Append(sahFiles, e)) = Len(sahFiles) + 1
            /\ \A i \in 1 .. Len(sahFiles) : Append(sahFiles, e)[i] = sahFiles[i]
            /\ Append(sahFiles, e)[Len(sahFiles) + 1] = e
        BY <1>2, <3>1, AppendFacts
      <3>3. Len(sahFiles) + 1 = sahSeg
        BY <1>2
      <3> QED BY <1>2, <1>4, <3>1, <3>2, <3>3
    <2>2. sahTable[sahSeg] \in Nat /\ sahSeg \in 1 .. TableLen
      BY <1>1, <1>2 DEF TableLen
    <2>3. SaharaTyped'
      <3>1. Len(sahFiles') <= TableLen'
        BY <1>1, <2>1 DEF TableLen
      <3> QED BY <1>1, <1>4, <2>1, <3>1 DEF SaharaInv, SaharaTyped, SaharaTypeOK, TableLen
    <2>4. Place'
      <3>1. sahRet # "true"
        BY <1>1 DEF SaharaInv, SaharaTyped, SaharaTypeOK
      <3> QED BY <1>1, <1>4, <2>1, <2>2, <3>1 DEF Place, Before, Within, TableLen
    <2>5. Lengths'
      <3>1. ~gap => \A s \in 1 .. sahSeg - 1 : Len(sahFiles[s]) <= sahTable[s] /\ Len(sahFiles[s]) = sahTable[s]
        BY <1>2 DEF SaharaInv, Lengths
      <3>2. ASSUME ~gap, NEW s \in 1 .. Len(sahFiles')
            PROVE  Len(sahFiles'[s]) <= sahTable[s] /\ (s < sahSeg => Len(sahFiles'[s]) = sahTable[s])
        <4>1. CASE s = sahSeg
          BY <1>2, <2>1, <2>2, <4>1
        <4>2. CASE s \in 1 .. sahSeg - 1
          BY <2>1, <3>1, <3>2, <4>2
        <4> QED BY <1>2, <2>1, <4>1, <4>2
      <3>3. Len(sahFiles'[sahSeg]) = sahCur'
        BY <1>1, <2>1
      <3> QED BY <1>1, <3>2, <3>3 DEF Lengths
    <2>6. SaharaExact'
      <3>1. late \/ gap \/ \A s \in 1 .. sahSeg - 1 :
                /\ Len(sahFiles[s]) <= sahTable[s]
                /\ \A i \in DOMAIN sahFiles[s] : sahFiles[s][i] = Block(s, i - 1)
        BY <1>2 DEF SaharaInv, SaharaExact
      <3>2. ASSUME ~late, ~gap, NEW s \in 1 .. sahSeg
            PROVE  /\ Len(sahFiles'[s]) <= sahTable[s]
                   /\ \A i \in DOMAIN sahFiles'[s] : sahFiles'[s][i] = Block(s, i - 1)
        <4>1. CASE s = sahSeg
          BY <1>2, <2>1, <2>2, <4>1
        <4>2. CASE s \in 1 .. sahSeg - 1
          BY <2>1, <3>1, <3>2, <4>2
        <4> QED BY <1>2, <4>1, <4>2
      <3>3. DOMAIN sahFiles' = 1 .. sahSeg
        BY <2>1
      <3> QED BY <1>1, <3>2, <3>3 DEF SaharaExact
    <2>7. Line'
      BY <1>1, <1>4 DEF SaharaInv, Line, Empties
    <2> QED BY <2>3, <2>4, <2>5, <2>6, <2>7 DEF SaharaInv
  <1> QED BY <1>3, <1>4 DEF CreateFile

\* After the last segment the module is reset.
LEMMA AllReadStep ==
    ASSUME SaharaInv, AllRead
    PROVE  SaharaInv'
  <1>1. /\ q_state = "WAIT_EIGHT" /\ sahSeg > TableLen /\ send_reset_command
        /\ UNCHANGED <<wide, maxRead, sahTable, sahSeg, sahCur, sahLen, sahFiles, fromModule, late, gap>>
    BY DEF AllRead
  <1>2. Len(sahFiles) = TableLen /\ sahSeg = TableLen + 1 /\ fromModule \in Seq(Items)
    BY <1>1 DEF SaharaInv, Place, SaharaTyped, SaharaTypeOK, TableLen
  <1> QED BY <1>1, <1>2, ResetSent

\* A request stays within its segment and within the largest length.
LEMMA NextLenFacts ==
    ASSUME maxRead \in 1 .. RawBuf, NEW rest \in Nat
    PROVE  NextLen(rest) \in 0 .. RawBuf /\ NextLen(rest) <= rest
  <1>1. Word \in Nat \ {0} /\ RawBuf \in Nat
    BY SaharaAssumption
  <1>2. PICK m \in Nat : m = rest % Word /\ m <= rest
    BY <1>1, ModBelow
  <1>3. NextLen(rest) = IF m < maxRead THEN m ELSE maxRead
    BY <1>2 DEF NextLen
  <1> QED BY <1>1, <1>2, <1>3

\* The host asks for the next piece of a segment.
LEMMA MemoryReadStep ==
    ASSUME SaharaInv, MemoryRead
    PROVE  SaharaInv'
  <1>1. /\ q_state = "REQUEST" /\ sahCur < sahTable[sahSeg]
        /\ sahLen' = NextLen(sahTable[sahSeg] - sahCur)
        /\ Send(Read(sahSeg, sahCur, sahLen'), "RECEIVE")
        /\ UNCHANGED <<wide, maxRead, sahTable, sahSeg, sahCur, sahFiles, fromModule, late, gap>>
    BY DEF MemoryRead
  <1>2. /\ sahSeg \in 1 .. TableLen /\ Len(sahFiles) = sahSeg /\ sahTable \in Seq(Nat) /\ sahCur \in Nat
        /\ maxRead \in 1 .. RawBuf /\ toModule \in Seq(Requests) /\ fromModule \in Seq(Items) /\ Within
        /\ late \in BOOLEAN /\ gap \in BOOLEAN /\ wide \in BOOLEAN
    BY <1>1 DEF SaharaInv, Place, Within, SaharaTyped, SaharaTypeOK
  <1>3. sahTable[sahSeg] \in Nat /\ sahSeg \in Nat
    BY <1>2 DEF TableLen
  <1>4. sahLen' \in 0 .. RawBuf /\ sahCur + sahLen' <= sahTable[sahSeg] /\ sahLen' \in Nat
    <2>1. PICK r \in Nat : r = sahTable[sahSeg] - sahCur
      BY <1>1, <1>2, <1>3
    <2>2. PICK l \in 0 .. RawBuf : l = NextLen(r) /\ l <= r
      BY <1>2, NextLenFacts
    <2>3. sahLen' = l
      BY <1>1, <2>1, <2>2, SMTT(30)
    <2> QED BY <1>2, <1>3, <2>1, <2>2, <2>3
  <1>5. Read(sahSeg, sahCur, sahLen') \in Requests
    BY <1>2, <1>3, <1>4, RequestFacts
  <1>6. /\ toModule' \in Seq(Requests) /\ sahFaults' \in Nat
        /\ \/ q_state' = "RECEIVE" /\ sahRet' = sahRet /\ toModule' = Append(toModule, Read(sahSeg, sahCur, sahLen'))
           \/ q_state' = "done" /\ sahRet' = "false"
    BY <1>1, <1>5, SendFacts DEF SaharaInv
  <1>7. SaharaTyped'
    BY <1>1, <1>2, <1>4, <1>6 DEF SaharaInv, SaharaTyped, SaharaTypeOK, TableLen
  <1>8. Place'
    <2>1. sahRet # "true"
      BY <1>1 DEF SaharaInv, SaharaTyped, SaharaTypeOK
    <2> QED BY <1>1, <1>2, <1>4, <1>6, <2>1 DEF SaharaInv, Place, Before, Within, TableLen
  <1>9. Lengths' /\ SaharaExact'
    BY <1>1, <1>2, FilesKept DEF SaharaInv
  <1>10. Line'
    <2>1. CASE q_state' = "done"
      BY <2>1 DEF Line
    <2>2. CASE q_state' = "RECEIVE" /\ toModule' = Append(toModule, Read(sahSeg, sahCur, sahLen'))
      <3>1. ~late => fromModule = <<>> /\ Empties
        BY <1>1 DEF SaharaInv, Line
      <3>2. /\ Len(toModule') = Len(toModule) + 1 /\ Len(toModule) \in Nat
            /\ \A i \in 1 .. Len(toModule) : toModule'[i] = toModule[i]
            /\ toModule'[Len(toModule) + 1] = Read(sahSeg, sahCur, sahLen')
        BY <1>2, <1>5, <2>2, AppendFacts
      <3>3. /\ Len(toModule') > 0 /\ toModule'[Len(toModule')] = Read(sahSeg, sahCur, sahLen')
            /\ 1 .. Len(toModule') - 1 = 1 .. Len(toModule)
        BY <3>2
      <3>4. ~late => Asking'
        BY <1>1, <3>1, <3>2, <3>3 DEF Asking, Empties
      <3> QED BY <1>1, <2>2, <3>1, <3>4 DEF Line
    <2> QED BY <1>6, <2>1, <2>2
  <1> QED BY <1>7, <1>8, <1>9, <1>10 DEF SaharaInv

\* A segment is complete.
LEMMA SegmentDoneStep ==
    ASSUME SaharaInv, SegmentDone
    PROVE  SaharaInv'
  <1>1. /\ q_state = "REQUEST" /\ sahCur >= sahTable[sahSeg] /\ q_state' = "WAIT_EIGHT" /\ sahSeg' = sahSeg + 1
        /\ UNCHANGED <<sahRet, wide, maxRead, sahTable, sahCur, sahLen, sahFiles, fromModule, toModule, sahFaults, late, gap>>
    BY DEF SegmentDone
  <1>2. /\ sahSeg \in 1 .. TableLen /\ Len(sahFiles) = sahSeg /\ sahTable \in Seq(Nat) /\ sahCur \in Nat
        /\ sahCur <= sahTable[sahSeg] /\ TableLen \in Nat /\ Within
    BY <1>1 DEF SaharaInv, Place, Within, SaharaTyped, SaharaTypeOK, TableLen
  <1>3. sahTable[sahSeg] \in Nat /\ sahCur = sahTable[sahSeg]
    BY <1>1, <1>2 DEF TableLen
  <1>4. SaharaTyped'
    <2>1. sahSeg' \in 1 .. TableLen' + 1 /\ TableLen' = TableLen
      BY <1>1, <1>2 DEF TableLen
    <2> QED BY <1>1, <2>1 DEF SaharaInv, SaharaTyped, SaharaTypeOK
  <1>5. Place'
    <2>1. sahRet # "true" /\ Len(sahFiles') = sahSeg' - 1
      BY <1>1, <1>2 DEF SaharaInv, SaharaTyped, SaharaTypeOK
    <2> QED BY <1>1, <2>1 DEF Place, Before, Within
  <1>6. Lengths'
    <2>1. ASSUME ~gap, NEW s \in 1 .. Len(sahFiles)
          PROVE  Len(sahFiles[s]) <= sahTable[s] /\ (s < sahSeg + 1 => Len(sahFiles[s]) = sahTable[s])
      <3>1. /\ Len(sahFiles[s]) <= sahTable[s] /\ (s < sahSeg => Len(sahFiles[s]) = sahTable[s])
            /\ Len(sahFiles[sahSeg]) = sahCur
        BY <1>2, <2>1 DEF SaharaInv, Lengths
      <3>2. s < sahSeg \/ s = sahSeg
        BY <1>2
      <3> QED BY <1>3, <3>1, <3>2
    <2>2. ~Within'
      BY <1>1 DEF Within
    <2> QED BY <1>1, <2>1, <2>2 DEF Lengths
  <1>7. SaharaExact'
    BY <1>1 DEF SaharaInv, SaharaExact
  <1>8. Line'
    BY <1>1 DEF SaharaInv, Line, Empties
  <1> QED BY <1>4, <1>5, <1>6, <1>7, <1>8 DEF SaharaInv

\* A file of several grows.
LEMMA FileGrows ==
    ASSUME NEW S, NEW files \in Seq(Seq(S)), NEW s \in 1 .. Len(files), NEW part \in Seq(S)
    PROVE  LET new == [files EXCEPT ![s] = @ \o part]
           IN  /\ new \in Seq(Seq(S)) /\ Len(new) = Len(files) /\ new[s] = files[s] \o part
               /\ \A t \in 1 .. Len(files) : t # s => new[t] = files[t]
  <1> DEFINE new == [files EXCEPT ![s] = @ \o part]
  <1>1. files[s] \o part \in Seq(S)
    BY ConcatFacts
  <1>2. new \in [1 .. Len(files) -> Seq(S)] /\ Len(files) \in Nat
    BY <1>1
  <1>3. new \in Seq(Seq(S)) /\ Len(new) = Len(files)
    BY <1>2
  <1> QED BY <1>3

\* The blocks a request asks for.
LEMMA BlocksFacts ==
    ASSUME NEW s \in Nat, NEW o \in Nat, NEW n \in Nat
    PROVE  /\ Blocks(s, o, n) \in Seq(Items) /\ Len(Blocks(s, o, n)) = n
           /\ \A i \in 1 .. n : Blocks(s, o, n)[i] = Block(s, o + i - 1)
           /\ (n = 0 => Blocks(s, o, n) = <<>>)
  <1>1. \A i \in 1 .. n : Block(s, o + i - 1) \in Items
    <2> SUFFICES ASSUME NEW i \in 1 .. n PROVE Block(s, o + i - 1) \in Items
      OBVIOUS
    <2>1. o + i - 1 \in Nat
      OBVIOUS
    <2> QED BY <2>1, RequestFacts
  <1>2. Blocks(s, o, n) \in Seq(Items) /\ Len(Blocks(s, o, n)) = n
    BY <1>1 DEF Blocks
  <1>3. \A i \in 1 .. n : Blocks(s, o, n)[i] = Block(s, o + i - 1)
    BY DEF Blocks
  <1> QED BY <1>2, <1>3, EmptySeq

\* A file that is right so far, and the blocks that follow.
LEMMA BlocksAdded ==
    ASSUME NEW s \in Nat, NEW n \in Nat, NEW file \in Seq(Items),
           \A i \in DOMAIN file : file[i] = Block(s, i - 1)
    PROVE  \A i \in DOMAIN (file \o Blocks(s, Len(file), n)) :
              (file \o Blocks(s, Len(file), n))[i] = Block(s, i - 1)
  <1>1. PICK m \in Nat : m = Len(file)
    OBVIOUS
  <1> DEFINE b == Blocks(s, m, n)
             f == file \o b
  <1>2. b \in Seq(Items) /\ Len(b) = n /\ \A i \in 1 .. n : b[i] = Block(s, m + i - 1)
    BY BlocksFacts
  <1> HIDE DEF b
  <1>3. /\ f \in Seq(Items) /\ Len(f) = m + n /\ \A i \in 1 .. m : f[i] = file[i]
        /\ \A i \in 1 .. n : f[m + i] = b[i]
    <2>1. b \in Seq(Items)
      BY <1>2
    <2>2. /\ f \in Seq(Items) /\ Len(f) = Len(file) + Len(b) /\ \A i \in 1 .. Len(file) : f[i] = file[i]
          /\ \A i \in 1 .. Len(b) : f[Len(file) + i] = b[i]
      BY ONLY <2>1, file \in Seq(Items), ConcatFacts
    <2> HIDE DEF f
    <2> QED BY <1>1, <1>2, <2>2
  <1> HIDE DEF f
  <1>4. ASSUME NEW i \in 1 .. m + n PROVE f[i] = Block(s, i - 1)
    <2>1. CASE i \in 1 .. m
      BY <1>1, <1>3, <2>1
    <2>2. CASE i \notin 1 .. m
      <3>1. PICK j \in 1 .. n : i = m + j
        BY <1>4, <2>2
      <3>2. f[i] = Block(s, m + j - 1)
        BY <1>2, <1>3, <3>1
      <3> QED BY <3>1, <3>2
    <2> QED BY <2>1, <2>2
  <1>5. DOMAIN f = 1 .. m + n
    BY <1>3
  <1> QED BY <1>1, <1>4, <1>5 DEF f, b

\* A block arrives and is written.
LEMMA MemoryBlockStep ==
    ASSUME SaharaInv, MemoryBlock
    PROVE  SaharaInv'
  <1>1. /\ q_state = "RECEIVE" /\ sahLen > 0 /\ Len(fromModule) >= sahLen
        /\ fromModule' = SubSeq(fromModule, sahLen + 1, Len(fromModule)) /\ sahCur' = sahCur + sahLen
        /\ UNCHANGED <<wide, maxRead, sahTable, sahSeg, sahLen, toModule, late>>
    BY DEF MemoryBlock
  <1>2. PICK n \in {sahLen, sahLen - 1, -1} :
            /\ IF n = sahLen THEN UNCHANGED sahFaults ELSE Fault
            /\ IF n < 0 THEN Returns("false") ELSE q_state' = "REQUEST" /\ UNCHANGED sahRet
            /\ sahFiles' = [sahFiles EXCEPT ![sahSeg] = @ \o SubSeq(fromModule, 1, n)]
            /\ gap' = (gap \/ n # sahLen)
    BY DEF MemoryBlock
  <1> DEFINE part == SubSeq(fromModule, 1, n)
  <1>3. /\ sahSeg \in 1 .. TableLen /\ Len(sahFiles) = sahSeg /\ sahTable \in Seq(Nat) /\ sahCur \in Nat
        /\ sahCur + sahLen <= sahTable[sahSeg] /\ TableLen \in Nat /\ Within /\ sahLen \in Nat
        /\ fromModule \in Seq(Items) /\ sahFiles \in Seq(Seq(Items)) /\ sahFaults \in Nat
    BY <1>1, SaharaAssumption DEF SaharaInv, Place, Within, SaharaTyped, SaharaTypeOK, TableLen
  <1>4. late \in BOOLEAN /\ gap \in BOOLEAN /\ wide \in BOOLEAN /\ toModule \in Seq(Requests) /\ sahRet = "none"
    BY <1>1 DEF SaharaInv, SaharaTyped, SaharaTypeOK
  <1>5. sahTable[sahSeg] \in Nat /\ sahSeg \in 1 .. Len(sahFiles) /\ sahSeg \in Nat
    BY <1>3 DEF TableLen
  <1>6. fromModule' \in Seq(Items) /\ Len(fromModule') = Len(fromModule) - sahLen
    BY <1>1, <1>3, CutFacts
  <1>7. part \in Seq(Items) /\ (n >= 0 => Len(part) = n /\ \A i \in 1 .. n : part[i] = fromModule[i])
    <2>1. CASE n = -1
      BY <1>3, <2>1, NoneFacts
    <2>2. CASE n # -1
      <3>1. n \in Nat /\ n <= Len(fromModule)
        BY <1>1, <1>2, <1>3, <2>2
      <3> QED BY <1>3, <3>1, CutFacts
    <2> QED BY <2>1, <2>2
  <1>8. /\ sahFiles' \in Seq(Seq(Items)) /\ Len(sahFiles') = sahSeg
        /\ sahFiles'[sahSeg] = sahFiles[sahSeg] \o part
        /\ \A t \in 1 .. sahSeg : t # sahSeg => sahFiles'[t] = sahFiles[t]
    BY <1>2, <1>3, <1>5, <1>7, FileGrows, SMTT(30)
  <1>9. sahFaults' \in Nat
    BY <1>2, <1>3, FaultFacts
  <1>10. gap' \in BOOLEAN /\ (gap => gap') /\ (~gap' => ~gap /\ n = sahLen)
    <2>1. (gap \/ n # sahLen) \in BOOLEAN
      BY Zenon
    <2> QED BY <1>2, <2>1, Zenon
  <1>11. n < 0 \/ n >= 0
    BY <1>2, <1>3
  <1> HIDE DEF part
  <1>12. SaharaTyped'
    <2>1. sahCur' \in Nat /\ Len(sahFiles') <= TableLen' /\ sahSeg' \in 1 .. TableLen' + 1
      <3>1. sahCur + sahLen \in Nat
        BY <1>3
      <3>2. sahSeg <= TableLen /\ sahSeg \in 1 .. TableLen + 1
        BY <1>3
      <3>3. TableLen' = TableLen
        BY <1>1 DEF TableLen
      <3> QED BY <1>1, <1>8, <3>1, <3>2, <3>3
    <2>2. \/ q_state' = "done" /\ sahRet' = "false"
          \/ q_state' = "REQUEST" /\ sahRet' = "none"
      BY <1>2, <1>4, <1>11 DEF Returns
    <2>3. SaharaTypeOK'
      BY <1>1, <2>1, <2>2 DEF SaharaInv, SaharaTyped, SaharaTypeOK
    <2> QED BY <1>1, <1>3, <1>4, <1>6, <1>8, <1>9, <1>10, <2>3 DEF SaharaTyped
  <1>13. Place'
    <2>1. sahRet' # "true" /\ q_state' \in {"done", "REQUEST"}
      BY <1>2, <1>4, <1>11 DEF Returns
    <2>2. Len(sahFiles') = sahSeg' /\ sahSeg' \in 1 .. TableLen' /\ sahCur' <= sahTable'[sahSeg']
      BY <1>1, <1>3, <1>8 DEF TableLen
    <2> QED BY <2>1, <2>2 DEF Place, Before, Within
  <1>14. Lengths'
    <2> SUFFICES ASSUME ~gap'
                 PROVE  /\ \A s \in 1 .. sahSeg : Len(sahFiles'[s]) <= sahTable[s] /\ (s < sahSeg => Len(sahFiles'[s]) = sahTable[s])
                        /\ Len(sahFiles'[sahSeg]) = sahCur'
      BY <1>1, <1>8 DEF Lengths
    <2>1. ~gap /\ n = sahLen /\ n >= 0
      BY <1>3, <1>10
    <2>2. /\ \A s \in 1 .. sahSeg : Len(sahFiles[s]) <= sahTable[s] /\ (s < sahSeg => Len(sahFiles[s]) = sahTable[s])
          /\ Len(sahFiles[sahSeg]) = sahCur
      BY <1>3, <2>1 DEF SaharaInv, Lengths
    <2>3. sahFiles[sahSeg] \in Seq(Items)
      BY <1>3, <1>5
    <2>4. Len(sahFiles[sahSeg] \o part) = sahCur + sahLen
      <3>1. Len(sahFiles[sahSeg] \o part) = Len(sahFiles[sahSeg]) + Len(part)
        <4>1. PICK u \in Seq(Items) : u = sahFiles[sahSeg]
          BY <2>3
        <4>2. PICK v \in Seq(Items) : v = part
          BY <1>7
        <4>3. Len(u \o v) = Len(u) + Len(v)
          BY ConcatFacts
        <4> QED BY <4>1, <4>2, <4>3, Zenon
      <3>2. Len(part) = sahLen
        BY <1>7, <2>1
      <3> QED BY <2>2, <3>1, <3>2, Zenon
    <2>5. Len(sahFiles'[sahSeg]) = sahCur' /\ Len(sahFiles'[sahSeg]) <= sahTable[sahSeg] /\ ~(sahSeg < sahSeg)
      <3>1. Len(sahFiles'[sahSeg]) = sahCur + sahLen
        BY <1>8, <2>4, Zenon
      <3> QED BY <1>1, <1>3, <1>5, <3>1
    <2>6. ASSUME NEW s \in 1 .. sahSeg
          PROVE  Len(sahFiles'[s]) <= sahTable[s] /\ (s < sahSeg => Len(sahFiles'[s]) = sahTable[s])
      <3>1. CASE s = sahSeg
        BY <2>5, <3>1, Zenon
      <3>2. CASE s # sahSeg
        <4>1. sahFiles'[s] = sahFiles[s]
          BY <1>8, <3>2, Zenon
        <4> QED BY <2>2, <4>1, Zenon
      <3> QED BY <3>1, <3>2
    <2> QED BY <2>5, <2>6
  <1>15. Line'
    <2>1. ~late => fromModule = Blocks(sahSeg, sahCur, sahLen) /\ Empties
      <3>1. fromModule # <<>>
        BY <1>1, <1>3
      <3> QED BY <1>1, <3>1 DEF SaharaInv, Line
    <2>2. Len(Blocks(sahSeg, sahCur, sahLen)) = sahLen
      BY <1>3, <1>5, BlocksFacts
    <2>3. ~late => fromModule' = <<>>
      <3>1. ~late => Len(fromModule') = 0
        BY <1>3, <1>6, <2>1, <2>2
      <3> QED BY <1>6, <3>1, EmptySeq
    <2>4. q_state' \in {"done", "REQUEST"}
      BY <1>2, <1>11 DEF Returns
    <2>5. Empties => Empties'
      BY <1>1 DEF Empties
    <2> QED BY <1>1, <2>1, <2>3, <2>4, <2>5 DEF Line
  <1>16. SaharaExact'
    <2> SUFFICES ASSUME ~late, ~gap', NEW s \in 1 .. sahSeg
                 PROVE  /\ Len(sahFiles'[s]) <= sahTable[s]
                        /\ \A i \in DOMAIN sahFiles'[s] : sahFiles'[s][i] = Block(s, i - 1)
      <3>1. DOMAIN sahFiles' = 1 .. sahSeg
        BY <1>8
      <3> QED BY <1>1, <3>1 DEF SaharaExact
    <2>1. ~gap /\ n = sahLen /\ n >= 0
      BY <1>3, <1>10
    <2>2. DOMAIN sahFiles = 1 .. sahSeg
      BY <1>3
    <2>3. Len(sahFiles[s]) <= sahTable[s] /\ \A i \in DOMAIN sahFiles[s] : sahFiles[s][i] = Block(s, i - 1)
      BY <2>1, <2>2 DEF SaharaInv, SaharaExact
    <2>4. CASE s # sahSeg
      BY <1>8, <2>3, <2>4
    <2>5. CASE s = sahSeg
      <3>1. Len(sahFiles'[sahSeg]) <= sahTable[sahSeg]
        BY <1>1, <1>5, <1>8, <1>14 DEF Lengths
      <3>2. fromModule = Blocks(sahSeg, sahCur, sahLen)
        <4>1. fromModule # <<>>
          BY <1>1, <1>3
        <4> QED BY <1>1, <4>1 DEF SaharaInv, Line
      <3>3. Len(fromModule) = sahLen
        BY <1>3, <1>5, <3>2, BlocksFacts
      <3>4. part = fromModule
        <4>1. Len(part) = Len(fromModule) /\ \A i \in 1 .. Len(part) : part[i] = fromModule[i]
          BY <1>7, <2>1, <3>3
        <4> QED BY <1>3, <1>7, <4>1, SeqEqual
      <3>5. Len(sahFiles[sahSeg]) = sahCur /\ sahFiles[sahSeg] \in Seq(Items)
        BY <1>3, <1>5, <2>1 DEF SaharaInv, Lengths
      <3>6. \A i \in DOMAIN sahFiles'[sahSeg] : sahFiles'[sahSeg][i] = Block(sahSeg, i - 1)
        <4>1. \A i \in DOMAIN sahFiles[sahSeg] : sahFiles[sahSeg][i] = Block(sahSeg, i - 1)
          BY <2>3, <2>5
        <4>2. sahFiles'[sahSeg] = sahFiles[sahSeg] \o Blocks(sahSeg, Len(sahFiles[sahSeg]), sahLen)
          BY <1>8, <3>2, <3>4, <3>5, Zenon
        <4>3. PICK f \in Seq(Items) : f = sahFiles[sahSeg]
          BY <3>5
        <4>4. \A i \in DOMAIN (f \o Blocks(sahSeg, Len(f), sahLen)) :
                  (f \o Blocks(sahSeg, Len(f), sahLen))[i] = Block(sahSeg, i - 1)
          <5>1. sahSeg \in Nat /\ sahLen \in Nat /\ \A i \in DOMAIN f : f[i] = Block(sahSeg, i - 1)
            BY <1>3, <1>5, <4>1, <4>3, Zenon
          <5> QED BY <5>1, BlocksAdded, SMTT(30)
        <4> QED BY <4>2, <4>3, <4>4, Zenon
      <3> QED BY <2>5, <3>1, <3>6
    <2> QED BY <2>4, <2>5
  <1> QED BY <1>12, <1>13, <1>14, <1>15, <1>16 DEF SaharaInv

\* A request that is not among those the module has is not under way.
LEMMA NotAsked ==
    ASSUME toModule \in Seq(Requests), Asking
    PROVE  Read(sahSeg, sahCur, sahLen) \in Range(toModule)
  <1>1. Len(toModule) \in DOMAIN toModule /\ toModule[Len(toModule)] = Read(sahSeg, sahCur, sahLen)
    BY DEF Asking
  <1> QED BY <1>1 DEF Range

\* A request for nothing that is under way is one more of its kind.
LEMMA AskingForNothing ==
    ASSUME toModule \in Seq(Requests), Asking, sahLen = 0
    PROVE  Empties
  <1>1. PICK n \in Nat : n = Len(toModule)
    OBVIOUS
  <1>2. \A i \in 1 .. n : i = n \/ i \in 1 .. n - 1
    OBVIOUS
  <1>3. Empty(Read(sahSeg, sahCur, sahLen))
    BY DEF Empty, Read
  <1> QED BY <1>1, <1>2, <1>3 DEF Asking, Empties

\* A wait in vain halves the largest request, or ends the dump.
LEMMA MemoryTimeoutStep ==
    ASSUME SaharaInv, MemoryTimeout
    PROVE  SaharaInv'
  <1>1. /\ q_state = "RECEIVE" /\ (sahLen = 0 \/ Len(fromModule) < sahLen)
        /\ IF maxRead > 1 THEN maxRead' = maxRead \div 2 /\ q_state' = "REQUEST" /\ UNCHANGED sahRet
                          ELSE Returns("false") /\ UNCHANGED maxRead
        /\ fromModule' = IF sahLen = 0 /\ fromModule # <<>> THEN Tail(fromModule) ELSE <<>>
        /\ late' = \/ late
                   \/ sahLen > 0 /\ fromModule # <<>>
                   \/ sahLen > 0 /\ Read(sahSeg, sahCur, sahLen) \in Range(toModule)
        /\ UNCHANGED <<wide, sahTable, sahSeg, sahCur, sahLen, sahFiles, toModule, sahFaults, gap>>
    BY DEF MemoryTimeout
  <1>2. /\ maxRead \in 1 .. RawBuf /\ RawBuf \in Nat /\ sahLen \in Nat /\ toModule \in Seq(Requests) /\ sahRet = "none"
        /\ fromModule \in Seq(Items) /\ Within
    BY <1>1, SaharaAssumption DEF SaharaInv, SaharaTyped, SaharaTypeOK, Within
  <1>3. maxRead' \in 1 .. RawBuf
    <2>1. CASE maxRead > 1
      <3>1. PICK m \in 1 .. RawBuf : m = maxRead
        BY <1>2
      <3>2. m \div 2 \in 1 .. RawBuf
        BY <1>2, <2>1, <3>1
      <3> QED BY <1>1, <2>1, <3>1, <3>2
    <2>2. CASE ~(maxRead > 1)
      BY <1>1, <1>2, <2>2
    <2> QED BY <2>1, <2>2
  <1>4. \/ q_state' = "REQUEST" /\ sahRet' = "none"
        \/ q_state' = "done" /\ sahRet' = "false"
    BY <1>1, <1>2 DEF Returns
  <1>5. fromModule' \in Seq(Items)
    <2>1. CASE fromModule # <<>>
      BY <1>1, <1>2, <2>1, TailFacts, NothingFacts
    <2>2. CASE fromModule = <<>>
      BY <1>1, <2>2, NothingFacts
    <2> QED BY <2>1, <2>2
  <1>6. late' \in BOOLEAN /\ (late => late')
    <2>1. (\/ late
           \/ sahLen > 0 /\ fromModule # <<>>
           \/ sahLen > 0 /\ Read(sahSeg, sahCur, sahLen) \in Range(toModule)) \in BOOLEAN
      BY Zenon
    <2> QED BY <1>1, <2>1, Zenon
  <1>7. SaharaTyped'
    BY <1>1, <1>3, <1>4, <1>5, <1>6 DEF SaharaInv, SaharaTyped, SaharaTypeOK, TableLen
  <1>8. Place'
    BY <1>1, <1>2, <1>4 DEF SaharaInv, Place, Before, Within, TableLen
  <1>9. Lengths' /\ SaharaExact'
    BY <1>1, <1>2, <1>6, FilesKept DEF SaharaInv
  <1>10. Line'
    <2> SUFFICES ASSUME ~late' PROVE fromModule' = <<>> /\ Empties
      BY <1>1, <1>4 DEF Line, Empties
    <2>1. ~late
      BY <1>6
    <2>2. \/ fromModule = <<>> /\ (Asking \/ Empties)
          \/ sahLen > 0 /\ fromModule = Blocks(sahSeg, sahCur, sahLen) /\ Empties
      BY <1>1, <2>1 DEF SaharaInv, Line
    <2>3. CASE sahLen = 0
      BY <1>1, <1>2, <2>2, <2>3, AskingForNothing
    <2>4. CASE sahLen > 0
      BY <1>1, <1>2, <2>2, <2>4, NotAsked
    <2> QED BY <1>2, <2>3, <2>4
  <1> QED BY <1>7, <1>8, <1>9, <1>10 DEF SaharaInv

\* A request for nothing is answered.
LEMMA ZeroReadStep ==
    ASSUME SaharaInv, ZeroRead
    PROVE  SaharaInv'
  <1>1. /\ q_state = "RECEIVE" /\ sahLen = 0 /\ fromModule # <<>> /\ fromModule' = Tail(fromModule)
        /\ q_state' = "REQUEST"
        /\ UNCHANGED <<sahRet, wide, maxRead, sahTable, sahSeg, sahCur, sahLen, sahFiles, toModule, sahFaults, late, gap>>
    BY DEF ZeroRead
  <1>2. fromModule' \in Seq(Items) /\ Within
    BY <1>1, TailFacts DEF SaharaInv, SaharaTyped, Within
  <1>3. SaharaTyped'
    BY <1>1, <1>2 DEF SaharaInv, SaharaTyped, SaharaTypeOK, TableLen
  <1>4. Place'
    BY <1>1 DEF SaharaInv, SaharaTyped, SaharaTypeOK, Place, Before, Within, TableLen
  <1>5. Lengths' /\ SaharaExact'
    BY <1>1, <1>2, FilesKept DEF SaharaInv
  <1>6. late
    BY <1>1 DEF SaharaInv, Line
  <1>7. Line'
    BY <1>1, <1>6 DEF Line
  <1> QED BY <1>3, <1>4, <1>5, <1>7 DEF SaharaInv

\* After the reset: the dump goes on waiting, or it ends in any way.
LEMMA AfterReset ==
    ASSUME SaharaInv, q_state = "WAIT_THREE",
           \/ UNCHANGED <<q_state, sahRet>>
           \/ q_state' = "done" /\ sahRet' \in {"true", "false"},
           UNCHANGED <<wide, maxRead, sahTable, sahSeg, sahCur, sahLen, sahFiles, toModule, late, gap>>,
           fromModule' \in Seq(Items), sahFaults' \in Nat
    PROVE  SaharaInv'
  <1>1. SaharaTyped'
    BY DEF SaharaInv, SaharaTyped, SaharaTypeOK, TableLen
  <1>2. Place'
    BY DEF SaharaInv, Place, Before, Within, TableLen
  <1>3. ~Within'
    BY DEF Within
  <1>4. Lengths' /\ SaharaExact'
    BY <1>3, FilesKept DEF SaharaInv
  <1>5. Line'
    BY DEF Line
  <1> QED BY <1>1, <1>2, <1>4, <1>5 DEF SaharaInv

\* A header arrives after the reset.
LEMMA WaitThreeStep ==
    ASSUME SaharaInv, WaitThree
    PROVE  SaharaInv'
  <1>1. /\ q_state = "WAIT_THREE" /\ fromModule # <<>> /\ fromModule' = Tail(fromModule)
        /\ UNCHANGED <<wide, maxRead, sahTable, sahSeg, sahCur, sahLen, sahFiles, toModule, sahFaults, late, gap>>
    BY DEF WaitThree
  <1>2. fromModule' \in Seq(Items) /\ sahFaults' \in Nat
    BY <1>1, TailFacts DEF SaharaInv, SaharaTyped
  <1>3. PICK c \in Commands : CASE c = "RESET_RESP" -> Returns("true")
                                [] c = "UNKNOWN" -> Returns("false")
                                [] OTHER -> UNCHANGED <<q_state, sahRet>>
    BY DEF WaitThree
  <1>4. \/ UNCHANGED <<q_state, sahRet>>
        \/ q_state' = "done" /\ sahRet' \in {"true", "false"}
    BY <1>3 DEF Returns
  <1> QED BY <1>1, <1>2, <1>4, AfterReset

\* The reset is not answered.
LEMMA NoResetResponseStep ==
    ASSUME SaharaInv, NoResetResponse
    PROVE  SaharaInv'
  <1>1. /\ q_state = "WAIT_THREE" /\ sahFaults' \in Nat /\ fromModule' \in Seq(Items)
        /\ UNCHANGED <<wide, maxRead, sahTable, sahSeg, sahCur, sahLen, sahFiles, late, gap>>
    BY HeaderFailsFacts DEF NoResetResponse
  <1>2. q_state' = "done" /\ sahRet' \in {"true", "false"} /\ toModule' = toModule
    BY DEF NoResetResponse, Returns
  <1> QED BY <1>1, <1>2, AfterReset

\* Answers of one command and of two.
LEMMA ShortAnswers ==
    ASSUME NEW x \in Items, NEW y \in Items
    PROVE  /\ <<x>> \in Seq(Items) /\ Len(<<x>>) = 1
           /\ <<x, y>> \in Seq(Items) /\ Len(<<x, y>>) = 2 /\ <<x, y>>[1] = x
  OBVIOUS

\* What the module answers.
LEMMA AnswerFacts ==
    ASSUME NEW r \in Requests, NEW a \in Answer(r)
    PROVE  /\ a \in Seq(Items)
           /\ (r.cmd = "READ" => a = Blocks(r.seg, r.off, r.len))
           /\ (r.cmd = "WAKE" => Len(a) = 1)
           /\ (r.cmd = "HELLO_RESP" => Len(a) = 1 \/ (Len(a) = 2 /\ a[1].cmd = "HELLO"))
  <1>1. r.cmd \in {"HELLO_RESP", "WAKE", "RESET", "READ"} /\ r.seg \in Nat /\ r.off \in Nat /\ r.len \in Nat
    BY DEF Requests
  <1>2. \A c \in Commands : Cmd(c) \in Items /\ Cmd(c).cmd = c
    BY RequestFacts DEF Cmd
  <1>3. /\ Cmd("DEBUG32") \in Items /\ Cmd("HELLO") \in Items /\ Cmd("DEBUG64") \in Items
        /\ Cmd("DEBUG_INVALID") \in Items /\ Cmd("OTHER") \in Items /\ Cmd("RESET_RESP") \in Items
        /\ Cmd("HELLO").cmd = "HELLO"
    BY <1>2 DEF Commands
  <1>4. CASE r.cmd = "HELLO_RESP"
    <2>1. a \in {<<Cmd("DEBUG32")>>, <<Cmd("HELLO"), Cmd("DEBUG64")>>, <<Cmd("DEBUG_INVALID")>>, <<Cmd("OTHER")>>}
      BY <1>4 DEF Answer
    <2>2. CASE a = <<Cmd("DEBUG32")>>
      BY <1>3, <1>4, <2>2, ShortAnswers
    <2>3. CASE a = <<Cmd("HELLO"), Cmd("DEBUG64")>>
      BY <1>3, <1>4, <2>3, ShortAnswers
    <2>4. CASE a = <<Cmd("DEBUG_INVALID")>>
      BY <1>3, <1>4, <2>4, ShortAnswers
    <2>5. CASE a = <<Cmd("OTHER")>>
      BY <1>3, <1>4, <2>5, ShortAnswers
    <2> QED BY <2>1, <2>2, <2>3, <2>4, <2>5
  <1>5. CASE r.cmd = "WAKE"
    <2>1. a \in {<<Cmd("HELLO")>>, <<Cmd("OTHER")>>}
      BY <1>5 DEF Answer
    <2>2. CASE a = <<Cmd("HELLO")>>
      BY <1>3, <1>5, <2>2, ShortAnswers
    <2>3. CASE a = <<Cmd("OTHER")>>
      BY <1>3, <1>5, <2>3, ShortAnswers
    <2> QED BY <2>1, <2>2, <2>3
  <1>6. CASE r.cmd = "RESET"
    <2>1. a \in {<<Cmd("RESET_RESP")>>, <<Cmd("OTHER"), Cmd("RESET_RESP")>>}
      BY <1>6 DEF Answer
    <2>2. CASE a = <<Cmd("RESET_RESP")>>
      BY <1>3, <1>6, <2>2, ShortAnswers
    <2>3. CASE a = <<Cmd("OTHER"), Cmd("RESET_RESP")>>
      BY <1>3, <1>6, <2>3, ShortAnswers
    <2> QED BY <2>1, <2>2, <2>3
  <1>7. CASE r.cmd = "READ"
    <2>1. a = Blocks(r.seg, r.off, r.len)
      BY <1>7 DEF Answer, Blocks
    <2> QED BY <1>1, <1>7, <2>1, BlocksFacts
  <1> QED BY <1>1, <1>4, <1>5, <1>6, <1>7

\* The answer to a request for nothing is nothing.
LEMMA EmptyAnswer ==
    ASSUME NEW r \in Requests, Empty(r), NEW a \in Answer(r)
    PROVE  a = <<>>
  <1>1. a = Blocks(r.seg, r.off, r.len) /\ r.len = 0
    BY AnswerFacts DEF Empty
  <1>2. r.seg \in Nat /\ r.off \in Nat /\ r.len \in Nat
    BY DEF Requests
  <1> QED BY <1>1, <1>2, BlocksFacts

\* The requests after the first one.
LEMMA LaterRequests ==
    ASSUME toModule \in Seq(Requests), toModule # <<>>, toModule' = Tail(toModule),
           UNCHANGED <<sahSeg, sahCur, sahLen>>
    PROVE  /\ (Empties => Empties' /\ Empty(Head(toModule)))
           /\ (Asking => \/ Head(toModule) = Read(sahSeg, sahCur, sahLen) /\ Empties'
                         \/ Empty(Head(toModule)) /\ Asking')
  <1>1. PICK n \in Nat : n = Len(toModule) /\ n >= 1
    BY TailFacts
  <1>2. /\ toModule' \in Seq(Requests) /\ Len(toModule') = n - 1 /\ Head(toModule) = toModule[1]
        /\ \A i \in 1 .. n - 1 : toModule'[i] = toModule[i + 1]
    BY <1>1, TailFacts
  <1>3. \A i \in 1 .. n - 1 : i + 1 \in 1 .. n /\ 1 \in 1 .. n
    BY <1>1
  <1>4. Empties => Empties' /\ Empty(Head(toModule))
    <2>1. 1 \in 1 .. n
      BY <1>1
    <2> QED BY <1>1, <1>2, <1>3, <2>1 DEF Empties
  <1>5. ASSUME Asking, n = 1 PROVE Head(toModule) = Read(sahSeg, sahCur, sahLen) /\ Empties'
    <2>1. 1 .. Len(toModule') = {}
      BY <1>2, <1>5
    <2>2. Empties'
      BY <2>1 DEF Empties
    <2> QED BY <1>1, <1>2, <1>5, <2>2 DEF Asking
  <1>6. ASSUME Asking, n > 1 PROVE Empty(Head(toModule)) /\ Asking'
    <2>1. /\ toModule[n] = Read(sahSeg, sahCur, sahLen)
          /\ \A i \in 1 .. n - 1 : Empty(toModule[i])
      BY <1>1, <1>6 DEF Asking
    <2>2. 1 \in 1 .. n - 1 /\ n - 1 \in 1 .. n - 1 /\ (n - 1) + 1 = n
      BY <1>6
    <2>3. Empty(Head(toModule))
      BY <1>2, <2>1, <2>2
    <2>4. toModule'[n - 1] = Read(sahSeg, sahCur, sahLen)
      BY <1>2, <2>1, <2>2
    <2>5. ASSUME NEW i \in 1 .. (n - 1) - 1 PROVE Empty(toModule'[i])
      <3>1. i \in 1 .. n - 1 /\ i + 1 \in 1 .. n - 1
        BY <1>6
      <3> QED BY <1>2, <2>1, <3>1
    <2>6. Len(toModule') = n - 1 /\ n - 1 > 0
      BY <1>2, <1>6
    <2> QED BY <2>3, <2>4, <2>5, <2>6 DEF Asking
  <1> QED BY <1>1, <1>4, <1>5, <1>6

\* The module answers a request.
LEMMA ModuleHandlesStep ==
    ASSUME SaharaInv, ModuleHandles
    PROVE  SaharaInv'
  <1>1. /\ q_state # "done" /\ toModule # <<>> /\ toModule' = Tail(toModule)
        /\ UNCHANGED <<q_state, sahRet, wide, maxRead, sahSeg, sahCur, sahLen, sahFiles, sahTable, late, gap>>
    BY DEF ModuleHandles, hostVars
  <1>2. toModule \in Seq(Requests) /\ fromModule \in Seq(Items) /\ sahFaults \in Nat
    BY DEF SaharaInv, SaharaTyped
  <1>3. toModule' \in Seq(Requests) /\ Head(toModule) \in Requests /\ Head(toModule) = toModule[1]
    BY <1>1, <1>2, TailFacts
  <1>4. \/ sahFaults' = sahFaults /\ \E a \in Answer(Head(toModule)) : fromModule' = fromModule \o a
        \/ Fault /\ fromModule' = fromModule
    BY DEF ModuleHandles
  <1>5. \A a \in Answer(Head(toModule)) : a \in Seq(Items)
    BY <1>3, AnswerFacts
  <1>6. fromModule' \in Seq(Items) /\ sahFaults' \in Nat
    <2>1. CASE sahFaults' = sahFaults /\ \E a \in Answer(Head(toModule)) : fromModule' = fromModule \o a
      <3>1. PICK a \in Answer(Head(toModule)) : fromModule' = fromModule \o a
        BY <2>1
      <3>2. a \in Seq(Items)
        BY <1>5
      <3> QED BY <1>2, <2>1, <3>1, <3>2, ConcatFacts
    <2>2. CASE Fault /\ fromModule' = fromModule
      BY <1>2, <2>2, FaultFacts
    <2> QED BY <1>4, <2>1, <2>2
  <1>7. SaharaTyped'
    BY <1>1, <1>3, <1>6 DEF SaharaInv, SaharaTyped, SaharaTypeOK, TableLen
  <1>8. Place'
    BY <1>1 DEF SaharaInv, Place, Before, Within, TableLen
  <1>9. Lengths' /\ SaharaExact'
    <2>1. Within' => Within
      BY <1>1 DEF Within
    <2> QED BY <1>1, <2>1, FilesKept DEF SaharaInv
  <1>10. fromModule = <<>> => fromModule' = <<>> \/ \E a \in Answer(Head(toModule)) : fromModule' = a
    <2>1. \A a \in Seq(Items) : <<>> \o a = a
      OBVIOUS
    <2> QED BY <1>4, <1>5, <2>1
  <1>11. \A r \in Requests : toModule = <<r>> => Head(toModule) = r /\ toModule' = <<>>
    BY <1>1
  <1>12. Line'
    <2> SUFFICES ASSUME ~late PROVE Line'
      BY <1>1 DEF Line
    <2>1. CASE q_state = "WOKEN"
      <3>1. fromModule = <<>> /\ toModule = <<Request("WAKE")>> /\ Request("WAKE") \in Requests
        BY <1>1, <2>1, RequestFacts DEF SaharaInv, Line
      <3>2. Head(toModule) = Request("WAKE") /\ toModule' = <<>> /\ Request("WAKE").cmd = "WAKE"
        BY <1>11, <3>1 DEF Request
      <3>3. fromModule' = <<>> \/ Len(fromModule') = 1
        BY <1>3, <1>10, <3>1, <3>2, AnswerFacts
      <3> QED BY <1>1, <2>1, <3>2, <3>3 DEF Line
    <2>2. CASE q_state = "WAIT_TWO"
      <3>1. fromModule = <<>> /\ toModule = <<Request("HELLO_RESP")>> /\ Request("HELLO_RESP") \in Requests
        BY <1>1, <2>2, RequestFacts DEF SaharaInv, Line
      <3>2. Head(toModule) = Request("HELLO_RESP") /\ toModule' = <<>> /\ Request("HELLO_RESP").cmd = "HELLO_RESP"
        BY <1>11, <3>1 DEF Request
      <3>3. fromModule' = <<>> \/ Len(fromModule') = 1 \/ (Len(fromModule') = 2 /\ fromModule'[1].cmd = "HELLO")
        BY <1>3, <1>10, <3>1, <3>2, AnswerFacts
      <3> QED BY <1>1, <2>2, <3>2, <3>3 DEF Line
    <2>3. CASE q_state = "WAIT_SEVEN"
      <3>1. TableLen \in Nat /\ TableLen' = TableLen
        BY <1>1 DEF SaharaInv, SaharaTyped, TableLen
      <3>2. fromModule = <<>> /\ toModule = <<Read(0, 0, TableLen)>> /\ Read(0, 0, TableLen) \in Requests
        BY <1>1, <2>3, <3>1, RequestFacts DEF SaharaInv, Line
      <3>3. /\ Head(toModule) = Read(0, 0, TableLen) /\ toModule' = <<>> /\ Read(0, 0, TableLen).cmd = "READ"
            /\ Read(0, 0, TableLen).seg = 0 /\ Read(0, 0, TableLen).off = 0 /\ Read(0, 0, TableLen).len = TableLen
        BY <1>11, <3>2 DEF Read
      <3>4. \A a \in Answer(Head(toModule)) : a = Blocks(0, 0, TableLen)
        BY <1>3, <3>3, AnswerFacts
      <3>5. Len(Blocks(0, 0, TableLen)) = TableLen
        BY <3>1, BlocksFacts
      <3>6. fromModule' = <<>> \/ Len(fromModule') = TableLen
        BY <1>10, <3>2, <3>4, <3>5
      <3> QED BY <1>1, <2>3, <3>1, <3>3, <3>6 DEF Line
    <2>4. CASE q_state \in {"WAIT_EIGHT", "REQUEST"}
      <3>1. fromModule = <<>> /\ Empties
        BY <2>4 DEF SaharaInv, Line
      <3>2. Empties' /\ Empty(Head(toModule))
        BY <1>1, <1>2, <3>1, LaterRequests
      <3>3. fromModule' = <<>>
        BY <1>3, <1>10, <3>1, <3>2, EmptyAnswer
      <3> QED BY <1>1, <2>4, <3>2, <3>3 DEF Line
    <2>5. CASE q_state = "RECEIVE"
      <3>1. sahSeg \in Nat /\ sahCur \in Nat /\ sahLen \in Nat
        BY SaharaAssumption DEF SaharaInv, SaharaTyped, SaharaTypeOK, TableLen
      <3>2. Empty(Head(toModule)) => fromModule' = fromModule
        <4>1. fromModule \o <<>> = fromModule
          BY <1>2
        <4> QED BY <1>3, <1>4, <4>1, EmptyAnswer
      <3>3. CASE Empties
        <4>1. Empties' /\ fromModule' = fromModule
          BY <1>1, <1>2, <3>2, <3>3, LaterRequests
        <4>2. fromModule = <<>> \/ (sahLen > 0 /\ fromModule = Blocks(sahSeg, sahCur, sahLen))
          BY <2>5 DEF SaharaInv, Line
        <4> QED BY <1>1, <2>5, <4>1, <4>2 DEF Line
      <3>4. CASE fromModule = <<>> /\ Asking
        <4>1. CASE Head(toModule) = Read(sahSeg, sahCur, sahLen) /\ Empties'
          <5>1. /\ Head(toModule).cmd = "READ" /\ Head(toModule).seg = sahSeg
                /\ Head(toModule).off = sahCur /\ Head(toModule).len = sahLen
            BY <4>1 DEF Read
          <5>2. \A a \in Answer(Head(toModule)) : a = Blocks(sahSeg, sahCur, sahLen)
            BY <1>3, <5>1, AnswerFacts
          <5>3. fromModule' = <<>> \/ fromModule' = Blocks(sahSeg, sahCur, sahLen)
            BY <1>10, <3>4, <5>2
          <5>4. sahLen = 0 => Blocks(sahSeg, sahCur, sahLen) = <<>>
            BY <3>1, BlocksFacts
          <5>5. fromModule' = <<>> \/ (sahLen > 0 /\ fromModule' = Blocks(sahSeg, sahCur, sahLen))
            BY <3>1, <5>3, <5>4
          <5>6. Blocks(sahSeg', sahCur', sahLen') = Blocks(sahSeg, sahCur, sahLen) /\ sahLen' = sahLen
            BY <1>1
          <5> QED BY <1>1, <2>5, <4>1, <5>5, <5>6 DEF Line
        <4>2. CASE Empty(Head(toModule)) /\ Asking'
          BY <1>1, <2>5, <3>2, <3>4, <4>2 DEF Line
        <4> QED BY <1>1, <1>2, <3>4, <4>1, <4>2, LaterRequests
      <3> QED BY <2>5, <3>3, <3>4 DEF SaharaInv, Line
    <2>6. CASE q_state \notin {"WOKEN", "WAIT_TWO", "WAIT_SEVEN", "WAIT_EIGHT", "REQUEST", "RECEIVE"}
      BY <1>1, <2>6 DEF SaharaInv, Line
    <2> QED BY <2>1, <2>2, <2>3, <2>4, <2>5, <2>6
  <1> QED BY <1>7, <1>8, <1>9, <1>12 DEF SaharaInv

-----------------------------------------------------------------------------
(* Sahara: the theorem *)

\* Every step of the host and of the module keeps the invariant.
LEMMA SaharaStep ==
    ASSUME SaharaInv, [SaharaNext]_saharaVars
    PROVE  SaharaInv'
  <1>1. CASE UNCHANGED saharaVars
    <2>1. UNCHANGED <<q_state, sahRet, wide, maxRead, sahSeg, sahCur, sahLen, sahFiles, sahTable, fromModule,
                      toModule, sahFaults, late, gap>>
      BY <1>1 DEF saharaVars, hostVars
    <2> QED BY <2>1 DEF SaharaInv, SaharaTyped, SaharaTypeOK, TableLen, Place, Before, Within, Lengths,
               Line, Asking, Empties, SaharaExact
  <1>2. CASE Host
    BY <1>2, WaitOneStep, WakeUpStep, NoHeaderStep, WaitTwoStep, WaitSevenStep, NoTableStep, CreateFileStep,
       AllReadStep, MemoryReadStep, SegmentDoneStep, MemoryBlockStep, MemoryTimeoutStep, ZeroReadStep,
       WaitThreeStep, NoResetResponseStep DEF Host
  <1> QED BY <1>1, <1>2, ModuleHandlesStep DEF SaharaNext

\* What is on disk of a dump that is reported as successful is whole.
LEMMA SaharaWhole ==
    ASSUME SaharaInv
    PROVE  SaharaTypeOK /\ SaharaImage
  <1>1. SaharaComplete
    <2> SUFFICES ASSUME sahRet = "true", sahFiles # <<>>, ~gap
                 PROVE  /\ Len(sahFiles) = TableLen
                        /\ \A s \in DOMAIN sahFiles : Len(sahFiles[s]) = sahTable[s]
      BY DEF SaharaComplete
    <2>1. Len(sahFiles) = TableLen /\ sahSeg = TableLen + 1 /\ TableLen \in Nat /\ sahFiles \in Seq(Seq(Items))
      BY DEF SaharaInv, Place, SaharaTyped, TableLen
    <2>2. \A s \in 1 .. Len(sahFiles) : s < sahSeg
      BY <2>1
    <2>3. DOMAIN sahFiles = 1 .. Len(sahFiles)
      BY <2>1
    <2> QED BY <2>1, <2>2, <2>3 DEF SaharaInv, Lengths
  <1> QED BY <1>1 DEF SaharaInv, SaharaTyped, SaharaImage

\* For every table of the module, every buffer and any number of lost requests, failed sends
\* and short or failing writes: the files of a Sahara dump are the module's memory block for
\* block as far as they go, unless an answer came late or a write was short, and they are whole
\* when sahara_catch_dump reports success; the largest request never becomes zero.
THEOREM SaharaCorrect == SaharaSpec => [](SaharaTypeOK /\ SaharaImage)
  <1>1. SaharaInit => SaharaInv
    BY SaharaInitially
  <1>2. SaharaInv /\ [SaharaNext]_saharaVars => SaharaInv'
    BY SaharaStep
  <1>3. SaharaInv => SaharaTypeOK /\ SaharaImage
    BY SaharaWhole
  <1> QED BY <1>1, <1>2, <1>3, PTL DEF SaharaSpec

-----------------------------------------------------------------------------
(* Ymodem: the invariant *)

Frames == Nat \X Nat

Files == 1 .. Len(AsrFiles)

\* A frame the module sends.
Sent(f) ==
    /\ f \in Frames /\ f[1] \in 1 .. Last_
    /\ (f[1] < Last_ => f[2] <= AsrFiles[f[1]] + 1) /\ (f[1] = Last_ => f[2] = 0)

\* The frames on their way are those that follow f, up to the one the module sends next.
Chain(f) ==
    /\ \A i \in 1 .. Len(yFrames) : Sent(yFrames[i])
    /\ \A i \in 1 .. Len(yFrames) - 1 : yFrames[i + 1] = Following(yFrames[i])
    /\ yNext = Following(IF yFrames = <<>> THEN f ELSE yFrames[Len(yFrames)])

\* The host has received nothing in this dump; the buffer may hold a frame of an earlier one.
Unheard ==
    /\ yState = "header" /\ yTrust = "stale" /\ yFile = 0 /\ yClosed = {}
    /\ \A f \in Files : ySaved[f] = <<>>
    /\ \/ yFrames = <<>> /\ yNext = <<1, 0>>
       \/ yFrames # <<>> /\ yFrames[1] = <<1, 0>> /\ Chain(yBuff)

\* The buffer holds the frame received last, and the next one is this one again or the one
\* that follows.
Heard ==
    /\ yState # "quit" /\ yTrust = "fresh" /\ Sent(yBuff) /\ yBuff[1] \in Files /\ Chain(yBuff)
    /\ (yFrames # <<>> => yFrames[1] = yBuff \/ yFrames[1] = Following(yBuff))
    /\ \A f \in Files : f > yBuff[1] => ySaved[f] = <<>>
    /\ IF yState = "header"
       THEN IsEot(yBuff) /\ yFile = 0 /\ yClosed = 1 .. yBuff[1]
       ELSE /\ ~IsEot(yBuff) /\ yFile = yBuff[1] /\ yClosed = 1 .. yBuff[1] - 1
            /\ \/ ySaved[yFile] = <<>> /\ yBuff[2] = 0
               \/ ySaved[yFile] # <<>> /\ ySaved[yFile][Len(ySaved[yFile])] = yBuff

YmodemTyped ==
    /\ YmodemTypeOK /\ ySaved \in [Files -> Seq(Frames)] /\ yFrames \in Seq(Frames) /\ yNext \in Frames
    /\ yBuff \in Frames /\ yFaults \in Nat

\* A dump that no header of an earlier one has misled.
YmodemInv == YmodemTyped /\ YmodemFiles /\ (yState = "quit" \/ Unheard \/ Heard)

\* The frames under way, and the next one, are the module's; so is the buffer's.
Flow ==
    /\ \A i \in 1 .. Len(yFrames) : Sent(yFrames[i])
    /\ Sent(yNext) \/ yNext = <<Last_, 1>>
    /\ Sent(yBuff) \/ yBuff = Silent

YmodemWhole == YmodemTyped /\ Flow /\ (YmodemInv \/ yTrust = "misled")

-----------------------------------------------------------------------------
(* Ymodem: frames *)

\* The numbers of the files and of the header that ends the transfer.
LEMMA LastFacts == Last_ \in Nat /\ Last_ >= 1 /\ Len(AsrFiles) \in Nat /\ Last_ = Len(AsrFiles) + 1
                   /\ \A f \in Files : AsrFiles[f] \in Nat /\ f \in Nat /\ f < Last_
  BY YmodemAssumption DEF Last_, Files

\* A frame is the pair of its parts.
LEMMA FrameFacts ==
    ASSUME NEW f \in Frames
    PROVE  f = <<f[1], f[2]>> /\ f[1] \in Nat /\ f[2] \in Nat
  BY DEF Frames

\* The parts of a pair.
LEMMA PairFacts ==
    ASSUME NEW a \in Nat, NEW b \in Nat
    PROVE  <<a, b>> \in Frames /\ <<a, b>>[1] = a /\ <<a, b>>[2] = b
  BY DEF Frames

\* The frame that follows one of a file is sent too.
LEMMA FollowingFacts ==
    ASSUME NEW f, Sent(f), f[1] \in Files
    PROVE  /\ Sent(Following(f)) /\ Following(f) \in Frames
           /\ (IsEot(f) => Following(f) = <<f[1] + 1, 0>>)
           /\ (~IsEot(f) => Following(f) = <<f[1], f[2] + 1>> /\ f[2] <= AsrFiles[f[1]])
  <1>1. f \in Frames /\ f[1] \in Nat /\ f[1] >= 1 /\ f[1] < Last_ /\ f[2] \in Nat /\ f[2] <= AsrFiles[f[1]] + 1
        /\ AsrFiles[f[1]] \in Nat /\ Last_ \in Nat /\ Last_ = Len(AsrFiles) + 1 /\ Len(AsrFiles) \in Nat
    BY LastFacts, FrameFacts DEF Sent
  <1>2. f # Silent
    BY <1>1 DEF Silent
  <1>3. IsEot(f) <=> f[2] = AsrFiles[f[1]] + 1
    BY <1>1, <1>2 DEF IsEot
  <1>4. CASE IsEot(f)
    <2>1. Following(f) = <<f[1] + 1, 0>>
      BY <1>4 DEF Following
    <2>2. f[1] + 1 \in 1 .. Last_ /\ f[1] + 1 \in Nat
      <3>1. PICK a \in Nat, l \in Nat : a = f[1] /\ l = Last_ /\ a >= 1 /\ a < l
        BY <1>1, Zenon
      <3>2. a + 1 \in 1 .. l /\ a + 1 \in Nat
        BY <3>1
      <3> QED BY <3>1, <3>2, Zenon
    <2>3. f[1] + 1 < Last_ => AsrFiles[f[1] + 1] \in Nat
      BY <1>1, <2>2, LastFacts DEF Files
    <2>4. PICK g \in Frames : g = <<f[1] + 1, 0>> /\ g[1] = f[1] + 1 /\ g[2] = 0
      <3>1. 0 \in Nat
        OBVIOUS
      <3> QED BY <2>2, <3>1, PairFacts, Zenon
    <2>5. Sent(g)
      BY <1>1, <2>2, <2>3, <2>4 DEF Sent
    <2> QED BY <1>4, <2>1, <2>4, <2>5
  <1>5. CASE ~IsEot(f)
    <2>1. Following(f) = <<f[1], f[2] + 1>> /\ f[2] <= AsrFiles[f[1]]
      BY <1>1, <1>3, <1>5 DEF Following
    <2>2. PICK g \in Frames : g = <<f[1], f[2] + 1>> /\ g[1] = f[1] /\ g[2] = f[2] + 1
      <3>1. f[1] \in Nat /\ f[2] + 1 \in Nat
        <4>1. \A n \in Nat : n + 1 \in Nat
          OBVIOUS
        <4> QED BY <1>1, <4>1, Zenon
      <3> QED BY <3>1, PairFacts, Zenon
    <2>3. Sent(g)
      BY <1>1, <2>1, <2>2 DEF Sent
    <2> QED BY <1>5, <2>1, <2>2, <2>3
  <1> QED BY <1>4, <1>5

\* The frame after the last header is none.
LEMMA FollowingLast ==
    ASSUME NEW f, Sent(f), f[1] = Last_
    PROVE  f = <<Last_, 0>> /\ Following(f) = <<Last_, 1>> /\ Following(f) \in Frames
  <1>1. f \in Frames /\ f[2] = 0 /\ Last_ \in Nat
    BY LastFacts DEF Sent
  <1>2. ~IsEot(f)
    BY <1>1 DEF IsEot
  <1>3. Following(f) = <<Last_, 1>>
    BY <1>1, <1>2 DEF Following
  <1> QED BY <1>1, <1>3, FrameFacts DEF Frames

\* The host takes the first frame of the chain.
LEMMA ChainTail ==
    ASSUME yFrames \in Seq(Frames), yFrames # <<>>, NEW f, Chain(f),
           yFrames' = Tail(yFrames), yNext' = yNext, NEW g, g = Head(yFrames)
    PROVE  /\ Chain(g)' /\ Sent(g) /\ yFrames' \in Seq(Frames)
           /\ (yFrames' # <<>> => yFrames'[1] = Following(g))
  <1>1. PICK n \in Nat : n = Len(yFrames) /\ n >= 1
    BY TailFacts
  <1>2. /\ yFrames' \in Seq(Frames) /\ Len(yFrames') = n - 1 /\ g = yFrames[1]
        /\ \A i \in 1 .. n - 1 : yFrames'[i] = yFrames[i + 1]
    BY <1>1, TailFacts
  <1>3. /\ \A i \in 1 .. n : Sent(yFrames[i])
        /\ \A i \in 1 .. n - 1 : yFrames[i + 1] = Following(yFrames[i])
        /\ yNext = Following(yFrames[n])
    BY <1>1 DEF Chain
  <1>4. Sent(g)
    BY <1>1, <1>2, <1>3
  <1>5. \A i \in 1 .. n - 1 : Sent(yFrames'[i])
    <2>1. \A i \in 1 .. n - 1 : i + 1 \in 1 .. n
      BY <1>1
    <2> QED BY <1>2, <1>3, <2>1
  <1>6. ASSUME NEW i \in 1 .. (n - 1) - 1 PROVE yFrames'[i + 1] = Following(yFrames'[i])
    <2>1. i \in 1 .. n - 1 /\ i + 1 \in 1 .. n - 1
      BY <1>1
    <2> QED BY <1>2, <1>3, <2>1
  <1>7. CASE n = 1
    <2>1. yFrames' = <<>>
      BY <1>2, <1>7, EmptySeq
    <2>2. yNext' = Following(g)
      BY <1>2, <1>3, <1>7
    <2> QED BY <1>2, <1>4, <1>5, <1>6, <2>1, <2>2 DEF Chain
  <1>8. CASE n > 1
    <2>1. yFrames' # <<>> /\ 1 \in 1 .. n - 1 /\ n - 1 \in 1 .. n - 1 /\ (n - 1) + 1 = n
      <3>1. Len(yFrames') # 0 /\ 1 \in 1 .. n - 1 /\ n - 1 \in 1 .. n - 1 /\ (n - 1) + 1 = n
        BY <1>2, <1>8
      <3> QED BY <3>1
    <2>2. yFrames'[n - 1] = yFrames[n] /\ yFrames'[1] = Following(g)
      BY <1>2, <1>3, <2>1
    <2>3. yNext' = Following(yFrames'[Len(yFrames')])
      BY <1>2, <1>3, <2>2
    <2> QED BY <1>2, <1>4, <1>5, <1>6, <2>1, <2>2, <2>3 DEF Chain
  <1> QED BY <1>1, <1>7, <1>8

\* The chain is left alone.
LEMMA ChainKept ==
    ASSUME UNCHANGED <<yFrames, yNext>>, NEW f, Chain(f)
    PROVE  Chain(f)'
  BY DEF Chain

-----------------------------------------------------------------------------
(* Ymodem: the actions *)

\* The first header is a frame the module sends.
LEMMA FirstSent == Sent(<<1, 0>>)
  <1>1. 1 \in 1 .. Last_ /\ (1 < Last_ => AsrFiles[1] \in Nat)
    BY LastFacts DEF Files
  <1>2. PICK g \in Frames : g = <<1, 0>> /\ g[1] = 1 /\ g[2] = 0
    BY PairFacts
  <1>3. Sent(g)
    BY <1>1, <1>2, LastFacts DEF Sent
  <1> QED BY <1>2, <1>3

\* The buffer of an earlier dump holds nothing or a frame the module sends.
LEMMA LeftoverSent ==
    ASSUME NEW g \in Leftover
    PROVE  g = Silent \/ Sent(g)
  <1>1. CASE g = <<Last_, 0>>
    <2>1. g \in Frames /\ g[1] = Last_ /\ g[2] = 0 /\ Last_ \in 1 .. Last_
      BY <1>1, LastFacts DEF Frames
    <2> QED BY <2>1 DEF Sent
  <1>2. CASE \E f \in Files : \E n \in 0 .. AsrFiles[f] + 1 : g = <<f, n>>
    <2>1. PICK f \in Files : \E n \in 0 .. AsrFiles[f] + 1 : g = <<f, n>>
      BY <1>2
    <2>p. PICK n \in 0 .. AsrFiles[f] + 1 : g = <<f, n>>
      BY <2>1
    <2>2. f \in Nat /\ n \in Nat /\ f \in 1 .. Last_ /\ f < Last_ /\ n <= AsrFiles[f] + 1
      BY LastFacts DEF Files
    <2>3. g \in Frames /\ g[1] = f /\ g[2] = n
      BY <2>p, <2>2 DEF Frames
    <2> QED BY <2>2, <2>3 DEF Sent
  <1> QED BY <1>1, <1>2 DEF Leftover, Files

\* The invariant holds when the first CNC is sent.
LEMMA YmodemInitially ==
    ASSUME YmodemInit
    PROVE  YmodemWhole
  <1>1. /\ yState = "header" /\ yRet = "ok" /\ yRetry = 0 /\ yFile = 0 /\ yClosed = {} /\ yFrames = <<>>
        /\ yNext = <<1, 0>> /\ yFaults \in Nat /\ yBuff \in Leftover /\ yTrust = "stale"
        /\ ySaved = [f \in Files |-> <<>>]
    BY YmodemAssumption DEF YmodemInit, YmodemFresh, Files
  <1>2. YmodemTypeOK
    <2>1. 0 \in 0 .. WaitRetries - 1 /\ 0 \in 0 .. Len(AsrFiles)
      BY YmodemAssumption, LastFacts
    <2> QED BY <1>1, <2>1 DEF YmodemTypeOK
  <1>3. yNext \in Frames /\ yBuff \in Frames /\ (Sent(yBuff) \/ yBuff = Silent)
    BY <1>1, PairFacts, LeftoverSent DEF Silent, Sent
  <1>4. ySaved \in [Files -> Seq(Frames)] /\ yFrames \in Seq(Frames)
    BY <1>1, NothingFacts
  <1>5. YmodemFiles
    BY <1>1 DEF YmodemFiles, YmodemNoGap, YmodemSuccess, Files
  <1>6. Unheard
    BY <1>1 DEF Unheard
  <1>7. Flow
    BY <1>1, <1>3, FirstSent DEF Flow
  <1> QED BY <1>1, <1>2, <1>3, <1>4, <1>5, <1>6, <1>7 DEF YmodemInv, YmodemTyped, YmodemWhole

\* A fault is one less.
LEMMA YFaultFacts ==
    ASSUME yFaults \in Nat, YFault
    PROVE  yFaults' \in Nat
  BY DEF YFault

\* The dump ends.
LEMMA YEnded ==
    ASSUME YmodemInv, yState # "quit", yState' = "quit", yRet' \in {"ok", "error"},
           yTrust' \in {"stale", "fresh", "exit"},
           \/ yRet' = "error" \/ yTrust' = "exit" \/ yClosed = Files
           \/ yTrust' = "stale" /\ IsEnd(yBuff') /\ \A f \in Files : ySaved[f] = <<>>,
           UNCHANGED <<yRetry, ySaved, yClosed>>, yFile' \in 0 .. Len(AsrFiles),
           yFrames' \in Seq(Frames), yNext' \in Frames, yBuff' \in Frames, yFaults' \in Nat
    PROVE  YmodemInv'
  <1>1. YmodemTyped'
    BY DEF YmodemInv, YmodemTyped, YmodemTypeOK
  <1>2. YmodemNoGap'
    <2>1. yTrust # "misled"
      BY DEF YmodemInv, Unheard, Heard
    <2> QED BY <2>1 DEF YmodemInv, YmodemFiles, YmodemNoGap
  <1>3. YmodemSuccess'
    BY DEF YmodemSuccess, Files, IsEnd, Silent, Last_
  <1> QED BY <1>1, <1>2, <1>3 DEF YmodemInv, YmodemFiles

\* The files are left alone while the dump goes on.
LEMMA YFilesKept ==
    ASSUME YmodemInv, yState # "quit", UNCHANGED <<ySaved, yClosed>>, yState' # "quit"
    PROVE  YmodemFiles'
  <1>1. YmodemNoGap'
    <2>1. yTrust # "misled"
      BY DEF YmodemInv, Unheard, Heard
    <2> QED BY <2>1 DEF YmodemInv, YmodemFiles, YmodemNoGap
  <1>2. YmodemSuccess'
    BY DEF YmodemSuccess
  <1> QED BY <1>1, <1>2 DEF YmodemFiles

\* The host waits for a header and has none yet, or the end of a file.
LEMMA HeaderState ==
    ASSUME YmodemInv, yState = "header"
    PROVE  /\ yFile = 0 /\ ySaved \in [Files -> Seq(Frames)] /\ yFrames \in Seq(Frames) /\ yNext \in Frames /\ yBuff \in Frames
           /\ yFaults \in Nat /\ yRetry \in 0 .. WaitRetries - 1 /\ (Unheard \/ Heard)
           /\ 0 \in 0 .. WaitRetries - 1 /\ 0 \in 0 .. Len(AsrFiles)
  BY YmodemAssumption, LastFacts DEF YmodemInv, YmodemTyped, YmodemTypeOK

\* The end of a file, or a frame of an earlier dump, is acknowledged.
LEMMA Acknowledged ==
    ASSUME YmodemInv, yState = "header", yState' = "header",
           yRet' \in {"ok", "error"}, yTrust' \in {"stale", "fresh"},
           UNCHANGED <<yFile, yFaults, ySaved, yClosed>>, yRetry' \in 0 .. WaitRetries - 1,
           yFrames' \in Seq(Frames), yNext' \in Frames, yBuff' \in Frames, (Unheard' \/ Heard')
    PROVE  YmodemInv'
  <1>1. YmodemTyped'
    BY DEF YmodemInv, YmodemTyped, YmodemTypeOK
  <1>2. YmodemFiles'
    BY YFilesKept, HeaderState
  <1> QED BY <1>1, <1>2 DEF YmodemInv

\* A frame arrives while the host waits for a header.
LEMMA HeaderFrameStep ==
    ASSUME YmodemInv, HeaderFrame
    PROVE  YmodemInv'
  <1>1. /\ yState = "header" /\ yFrames # <<>> /\ yFrames' = Tail(yFrames) /\ yBuff' = Head(yFrames)
        /\ AfterWait(Head(yFrames), "ok", yAnswers) /\ UNCHANGED <<yClosed, yNext>>
        /\ yTrust' = IF yTrust = "misled" THEN yTrust ELSE "fresh"
    BY DEF HeaderFrame
  <1>2. /\ yFile = 0 /\ ySaved \in [Files -> Seq(Frames)] /\ yFrames \in Seq(Frames) /\ yNext \in Frames /\ yBuff \in Frames
        /\ yFaults \in Nat /\ yRetry \in 0 .. WaitRetries - 1 /\ (Unheard \/ Heard)
        /\ 0 \in 0 .. WaitRetries - 1 /\ 0 \in 0 .. Len(AsrFiles)
    BY <1>1, HeaderState
  <1>3. PICK g \in Frames : g = Head(yFrames) /\ g = yFrames[1]
    BY <1>1, <1>2, TailFacts
  <1>4. /\ Chain(g)' /\ Sent(g) /\ yFrames' \in Seq(Frames)
        /\ (yFrames' # <<>> => yFrames'[1] = Following(g))
    <2>1. \E f : Chain(f)
      BY <1>1, <1>2 DEF Unheard, Heard
    <2> QED BY <1>1, <1>2, <1>3, <2>1, ChainTail
  <1>t. yTrust' = "fresh"
    BY <1>1, <1>2 DEF Unheard, Heard
  <1>5. CASE Unheard
    <2>1. g = <<1, 0>> /\ g[1] = 1 /\ g[2] = 0
      BY <1>1, <1>3, <1>5 DEF Unheard
    <2>2. g # Silent /\ IsHeader(g) /\ (IsEnd(g) <=> Last_ = 1)
      BY <2>1 DEF IsHeader, IsEnd, Silent
    <2>3. CASE IsEnd(g)
      <3>1. yState' = "quit" /\ yRet' = "ok" /\ UNCHANGED <<yRetry, yFile, ySaved, yFaults>>
        BY <1>1, <1>3, <2>3 DEF AfterWait, YReturns
      <3>2. yClosed = Files
        <4>1. Len(AsrFiles) = 0
          BY <2>2, <2>3, LastFacts
        <4> QED BY <1>5, <4>1 DEF Unheard, Files
      <3> QED BY <1>1, <1>2, <1>3, <1>4, <1>t, <3>1, <3>2, YEnded
    <2>4. CASE ~IsEnd(g) /\ YFault /\ YReturns("error") /\ UNCHANGED <<yRetry, yFile, ySaved>>
      <3>1. yFaults' \in Nat
        BY <1>2, <2>4, YFaultFacts
      <3> QED BY <1>1, <1>2, <1>3, <1>4, <1>t, <2>4, <3>1, YEnded DEF YReturns
    <2>5. CASE /\ ~IsEnd(g) /\ yState' = "data" /\ yRet' = "ok" /\ yFile' = g[1]
               /\ ySaved' = [ySaved EXCEPT ![g[1]] = <<>>] /\ UNCHANGED <<yRetry, yFaults>>
      <3>1. 1 \in Files /\ AsrFiles[1] \in Nat
        BY <2>2, <2>5, LastFacts DEF Files
      <3>2. ~IsEot(g)
        BY <2>1, <3>1 DEF IsEot
      <3>e. ySaved' = ySaved
        <4>1. ySaved[1] = <<>>
          BY <1>5, <3>1 DEF Unheard
        <4> QED BY <1>2, <2>1, <2>5, <3>1, <4>1
      <3>3. Heard'
        <4>1. Chain(yBuff)' /\ yBuff' = g
          BY <1>1, <1>3, <1>4 DEF Chain
        <4>2. yClosed' = 1 .. g[1] - 1
          BY <1>1, <1>5, <2>1 DEF Unheard
        <4>3. \A f \in Files : ySaved'[f] = <<>>
          BY <1>1, <1>5, <3>e DEF Unheard
        <4> QED BY <1>1, <1>4, <1>t, <2>1, <2>5, <3>1, <3>2, <4>1, <4>2, <4>3 DEF Heard
      <3>4. YmodemTyped'
        BY <1>1, <1>2, <1>3, <1>4, <1>t, <2>1, <2>5, <3>1, <3>e DEF YmodemInv, YmodemTyped, YmodemTypeOK, Files
      <3>5. YmodemFiles'
        BY <1>1, <1>2, <2>5, <3>e, YFilesKept
      <3> QED BY <3>3, <3>4, <3>5 DEF YmodemInv
    <2> QED BY <1>1, <1>3, <2>2, <2>3, <2>4, <2>5 DEF AfterWait
  <1>6. CASE Heard
    <2>1. /\ Sent(yBuff) /\ yBuff[1] \in Files /\ IsEot(yBuff) /\ yClosed = 1 .. yBuff[1]
          /\ (g = yBuff \/ g = Following(yBuff))
          /\ \A f \in Files : f > yBuff[1] => ySaved[f] = <<>>
      BY <1>1, <1>3, <1>6 DEF Heard
    <2>2. PICK b \in Nat : b = yBuff[1] /\ b \in Files /\ b < Last_ /\ AsrFiles[b] \in Nat
      BY <2>1, LastFacts
    <2>3. CASE g = yBuff
      <3>1. ~IsHeader(g) /\ ~IsEnd(g)
        <4>1. g[2] = AsrFiles[b] + 1 /\ g # Silent
          BY <2>1, <2>2, <2>3 DEF IsEot
        <4>2. g[2] # 0
          BY <2>2, <4>1
        <4>3. g # <<Last_, 0>>
          BY <4>2
        <4> QED BY <4>1, <4>2, <4>3 DEF IsHeader, IsEnd
      <3>2. yRetry' = 0 /\ yRet' = "ok" /\ UNCHANGED <<yState, yFile, ySaved, yFaults>>
        BY <1>1, <1>3, <3>1 DEF AfterWait
      <3>3. Heard'
        <4>1. Chain(yBuff)' /\ yBuff' = yBuff
          BY <1>1, <1>3, <1>4, <2>3 DEF Chain
        <4> QED BY <1>1, <1>2, <1>4, <1>t, <2>1, <2>3, <3>2, <4>1 DEF Heard
      <3> QED BY <1>1, <1>2, <1>3, <1>4, <1>t, <3>2, <3>3, Acknowledged
    <2>4. CASE g = Following(yBuff)
      <3>1. g = <<b + 1, 0>> /\ g[1] = b + 1 /\ g[2] = 0
        BY <2>1, <2>2, <2>4, FollowingFacts
      <3>2. IsHeader(g) /\ (IsEnd(g) <=> b + 1 = Last_) /\ b + 1 \in Nat
        BY <2>2, <3>1 DEF IsHeader, IsEnd, Silent
      <3>3. CASE IsEnd(g)
        <4>1. yState' = "quit" /\ yRet' = "ok" /\ UNCHANGED <<yRetry, yFile, ySaved, yFaults>>
          BY <1>1, <1>3, <3>3 DEF AfterWait, YReturns
        <4>2. yClosed = Files
          <5>1. Len(AsrFiles) = b
            BY <2>2, <3>2, <3>3, LastFacts
          <5> QED BY <2>1, <2>2, <5>1 DEF Files
        <4> QED BY <1>1, <1>2, <1>3, <1>4, <1>t, <4>1, <4>2, YEnded
      <3>4. CASE ~IsEnd(g) /\ YFault /\ YReturns("error") /\ UNCHANGED <<yRetry, yFile, ySaved>>
        <4>1. yFaults' \in Nat
          BY <1>2, <3>4, YFaultFacts
        <4> QED BY <1>1, <1>2, <1>3, <1>4, <1>t, <3>4, <4>1, YEnded DEF YReturns
      <3>5. CASE /\ ~IsEnd(g) /\ yState' = "data" /\ yRet' = "ok" /\ yFile' = g[1]
                 /\ ySaved' = [ySaved EXCEPT ![g[1]] = <<>>] /\ UNCHANGED <<yRetry, yFaults>>
        <4>1. b + 1 \in Files /\ AsrFiles[b + 1] \in Nat
          <5>1. b + 1 # Last_
            BY <3>2, <3>5
          <5>2. b + 1 \in Files
            BY <2>2, <5>1, LastFacts DEF Files
          <5> QED BY <5>2, LastFacts
        <4>2. ~IsEot(g)
          BY <3>1, <4>1 DEF IsEot
        <4>e. ySaved' = ySaved
          <5>1. ySaved[b + 1] = <<>>
            <6>1. b + 1 > b
              BY <2>2
            <6> QED BY <2>1, <2>2, <4>1, <6>1
          <5> QED BY <1>2, <3>1, <3>5, <4>1, <5>1
        <4>3. Heard'
          <5>1. Chain(yBuff)' /\ yBuff' = g
            BY <1>1, <1>3, <1>4 DEF Chain
          <5>2. yClosed' = 1 .. g[1] - 1
            BY <1>1, <2>1, <2>2, <3>1
          <5>3. \A f \in Files : f >= b + 1 => ySaved'[f] = <<>>
            <6>1. \A f \in Files : f >= b + 1 => f > b
              BY <2>2, LastFacts
            <6> QED BY <1>1, <2>1, <2>2, <4>e, <6>1
          <5>4. \A f \in Files : f > b + 1 => f >= b + 1
            BY <2>2, LastFacts
          <5>5. ySaved'[b + 1] = <<>>
            BY <3>2, <4>1, <5>3
          <5> QED BY <1>1, <1>4, <1>t, <3>1, <3>5, <4>1, <4>2, <5>1, <5>2, <5>3, <5>4, <5>5 DEF Heard
        <4>4. YmodemTyped'
          BY <1>1, <1>2, <1>3, <1>4, <1>t, <3>1, <3>2, <3>5, <4>1, <4>e DEF YmodemInv, YmodemTyped, YmodemTypeOK, Files
        <4>5. YmodemFiles'
          BY <1>1, <1>2, <3>5, <4>e, YFilesKept
        <4> QED BY <4>3, <4>4, <4>5 DEF YmodemInv
      <3> QED BY <1>1, <1>3, <3>2, <3>3, <3>4, <3>5 DEF AfterWait
    <2> QED BY <2>1, <2>3, <2>4
  <1> QED BY <1>2, <1>5, <1>6

\* The wait for a header is in vain.
LEMMA HeaderTimeoutStep ==
    ASSUME YmodemInv, HeaderTimeout
    PROVE  YmodemInv' \/ yTrust' = "misled"
  <1>1. /\ yState = "header" /\ yFrames = <<>> /\ UNCHANGED <<yBuff, yClosed, yFrames, yNext>>
        /\ yTrust' = IF yState' = "data" THEN "misled" ELSE yTrust
        /\ IF yRetry + 1 < WaitRetries
           THEN yRetry' = yRetry + 1 /\ yRet' = "error" /\ UNCHANGED <<yState, yFile, ySaved, yFaults>>
           ELSE AfterWait(yBuff, "error", Append(yAnswers, "CNC"))
    BY DEF HeaderTimeout
  <1>2. /\ yFile = 0 /\ ySaved \in [Files -> Seq(Frames)] /\ yFrames \in Seq(Frames) /\ yNext \in Frames /\ yBuff \in Frames
        /\ yFaults \in Nat /\ yRetry \in 0 .. WaitRetries - 1 /\ (Unheard \/ Heard)
        /\ 0 \in 0 .. WaitRetries - 1 /\ 0 \in 0 .. Len(AsrFiles)
    BY <1>1, HeaderState
  <1>t. yTrust \in {"stale", "fresh"}
    BY <1>2 DEF Unheard, Heard
  <1>3. UNCHANGED <<yState, yFile, ySaved>> => Unheard' \/ Heard'
    <2>1. UNCHANGED <<yState, yFile, ySaved>> /\ Unheard => Unheard'
      BY <1>1 DEF Unheard, Chain
    <2>2. UNCHANGED <<yState, yFile, ySaved>> /\ Heard => Heard'
      BY <1>1 DEF Heard, Chain
    <2> QED BY <1>2, <2>1, <2>2
  <1>4. CASE yRetry + 1 < WaitRetries
    <2>1. /\ yRetry' \in 0 .. WaitRetries - 1 /\ yRet' = "error" /\ UNCHANGED <<yState, yFile, ySaved, yFaults>>
          /\ yTrust' = yTrust
      BY <1>1, <1>2, <1>4, YmodemAssumption
    <2> QED BY <1>1, <1>2, <1>3, <1>t, <2>1, Acknowledged
  <1>5. CASE AfterWait(yBuff, "error", Append(yAnswers, "CNC"))
    <2>1. CASE ~IsHeader(yBuff) /\ ~IsEnd(yBuff)
      <3>1. /\ yRetry' = 0 /\ yRet' = "error" /\ UNCHANGED <<yState, yFile, ySaved, yFaults>>
            /\ yTrust' = yTrust
        BY <1>1, <1>5, <2>1 DEF AfterWait
      <3> QED BY <1>1, <1>2, <1>3, <1>t, <3>1, Acknowledged
    <2>2. CASE IsEnd(yBuff)
      <3>1. /\ yState' = "quit" /\ yRet' = "ok" /\ UNCHANGED <<yRetry, yFile, ySaved, yFaults>>
            /\ yTrust' = yTrust
        BY <1>1, <1>5, <2>2 DEF AfterWait, YReturns
      <3>2. Unheard
        <4>1. Heard => IsEot(yBuff) /\ yBuff[1] \in Files
          BY <1>1 DEF Heard
        <4>2. IsEot(yBuff) /\ yBuff[1] \in Files => yBuff[2] # 0
          BY LastFacts DEF IsEot
        <4>3. yBuff[2] = 0
          BY <2>2 DEF IsEnd, Silent
        <4> QED BY <1>2, <4>1, <4>2, <4>3
      <3>3. yTrust = "stale" /\ \A f \in Files : ySaved[f] = <<>>
        BY <3>2 DEF Unheard
      <3>4. IsEnd(yBuff')
        BY <1>1, <2>2
      <3> QED BY <1>1, <1>2, <3>1, <3>3, <3>4, YEnded
    <2>3. CASE yState' = "data"
      BY <1>1, <2>3
    <2>4. CASE YFault /\ YReturns("error") /\ UNCHANGED <<yRetry, yFile, ySaved>>
      <3>1. yFaults' \in Nat
        BY <1>2, <2>4, YFaultFacts
      <3>2. yTrust' \in {"stale", "fresh"}
        BY <1>1, <1>t, <2>4 DEF YReturns
      <3> QED BY <1>1, <1>2, <2>4, <3>1, <3>2, YEnded DEF YReturns
    <2> QED BY <1>5, <2>1, <2>2, <2>3, <2>4 DEF AfterWait
  <1> QED BY <1>1, <1>4, <1>5

\* The host is within a file.
LEMMA DataState ==
    ASSUME YmodemInv, yState \in {"data", "again"}
    PROVE  /\ yTrust = "fresh" /\ yFrames \in Seq(Frames) /\ yNext \in Frames /\ yBuff \in Frames
           /\ ySaved \in [Files -> Seq(Frames)] /\ yFaults \in Nat /\ yFile \in Files /\ Heard
           /\ yFile \in 0 .. Len(AsrFiles) /\ 0 \in 0 .. WaitRetries - 1 /\ 0 \in 0 .. Len(AsrFiles)
  <1>1. Heard
    BY DEF YmodemInv, Unheard
  <1>2. yFile \in Files /\ yTrust = "fresh"
    BY <1>1 DEF Heard
  <1>3. yFile \in 0 .. Len(AsrFiles)
    BY <1>2, LastFacts DEF Files
  <1> QED BY <1>1, <1>2, <1>3, YmodemAssumption, LastFacts DEF YmodemInv, YmodemTyped, YmodemTypeOK

\* The frames of a file, each the one before it again or the next one.
NoGap(s, f) ==
    \A i \in DOMAIN s : /\ s[i][1] = f
                        /\ s[i][2] \in IF i = 1 THEN {0, 1} ELSE {s[i - 1][2], s[i - 1][2] + 1}

\* A frame that is the one before it again, or the next one, leaves no gap.
LEMMA NoGapAppend ==
    ASSUME NEW s \in Seq(Frames), NEW f \in Nat, NEW b \in Frames, NEW g \in Frames,
           b[1] = f, g[1] = f, (g[2] = b[2] \/ g[2] = b[2] + 1),
           \/ s = <<>> /\ b[2] = 0
           \/ s # <<>> /\ s[Len(s)] = b,
           NoGap(s, f)
    PROVE  /\ Append(s, g) \in Seq(Frames) /\ Append(s, g) # <<>>
           /\ Append(s, g)[Len(Append(s, g))] = g /\ NoGap(Append(s, g), f)
  <1> DEFINE new == Append(s, g)
  <1>1. PICK n \in Nat : n = Len(s)
    OBVIOUS
  <1>2. /\ new \in Seq(Frames) /\ Len(new) = n + 1 /\ \A i \in 1 .. n : new[i] = s[i]
        /\ new[n + 1] = g
    BY <1>1, AppendFacts
  <1> HIDE DEF new
  <1>3. ASSUME NEW i \in 1 .. n + 1
        PROVE  /\ new[i][1] = f
               /\ new[i][2] \in IF i = 1 THEN {0, 1} ELSE {new[i - 1][2], new[i - 1][2] + 1}
    <2>1. CASE i \in 1 .. n
      <3>1. i # 1 => i - 1 \in 1 .. n
        BY <2>1
      <3>2. i \in DOMAIN s
        BY <1>1, <2>1
      <3> QED BY <1>2, <2>1, <3>1, <3>2 DEF NoGap
    <2>2. CASE i = n + 1 /\ n = 0
      <3>1. s = <<>>
        BY <1>1, <2>2, EmptySeq
      <3>2. b[2] = 0
        BY <3>1
      <3>3. g[2] \in {0, 1}
        BY <3>2
      <3> QED BY <1>2, <2>2, <3>3
    <2>3. CASE i = n + 1 /\ n # 0
      <3>1. s # <<>> /\ n \in 1 .. n /\ i - 1 = n /\ i # 1
        BY <1>1, <2>3
      <3>2. new[i - 1] = b
        BY <1>1, <1>2, <3>1
      <3> QED BY <1>2, <2>3, <3>1, <3>2
    <2> QED BY <1>1, <2>1, <2>2, <2>3
  <1>4. DOMAIN new = 1 .. n + 1 /\ new # <<>>
    BY <1>2
  <1>5. NoGap(new, f)
    BY <1>3, <1>4 DEF NoGap
  <1> QED BY <1>2, <1>4, <1>5 DEF new

\* A frame arrives while a file is open.
LEMMA DataFrameStep ==
    ASSUME YmodemInv, DataFrame
    PROVE  YmodemInv'
  <1>1. /\ yState \in {"data", "again"} /\ yFrames # <<>> /\ yFrames' = Tail(yFrames) /\ yBuff' = Head(yFrames)
        /\ IF IsEot(Head(yFrames))
           THEN yState' = "header" /\ yRetry' = 0 /\ finishup /\ UNCHANGED ySaved
           ELSE save_data(Head(yFrames)) /\ yState' = "data" /\ UNCHANGED <<yRetry, yFile, yClosed>>
        /\ yRet' = "ok" /\ UNCHANGED <<yNext, yFaults, yTrust>>
    BY DEF DataFrame
  <1>2. /\ yTrust = "fresh" /\ yFrames \in Seq(Frames) /\ yNext \in Frames /\ yBuff \in Frames
        /\ ySaved \in [Files -> Seq(Frames)] /\ yFaults \in Nat /\ yFile \in Files /\ Heard
        /\ yFile \in 0 .. Len(AsrFiles) /\ 0 \in 0 .. WaitRetries - 1 /\ 0 \in 0 .. Len(AsrFiles)
    BY <1>1, DataState
  <1>3. PICK g \in Frames : g = Head(yFrames) /\ g = yFrames[1]
    BY <1>1, <1>2, TailFacts
  <1>4. /\ Sent(yBuff) /\ Chain(yBuff) /\ (g = yBuff \/ g = Following(yBuff))
        /\ \A f \in Files : f > yBuff[1] => ySaved[f] = <<>>
        /\ ~IsEot(yBuff) /\ yFile = yBuff[1] /\ yClosed = 1 .. yBuff[1] - 1
        /\ \/ ySaved[yFile] = <<>> /\ yBuff[2] = 0
           \/ ySaved[yFile] # <<>> /\ ySaved[yFile][Len(ySaved[yFile])] = yBuff
    BY <1>1, <1>2, <1>3 DEF Heard
  <1>5. /\ Chain(g)' /\ Sent(g) /\ yFrames' \in Seq(Frames)
        /\ (yFrames' # <<>> => yFrames'[1] = Following(g))
    BY <1>1, <1>2, <1>3, <1>4, ChainTail
  <1>6. PICK b \in Nat : b = yFile /\ b \in Files /\ b < Last_ /\ AsrFiles[b] \in Nat /\ b >= 1
    BY <1>2, LastFacts DEF Files
  <1>7. PICK k \in Nat : k = yBuff[2] /\ k <= AsrFiles[b]
    BY <1>2, <1>4, <1>6, FollowingFacts, FrameFacts
  <1>8. g[1] = b /\ g[2] \in Nat /\ (g[2] = k \/ g[2] = k + 1) /\ (g = <<b, k>> \/ g = <<b, k + 1>>)
    <2>1. yBuff = <<b, k>>
      BY <1>2, <1>4, <1>6, <1>7, FrameFacts
    <2>2. Following(yBuff) = <<b, k + 1>>
      BY <1>2, <1>4, <1>6, <1>7, FollowingFacts
    <2> QED BY <1>4, <2>1, <2>2
  <1>9. Chain(yBuff)' /\ yBuff' = g
    BY <1>1, <1>3, <1>5 DEF Chain
  <1>10. CASE IsEot(g)
    <2>1. yState' = "header" /\ yRetry' = 0 /\ yClosed' = yClosed \cup {yFile} /\ yFile' = 0 /\ ySaved' = ySaved
      BY <1>1, <1>3, <1>10 DEF finishup
    <2>2. g[2] = AsrFiles[b] + 1 /\ k = AsrFiles[b]
      BY <1>6, <1>7, <1>8, <1>10 DEF IsEot
    <2>3. yClosed' = 1 .. b
      BY <1>4, <1>6, <2>1
    <2>4. Heard'
      BY <1>1, <1>2, <1>4, <1>5, <1>6, <1>8, <1>9, <1>10, <2>1, <2>3 DEF Heard
    <2>5. YmodemTyped'
      <3>1. yClosed' \subseteq 1 .. Len(AsrFiles)
        BY <1>6, <2>3, LastFacts
      <3> QED BY <1>1, <1>2, <1>5, <1>9, <2>1, <3>1 DEF YmodemInv, YmodemTyped, YmodemTypeOK
    <2>6. YmodemFiles'
      <3>1. \A f \in Files : /\ \A i \in DOMAIN ySaved[f] :
                                 /\ ySaved[f][i][1] = f
                                 /\ ySaved[f][i][2] \in IF i = 1 THEN {0, 1} ELSE {ySaved[f][i - 1][2], ySaved[f][i - 1][2] + 1}
                             /\ (f \in yClosed /\ AsrFiles[f] > 0) =>
                                  ySaved[f] # <<>> /\ ySaved[f][Len(ySaved[f])] = <<f, AsrFiles[f]>>
        BY <1>2 DEF YmodemInv, YmodemFiles, YmodemNoGap, Files
      <3>2. AsrFiles[b] > 0 => ySaved[b] # <<>> /\ ySaved[b][Len(ySaved[b])] = <<b, AsrFiles[b]>>
        <4>1. yBuff = <<b, k>>
          BY <1>2, <1>4, <1>6, <1>7, FrameFacts
        <4> QED BY <1>4, <1>6, <1>7, <2>2, <4>1
      <3>3. \A f \in Files : f \in yClosed' => f \in yClosed \/ f = b
        BY <1>6, <2>1
      <3>4. YmodemNoGap'
        BY <2>1, <3>1, <3>2, <3>3 DEF YmodemNoGap, Files
      <3>5. YmodemSuccess'
        BY <1>1, <2>1 DEF YmodemSuccess
      <3> QED BY <3>4, <3>5 DEF YmodemFiles
    <2> QED BY <2>4, <2>5, <2>6 DEF YmodemInv
  <1>11. CASE ~IsEot(g)
    <2>1. /\ yState' = "data" /\ UNCHANGED <<yRetry, yFile, yClosed>>
          /\ ySaved' = [ySaved EXCEPT ![yFile] = Append(@, g)]
      BY <1>1, <1>3, <1>11 DEF save_data
    <2> DEFINE new == Append(ySaved[b], g)
    <2>2. ySaved[b] \in Seq(Frames)
      BY <1>2, <1>6
    <2>3. new \in Seq(Frames) /\ new # <<>> /\ new[Len(new)] = g /\ NoGap(new, b)
      <3>1. NoGap(ySaved[b], b)
        BY <1>2, <1>6 DEF YmodemInv, YmodemFiles, YmodemNoGap, Files, NoGap
      <3>2. yBuff[1] = b /\ (g[2] = yBuff[2] \/ g[2] = yBuff[2] + 1)
        BY <1>4, <1>6, <1>7, <1>8
      <3>3. \/ ySaved[b] = <<>> /\ yBuff[2] = 0
            \/ ySaved[b] # <<>> /\ ySaved[b][Len(ySaved[b])] = yBuff
        BY <1>4, <1>6
      <3>4. g[1] = b
        BY <1>8
      <3>5. PICK s \in Seq(Frames) : s = ySaved[b]
        BY <2>2
      <3>6. PICK y \in Frames : y = yBuff
        BY <1>2
      <3>7. /\ NoGap(s, b) /\ y[1] = b /\ (g[2] = y[2] \/ g[2] = y[2] + 1) /\ g[1] = b
            /\ (s = <<>> /\ y[2] = 0) \/ (s # <<>> /\ s[Len(s)] = y)
        BY <3>1, <3>2, <3>3, <3>4, <3>5, <3>6, Zenon
      <3>8. /\ Append(s, g) \in Seq(Frames) /\ Append(s, g) # <<>>
            /\ Append(s, g)[Len(Append(s, g))] = g /\ NoGap(Append(s, g), b)
        BY <1>6, <3>7, NoGapAppend, ZenonT(60)
      <3> QED BY <3>5, <3>8
    <2>4. /\ ySaved' \in [Files -> Seq(Frames)] /\ ySaved'[b] = new
          /\ \A f \in Files : f # b => ySaved'[f] = ySaved[f]
      BY <1>2, <1>6, <2>1, <2>3
    <2> HIDE DEF new
    <2>5. Heard'
      <3>1. \A f \in Files : f > b => ySaved'[f] = <<>>
        <4>1. \A f \in Files : f > b => f # b
          BY <1>6, LastFacts
        <4> QED BY <1>4, <1>6, <2>4, <4>1
      <3>2. yState' # "header" /\ yState' # "quit" /\ yFile' = b /\ yClosed' = 1 .. b - 1
        BY <1>4, <1>6, <2>1
      <3>3. yTrust' = "fresh"
        BY <1>1, <1>2
      <3> QED BY <1>5, <1>6, <1>8, <1>9, <1>11, <2>3, <2>4, <3>1, <3>2, <3>3 DEF Heard
    <2>6. YmodemTyped'
      BY <1>1, <1>2, <1>5, <1>9, <2>1, <2>4 DEF YmodemInv, YmodemTyped, YmodemTypeOK
    <2>7. YmodemFiles'
      <3>1. b \notin yClosed'
        BY <1>4, <1>6, <2>1
      <3>2. YmodemNoGap'
        <4> SUFFICES ASSUME NEW f \in Files
                     PROVE  /\ \A i \in DOMAIN ySaved'[f] :
                                 /\ ySaved'[f][i][1] = f
                                 /\ ySaved'[f][i][2] \in IF i = 1 THEN {0, 1} ELSE {ySaved'[f][i - 1][2], ySaved'[f][i - 1][2] + 1}
                            /\ (f \in yClosed' /\ AsrFiles[f] > 0) =>
                                 ySaved'[f] # <<>> /\ ySaved'[f][Len(ySaved'[f])] = <<f, AsrFiles[f]>>
          BY DEF YmodemNoGap, Files
        <4>1. CASE f = b
          BY <2>3, <2>4, <3>1, <4>1 DEF NoGap
        <4>2. CASE f # b
          <5>1. ySaved'[f] = ySaved[f]
            BY <2>4, <4>2
          <5>2. /\ \A i \in DOMAIN ySaved[f] :
                     /\ ySaved[f][i][1] = f
                     /\ ySaved[f][i][2] \in IF i = 1 THEN {0, 1} ELSE {ySaved[f][i - 1][2], ySaved[f][i - 1][2] + 1}
                /\ (f \in yClosed /\ AsrFiles[f] > 0) =>
                     ySaved[f] # <<>> /\ ySaved[f][Len(ySaved[f])] = <<f, AsrFiles[f]>>
            BY <1>2 DEF YmodemInv, YmodemFiles, YmodemNoGap, Files
          <5> QED BY <2>1, <5>1, <5>2, Zenon
        <4> QED BY <4>1, <4>2
      <3>3. YmodemSuccess'
        BY <1>1, <2>1 DEF YmodemSuccess
      <3> QED BY <3>2, <3>3 DEF YmodemFiles
    <2> QED BY <2>5, <2>6, <2>7 DEF YmodemInv
  <1> QED BY <1>10, <1>11

\* The wait for data is in vain.
LEMMA DataTimeoutStep ==
    ASSUME YmodemInv, DataTimeout
    PROVE  YmodemInv'
  <1>1. /\ yState \in {"data", "again"} /\ yRet' = "error"
        /\ UNCHANGED <<yRetry, yBuff, yFile, ySaved, yClosed, yFrames, yNext, yFaults, yTrust>>
        /\ IF yState = "data" THEN yState' = "again" ELSE yState' = "quit"
    BY DEF DataTimeout
  <1>2. /\ yTrust = "fresh" /\ yFrames \in Seq(Frames) /\ yNext \in Frames /\ yBuff \in Frames
        /\ ySaved \in [Files -> Seq(Frames)] /\ yFaults \in Nat /\ yFile \in Files /\ Heard
        /\ yFile \in 0 .. Len(AsrFiles) /\ 0 \in 0 .. WaitRetries - 1 /\ 0 \in 0 .. Len(AsrFiles)
    BY <1>1, DataState
  <1>3. CASE yState = "data"
    <2>1. yState' = "again" /\ yRet' = "error"
      BY <1>1, <1>3
    <2>2. Heard'
      BY <1>1, <1>2, <1>3, <2>1 DEF Heard, Chain
    <2>3. YmodemTyped'
      BY <1>1, <1>2, <1>3, <2>1 DEF YmodemInv, YmodemTyped, YmodemTypeOK
    <2>4. YmodemFiles'
      BY <1>1, <2>1, YFilesKept
    <2> QED BY <2>2, <2>3, <2>4 DEF YmodemInv
  <1>4. CASE yState # "data"
    BY <1>1, <1>2, <1>4, YEnded
  <1> QED BY <1>3, <1>4

\* The host gives up, or is asked to end.
LEMMA YErrorStep ==
    ASSUME YmodemInv, YError \/ YExit
    PROVE  YmodemInv'
  <1>1. /\ yFaults \in Nat /\ yFrames \in Seq(Frames) /\ yNext \in Frames /\ yBuff \in Frames
        /\ yFile \in 0 .. Len(AsrFiles) /\ 0 \in 0 .. Len(AsrFiles)
    BY LastFacts DEF YmodemInv, YmodemTyped, YmodemTypeOK
  <1>2. YFault /\ yFaults' \in Nat
    BY <1>1, YFaultFacts DEF YError, YExit
  <1>3. /\ yState # "quit" /\ yState' = "quit" /\ yFile' \in 0 .. Len(AsrFiles)
        /\ UNCHANGED <<yRetry, yBuff, ySaved, yClosed, yFrames, yNext>>
    BY <1>1 DEF YError, YExit, YReturns
  <1>4. yTrust \in {"stale", "fresh"} /\ yRet \in {"ok", "error"}
    BY <1>3 DEF YmodemInv, YmodemTyped, YmodemTypeOK, Unheard, Heard
  <1>5. (yRet' = "error" /\ yTrust' = yTrust) \/ (yRet' = yRet /\ yTrust' = "exit")
    BY <1>4 DEF YError, YExit, YReturns
  <1> QED BY <1>1, <1>2, <1>3, <1>4, <1>5, YEnded

\* The module's step leaves the host alone.
LEMMA YHostKept ==
    ASSUME YmodemInv, yState # "quit", UNCHANGED yHost, yFrames' \in Seq(Frames), yNext' \in Frames,
           yFaults' \in Nat, Unheard' \/ Heard'
    PROVE  YmodemInv'
  <1>1. UNCHANGED <<yState, yRet, yRetry, yBuff, yFile, ySaved, yClosed, yTrust>>
    BY DEF yHost, YmodemInv, YmodemTyped, YmodemTypeOK
  <1>2. YmodemTyped'
    BY <1>1 DEF YmodemInv, YmodemTyped, YmodemTypeOK
  <1>3. YmodemFiles'
    BY <1>1, YFilesKept
  <1> QED BY <1>2, <1>3 DEF YmodemInv

\* What follows a frame the module sent, up to the last header, it sends too.
LEMMA NextSent ==
    ASSUME NEW f, Sent(f), Following(f) # <<Last_, 1>>
    PROVE  f[1] \in Files /\ Sent(Following(f))
  <1>1. f[1] # Last_
    BY FollowingLast
  <1>2. f[1] \in Files
    BY <1>1, LastFacts DEF Sent, Files
  <1> QED BY <1>2, FollowingFacts

\* The frame after one the module sends is a frame.
LEMMA FollowingFrame ==
    ASSUME NEW f, Sent(f)
    PROVE  Following(f) \in Frames
  <1>1. f[1] \in Files \/ f[1] = Last_
    BY LastFacts DEF Sent, Files
  <1> QED BY <1>1, FollowingFacts, FollowingLast

\* The module appends a frame to the chain.
LEMMA ChainAppend ==
    ASSUME yFrames \in Seq(Frames), NEW f, Chain(f) \/ yFrames = <<>>, Sent(yNext),
           yFrames' = Append(yFrames, yNext), yNext' = Following(yNext)
    PROVE  /\ Chain(f)' /\ yFrames' \in Seq(Frames) /\ yNext' \in Frames /\ yFrames' # <<>>
           /\ yFrames'[1] = IF yFrames = <<>> THEN yNext ELSE yFrames[1]
  <1>1. PICK n \in Nat : n = Len(yFrames) /\ (yFrames = <<>> <=> n = 0)
    BY EmptySeq
  <1>2. yNext \in Frames /\ yNext' \in Frames
    BY FollowingFrame DEF Sent
  <1>3. PICK s \in Seq(Frames) : s = yFrames
    OBVIOUS
  <1>4. PICK g \in Frames : g = yNext
    BY <1>2
  <1>5. PICK t : t = Append(s, g)
    OBVIOUS
  <1>6. t \in Seq(Frames) /\ Len(t) = n + 1 /\ (\A i \in 1 .. n : t[i] = s[i]) /\ t[n + 1] = g
    BY <1>1, <1>3, <1>5, AppendFacts
  <1>7. yFrames' = t
    BY <1>3, <1>4, <1>5
  <1>8. /\ \A i \in 1 .. n : Sent(s[i])
        /\ \A i \in 1 .. n - 1 : s[i + 1] = Following(s[i])
        /\ (n > 0 => g = Following(s[n]))
    BY <1>1, <1>3, <1>4 DEF Chain
  <1>9. \A i \in 1 .. n + 1 : Sent(t[i])
    <2>1. \A i \in 1 .. n + 1 : i \in 1 .. n \/ i = n + 1
      BY <1>1
    <2> QED BY <1>4, <1>6, <1>8, <2>1
  <1>10. ASSUME NEW i \in 1 .. n PROVE t[i + 1] = Following(t[i])
    <2>1. CASE i = n
      <3>1. n > 0
        BY <2>1
      <3> QED BY <1>6, <1>8, <2>1, <3>1
    <2>2. CASE i # n
      <3>1. i \in 1 .. n - 1 /\ i + 1 \in 1 .. n
        BY <1>1, <2>2
      <3> QED BY <1>6, <1>8, <3>1
    <2> QED BY <2>1, <2>2
  <1>11. t # <<>> /\ (n + 1) - 1 = n
    BY <1>1, <1>6
  <1>12. yNext' = Following(t[Len(t)])
    BY <1>4, <1>6
  <1>13. Chain(f)'
    BY <1>6, <1>7, <1>9, <1>10, <1>11, <1>12 DEF Chain
  <1>14. t[1] = IF yFrames = <<>> THEN yNext ELSE yFrames[1]
    <2>1. CASE n = 0
      BY <1>1, <1>4, <1>6, <2>1
    <2>2. CASE n > 0
      <3>1. 1 \in 1 .. n
        BY <1>1, <2>2
      <3> QED BY <1>1, <1>3, <1>6, <2>2, <3>1
    <2> QED BY <1>1, <2>1, <2>2
  <1> QED BY <1>2, <1>6, <1>7, <1>11, <1>13, <1>14

\* The module takes an answer and sends its next frame, or the answer is lost.
LEMMA AsrSendsStep ==
    ASSUME YmodemInv, AsrSends
    PROVE  YmodemInv'
  <1>1. yState # "quit" /\ UNCHANGED yHost
    BY DEF AsrSends
  <1>2. UNCHANGED <<yState, yRet, yRetry, yBuff, yFile, ySaved, yClosed, yTrust>>
    BY <1>1 DEF yHost
  <1>3. /\ yFrames \in Seq(Frames) /\ yNext \in Frames /\ yFaults \in Nat /\ (Unheard \/ Heard)
    BY <1>1 DEF YmodemInv, YmodemTyped
  <1>4. CASE yFrames' = Append(yFrames, yNext) /\ yNext' = Following(yNext) /\ yNext # <<Last_, 1>> /\ UNCHANGED yFaults
    <2>1. CASE Unheard
      <3>1. Chain(yBuff) \/ (yFrames = <<>> /\ yNext = <<1, 0>>)
        BY <2>1 DEF Unheard
      <3>2. Sent(yNext)
        <4>1. CASE yFrames = <<>>
          BY <2>1, <4>1, FirstSent DEF Unheard
        <4>2. CASE yFrames # <<>>
          <5>1. Sent(yFrames[Len(yFrames)]) /\ yNext = Following(yFrames[Len(yFrames)])
            <6>1. Len(yFrames) \in 1 .. Len(yFrames)
              BY <1>3, <4>2, TailFacts
            <6> QED BY <2>1, <4>2, <6>1 DEF Unheard, Chain
          <5> QED BY <1>4, <5>1, NextSent
        <4> QED BY <4>1, <4>2
      <3>3. /\ Chain(yBuff)' /\ yFrames' \in Seq(Frames) /\ yNext' \in Frames /\ yFrames' # <<>>
            /\ yFrames'[1] = IF yFrames = <<>> THEN yNext ELSE yFrames[1]
        <4>1. PICK f : f = yBuff
          OBVIOUS
        <4>2. /\ Chain(f)' /\ yFrames' \in Seq(Frames) /\ yNext' \in Frames /\ yFrames' # <<>>
              /\ yFrames'[1] = IF yFrames = <<>> THEN yNext ELSE yFrames[1]
          BY <1>3, <1>4, <3>1, <3>2, <4>1, ChainAppend
        <4> QED BY <1>2, <4>1, <4>2 DEF Chain
      <3>4. yFrames'[1] = <<1, 0>>
        BY <2>1, <3>3 DEF Unheard
      <3>5. Unheard'
        BY <1>2, <2>1, <3>3, <3>4 DEF Unheard
      <3> QED BY <1>1, <1>3, <1>4, <3>3, <3>5, YHostKept
    <2>2. CASE Heard
      <3>1. Sent(yBuff) /\ yBuff[1] \in Files /\ Chain(yBuff)
        BY <2>2 DEF Heard
      <3>2. Sent(yNext)
        <4>1. CASE yFrames = <<>>
          BY <3>1, <4>1, FollowingFacts DEF Chain
        <4>2. CASE yFrames # <<>>
          <5>1. Sent(yFrames[Len(yFrames)]) /\ yNext = Following(yFrames[Len(yFrames)])
            <6>1. Len(yFrames) \in 1 .. Len(yFrames)
              BY <1>3, <4>2, TailFacts
            <6> QED BY <3>1, <4>2, <6>1 DEF Chain
          <5> QED BY <1>4, <5>1, NextSent
        <4> QED BY <4>1, <4>2
      <3>3. /\ Chain(yBuff)' /\ yFrames' \in Seq(Frames) /\ yNext' \in Frames /\ yFrames' # <<>>
            /\ yFrames'[1] = IF yFrames = <<>> THEN yNext ELSE yFrames[1]
        <4>1. PICK f : f = yBuff
          OBVIOUS
        <4>2. /\ Chain(f)' /\ yFrames' \in Seq(Frames) /\ yNext' \in Frames /\ yFrames' # <<>>
              /\ yFrames'[1] = IF yFrames = <<>> THEN yNext ELSE yFrames[1]
          BY <1>3, <1>4, <3>1, <3>2, <4>1, ChainAppend
        <4> QED BY <1>2, <4>1, <4>2 DEF Chain
      <3>4. yFrames'[1] = yBuff \/ yFrames'[1] = Following(yBuff)
        BY <2>2, <3>1, <3>3 DEF Heard, Chain
      <3>5. Heard'
        BY <1>2, <2>2, <3>3, <3>4 DEF Heard
      <3> QED BY <1>1, <1>3, <1>4, <3>3, <3>5, YHostKept
    <2> QED BY <1>3, <2>1, <2>2
  <1>5. CASE UNCHANGED <<yFrames, yNext>> /\ yFaults' \in Nat
    <2>1. Unheard => Unheard'
      BY <1>2, <1>5 DEF Unheard, Chain
    <2>2. Heard => Heard'
      BY <1>2, <1>5 DEF Heard, Chain
    <2> QED BY <1>1, <1>3, <1>5, <2>1, <2>2, YHostKept
  <1>6. YFault => yFaults' \in Nat
    BY <1>3, YFaultFacts
  <1> QED BY <1>3, <1>4, <1>5, <1>6 DEF AsrSends

\* The module sends its frame again.
LEMMA AsrRepeatsStep ==
    ASSUME YmodemInv, AsrRepeats
    PROVE  YmodemInv'
  <1>1. /\ yState # "quit" /\ UNCHANGED yHost /\ yNext # <<1, 0>> /\ yFrames = <<>> /\ YFault
        /\ yFrames' = <<yBuff>> /\ yNext' = yNext
    BY DEF AsrRepeats
  <1>2. UNCHANGED <<yState, yRet, yRetry, yBuff, yFile, ySaved, yClosed, yTrust>>
    BY <1>1 DEF yHost
  <1>3. /\ yNext \in Frames /\ yFaults' \in Nat /\ Heard /\ yBuff \in Frames
    <2>1. ~Unheard
      BY <1>1 DEF Unheard
    <2> QED BY <1>1, <2>1, YFaultFacts DEF YmodemInv, YmodemTyped
  <1>4. PICK t : t = <<yBuff>>
    OBVIOUS
  <1>5. t \in Seq(Frames) /\ Len(t) = 1 /\ t[1] = yBuff /\ t # <<>>
    BY <1>3, <1>4
  <1>6. Chain(yBuff)'
    <2>1. Sent(yBuff) /\ yNext = Following(yBuff)
      BY <1>1, <1>3 DEF Heard, Chain
    <2>2. \A i \in 1 .. 1 : i = 1
      OBVIOUS
    <2>3. \A i \in 1 .. 1 - 1 : FALSE
      OBVIOUS
    <2> QED BY <1>1, <1>2, <1>4, <1>5, <2>1, <2>2, <2>3 DEF Chain
  <1>7. Heard'
    BY <1>1, <1>2, <1>3, <1>4, <1>5, <1>6 DEF Heard
  <1> QED BY <1>1, <1>3, <1>4, <1>5, <1>7, YHostKept

\* Every step of the receiver keeps the types, misled or not.
LEMMA YHostTyped ==
    ASSUME YmodemTyped, Flow, YHostNext
    PROVE  YmodemTyped'
  <1>1. /\ yFrames \in Seq(Frames) /\ yFaults \in Nat /\ ySaved \in [Files -> Seq(Frames)]
        /\ yFile \in 0 .. Len(AsrFiles) /\ yClosed \subseteq Files /\ yRetry \in 0 .. WaitRetries - 1
        /\ yRet \in {"ok", "error"} /\ yTrust \in {"stale", "fresh", "misled", "exit"}
        /\ yState \in {"header", "data", "again", "quit"} /\ yBuff \in Frames /\ yNext \in Frames
        /\ (yState \in {"data", "again"} => yFile # 0) /\ (yState = "header" => yFile = 0)
    BY DEF YmodemTyped, YmodemTypeOK, Files
  <1>2. /\ 0 \in 0 .. WaitRetries - 1 /\ 0 \in 0 .. Len(AsrFiles)
        /\ (yRetry + 1 < WaitRetries => yRetry + 1 \in 0 .. WaitRetries - 1)
        /\ (yState \in {"data", "again"} => yFile \in Files)
    BY <1>1, YmodemAssumption, LastFacts DEF Files
  <1>3. ASSUME YFault PROVE yFaults' \in Nat
    BY <1>1, <1>3, YFaultFacts
  <1>4. ASSUME yFrames # <<>>
        PROVE  Tail(yFrames) \in Seq(Frames) /\ Head(yFrames) \in Frames /\ Sent(Head(yFrames))
    <2>1. 1 \in 1 .. Len(yFrames) /\ Head(yFrames) = yFrames[1] /\ Tail(yFrames) \in Seq(Frames)
      BY <1>1, <1>4, TailFacts
    <2> QED BY <2>1 DEF Flow, Sent
  <1>5. ASSUME NEW g \in Frames, Sent(g) \/ g = Silent, NEW r \in {"ok", "error"}, NEW q, AfterWait(g, r, q),
               yState = "header"
        PROVE  /\ yRetry' \in 0 .. WaitRetries - 1 /\ yRet' \in {"ok", "error"}
               /\ yState' \in {"header", "data", "quit"} /\ yFaults' \in Nat
               /\ yFile' \in 0 .. Len(AsrFiles) /\ ySaved' \in [Files -> Seq(Frames)]
               /\ (yState' = "data" => yFile' # 0) /\ (yState' = "header" => yFile' = 0)
    <2>1. IsHeader(g) /\ ~IsEnd(g) => g[1] \in Files /\ g[1] \in 0 .. Len(AsrFiles) /\ g[1] # 0
      <3>1. SUFFICES ASSUME IsHeader(g), ~IsEnd(g)
                     PROVE  g[1] \in Files
        BY LastFacts DEF Files
      <3>2. Sent(g) /\ g[2] = 0 /\ g # <<Last_, 0>>
        BY <1>5, <3>1 DEF IsHeader, IsEnd
      <3>3. g[1] # Last_
        BY <3>2, FrameFacts
      <3> QED BY <3>2, <3>3, LastFacts DEF Sent, Files
    <2>2. CASE /\ IsHeader(g) /\ ~IsEnd(g) /\ yState' = "data" /\ yRet' = "ok" /\ yFile' = g[1]
               /\ ySaved' = [ySaved EXCEPT ![g[1]] = <<>>] /\ UNCHANGED <<yRetry, yFaults>>
      <3>1. ySaved' \in [Files -> Seq(Frames)]
        BY <1>1, <2>1, <2>2, NothingFacts
      <3> QED BY <1>1, <2>1, <2>2, <3>1
    <2>3. CASE yRetry' = 0 /\ yRet' = r /\ UNCHANGED <<yState, yFile, ySaved, yFaults>>
      BY <1>1, <1>2, <1>5, <2>3
    <2>4. CASE YReturns("ok") /\ UNCHANGED <<yRetry, yFile, ySaved, yFaults>>
      BY <1>1, <2>4 DEF YReturns
    <2>5. CASE YFault /\ YReturns("error") /\ UNCHANGED <<yRetry, yFile, ySaved>>
      BY <1>1, <1>3, <2>5 DEF YReturns
    <2> QED BY <1>5, <2>2, <2>3, <2>4, <2>5 DEF AfterWait
  <1>6. CASE HeaderFrame
    <2>1. /\ yState = "header" /\ yFrames # <<>> /\ AfterWait(Head(yFrames), "ok", yAnswers)
          /\ yFrames' = Tail(yFrames) /\ yBuff' = Head(yFrames) /\ UNCHANGED <<yClosed, yNext>>
          /\ yTrust' \in {"misled", "fresh"}
      BY <1>6 DEF HeaderFrame
    <2> QED BY <1>1, <1>4, <1>5, <2>1 DEF YmodemTyped, YmodemTypeOK, Files
  <1>7. CASE HeaderTimeout
    <2>1. /\ yState = "header" /\ UNCHANGED <<yBuff, yClosed, yFrames, yNext>> /\ yTrust' \in {"misled", yTrust}
      BY <1>7 DEF HeaderTimeout
    <2>2. CASE yRetry + 1 < WaitRetries
      <3>1. yRetry' = yRetry + 1 /\ yRet' = "error" /\ UNCHANGED <<yState, yFile, ySaved, yFaults>>
        BY <1>7, <2>2 DEF HeaderTimeout
      <3> QED BY <1>1, <1>2, <2>1, <2>2, <3>1 DEF YmodemTyped, YmodemTypeOK, Files
    <2>3. CASE AfterWait(yBuff, "error", Append(yAnswers, "CNC"))
      <3>1. Sent(yBuff) \/ yBuff = Silent
        BY DEF Flow
      <3> QED BY <1>1, <1>5, <2>1, <2>3, <3>1 DEF YmodemTyped, YmodemTypeOK, Files
    <2> QED BY <1>7, <2>2, <2>3 DEF HeaderTimeout
  <1>8. CASE DataFrame
    <2>1. /\ yState \in {"data", "again"} /\ yFrames # <<>> /\ yFrames' = Tail(yFrames)
          /\ yBuff' = Head(yFrames) /\ yRet' = "ok" /\ UNCHANGED <<yNext, yFaults, yTrust>>
          /\ IF IsEot(Head(yFrames))
             THEN yState' = "header" /\ yRetry' = 0 /\ finishup /\ UNCHANGED ySaved
             ELSE save_data(Head(yFrames)) /\ yState' = "data" /\ UNCHANGED <<yRetry, yFile, yClosed>>
      BY <1>8 DEF DataFrame
    <2>2. yFile \in Files
      BY <1>2, <2>1
    <2>3. CASE IsEot(Head(yFrames))
      <3>1. yState' = "header" /\ yRetry' = 0 /\ yFile' = 0 /\ ySaved' = ySaved /\ yClosed' \subseteq Files
        BY <1>1, <2>1, <2>2, <2>3 DEF finishup
      <3> QED BY <1>1, <1>2, <1>4, <2>1, <3>1 DEF YmodemTyped, YmodemTypeOK, Files
    <2>4. CASE ~IsEot(Head(yFrames))
      <3>1. yState' = "data" /\ UNCHANGED <<yRetry, yFile, yClosed>>
            /\ ySaved' = [ySaved EXCEPT ![yFile] = Append(@, Head(yFrames))]
        BY <2>1, <2>4 DEF save_data
      <3>2. PICK g \in Frames : g = Head(yFrames)
        BY <1>4, <2>1
      <3>3. Append(ySaved[yFile], g) \in Seq(Frames)
        BY <1>1, <2>2, AppendFacts
      <3>4. ySaved' \in [Files -> Seq(Frames)]
        BY <1>1, <2>2, <3>1, <3>2, <3>3
      <3> QED BY <1>1, <1>2, <1>4, <2>1, <3>1, <3>4 DEF YmodemTyped, YmodemTypeOK, Files
    <2> QED BY <2>3, <2>4
  <1>9. CASE DataTimeout
    <2>1. /\ yState \in {"data", "again"} /\ yRet' = "error" /\ yState' \in {"again", "quit"}
          /\ UNCHANGED <<yRetry, yBuff, yFile, ySaved, yClosed, yFrames, yNext, yFaults, yTrust>>
      BY <1>9 DEF DataTimeout
    <2> QED BY <1>1, <2>1 DEF YmodemTyped, YmodemTypeOK, Files
  <1>10. CASE YError \/ YExit
    <2>1. /\ yState' = "quit" /\ yRet' \in {"error", yRet} /\ yFile' \in {0, yFile} /\ YFault
          /\ yTrust' \in {"exit", yTrust} /\ UNCHANGED <<yRetry, yBuff, ySaved, yClosed, yFrames, yNext>>
      BY <1>10 DEF YError, YExit, YReturns
    <2> QED BY <1>1, <1>2, <1>3, <2>1 DEF YmodemTyped, YmodemTypeOK, Files
  <1> QED BY <1>6, <1>7, <1>8, <1>9, <1>10 DEF YHostNext

\* Every step of the module keeps the types.
LEMMA AsrTyped ==
    ASSUME YmodemTyped, Flow, AsrSends \/ AsrRepeats
    PROVE  YmodemTyped'
  <1>1. UNCHANGED yHost
    BY DEF AsrSends, AsrRepeats
  <1>2. UNCHANGED <<yState, yRet, yRetry, yBuff, yFile, ySaved, yClosed, yTrust>>
    BY <1>1 DEF yHost
  <1>3. yFrames \in Seq(Frames) /\ yNext \in Frames /\ yBuff \in Frames /\ yFaults \in Nat
    BY DEF YmodemTyped
  <1>4. yFrames' \in Seq(Frames) /\ yNext' \in Frames
    <2>1. Append(yFrames, yNext) \in Seq(Frames) /\ <<yBuff>> \in Seq(Frames)
      BY <1>3, AppendFacts
    <2>2. yNext # <<Last_, 1>> => Following(yNext) \in Frames
      BY FollowingFrame DEF Flow
    <2> QED BY <1>3, <2>1, <2>2 DEF AsrSends, AsrRepeats
  <1>5. yFaults' \in Nat
    BY <1>3, YFaultFacts DEF AsrSends, AsrRepeats
  <1> QED BY <1>2, <1>4, <1>5 DEF YmodemTyped, YmodemTypeOK

\* Every frame under way stays one of the module's.
LEMMA FlowStep ==
    ASSUME YmodemTyped, Flow, YmodemNext
    PROVE  Flow'
  <1> DEFINE Takes == yFrames # <<>> /\ yFrames' = Tail(yFrames) /\ yBuff' = Head(yFrames) /\ yNext' = yNext
             Rests == UNCHANGED <<yFrames, yBuff, yNext>>
             Sends == yFrames' = Append(yFrames, yNext) /\ yNext' = Following(yNext) /\ yNext # <<Last_, 1>> /\ yBuff' = yBuff
             Repeats == yFrames' = <<yBuff>> /\ yBuff # Silent /\ UNCHANGED <<yBuff, yNext>>
  <1>1. yFrames \in Seq(Frames) /\ yNext \in Frames /\ yBuff \in Frames
    BY DEF YmodemTyped
  <1>2. CASE Takes
    <2>1. PICK n \in Nat : n = Len(yFrames) /\ n >= 1
      BY <1>1, <1>2, TailFacts
    <2>2. /\ yFrames' \in Seq(Frames) /\ Len(yFrames') = n - 1 /\ yBuff' = yFrames[1]
          /\ \A i \in 1 .. n - 1 : yFrames'[i] = yFrames[i + 1]
      BY <1>1, <1>2, <2>1, TailFacts
    <2>3. 1 \in 1 .. n /\ \A i \in 1 .. n - 1 : i + 1 \in 1 .. n
      BY <2>1
    <2> QED BY <1>2, <2>1, <2>2, <2>3 DEF Flow
  <1>3. CASE Rests
    BY <1>3 DEF Flow
  <1>4. CASE Sends
    <2>1. PICK n \in Nat : n = Len(yFrames)
      BY <1>1
    <2>2. Sent(yNext)
      BY <1>4 DEF Flow
    <2>3. Len(yFrames') = n + 1 /\ (\A i \in 1 .. n : yFrames'[i] = yFrames[i]) /\ yFrames'[n + 1] = yNext
      BY <1>1, <1>4, <2>1, AppendFacts
    <2>4. \A i \in 1 .. n + 1 : i \in 1 .. n \/ i = n + 1
      BY <2>1
    <2>5. \A i \in 1 .. n + 1 : Sent(yFrames'[i])
      BY <2>1, <2>2, <2>3, <2>4 DEF Flow
    <2>6. Sent(Following(yNext)) \/ Following(yNext) = <<Last_, 1>>
      BY <2>2, NextSent
    <2> QED BY <1>4, <2>3, <2>5, <2>6 DEF Flow
  <1>5. CASE Repeats
    <2>1. PICK t : t = <<yBuff>>
      OBVIOUS
    <2>2. Len(t) = 1 /\ t[1] = yBuff
      BY <2>1
    <2>3. \A i \in 1 .. 1 : i = 1
      OBVIOUS
    <2> QED BY <1>5, <2>1, <2>2, <2>3 DEF Flow
  <1>6. HeaderFrame \/ DataFrame => Takes
    BY DEF HeaderFrame, DataFrame
  <1>7. HeaderTimeout \/ DataTimeout \/ YError \/ YExit => Rests
    BY DEF HeaderTimeout, DataTimeout, YError, YExit
  <1>8. AsrSends => Rests \/ Sends
    BY DEF AsrSends, yHost
  <1>9. AsrRepeats => Repeats
    BY DEF AsrRepeats, yHost
  <1> QED BY <1>2, <1>3, <1>4, <1>5, <1>6, <1>7, <1>8, <1>9 DEF YmodemNext, YHostNext

\* Every step of the receiver and of the module keeps the invariant; what misled a dump stays so.
LEMMA YmodemStep ==
    ASSUME YmodemWhole, [YmodemNext]_ymodemVars
    PROVE  YmodemWhole'
  <1>1. CASE UNCHANGED ymodemVars
    <2>1. UNCHANGED <<yState, yRet, yRetry, yBuff, yFile, ySaved, yClosed, yFrames, yNext, yFaults, yTrust>>
      BY <1>1, Zenon DEF ymodemVars, yHost
    <2>2. YmodemTyped => YmodemTyped'
      BY <2>1 DEF YmodemTyped, YmodemTypeOK
    <2>3. Flow => Flow'
      BY <2>1 DEF Flow
    <2>4. YmodemInv => YmodemInv'
      <3>1. YmodemFiles => YmodemFiles'
        BY <2>1 DEF YmodemFiles, YmodemNoGap, YmodemSuccess
      <3>2. (Unheard => Unheard') /\ (Heard => Heard')
        BY <2>1 DEF Chain, Unheard, Heard
      <3> QED BY <2>1, <2>2, <3>1, <3>2 DEF YmodemInv
    <2> QED BY <2>1, <2>2, <2>3, <2>4 DEF YmodemWhole
  <1>2. CASE YmodemNext
    <2>1. YmodemTyped' /\ Flow'
      BY <1>2, YHostTyped, AsrTyped, FlowStep DEF YmodemWhole, YmodemNext
    <2>2. CASE yTrust = "misled"
      <3>1. yTrust' = "misled"
        BY <1>2, <2>2 DEF YmodemNext, YHostNext, HeaderFrame, HeaderTimeout, DataFrame, DataTimeout, YError, YExit,
                          AsrSends, AsrRepeats, yHost
      <3> QED BY <2>1, <3>1 DEF YmodemWhole
    <2>3. CASE YmodemInv
      <3>1. YmodemInv' \/ yTrust' = "misled"
        BY <1>2, <2>3, HeaderFrameStep, HeaderTimeoutStep, DataFrameStep, DataTimeoutStep, YErrorStep, AsrSendsStep,
           AsrRepeatsStep DEF YmodemNext, YHostNext
      <3> QED BY <2>1, <3>1 DEF YmodemWhole
    <2> QED BY <2>2, <2>3 DEF YmodemWhole
  <1> QED BY <1>1, <1>2

\* The invariant gives what the theorem says.
LEMMA YmodemConclusion ==
    ASSUME YmodemWhole
    PROVE  YmodemTypeOK /\ YmodemFiles
  BY DEF YmodemWhole, YmodemInv, YmodemTyped, YmodemFiles, YmodemNoGap, YmodemSuccess

\* The receiver's state has its types and the files of a dump are the module's, whichever
\* answers are lost, frames sent again and waits ended too early: no frame of a file is
\* skipped or saved after a later one, a file closed by EOT has its last frame, and success
\* is reported only with every file closed, with an exit requested between two reads, or
\* with no file at all and no frame of the module seen.  It holds whatever frame of an earlier
\* dump the static buffer held, unless that frame is a header and opened a file
\* (asr_catch_dump, which looks neither at the index nor at the checksum of a data frame).
THEOREM YmodemCorrect == YmodemSpec => [](YmodemTypeOK /\ YmodemFiles)
  <1>1. YmodemInit => YmodemWhole
    BY YmodemInitially
  <1>2. YmodemWhole /\ [YmodemNext]_ymodemVars => YmodemWhole'
    BY YmodemStep
  <1>3. YmodemWhole => YmodemTypeOK /\ YmodemFiles
    BY YmodemConclusion
  <1> QED BY <1>1, <1>2, <1>3, PTL DEF YmodemSpec

-----------------------------------------------------------------------------
(* The blue screen and AP dumps of the Unisoc modules *)

\* The regions of the table, the items of a file and the answers of the module.
BlueRegions == DOMAIN BlueTable \cup {0}

BlueItems == Nat \X Nat

BlueAnswers == [kind : {"status", "psram", "read32", "second", "block"}, rid : 0 .. RidMax, data : Seq(BlueItems)]

\* The types of all variables.
BlueTyped ==
    /\ BlueTypeOK /\ bChip \in {"exx00u", "ec800g", "apdump", "8310"}
    /\ bWhat \in {"psram", "read32", "second", "block"} /\ bFlag \in BOOLEAN /\ bOff \in Nat /\ bVal \in BOOLEAN
    /\ bFiles \in [BlueRegions -> Seq(BlueItems)] /\ bLine \in Seq(BlueAnswers)
    /\ bFilter \in {"idle", "checked"} /\ bQueries \in 0 .. BlueQueries /\ (bFilter = "checked" => bQueries < BlueQueries)
    /\ bExit \in BOOLEAN /\ bFaults \in Nat /\ bStale \in BOOLEAN

\* A request is being made, sent or waited for.
Requesting == bPc \in {"bump", "send", "wait"}

\* A region is being read.
InBlocks == bPc = "block" \/ (Requesting /\ bWhat = "block")

\* Which thread does what: only the blue screen dumps make requests, each about
\* the region of the table it is at.
BluePlace ==
    /\ bPc # "end" => bRet = 0
    /\ bPc = "apdump" => IsApDump
    /\ bPc \notin {"log", "apdump", "end"} => ~IsApDump
    /\ bPc = "sleep" => bChip = "ec800g"
    /\ (IsApDump => bFilter = "idle" /\ bLine = <<>>)
    /\ (bChip = "ec800g" /\ bPc \notin {"log", "end"}) => bFlag
    /\ (bChip = "ec800g" /\ bPc \notin {"log", "sleep", "end"}) => bFilter = "idle"
    /\ (Requesting /\ bWhat # "psram") => bI \in DOMAIN BlueTable /\ BlueTable[bI].type = "region"
    /\ (Requesting /\ bWhat \in {"read32", "second"}) => IsRequire(bI + 1)
    /\ (Requesting /\ bWhat \in {"psram", "second"}) => bChip = "ec800g"
    /\ (Requesting /\ bWhat = "block") => bOff < BlueTable[bI].size
    /\ bPc = "block" => bOff <= BlueTable[bI].size

\* What the module answers to the current request.
BlueAnswerData == IF bWhat = "block" THEN [k \in 1 .. BlockLen |-> <<bI, bOff + k - 1>>] ELSE <<>>

\* The answer to the request under way.
Genuine(a) == a.kind = bWhat /\ a.data = BlueAnswerData

\* EC600U: at most one answer is under way that is not to a status query, and it
\* is to the request waited for.
Exx00uLine ==
    bChip = "exx00u" =>
        \A j \in 1 .. Len(bLine) : bLine[j].kind # "status" =>
            /\ bPc = "wait" /\ Genuine(bLine[j])
            /\ \A k \in 1 .. Len(bLine) : bLine[k].kind # "status" => k = j

\* EC800G: the queries of the filter thread have numbers of their own, and none is
\* sent once requests are made; the answer waited for is the last on the line.
Ec800gLine ==
    (bChip = "ec800g" /\ ~bExit) =>
        /\ bPc = "log" => /\ Len(bLine) = bQueries /\ bRid = (IF bQueries = 0 THEN RidMax ELSE bQueries)
                          /\ \A j \in 1 .. Len(bLine) : bLine[j].rid = j
        /\ bPc = "sleep" \/ (bPc = "bump" /\ bWhat = "psram") =>
              bRid = bQueries /\ bQueries >= 1 /\ \A j \in 1 .. Len(bLine) : bLine[j].rid \in 2 .. bQueries
        /\ (bPc = "send" /\ bWhat = "psram") => \A j \in 1 .. Len(bLine) : bLine[j].rid # bRid
        /\ bPc \in {"entry", "open", "block"} \/ (bPc \in {"bump", "send"} /\ bWhat # "psram") => bLine = <<>>
        /\ bPc = "wait" => \A j \in 1 .. Len(bLine) : bLine[j].rid = bRid => j = Len(bLine) /\ Genuine(bLine[j])

\* The region has a file.
BlueWanted(i) == BlueTable[i].type = "region" /\ (IsRequire(i + 1) => (i + 1) \in BlueBits)

\* What the files hold: the regions before the one at hand are done, the others
\* not begun, the one at hand read up to save_size.
BlueDone(i) ==
    \/ Len(bFiles[i]) = IF BlueWanted(i) THEN BlueTable[i].size ELSE 0
    \/ bStale /\ IsRequire(i + 1)

\* The files done, and the one being written.
BlueFilesInv ==
    /\ IsApDump => /\ \A i \in DOMAIN BlueTable : bFiles[i] = <<>>
                   /\ bPc # "end" => Len(bFiles[0]) = bOff /\ bOff <= ApChunks
                   /\ bPc = "log" => bOff = 0
    /\ (~IsApDump /\ bPc # "end" /\ ~bExit) =>
          /\ bFiles[0] = <<>>
          /\ \A i \in DOMAIN BlueTable : i < bI => BlueDone(i)
          /\ \A i \in DOMAIN BlueTable : i > bI \/ (i = bI /\ ~InBlocks) => bFiles[i] = <<>>
          /\ (bPc = "open" \/ InBlocks) => BlueWanted(bI) \/ (bStale /\ IsRequire(bI + 1))
          /\ InBlocks => Len(bFiles[bI]) = bOff

\* The inductive invariant.
BlueInv == BlueTyped /\ BluePlace /\ Exx00uLine /\ Ec800gLine /\ BlueFilesInv /\ BlueImage

\* The numbers of the requests do not repeat within the queries of the EC800G's filter
\* thread; those of the EC600U may.
RidsSuffice == bChip = "ec800g" => BlueQueries <= RidMax

-----------------------------------------------------------------------------
(* Blue screen dumps: what most steps leave alone *)

\* What the assumption on the constants gives.
LEMMA BlueConstants ==
    /\ BlueTable \in Seq([type : {"region", "skip", "require"}, size : Nat]) /\ Len(BlueTable) \in Nat
    /\ DOMAIN BlueTable = 1 .. Len(BlueTable) /\ BlueBits \subseteq DOMAIN BlueTable
    /\ BlueMax \in Nat /\ BlueMax >= 1 /\ RidMax \in Nat /\ RidMax >= 1
    /\ BlueQueries \in Nat /\ ApChunks \in Nat /\ BlueFaults \in Nat
    /\ \A i \in DOMAIN BlueTable : BlueTable[i].size \in Nat /\ i \in Nat /\ i >= 1 /\ i # 0
  <1>1. BlueTable \in Seq([type : {"region", "skip", "require"}, size : Nat])
    BY UnisocDumpAssumption
  <1>2. Len(BlueTable) \in Nat /\ DOMAIN BlueTable = 1 .. Len(BlueTable)
    BY <1>1
  <1>3. \A i \in DOMAIN BlueTable : BlueTable[i].size \in Nat
    <2>1. PICK R : R = [type : {"region", "skip", "require"}, size : Nat] /\ BlueTable \in Seq(R)
      BY <1>1
    <2>2. \A i \in DOMAIN BlueTable : BlueTable[i] \in R
      BY <2>1, <1>2, ElementOfSeq
    <2> QED BY <2>1, <2>2
  <1>4. \A i \in DOMAIN BlueTable : i \in Nat /\ i >= 1 /\ i # 0
    BY <1>2
  <1> QED BY <1>1, <1>2, <1>3, <1>4, UnisocDumpAssumption

\* The number after r.
LEMMA NextRidFacts ==
    ASSUME NEW r \in 1 .. RidMax
    PROVE  NextRid(r) \in 1 .. RidMax /\ NextRid(r) = (IF r = RidMax THEN 1 ELSE r + 1)
  <1>1. RidMax \in Nat /\ RidMax >= 1 /\ r \in Nat
    BY BlueConstants
  <1>2. r % RidMax = IF r = RidMax THEN 0 ELSE r
    BY <1>1
  <1> QED BY <1>1, <1>2 DEF NextRid

\* The image depends on the files and their state only.
LEMMA BlueImageKept ==
    ASSUME BlueImage, UNCHANGED <<bChip, bFiles, bStale>>, bExit => bExit', bRet' = 1 => bRet = 1
    PROVE  BlueImage'
  BY DEF BlueImage, BlueExact, BlueComplete, IsApDump

\* So do the files.
LEMMA BlueFilesKept ==
    ASSUME BlueFilesInv, UNCHANGED <<bChip, bFiles, bStale, bI, bOff>>, bExit => bExit',
           InBlocks' => InBlocks, (InBlocks /\ bPc' # "end") => InBlocks',
           bPc' \notin {"log", "open"} \/ bPc' = bPc, bPc = "end" => bPc' = "end"
    PROVE  BlueFilesInv'
  <1>1. \A i \in DOMAIN BlueTable : BlueDone(i)' <=> BlueDone(i)
    BY DEF BlueDone
  <1>2. IsApDump' <=> IsApDump
    BY DEF IsApDump
  <1> QED BY <1>1, <1>2 DEF BlueFilesInv

\* The line of an EC600U depends on the requests and answers only.
LEMMA ExxLineKept ==
    ASSUME Exx00uLine, UNCHANGED <<bChip, bPc, bLine, bWhat, bI, bOff>>
    PROVE  Exx00uLine'
  BY DEF Exx00uLine, Genuine, BlueAnswerData, BlockLen

\* Nothing but answers to status queries is on the line of the EC600U unless it waits.
LEMMA ExxLineQuiet ==
    ASSUME Exx00uLine, bPc # "wait", UNCHANGED <<bChip, bLine>>
    PROVE  Exx00uLine'
  BY DEF Exx00uLine

\* So does that of an EC800G.
LEMMA EcLineKept ==
    ASSUME Ec800gLine, UNCHANGED <<bChip, bPc, bLine, bWhat, bI, bOff, bRid, bQueries>>, bExit => bExit'
    PROVE  Ec800gLine'
  <1>1. BlueAnswerData' = BlueAnswerData
    BY DEF BlueAnswerData, BlockLen
  <1> QED BY <1>1, SMTT(30) DEF Ec800gLine, Genuine

\* A dump that has ended asks for nothing.
LEMMA EcLineEnd ==
    ASSUME bPc' = "end"
    PROVE  Ec800gLine'
  BY DEF Ec800gLine

\* A line with nothing on it is in step.
LEMMA EcLineQuiet ==
    ASSUME Ec800gLine, UNCHANGED <<bChip, bLine>>, bExit' = bExit,
           bPc \in {"entry", "open", "block"} \/ (bPc \in {"bump", "send"} /\ bWhat # "psram"),
           bPc' \in {"entry", "open", "block", "end"} \/ (bPc' \in {"bump", "send"} /\ bWhat' # "psram")
    PROVE  Ec800gLine'
  BY DEF Ec800gLine
-----------------------------------------------------------------------------
(* Blue screen dumps: the steps *)

\* The initial states, with and without a module of this kind.
LEMMA BlueInitially ==
    ASSUME BlueFresh, bChip \in {"exx00u", "ec800g", "apdump", "8310"},
           bPc = "log" \/ (bPc = "end" /\ bChip = "apdump")
    PROVE  BlueInv
  <1>1. bFiles \in [BlueRegions -> Seq(BlueItems)] /\ \A i \in BlueRegions : bFiles[i] = <<>>
    BY DEF BlueFresh, BlueRegions
  <1>2. BlueTyped
    <2>1. /\ bLine \in Seq(BlueAnswers) /\ bRid \in 1 .. RidMax /\ bI \in 1 .. Len(BlueTable) + 1 /\ bQueries \in 0 .. BlueQueries
          /\ bFaults \in Nat
      BY BlueConstants DEF BlueFresh
    <2> QED BY <1>1, <2>1 DEF BlueTyped, BlueTypeOK, BlueFresh
  <1>3. BluePlace /\ Exx00uLine
    BY DEF BluePlace, Exx00uLine, BlueFresh, Requesting, IsApDump
  <1>4. Ec800gLine
    BY DEF Ec800gLine, BlueFresh
  <1>5. BlueFilesInv
    <2>1. Len(<<>>) = 0
      OBVIOUS
    <2> QED BY <1>1, <2>1, BlueConstants DEF BlueFilesInv, BlueFresh, BlueRegions, InBlocks, IsApDump, Requesting
  <1>6. BlueImage
    <2>1. DOMAIN bFiles = BlueRegions /\ \A i \in BlueRegions : DOMAIN bFiles[i] = {}
      BY <1>1
    <2> QED BY <2>1 DEF BlueImage, BlueExact, BlueComplete, BlueFresh
  <1> QED BY <1>2, <1>3, <1>4, <1>5, <1>6 DEF BlueInv

\* One lemma per action: it keeps the invariant.
LEMMA FilterChecksStep ==
    ASSUME BlueInv, FilterChecks
    PROVE  BlueInv'
  <1>1. /\ UNCHANGED <<bChip, bPc, bWhat, bRid, bFlag, bI, bOff, bVal, bFiles, bLine, bQueries, bExit, bRet, bFaults, bStale>>
        /\ bFilter' = "checked" /\ bQueries < BlueQueries /\ ~IsApDump /\ (bChip = "ec800g" => ~bFlag) /\ bPc # "end"
    BY DEF FilterChecks
  <1>2. BlueTyped'
    BY <1>1 DEF BlueInv, BlueTyped, BlueTypeOK
  <1>3. BluePlace'
    BY <1>1 DEF BlueInv, BluePlace, IsApDump, Requesting
  <1>4. Exx00uLine' /\ Ec800gLine'
    BY <1>1, ExxLineKept, EcLineKept DEF BlueInv
  <1>5. BlueFilesInv'
    BY <1>1, BlueFilesKept DEF BlueInv, InBlocks, Requesting
  <1>6. BlueImage'
    BY <1>1, BlueImageKept DEF BlueInv
  <1> QED BY <1>2, <1>3, <1>4, <1>5, <1>6 DEF BlueInv

\* The dump is announced.
LEMMA BlueSignalStep ==
    ASSUME BlueInv, BlueSignal
    PROVE  BlueInv'
  <1>1. /\ UNCHANGED <<bChip, bPc, bWhat, bRid, bFlag, bI, bOff, bVal, bFiles, bLine, bFilter, bQueries, bRet, bFaults, bStale>>
        /\ bExit' = TRUE
    BY DEF BlueSignal
  <1>2. BlueTyped'
    BY <1>1 DEF BlueInv, BlueTyped, BlueTypeOK
  <1>3. BluePlace'
    BY <1>1 DEF BlueInv, BluePlace, IsApDump, Requesting
  <1>4. Exx00uLine' /\ Ec800gLine'
    BY <1>1, ExxLineKept, EcLineKept DEF BlueInv
  <1>5. BlueFilesInv'
    BY <1>1, BlueFilesKept DEF BlueInv, InBlocks, Requesting
  <1>6. BlueImage'
    BY <1>1, BlueImageKept DEF BlueInv
  <1> QED BY <1>2, <1>3, <1>4, <1>5, <1>6 DEF BlueInv

\* The pause before the dump is over.
LEMMA BlueSleptStep ==
    ASSUME BlueInv, BlueSlept
    PROVE  BlueInv'
  <1>1. /\ UNCHANGED <<bChip, bRid, bFlag, bI, bOff, bVal, bFiles, bLine, bFilter, bQueries, bExit, bRet, bFaults, bStale>>
        /\ bPc = "sleep" /\ bFilter = "idle" /\ bPc' = "bump" /\ bWhat' = "psram"
    BY DEF BlueSlept
  <1>2. BlueTyped'
    BY <1>1 DEF BlueInv, BlueTyped, BlueTypeOK
  <1>3. BluePlace'
    BY <1>1 DEF BlueInv, BluePlace, IsApDump, Requesting
  <1>4. Exx00uLine' /\ Ec800gLine'
    <2>1. Exx00uLine'
      BY <1>1, ExxLineQuiet DEF BlueInv
    <2>2. Ec800gLine'
      BY <1>1 DEF BlueInv, Ec800gLine
    <2> QED BY <2>1, <2>2
  <1>5. BlueFilesInv'
    BY <1>1, BlueFilesKept DEF BlueInv, InBlocks, Requesting
  <1>6. BlueImage'
    BY <1>1, BlueImageKept DEF BlueInv
  <1> QED BY <1>2, <1>3, <1>4, <1>5, <1>6 DEF BlueInv

\* A query takes the next number.
LEMMA BumpRidStep ==
    ASSUME BlueInv, BumpRid
    PROVE  BlueInv'
  <1>1. /\ UNCHANGED <<bChip, bWhat, bFlag, bI, bOff, bVal, bFiles, bLine, bFilter, bQueries, bExit, bRet, bFaults, bStale>>
        /\ bPc = "bump" /\ bPc' = "send" /\ bRid' = NextRid(bRid)
    BY DEF BumpRid
  <1>2. bRid \in 1 .. RidMax /\ bRid' \in 1 .. RidMax /\ bRid' = (IF bRid = RidMax THEN 1 ELSE bRid + 1)
    BY <1>1, NextRidFacts DEF BlueInv, BlueTyped, BlueTypeOK
  <1>3. BlueTyped'
    BY <1>1, <1>2 DEF BlueInv, BlueTyped, BlueTypeOK
  <1>4. BluePlace'
    BY <1>1 DEF BlueInv, BluePlace, IsApDump, Requesting
  <1>5. Exx00uLine' /\ Ec800gLine'
    <2>1. Exx00uLine'
      BY <1>1, ExxLineQuiet DEF BlueInv
    <2>2. CASE bWhat # "psram"
      BY <1>1, <2>1, <2>2, EcLineQuiet DEF BlueInv
    <2>3. CASE bWhat = "psram"
      <3>1. (bChip = "ec800g" /\ ~bExit) => \A j \in 1 .. Len(bLine) : bLine[j].rid \in 2 .. bRid
        BY <1>1, <2>3 DEF BlueInv, Ec800gLine
      <3>2. \A r \in 2 .. bRid : r # bRid'
        BY <1>2
      <3> QED BY <1>1, <2>1, <2>3, <3>1, <3>2 DEF Ec800gLine
    <2> QED BY <2>2, <2>3
  <1>6. BlueFilesInv'
    BY <1>1, BlueFilesKept DEF BlueInv, InBlocks, Requesting
  <1>7. BlueImage'
    BY <1>1, BlueImageKept DEF BlueInv
  <1> QED BY <1>3, <1>4, <1>5, <1>6, <1>7 DEF BlueInv

\* A query of the filter thread is on the line.
LEMMA FilterQueriesStep ==
    ASSUME BlueInv, FilterQueries, RidsSuffice
    PROVE  BlueInv'
  <1>1. /\ UNCHANGED <<bChip, bPc, bWhat, bFlag, bI, bOff, bVal, bFiles, bExit, bRet, bFaults, bStale>>
        /\ bFilter = "checked" /\ bFilter' = "idle" /\ bQueries' = bQueries + 1
        /\ bRid' \in {NextRid(bRid)} \cup (IF bPc = "send" THEN {bRid} ELSE {})
        /\ bLine' = Append(bLine, [kind |-> "status", rid |-> bRid', data |-> <<>>])
    BY DEF FilterQueries
  <1>2. /\ bRid \in 1 .. RidMax /\ bQueries \in Nat /\ bQueries < BlueQueries /\ bLine \in Seq(BlueAnswers)
        /\ bPc \in {"log", "sleep", "entry", "open", "block", "bump", "send", "wait", "apdump", "end"}
    BY <1>1, BlueConstants DEF BlueInv, BlueTyped, BlueTypeOK
  <1>3. bRid' \in 1 .. RidMax /\ (bPc # "send" => bRid' = (IF bRid = RidMax THEN 1 ELSE bRid + 1))
    BY <1>1, <1>2, NextRidFacts
  <1>4. PICK a \in BlueAnswers : a = [kind |-> "status", rid |-> bRid', data |-> <<>>] /\ a.kind = "status" /\ a.rid = bRid'
    <2>1. PICK d \in Seq(BlueItems) : d = <<>>
      BY NothingFacts
    <2>2. PICK r \in 1 .. RidMax : r = bRid'
      BY <1>3
    <2>3. PICK a : a = [kind |-> "status", rid |-> r, data |-> d]
      OBVIOUS
    <2>4. a \in BlueAnswers /\ a.kind = "status" /\ a.rid = r
      BY <2>3, BlueConstants DEF BlueAnswers
    <2> QED BY <2>1, <2>2, <2>3, <2>4
  <1>5. PICK n \in Nat : n = Len(bLine)
    BY <1>2
  <1>6. bLine' \in Seq(BlueAnswers) /\ Len(bLine') = n + 1 /\ bLine'[n + 1] = a /\ \A i \in 1 .. n : bLine'[i] = bLine[i]
    BY <1>1, <1>2, <1>4, <1>5, AppendFacts
  <1>7. \A i \in 1 .. n + 1 : i \in 1 .. n \/ i = n + 1
    BY <1>5
  <1>8. BlueTyped'
    <2>1. bQueries' \in 0 .. BlueQueries
      BY <1>1, <1>2, BlueConstants
    <2> QED BY <1>1, <1>3, <1>6, <2>1 DEF BlueInv, BlueTyped, BlueTypeOK
  <1>9. BluePlace'
    BY <1>1 DEF BlueInv, BluePlace, IsApDump, Requesting
  <1>10. Exx00uLine'
    <2>1. \A g : Genuine(g)' <=> Genuine(g)
      BY <1>1 DEF Genuine, BlueAnswerData, BlockLen
    <2> QED BY <1>1, <1>4, <1>5, <1>6, <1>7, <2>1 DEF BlueInv, Exx00uLine
  <1>11. Ec800gLine'
    <2>1. bChip = "ec800g" => bPc \in {"log", "sleep", "end"} /\ BlueQueries <= RidMax
      BY <1>1 DEF BlueInv, BluePlace, RidsSuffice
    <2>2. CASE bPc = "log" /\ bChip = "ec800g" /\ ~bExit
      <3>1. n = bQueries /\ bRid = (IF bQueries = 0 THEN RidMax ELSE bQueries) /\ \A j \in 1 .. n : bLine[j].rid = j
        BY <1>5, <2>2 DEF BlueInv, Ec800gLine
      <3>2. bRid' = n + 1
        BY <1>2, <1>3, <2>1, <2>2, <3>1, BlueConstants
      <3>3. \A j \in 1 .. n + 1 : bLine'[j].rid = j
        BY <1>4, <1>6, <1>7, <3>1, <3>2
      <3>4. bQueries' = n + 1 /\ n + 1 # 0
        BY <1>1, <1>5, <3>1
      <3> QED BY <1>1, <1>6, <2>2, <3>2, <3>3, <3>4 DEF Ec800gLine
    <2>3. CASE bPc = "sleep" /\ bChip = "ec800g" /\ ~bExit
      <3>1. bRid = bQueries /\ bQueries >= 1 /\ \A j \in 1 .. n : bLine[j].rid \in 2 .. bQueries
        BY <1>5, <2>3 DEF BlueInv, Ec800gLine
      <3>2. PICK q \in Nat : q = bQueries /\ q >= 1 /\ q < RidMax
        BY <1>2, <2>1, <2>3, <3>1, BlueConstants
      <3>3. bRid' = q + 1 /\ bQueries' = q + 1
        BY <1>1, <1>2, <1>3, <2>3, <3>1, <3>2
      <3>4. \A r \in 2 .. q : r \in 2 .. q + 1
        OBVIOUS
      <3>5. q + 1 \in 2 .. q + 1 /\ q + 1 >= 1
        BY <3>2
      <3>6. \A j \in 1 .. n + 1 : bLine'[j].rid \in 2 .. q + 1
        BY <1>4, <1>6, <1>7, <3>1, <3>2, <3>3, <3>4, <3>5
      <3> QED BY <1>1, <1>6, <2>3, <3>3, <3>5, <3>6 DEF Ec800gLine
    <2>4. CASE bPc = "end" \/ bChip # "ec800g" \/ bExit
      BY <1>1, <2>4 DEF Ec800gLine
    <2> QED BY <2>1, <2>2, <2>3, <2>4
  <1>12. BlueFilesInv'
    BY <1>1, BlueFilesKept DEF BlueInv, InBlocks, Requesting
  <1>13. BlueImage'
    BY <1>1, BlueImageKept DEF BlueInv
  <1> QED BY <1>8, <1>9, <1>10, <1>11, <1>12, <1>13 DEF BlueInv

\* An answer is read from the line.
LEMMA BlueTail ==
    ASSUME BlueTyped, bLine # <<>>, bLine' = Tail(bLine)
    PROVE  /\ bLine' \in Seq(BlueAnswers) /\ Len(bLine) \in Nat /\ Len(bLine) >= 1 /\ Len(bLine') = Len(bLine) - 1
           /\ Head(bLine) = bLine[1] /\ bLine[1] \in BlueAnswers /\ 1 \in 1 .. Len(bLine)
           /\ \A i \in 1 .. Len(bLine') : bLine'[i] = bLine[i + 1] /\ i + 1 \in 1 .. Len(bLine) /\ i + 1 # 1
  <1>1. bLine \in Seq(BlueAnswers)
    BY DEF BlueTyped
  <1>2. PICK t \in Seq(BlueAnswers) : /\ t = Tail(bLine) /\ Len(t) = Len(bLine) - 1
                                      /\ \A i \in 1 .. Len(bLine) - 1 : t[i] = bLine[i + 1]
    BY <1>1, TailFacts
  <1>3. PICK n \in Nat : n = Len(bLine) /\ n >= 1 /\ Head(bLine) = bLine[1] /\ bLine[1] \in BlueAnswers
    BY <1>1, TailFacts
  <1>4. 1 \in 1 .. n /\ \A i \in 1 .. n - 1 : i + 1 \in 1 .. n /\ i + 1 # 1
    BY <1>3
  <1> QED BY <1>2, <1>3, <1>4

\* The first k answers are read from the line at once.
LEMMA BlueDropped ==
    ASSUME BlueTyped, bLine # <<>>, NEW k \in 1 .. Len(bLine), bLine' = SubSeq(bLine, k + 1, Len(bLine))
    PROVE  /\ bLine' \in Seq(BlueAnswers) /\ Len(bLine) \in Nat /\ Len(bLine) >= 1 /\ Len(bLine') = Len(bLine) - k
           /\ Head(bLine) = bLine[1] /\ bLine[1] \in BlueAnswers /\ 1 \in 1 .. Len(bLine) /\ k \in Nat /\ k >= 1
           /\ \A i \in 1 .. Len(bLine') : bLine'[i] = bLine[i + k] /\ i + k \in 1 .. Len(bLine) /\ i + k # 1
  <1>1. bLine \in Seq(BlueAnswers)
    BY DEF BlueTyped
  <1>2. PICK n \in Nat : n = Len(bLine) /\ n >= 1 /\ Head(bLine) = bLine[1] /\ bLine[1] \in BlueAnswers
    BY <1>1, TailFacts
  <1>3. k \in Nat /\ k >= 1 /\ k <= n
    BY <1>2
  <1>4. PICK t \in Seq(BlueAnswers) : t = bLine' /\ Len(t) = n - k /\ \A i \in 1 .. n - k : t[i] = bLine[i + k]
    <2>1. PICK t : t = SubSeq(bLine, k + 1, n)
      OBVIOUS
    <2>2. t \in Seq(BlueAnswers) /\ Len(t) = n - k /\ \A i \in 1 .. n - k : t[i] = bLine[i + k]
      BY <1>1, <1>2, <1>3, <2>1
    <2> QED BY <1>2, <2>1, <2>2
  <1>5. 1 \in 1 .. n /\ \A i \in 1 .. n - k : i + k \in 1 .. n /\ i + k # 1
    BY <1>2, <1>3
  <1> QED BY <1>2, <1>3, <1>4, <1>5

\* The chip is known.
LEMMA BlueDetectedStep ==
    ASSUME BlueInv, BlueDetected
    PROVE  BlueInv'
  <1>1. /\ UNCHANGED <<bChip, bWhat, bRid, bI, bOff, bVal, bFiles, bFilter, bQueries, bExit, bRet, bFaults, bStale>>
        /\ bPc = "log" /\ ~IsApDump /\ bLine # <<>> /\ bFlag' = TRUE /\ bLine' = Tail(bLine)
        /\ bPc' = (IF bChip = "ec800g" THEN "sleep" ELSE "entry")
    BY DEF BlueDetected
  <1>2. /\ bLine' \in Seq(BlueAnswers) /\ Len(bLine) \in Nat /\ Len(bLine) >= 1 /\ Len(bLine') = Len(bLine) - 1
        /\ \A i \in 1 .. Len(bLine') : bLine'[i] = bLine[i + 1] /\ i + 1 \in 1 .. Len(bLine) /\ i + 1 # 1
    BY <1>1, BlueTail DEF BlueInv
  <1>3. BlueTyped'
    BY <1>1, <1>2 DEF BlueInv, BlueTyped, BlueTypeOK
  <1>4. BluePlace'
    BY <1>1 DEF BlueInv, BlueTyped, BluePlace, IsApDump, Requesting
  <1>5. Exx00uLine'
    BY <1>1, <1>2 DEF BlueInv, Exx00uLine
  <1>6. Ec800gLine'
    <2> SUFFICES ASSUME bChip = "ec800g", ~bExit PROVE Ec800gLine'
      BY <1>1 DEF Ec800gLine
    <2>1. /\ Len(bLine) = bQueries /\ bRid = (IF bQueries = 0 THEN RidMax ELSE bQueries)
          /\ \A j \in 1 .. Len(bLine) : bLine[j].rid = j
      BY <1>1 DEF BlueInv, Ec800gLine
    <2>2. bRid = bQueries /\ bQueries >= 1
      BY <1>2, <2>1
    <2>3. \A j \in 1 .. Len(bLine') : bLine'[j].rid = j + 1
      BY <1>2, <2>1
    <2>4. \A j \in 1 .. Len(bLine') : j + 1 \in 2 .. bQueries
      BY <1>2, <2>1
    <2> QED BY <1>1, <2>2, <2>3, <2>4 DEF Ec800gLine
  <1>7. BlueFilesInv'
    BY <1>1, BlueFilesKept DEF BlueInv, InBlocks, Requesting
  <1>8. BlueImage'
    BY <1>1, BlueImageKept DEF BlueInv
  <1> QED BY <1>3, <1>4, <1>5, <1>6, <1>7, <1>8 DEF BlueInv

\* The log thread reads what was left on the line.
LEMMA BlueLoggedStep ==
    ASSUME BlueInv, BlueLogged
    PROVE  BlueInv'
  <1>1. /\ UNCHANGED <<bChip, bPc, bWhat, bRid, bFlag, bI, bOff, bVal, bFiles, bFilter, bQueries, bExit, bRet, bFaults, bStale>>
        /\ bPc = "log" /\ bChip = "exx00u" /\ bLine # <<>> /\ bLine' = Tail(bLine)
    BY DEF BlueLogged
  <1>2. /\ bLine' \in Seq(BlueAnswers)
        /\ \A i \in 1 .. Len(bLine') : bLine'[i] = bLine[i + 1] /\ i + 1 \in 1 .. Len(bLine)
    BY <1>1, BlueTail DEF BlueInv
  <1>3. BlueTyped'
    BY <1>1, <1>2 DEF BlueInv, BlueTyped, BlueTypeOK
  <1>4. BluePlace'
    BY <1>1 DEF BlueInv, BluePlace, IsApDump, Requesting
  <1>5. Exx00uLine' /\ Ec800gLine'
    BY <1>1, <1>2 DEF BlueInv, Exx00uLine, Ec800gLine
  <1>6. BlueFilesInv'
    BY <1>1, BlueFilesKept DEF BlueInv, InBlocks, Requesting
  <1>7. BlueImage'
    BY <1>1, BlueImageKept DEF BlueInv
  <1> QED BY <1>3, <1>4, <1>5, <1>6, <1>7 DEF BlueInv

\* The regions at hand: which is next, and that the one that is left is done.
LEMMA BlueEntryStep ==
    ASSUME BlueInv, BlueEntry
    PROVE  BlueInv'
  <1>1. /\ UNCHANGED <<bChip, bRid, bOff, bVal, bFiles, bLine, bFilter, bQueries, bExit, bFaults, bStale>>
        /\ bPc = "entry" /\ ~IsApDump /\ bRet = 0
    BY DEF BlueEntry, BlueInv, BluePlace
  <1>2. bI \in 1 .. Len(BlueTable) + 1 /\ Len(BlueTable) \in Nat /\ DOMAIN BlueTable = 1 .. Len(BlueTable)
    BY BlueConstants DEF BlueInv, BlueTyped, BlueTypeOK
  <1>3. Exx00uLine'
    BY <1>1, ExxLineQuiet DEF BlueInv
  <1>4. CASE bI > Len(BlueTable) /\ BlueReturns(1) /\ bFlag' = FALSE /\ UNCHANGED <<bWhat, bI>>
    <2>1. bPc' = "end" /\ bRet' = 1
      BY <1>4 DEF BlueReturns
    <2>2. BlueTyped'
      BY <1>1, <1>4, <2>1 DEF BlueInv, BlueTyped, BlueTypeOK
    <2>3. BluePlace'
      BY <1>1, <1>4, <2>1 DEF BlueInv, BluePlace, IsApDump, Requesting
    <2>4. BlueFilesInv' /\ Ec800gLine'
      BY <1>1, <1>4, <2>1, EcLineEnd DEF BlueFilesInv, IsApDump
    <2>5. BlueImage'
      <3>1. \A i \in DOMAIN BlueTable : i < bI
        BY <1>2, <1>4
      <3>2. ~bExit => \A i \in DOMAIN BlueTable : BlueDone(i)
        BY <1>1, <3>1 DEF BlueInv, BlueFilesInv
      <3>3. BlueExact'
        BY <1>1 DEF BlueInv, BlueImage, BlueExact
      <3>4. BlueComplete'
        BY <1>1, <3>2 DEF BlueComplete, BlueDone, BlueWanted, IsApDump
      <3> QED BY <3>3, <3>4 DEF BlueImage
    <2> QED BY <1>3, <2>2, <2>3, <2>4, <2>5 DEF BlueInv
  <1>5. CASE bI <= Len(BlueTable) /\ bExit /\ BlueReturns(-1) /\ UNCHANGED <<bFlag, bWhat, bI>>
    <2>1. bPc' = "end" /\ bRet' = -1
      BY <1>5 DEF BlueReturns
    <2>2. BlueTyped'
      BY <1>1, <1>5, <2>1 DEF BlueInv, BlueTyped, BlueTypeOK
    <2>3. BluePlace'
      BY <1>1, <1>5, <2>1 DEF BlueInv, BluePlace, IsApDump, Requesting
    <2>4. BlueFilesInv' /\ Ec800gLine'
      BY <1>1, <1>5, <2>1, EcLineEnd DEF BlueFilesInv, IsApDump
    <2>5. BlueImage'
      BY <1>1, <2>1, BlueImageKept DEF BlueInv
    <2> QED BY <1>3, <2>2, <2>3, <2>4, <2>5 DEF BlueInv
  <1>6. CASE /\ bI <= Len(BlueTable) /\ ~bExit /\ BlueTable[bI].type # "region"
             /\ bI' = bI + 1 /\ UNCHANGED <<bPc, bRet, bFlag, bWhat>>
    <2>1. bI' \in 1 .. Len(BlueTable) + 1 /\ bI \in DOMAIN BlueTable
      BY <1>2, <1>6
    <2>2. BlueTyped'
      BY <1>1, <1>6, <2>1 DEF BlueInv, BlueTyped, BlueTypeOK
    <2>3. BluePlace'
      BY <1>1, <1>6 DEF BlueInv, BluePlace, IsApDump, Requesting
    <2>4. BlueFilesInv'
      <3>1. /\ bFiles[0] = <<>> /\ \A i \in DOMAIN BlueTable : i < bI => BlueDone(i)
            /\ \A i \in DOMAIN BlueTable : i >= bI => bFiles[i] = <<>>
        BY <1>1, <1>2, <1>6 DEF BlueInv, BlueFilesInv, InBlocks, Requesting
      <3>2. BlueDone(bI)
        BY <1>2, <1>6, <2>1, <3>1 DEF BlueDone, BlueWanted
      <3>3. \A i \in DOMAIN BlueTable : (i < bI' => i < bI \/ i = bI) /\ (i >= bI' => i >= bI)
        BY <1>2, <1>6
      <3>4. \A i \in DOMAIN BlueTable : BlueDone(i)' <=> BlueDone(i)
        BY <1>1 DEF BlueDone
      <3>5. \A i \in DOMAIN BlueTable : (i > bI' \/ i = bI') => bFiles'[i] = <<>>
        BY <1>1, <1>2, <2>1, <3>1, <3>3
      <3> QED BY <1>1, <1>6, <3>1, <3>2, <3>3, <3>4, <3>5 DEF BlueFilesInv, InBlocks, Requesting, IsApDump
    <2>5. Ec800gLine' /\ BlueImage'
      BY <1>1, <1>6, EcLineQuiet, BlueImageKept DEF BlueInv
    <2> QED BY <1>3, <2>2, <2>3, <2>4, <2>5 DEF BlueInv
  <1>7. CASE /\ bI <= Len(BlueTable) /\ ~bExit /\ BlueTable[bI].type = "region"
             /\ IF IsRequire(bI + 1) THEN bPc' = "bump" /\ bWhat' = "read32" ELSE bPc' = "open" /\ UNCHANGED bWhat
             /\ UNCHANGED <<bI, bRet, bFlag>>
    <2>1. bI \in DOMAIN BlueTable /\ (bPc' = "open" => ~IsRequire(bI + 1)) /\ bPc' \in {"bump", "open"}
          /\ (bPc' = "bump" => bWhat' = "read32" /\ IsRequire(bI + 1)) /\ (bPc' = "open" => bWhat' = bWhat)
      BY <1>2, <1>7
    <2>2. BlueTyped'
      BY <1>1, <1>7, <2>1 DEF BlueInv, BlueTyped, BlueTypeOK
    <2>3. BluePlace'
      BY <1>1, <1>7, <2>1 DEF BlueInv, BluePlace, IsApDump, Requesting
    <2>4. BlueFilesInv'
      <3>1. \A i \in DOMAIN BlueTable : BlueDone(i)' <=> BlueDone(i)
        BY <1>1 DEF BlueDone
      <3>2. bPc' = "open" => BlueWanted(bI)
        BY <1>7, <2>1 DEF BlueWanted
      <3>3. ~InBlocks /\ ~InBlocks'
        BY <1>1, <2>1 DEF InBlocks, Requesting
      <3> QED BY <1>1, <1>7, <2>1, <3>1, <3>2, <3>3 DEF BlueInv, BlueFilesInv, IsApDump
    <2>5. Ec800gLine' /\ BlueImage'
      BY <1>1, <1>7, <2>1, EcLineQuiet, BlueImageKept DEF BlueInv
    <2> QED BY <1>3, <2>2, <2>3, <2>4, <2>5 DEF BlueInv
  <1> QED BY <1>4, <1>5, <1>6, <1>7 DEF BlueEntry

\* The dump ends with a failure.
LEMMA BlueFailed ==
    ASSUME BlueInv, UNCHANGED <<bChip, bWhat, bRid, bFlag, bI, bVal, bFiles, bFilter, bQueries, bStale>>,
           bLine' = bLine \/ (bLine # <<>> /\ \E k \in 1 .. Len(bLine) : bLine' = SubSeq(bLine, k + 1, Len(bLine))), bExit => bExit', bExit' \in BOOLEAN, bOff' \in Nat,
           bPc # "wait" \/ bChip # "exx00u", IsApDump => UNCHANGED bLine,
           BFault, BlueReturns(-1)
    PROVE  BlueInv'
  <1>1. bPc' = "end" /\ bRet' = -1 /\ bFaults' \in Nat
    BY DEF BlueReturns, BFault, BlueInv, BlueTyped
  <1>2. bLine' \in Seq(BlueAnswers) /\ \A i \in 1 .. Len(bLine') : \E j \in 1 .. Len(bLine) : bLine'[i] = bLine[j]
    <2>1. CASE bLine' = bLine
      BY <2>1 DEF BlueInv, BlueTyped
    <2>2. CASE bLine # <<>> /\ \E k \in 1 .. Len(bLine) : bLine' = SubSeq(bLine, k + 1, Len(bLine))
      BY <2>2, BlueDropped DEF BlueInv
    <2> QED BY <2>1, <2>2
  <1>3. BlueTyped'
    BY <1>1, <1>2 DEF BlueInv, BlueTyped, BlueTypeOK
  <1>4. BluePlace'
    BY <1>1 DEF BlueInv, BluePlace, IsApDump, Requesting
  <1>5. Exx00uLine'
    BY <1>2 DEF BlueInv, Exx00uLine
  <1>6. BlueFilesInv' /\ Ec800gLine'
    BY <1>1, EcLineEnd DEF BlueInv, BlueFilesInv, IsApDump
  <1>7. BlueImage'
    BY <1>1, BlueImageKept DEF BlueInv
  <1> QED BY <1>3, <1>4, <1>5, <1>6, <1>7 DEF BlueInv

\* The file of a region is opened, or the region is passed over.
LEMMA BlueOpenStep ==
    ASSUME BlueInv, BlueOpen
    PROVE  BlueInv'
  <1>1. /\ UNCHANGED <<bChip, bWhat, bRid, bFlag, bI, bVal, bLine, bFilter, bQueries, bExit, bStale>> /\ bPc = "open"
        /\ ~IsApDump
    BY DEF BlueOpen, BlueInv, BluePlace
  <1>2. CASE bPc' = "block" /\ bOff' = 0 /\ bFiles' = [bFiles EXCEPT ![bI] = <<>>] /\ UNCHANGED <<bRet, bFaults>>
    <2>1. bI \in DOMAIN BlueTable /\ bI # 0 /\ BlueTable[bI].type = "region" /\ BlueTable[bI].size \in Nat
      BY <1>1, BlueConstants DEF BlueInv, BlueTyped, BlueTypeOK
    <2>2. /\ bFiles' \in [BlueRegions -> Seq(BlueItems)] /\ bFiles'[bI] = <<>>
          /\ \A i \in BlueRegions : i # bI => bFiles'[i] = bFiles[i]
      <3>1. <<>> \in Seq(BlueItems) /\ bI \in BlueRegions /\ bFiles \in [BlueRegions -> Seq(BlueItems)]
        BY <2>1 DEF BlueInv, BlueTyped, BlueRegions
      <3> QED BY <1>2, <3>1
    <2>3. BlueTyped'
      BY <1>1, <1>2, <2>1, <2>2 DEF BlueInv, BlueTyped, BlueTypeOK
    <2>4. BluePlace'
      BY <1>1, <1>2, <2>1 DEF BlueInv, BluePlace, IsApDump, Requesting
    <2>5. Exx00uLine' /\ Ec800gLine'
      BY <1>1, <1>2, ExxLineQuiet, EcLineQuiet DEF BlueInv
    <2>6. BlueFilesInv'
      <3>1. \A i \in DOMAIN BlueTable : i < bI => i # bI /\ i \in BlueRegions
        BY <2>1, BlueConstants DEF BlueRegions
      <3>2. \A i \in DOMAIN BlueTable : i < bI /\ BlueDone(i) => BlueDone(i)'
        BY <1>1, <2>2, <3>1 DEF BlueDone
      <3>3. Len(bFiles'[bI]) = 0 /\ bFiles'[0] = bFiles[0]
        BY <2>1, <2>2 DEF BlueRegions
      <3>4. \A i \in DOMAIN BlueTable : i > bI => bFiles'[i] = bFiles[i]
        <4>1. \A i \in DOMAIN BlueTable : i > bI => i # bI /\ i \in BlueRegions
          BY <2>1, BlueConstants DEF BlueRegions
        <4> QED BY <2>2, <4>1
      <3> QED BY <1>1, <1>2, <3>2, <3>3, <3>4 DEF BlueInv, BlueFilesInv, IsApDump, InBlocks, Requesting
    <2>7. BlueImage'
      <3>1. BlueExact'
        <4>1. DOMAIN bFiles' = BlueRegions /\ DOMAIN bFiles = BlueRegions /\ DOMAIN <<>> = {}
          BY <2>2 DEF BlueInv, BlueTyped
        <4> QED BY <1>1, <2>2, <4>1 DEF BlueInv, BlueImage, BlueExact
      <3>2. bRet' # 1
        BY <1>1, <1>2 DEF BlueInv, BluePlace
      <3> QED BY <3>1, <3>2 DEF BlueImage, BlueComplete
    <2> QED BY <2>3, <2>4, <2>5, <2>6, <2>7 DEF BlueInv
  <1>3. CASE BFault /\ BlueReturns(-1) /\ UNCHANGED <<bOff, bFiles>>
    <2>1. bExit' \in BOOLEAN /\ bOff' \in Nat
      BY <1>1, <1>3 DEF BlueInv, BlueTyped
    <2> QED BY <1>1, <1>3, <2>1, BlueFailed
  <1> QED BY <1>2, <1>3 DEF BlueOpen

\* The next block of a region.
LEMMA BlueBlockStep ==
    ASSUME BlueInv, BlueBlock
    PROVE  BlueInv'
  <1>1. /\ UNCHANGED <<bChip, bRid, bFlag, bOff, bVal, bFiles, bLine, bFilter, bQueries, bExit, bFaults, bStale>>
        /\ bPc = "block" /\ ~IsApDump
    BY DEF BlueBlock, BlueInv, BluePlace
  <1>2. /\ bI \in DOMAIN BlueTable /\ bI # 0 /\ BlueTable[bI].type = "region" /\ BlueTable[bI].size \in Nat /\ bOff \in Nat
        /\ bOff <= BlueTable[bI].size
    BY <1>1, BlueConstants DEF BlueInv, BlueTyped, BlueTypeOK, BluePlace
  <1>3. Exx00uLine'
    BY <1>1, ExxLineQuiet DEF BlueInv
  <1>4. CASE bOff >= BlueTable[bI].size /\ bPc' = "entry" /\ bI' = bI + 1 /\ UNCHANGED <<bWhat, bRet>>
    <2>1. bI' \in 1 .. Len(BlueTable) + 1 /\ bOff = BlueTable[bI].size
      BY <1>2, <1>4, BlueConstants
    <2>2. BlueTyped'
      BY <1>1, <1>4, <2>1 DEF BlueInv, BlueTyped, BlueTypeOK
    <2>3. BluePlace'
      BY <1>1, <1>4 DEF BlueInv, BluePlace, IsApDump, Requesting
    <2>4. BlueFilesInv'
      <3> SUFFICES ASSUME ~bExit PROVE BlueFilesInv'
        BY <1>1 DEF BlueFilesInv, IsApDump
      <3>1. /\ bFiles[0] = <<>> /\ \A i \in DOMAIN BlueTable : i < bI => BlueDone(i)
            /\ \A i \in DOMAIN BlueTable : i > bI => bFiles[i] = <<>>
            /\ BlueWanted(bI) \/ (bStale /\ IsRequire(bI + 1))
            /\ Len(bFiles[bI]) = bOff
        BY <1>1 DEF BlueInv, BlueFilesInv, InBlocks
      <3>2. BlueDone(bI)
        BY <2>1, <3>1 DEF BlueDone
      <3>3. \A i \in DOMAIN BlueTable : (i < bI' => i < bI \/ i = bI) /\ (i > bI' \/ i = bI' => i > bI)
        BY <1>2, <1>4, BlueConstants
      <3>4. \A i \in DOMAIN BlueTable : BlueDone(i)' <=> BlueDone(i)
        BY <1>1 DEF BlueDone
      <3>5. ~InBlocks' /\ bPc' # "open" /\ ~IsApDump'
        BY <1>1, <1>4 DEF InBlocks, Requesting, IsApDump
      <3> QED BY <1>1, <3>1, <3>2, <3>3, <3>4, <3>5 DEF BlueFilesInv
    <2>5. Ec800gLine' /\ BlueImage'
      BY <1>1, <1>4, EcLineQuiet, BlueImageKept DEF BlueInv
    <2> QED BY <1>3, <2>2, <2>3, <2>4, <2>5 DEF BlueInv
  <1>5. CASE ExitSeen /\ BlueReturns(-1) /\ UNCHANGED <<bWhat, bI>>
    <2>1. bPc' = "end" /\ bRet' = -1
      BY <1>5 DEF BlueReturns
    <2>2. BlueTyped'
      BY <1>1, <1>5, <2>1 DEF BlueInv, BlueTyped, BlueTypeOK
    <2>3. BluePlace'
      BY <1>1, <1>5, <2>1 DEF BlueInv, BluePlace, IsApDump, Requesting
    <2>4. BlueFilesInv' /\ Ec800gLine'
      BY <1>1, <1>5, <2>1, EcLineEnd DEF BlueFilesInv, IsApDump
    <2>5. BlueImage'
      BY <1>1, <2>1, BlueImageKept DEF BlueInv
    <2> QED BY <1>3, <2>2, <2>3, <2>4, <2>5 DEF BlueInv
  <1>6. CASE bOff < BlueTable[bI].size /\ bPc' = "bump" /\ bWhat' = "block" /\ UNCHANGED <<bI, bRet>>
    <2>1. BlueTyped'
      BY <1>1, <1>6 DEF BlueInv, BlueTyped, BlueTypeOK
    <2>2. BluePlace'
      BY <1>1, <1>2, <1>6 DEF BlueInv, BluePlace, IsApDump, Requesting
    <2>3. BlueFilesInv'
      BY <1>1, <1>6, BlueFilesKept DEF BlueInv, InBlocks, Requesting
    <2>4. Ec800gLine' /\ BlueImage'
      BY <1>1, <1>6, EcLineQuiet, BlueImageKept DEF BlueInv
    <2> QED BY <1>3, <2>1, <2>2, <2>3, <2>4 DEF BlueInv
  <1> QED BY <1>4, <1>5, <1>6 DEF BlueBlock

\* What a block request asks for: something, and no more than is left of the region.
LEMMA BlockLenFacts ==
    ASSUME BlueInv, Requesting, bWhat = "block"
    PROVE  /\ BlockLen \in Nat /\ BlockLen >= 1 /\ bOff + BlockLen <= BlueTable[bI].size
           /\ bI \in DOMAIN BlueTable /\ bI \in Nat /\ bI # 0 /\ bOff \in Nat /\ BlueTable[bI].size \in Nat
  <1>1. /\ bI \in DOMAIN BlueTable /\ bI \in Nat /\ bI # 0 /\ bOff \in Nat /\ BlueTable[bI].size \in Nat
        /\ bOff < BlueTable[bI].size
    BY BlueConstants DEF BlueInv, BlueTyped, BluePlace
  <1> QED BY <1>1, BlueConstants DEF BlockLen

\* A function on 1 .. n is a sequence.
LEMMA BlockSeq ==
    ASSUME NEW S, NEW n \in Nat, NEW t \in [1 .. n -> S]
    PROVE  t \in Seq(S) /\ Len(t) = n
  OBVIOUS

\* The data of an answer is a sequence of items.
LEMMA BlueDataFacts ==
    ASSUME BlueInv, Requesting
    PROVE  /\ BlueAnswerData \in Seq(BlueItems)
           /\ (bWhat = "block" => /\ Len(BlueAnswerData) = BlockLen
                                  /\ \A k \in 1 .. BlockLen : BlueAnswerData[k] = <<bI, bOff + k - 1>>)
  <1>1. CASE bWhat = "block"
    <2>1. BlockLen \in Nat /\ bI \in Nat /\ bOff \in Nat
      BY <1>1, BlockLenFacts
    <2>2. BlueAnswerData = [k \in 1 .. BlockLen |-> <<bI, bOff + k - 1>>]
      BY <1>1 DEF BlueAnswerData
    <2>3. PICK n \in Nat : n = BlockLen
      BY <2>1
    <2>4. PICK i \in Nat : i = bI
      BY <2>1
    <2>5. PICK o \in Nat : o = bOff
      BY <2>1
    <2>6. PICK t : t = BlueAnswerData
      OBVIOUS
    <2>7. t = [k \in 1 .. n |-> <<i, o + k - 1>>]
      BY <2>2, <2>3, <2>4, <2>5, <2>6
    <2>8. t \in Seq(BlueItems) /\ Len(t) = n /\ \A k \in 1 .. n : t[k] = <<i, o + k - 1>>
      <3>1. \A k \in 1 .. n : o + k - 1 \in Nat
        OBVIOUS
      <3>2. \A k \in 1 .. n : <<i, o + k - 1>> \in BlueItems
        BY <3>1 DEF BlueItems
      <3>3. t \in [1 .. n -> BlueItems] /\ \A k \in 1 .. n : t[k] = <<i, o + k - 1>>
        BY <2>7, <3>2, Zenon
      <3>4. t \in Seq(BlueItems) /\ Len(t) = n
        BY <3>3, BlockSeq, Zenon
      <3> QED BY <3>3, <3>4, Zenon
    <2> QED BY <2>3, <2>4, <2>5, <2>6, <2>8, SMTT(30)
  <1>2. CASE bWhat # "block"
    BY <1>2, NothingFacts DEF BlueAnswerData
  <1> QED BY <1>1, <1>2

\* The request goes out.
LEMMA SendRequestStep ==
    ASSUME BlueInv, SendRequest
    PROVE  BlueInv'
  <1>1. /\ UNCHANGED <<bChip, bWhat, bRid, bFlag, bI, bOff, bVal, bFiles, bFilter, bQueries, bExit, bStale>>
        /\ bPc = "send"
    BY DEF SendRequest
  <1>2. CASE bPc' = "wait" /\ bLine' = Append(bLine, AnswerTo(bWhat)) /\ UNCHANGED <<bRet, bFaults>>
    <2>1. PICK a \in BlueAnswers : a = AnswerTo(bWhat) /\ a.kind = bWhat /\ a.rid = bRid /\ a.data = BlueAnswerData
      <3>1. PICK d \in Seq(BlueItems) : d = BlueAnswerData
        BY <1>1, BlueDataFacts DEF Requesting
      <3>2. PICK a : a = [kind |-> bWhat, rid |-> bRid, data |-> d]
        OBVIOUS
      <3>3. a = AnswerTo(bWhat)
        BY <3>1, <3>2 DEF AnswerTo, BlueAnswerData
      <3>4. bWhat \in {"psram", "read32", "second", "block"} /\ bRid \in 1 .. RidMax
        BY DEF BlueInv, BlueTyped, BlueTypeOK
      <3>5. a \in BlueAnswers /\ a.kind = bWhat /\ a.rid = bRid /\ a.data = d
        BY <3>2, <3>4, BlueConstants DEF BlueAnswers
      <3> QED BY <3>1, <3>3, <3>5
    <2>2. PICK n \in Nat : n = Len(bLine) /\ bLine \in Seq(BlueAnswers)
      BY DEF BlueInv, BlueTyped
    <2>3. bLine' \in Seq(BlueAnswers) /\ Len(bLine') = n + 1 /\ bLine'[n + 1] = a /\ \A i \in 1 .. n : bLine'[i] = bLine[i]
      BY <1>2, <2>1, <2>2, AppendFacts
    <2>4. \A i \in 1 .. n + 1 : i \in 1 .. n \/ i = n + 1
      BY <2>2
    <2>5. BlueTyped'
      BY <1>1, <1>2, <2>3 DEF BlueInv, BlueTyped, BlueTypeOK
    <2>6. BluePlace'
      BY <1>1, <1>2 DEF BlueInv, BluePlace, IsApDump, Requesting
    <2>7. Genuine(a)'
      <3>1. BlueAnswerData' = BlueAnswerData
        BY <1>1 DEF BlueAnswerData, BlockLen
      <3> QED BY <1>1, <2>1, <3>1 DEF Genuine
    <2>8. Exx00uLine'
      <3>1. bChip = "exx00u" => \A j \in 1 .. n : bLine[j].kind = "status"
        BY <1>1, <2>2 DEF BlueInv, Exx00uLine
      <3> QED BY <1>1, <1>2, <2>3, <2>4, <2>7, <3>1 DEF Exx00uLine
    <2>9. Ec800gLine'
      <3>1. (bChip = "ec800g" /\ ~bExit) => \A j \in 1 .. n : bLine[j].rid # bRid
        <4>1. (bChip = "ec800g" /\ ~bExit /\ bWhat # "psram") => n = 0
          BY <1>1, <2>2 DEF BlueInv, Ec800gLine
        <4>2. (bChip = "ec800g" /\ ~bExit /\ bWhat = "psram") => \A j \in 1 .. n : bLine[j].rid # bRid
          BY <1>1, <2>2 DEF BlueInv, Ec800gLine
        <4> QED BY <4>1, <4>2
      <3> QED BY <1>1, <1>2, <2>3, <2>4, <2>7, <3>1 DEF Ec800gLine
    <2>10. BlueFilesInv'
      BY <1>1, <1>2, BlueFilesKept DEF BlueInv, InBlocks, Requesting
    <2>11. BlueImage'
      BY <1>1, <1>2, BlueImageKept DEF BlueInv
    <2> QED BY <2>5, <2>6, <2>8, <2>9, <2>10, <2>11 DEF BlueInv
  <1>3. CASE BFault /\ BlueReturns(-1) /\ UNCHANGED bLine
    <2>1. bExit' \in BOOLEAN /\ bOff' \in Nat
      BY <1>1 DEF BlueInv, BlueTyped
    <2> QED BY <1>1, <1>3, <2>1, BlueFailed
  <1>4. CASE bWhat \in {"read32", "second"} /\ BFault /\ bPc' = "wait" /\ UNCHANGED <<bLine, bRet>>
    <2>1. bFaults' \in Nat
      BY <1>4 DEF BFault, BlueInv, BlueTyped
    <2>2. BlueTyped'
      BY <1>1, <1>4, <2>1 DEF BlueInv, BlueTyped, BlueTypeOK
    <2>3. BluePlace'
      BY <1>1, <1>4 DEF BlueInv, BluePlace, IsApDump, Requesting
    <2>4. Exx00uLine'
      BY <1>1, <1>4, ExxLineQuiet DEF BlueInv
    <2>5. Ec800gLine'
      <3>1. (bChip = "ec800g" /\ ~bExit) => bLine = <<>>
        BY <1>1, <1>4 DEF BlueInv, Ec800gLine
      <3> QED BY <1>1, <1>4, <3>1 DEF Ec800gLine
    <2>6. BlueFilesInv'
      BY <1>1, <1>4, BlueFilesKept DEF BlueInv, InBlocks, Requesting
    <2>7. BlueImage'
      BY <1>1, <1>4, BlueImageKept DEF BlueInv
    <2> QED BY <2>2, <2>3, <2>4, <2>5, <2>6, <2>7 DEF BlueInv
  <1> QED BY <1>2, <1>3, <1>4 DEF SendRequest

\* The answer to a request is used: the table is entered, a region passed over or opened, or
\* blocks saved.
LEMMA BlueTaken ==
    ASSUME BlueInv, bPc = "wait", NEW d \in Seq(BlueItems), NEW v \in BOOLEAN, NEW st \in BOOLEAN, Taken(d, v, st),
           UNCHANGED <<bChip, bRid, bFlag, bFilter, bQueries, bExit>>, bLine' \in Seq(BlueAnswers),
           bWhat = "block" => Len(d) = BlockLen, ~bExit => d = BlueAnswerData,
           (~bExit /\ bWhat \in {"read32", "second"} /\ ~st) => (v <=> (bI + 1) \in BlueBits),
           bChip = "exx00u" => \A j \in 1 .. Len(bLine') : bLine'[j].kind = "status",
           (bChip = "ec800g" /\ ~bExit) => bLine' = <<>>
    PROVE  BlueInv'
  <1>1. ~IsApDump /\ ~IsApDump' /\ bRet = 0
    BY DEF BlueInv, BluePlace, IsApDump
  <1>2. PICK stale \in BOOLEAN : bStale' = stale /\ (stale <=> bStale \/ st)
    <2>1. (bStale \/ st) \in BOOLEAN
      BY Zenon
    <2> QED BY <2>1, Zenon DEF Taken
  <1>3. Exx00uLine'
    BY DEF Exx00uLine
  <1>4. bPc' \in {"entry", "open", "block", "end"} \/ (bPc' = "bump" /\ bWhat' # "psram") => Ec800gLine'
    BY DEF Ec800gLine
  <1>5. \A i \in DOMAIN BlueTable : (UNCHANGED bFiles[i] /\ BlueDone(i)) => BlueDone(i)'
    BY <1>2 DEF BlueDone
  <1>6. CASE bWhat = "psram"
    <2>1. bPc' = "entry" /\ UNCHANGED <<bI, bOff, bVal, bFiles, bRet, bFaults>> /\ bWhat' = bWhat
      BY <1>6 DEF Taken, SecondRequire
    <2>2. BlueTyped'
      BY <1>2, <2>1 DEF BlueInv, BlueTyped, BlueTypeOK
    <2>3. BluePlace'
      BY <1>1, <2>1 DEF BlueInv, BluePlace, IsApDump, Requesting
    <2>4. BlueFilesInv'
      <3>1. ~InBlocks /\ ~InBlocks'
        BY <1>6, <2>1 DEF InBlocks, Requesting
      <3> QED BY <1>1, <1>5, <2>1, <3>1 DEF BlueInv, BlueFilesInv
    <2>5. BlueImage'
      BY <1>1, <2>1 DEF BlueInv, BlueImage, BlueExact, BlueComplete
    <2> QED BY <1>3, <1>4, <2>1, <2>2, <2>3, <2>4, <2>5 DEF BlueInv
  <1>7. CASE bWhat \in {"read32", "second"}
    <2>1. /\ bVal' = v /\ UNCHANGED <<bOff, bFiles, bRet, bFaults>>
          /\ (v => bI' = bI /\ bPc' = (IF SecondRequire THEN "bump" ELSE "open")) /\ (~v => bPc' = "entry" /\ bI' = bI + 1)
          /\ bWhat' = (IF SecondRequire THEN "second" ELSE bWhat)
      BY <1>7 DEF Taken
    <2>2. bI \in DOMAIN BlueTable /\ BlueTable[bI].type = "region" /\ IsRequire(bI + 1) /\ bI \in Nat
      BY <1>7, BlueConstants DEF BlueInv, BluePlace, Requesting
    <2>3. bI + 1 \in 1 .. Len(BlueTable) + 1 /\ bI \in 1 .. Len(BlueTable) + 1
      BY <2>2, BlueConstants
    <2>4. BlueTyped'
      BY <1>2, <2>1, <2>2, <2>3 DEF BlueInv, BlueTyped, BlueTypeOK
    <2>5. BluePlace'
      BY <1>1, <1>7, <2>1, <2>2 DEF BlueInv, BluePlace, IsApDump, Requesting, SecondRequire
    <2>6. BlueFilesInv'
      <3> SUFFICES ASSUME ~bExit PROVE BlueFilesInv'
        BY <1>1 DEF BlueFilesInv
      <3>1. /\ bFiles[0] = <<>> /\ \A i \in DOMAIN BlueTable : i < bI => BlueDone(i)
            /\ \A i \in DOMAIN BlueTable : i > bI \/ i = bI => bFiles[i] = <<>>
        BY <1>1, <1>7 DEF BlueInv, BlueFilesInv, InBlocks, Requesting
      <3>2. ~InBlocks'
        BY <1>7, <2>1 DEF InBlocks, Requesting
      <3>3. v => BlueWanted(bI) \/ (bStale' /\ IsRequire(bI + 1))
        BY <1>2, <1>7, <2>2 DEF BlueWanted
      <3>4. ASSUME ~v, NEW i \in DOMAIN BlueTable, i = bI
            PROVE  BlueDone(i)'
        <4>1. ~BlueWanted(i) \/ bStale'
          BY <1>2, <1>7, <2>2, <3>4 DEF BlueWanted
        <4>2. Len(bFiles'[i]) = 0 /\ IsRequire(i + 1)
          BY <2>1, <2>2, <3>1, <3>4
        <4> QED BY <4>1, <4>2 DEF BlueDone
      <3>5. \A i \in DOMAIN BlueTable : i < bI => BlueDone(i)'
        BY <1>5, <2>1, <3>1
      <3>6. \A i \in DOMAIN BlueTable : (i < bI + 1 => i < bI \/ i = bI) /\ (i > bI + 1 \/ i = bI + 1 => i > bI)
        BY <2>2, BlueConstants
      <3>7. CASE v
        BY <1>1, <2>1, <3>1, <3>2, <3>3, <3>5, <3>7 DEF BlueFilesInv
      <3>8. CASE ~v
        BY <1>1, <2>1, <3>1, <3>2, <3>4, <3>5, <3>6, <3>8 DEF BlueFilesInv
      <3> QED BY <3>7, <3>8
    <2>7. BlueImage'
      BY <1>1, <2>1 DEF BlueInv, BlueImage, BlueExact, BlueComplete
    <2>8. bPc' \in {"entry", "open", "block", "end"} \/ (bPc' = "bump" /\ bWhat' # "psram")
      BY <2>1
    <2> QED BY <1>3, <1>4, <2>4, <2>5, <2>6, <2>7, <2>8 DEF BlueInv
  <1>8. CASE bWhat = "block" /\ bPc' # "end"
    <2>1. /\ bPc' = "block" /\ bOff' = bOff + Len(d) /\ bFiles' = [bFiles EXCEPT ![bI] = @ \o d]
          /\ UNCHANGED <<bI, bVal, bRet, bFaults>> /\ bWhat' = bWhat
      BY <1>8 DEF Taken, SecondRequire, BlueReturns, Advanced
    <2>2. /\ BlockLen \in Nat /\ BlockLen >= 1 /\ bOff + BlockLen <= BlueTable[bI].size
          /\ bI \in DOMAIN BlueTable /\ bI \in Nat /\ bI # 0 /\ bOff \in Nat /\ BlueTable[bI].size \in Nat
      BY <1>8, BlockLenFacts DEF Requesting
    <2>3. bI \in BlueRegions /\ 0 \in BlueRegions /\ bFiles \in [BlueRegions -> Seq(BlueItems)]
          /\ \A i \in DOMAIN BlueTable : i \in BlueRegions
      BY <2>2 DEF BlueInv, BlueTyped, BlueRegions
    <2>4. PICK f \in Seq(BlueItems) : f = bFiles[bI]
      BY <2>3
    <2>5. PICK g \in Seq(BlueItems) : /\ g = f \o d /\ Len(g) = Len(f) + Len(d) /\ Len(f) \in Nat /\ Len(d) \in Nat
                                      /\ \A i \in 1 .. Len(f) : g[i] = f[i]
                                      /\ \A i \in 1 .. Len(d) : g[Len(f) + i] = d[i]
      <3>1. PICK g : g = f \o d
        OBVIOUS
      <3>2. /\ g \in Seq(BlueItems) /\ Len(g) = Len(f) + Len(d) /\ Len(f) \in Nat /\ Len(d) \in Nat
            /\ \A i \in 1 .. Len(f) : g[i] = f[i]
            /\ \A i \in 1 .. Len(d) : g[Len(f) + i] = d[i]
        BY <3>1, ConcatFacts
      <3> QED BY <3>1, <3>2, Zenon
    <2>6. bFiles' = [bFiles EXCEPT ![bI] = g]
      BY <2>1, <2>3, <2>4, <2>5
    <2>7. bFiles' \in [BlueRegions -> Seq(BlueItems)] /\ bFiles'[bI] = g /\ \A i \in BlueRegions : i # bI => bFiles'[i] = bFiles[i]
      BY <2>3, <2>5, <2>6
    <2>8. bOff' \in Nat /\ bOff' <= BlueTable[bI].size
      BY <1>8, <2>1, <2>2
    <2>9. BlueTyped'
      <3>1. BlueTable[bI].type = "region"
        BY <1>8 DEF BlueInv, BluePlace, Requesting
      <3> QED BY <1>2, <2>1, <2>2, <2>7, <2>8, <3>1 DEF BlueInv, BlueTyped, BlueTypeOK
    <2>10. BluePlace'
      BY <1>1, <2>1, <2>8 DEF BlueInv, BluePlace, IsApDump, Requesting
    <2>11. ~bExit => /\ bFiles[0] = <<>> /\ \A i \in DOMAIN BlueTable : i < bI => BlueDone(i)
                     /\ \A i \in DOMAIN BlueTable : i > bI => bFiles[i] = <<>>
                     /\ BlueWanted(bI) \/ (bStale /\ IsRequire(bI + 1))
                     /\ Len(f) = bOff
      BY <1>1, <1>8, <2>4 DEF BlueInv, BlueFilesInv, InBlocks, Requesting
    <2>12. BlueFilesInv'
      <3> SUFFICES ASSUME ~bExit PROVE BlueFilesInv'
        BY <1>1 DEF BlueFilesInv
      <3>1. \A i \in DOMAIN BlueTable : (i < bI \/ i > bI) => i # bI
        BY <2>2, BlueConstants
      <3>2. \A i \in DOMAIN BlueTable : i < bI => BlueDone(i)'
        BY <1>5, <2>3, <2>7, <2>11, <3>1
      <3>3. bFiles'[0] = <<>> /\ \A i \in DOMAIN BlueTable : i > bI => bFiles'[i] = <<>>
        BY <2>2, <2>3, <2>7, <2>11, <3>1
      <3>4. Len(bFiles'[bI]) = bOff'
        BY <2>1, <2>5, <2>7, <2>11
      <3>5. InBlocks' /\ (BlueWanted(bI) \/ (bStale' /\ IsRequire(bI + 1)))
        BY <1>2, <2>1, <2>11 DEF InBlocks
      <3> QED BY <1>1, <2>1, <3>2, <3>3, <3>4, <3>5 DEF BlueFilesInv
    <2>13. BlueImage'
      <3> SUFFICES ASSUME ~bExit PROVE BlueExact'
        BY <1>1, <2>1 DEF BlueImage, BlueComplete, BlueExact
      <3>1. \A i \in BlueRegions : \A k \in DOMAIN bFiles[i] : bFiles[i][k] = <<i, k - 1>>
        BY <2>3 DEF BlueInv, BlueImage, BlueExact
      <3>2. PICK n \in Nat : n = BlockLen /\ Len(d) = n /\ \A k \in 1 .. n : d[k] = <<bI, bOff + k - 1>>
        BY <1>8, <2>2, BlueDataFacts DEF Requesting
      <3>3. PICK o \in Nat : o = bOff /\ Len(f) = o /\ DOMAIN f = 1 .. o /\ DOMAIN g = 1 .. o + n
        <4>1. PICK o \in Nat : o = bOff /\ Len(f) = o
          BY <2>2, <2>11
        <4>2. DOMAIN f = 1 .. Len(f) /\ DOMAIN g = 1 .. Len(g)
          OBVIOUS
        <4>3. Len(g) = o + n
          BY <2>5, <3>2, <4>1
        <4> QED BY <4>1, <4>2, <4>3, Zenon
      <3>4. \A k \in 1 .. o + n : g[k] = <<bI, k - 1>>
        <4> SUFFICES ASSUME NEW k \in 1 .. o + n PROVE g[k] = <<bI, k - 1>>
          OBVIOUS
        <4>1. CASE k \in 1 .. o
          BY <2>4, <2>3, <2>5, <3>1, <3>3, <4>1
        <4>2. CASE k \notin 1 .. o
          <5>1. PICK j \in 1 .. n : k = o + j
            <6>1. k - o \in 1 .. n /\ k = o + (k - o)
              BY <4>2
            <6> QED BY <6>1
          <5>2. g[o + j] = <<bI, o + j - 1>>
            BY <2>5, <3>2, <3>3
          <5> QED BY <5>1, <5>2
        <4> QED BY <4>1, <4>2
      <3>5. \A i \in BlueRegions : \A k \in DOMAIN bFiles'[i] : bFiles'[i][k] = <<i, k - 1>>
        BY <2>7, <3>1, <3>3, <3>4
      <3> QED BY <2>7, <3>5 DEF BlueExact
    <2> QED BY <1>3, <1>4, <2>1, <2>9, <2>10, <2>12, <2>13 DEF BlueInv
  <1>9. CASE bWhat = "block" /\ bPc' = "end"
    <2>1. BFault /\ BlueReturns(-1) /\ UNCHANGED <<bI, bOff, bVal, bFiles>> /\ bWhat' = bWhat
      BY <1>9 DEF Taken, SecondRequire
    <2>2. bRet' = -1 /\ bFaults' \in Nat
      BY <2>1 DEF BlueReturns, BFault, BlueInv, BlueTyped
    <2>3. BlueTyped'
      BY <1>2, <1>9, <2>1, <2>2 DEF BlueInv, BlueTyped, BlueTypeOK
    <2>4. BluePlace'
      BY <1>1, <1>9, <2>1, <2>2 DEF BlueInv, BluePlace, IsApDump, Requesting
    <2>5. BlueFilesInv'
      BY <1>1, <1>9 DEF BlueFilesInv
    <2>6. BlueImage'
      BY <1>1, <2>1, <2>2 DEF BlueInv, BlueImage, BlueExact, BlueComplete
    <2> QED BY <1>3, <1>4, <1>9, <2>3, <2>4, <2>5, <2>6 DEF BlueInv
  <1>10. bWhat \in {"psram", "read32", "second", "block"}
    BY DEF BlueInv, BlueTyped
  <1> QED BY <1>6, <1>7, <1>8, <1>9, <1>10

\* Answers that are passed over change the line only.
LEMMA BluePassed ==
    ASSUME BlueInv, bPc = "wait", bLine' \in Seq(BlueAnswers), Exx00uLine', Ec800gLine', ~IsApDump, bFaults' \in Nat,
           UNCHANGED <<bChip, bRid, bFlag, bFilter, bQueries, bExit, bPc, bWhat, bI, bOff, bVal, bFiles, bRet, bStale>>
    PROVE  BlueInv'
  <1>1. BlueTyped'
    BY DEF BlueInv, BlueTyped, BlueTypeOK
  <1>2. BluePlace'
    BY DEF BlueInv, BluePlace, IsApDump, Requesting
  <1>3. BlueFilesInv'
    BY BlueFilesKept DEF BlueInv, InBlocks, Requesting
  <1>4. BlueImage'
    BY BlueImageKept DEF BlueInv
  <1> QED BY <1>1, <1>2, <1>3, <1>4 DEF BlueInv

\* What is left of the line when its first answers are read, and the wait goes on.
LEMMA BlueSuffix ==
    ASSUME BlueInv, bPc = "wait", bLine # <<>>, NEW k \in 1 .. Len(bLine), bLine' = SubSeq(bLine, k + 1, Len(bLine)),
           UNCHANGED <<bChip, bRid, bExit, bPc, bWhat, bI, bOff>>
    PROVE  bLine' \in Seq(BlueAnswers) /\ Exx00uLine' /\ Ec800gLine'
  <1>1. /\ bLine' \in Seq(BlueAnswers) /\ Len(bLine) \in Nat /\ Len(bLine') = Len(bLine) - k /\ k \in Nat
        /\ \A i \in 1 .. Len(bLine') : bLine'[i] = bLine[i + k] /\ i + k \in 1 .. Len(bLine)
    BY BlueDropped DEF BlueInv
  <1>2. \A g : Genuine(g)' <=> Genuine(g)
    BY DEF Genuine, BlueAnswerData, BlockLen
  <1>3. Exx00uLine'
    <2> SUFFICES ASSUME bChip = "exx00u", NEW j \in 1 .. Len(bLine'), bLine'[j].kind # "status"
                 PROVE  Genuine(bLine'[j]) /\ \A i \in 1 .. Len(bLine') : bLine'[i].kind # "status" => i = j
      BY <1>2 DEF Exx00uLine
    <2>1. /\ Genuine(bLine[j + k])
          /\ \A i \in 1 .. Len(bLine) : bLine[i].kind # "status" => i = j + k
      BY <1>1 DEF BlueInv, Exx00uLine
    <2>2. \A i \in 1 .. Len(bLine') : i + k = j + k => i = j
      BY <1>1
    <2> QED BY <1>1, <2>1, <2>2
  <1>4. Ec800gLine'
    <2> SUFFICES ASSUME bChip = "ec800g", ~bExit, NEW j \in 1 .. Len(bLine'), bLine'[j].rid = bRid
                 PROVE  j = Len(bLine') /\ Genuine(bLine'[j])
      BY <1>2 DEF Ec800gLine
    <2>1. j + k = Len(bLine) /\ Genuine(bLine[j + k])
      BY <1>1 DEF BlueInv, Ec800gLine
    <2>2. PICK n \in Nat, m \in Int : n = Len(bLine) /\ m = Len(bLine') /\ m = n - k /\ j + k = n
      <3>1. PICK n \in Nat : n = Len(bLine)
        BY <1>1
      <3>2. PICK m \in Int : m = n - k
        BY <1>1
      <3>3. m = Len(bLine')
        BY <1>1, <3>1, <3>2
      <3> QED BY <2>1, <3>1, <3>2, <3>3
    <2>3. j = m
      BY <1>1, <2>2
    <2> QED BY <1>1, <2>1, <2>2, <2>3
  <1> QED BY <1>1, <1>3, <1>4

\* The line when only a part of its first answer is read.
LEMMA BlueCut ==
    ASSUME BlueTyped, bLine # <<>>, ReadsPart
    PROVE  /\ bLine' \in Seq(BlueAnswers) /\ Len(bLine') = Len(bLine) /\ bFaults' \in Nat
           /\ Head(bLine) = bLine[1] /\ 1 \in 1 .. Len(bLine)
           /\ \A i \in 1 .. Len(bLine) : \/ i # 1 /\ bLine'[i] = bLine[i]
                                         \/ bLine'[i].kind = "status" /\ bLine'[i].rid = 0
  <1>1. bLine \in Seq(BlueAnswers) /\ bFaults' \in Nat
    BY DEF BlueTyped, ReadsPart, BFault
  <1>2. PICK t \in Seq(BlueAnswers) : /\ t = Tail(bLine) /\ Len(t) = Len(bLine) - 1
                                      /\ \A i \in 1 .. Len(bLine) - 1 : t[i] = bLine[i + 1]
    <2>1. PICK t : t = Tail(bLine)
      OBVIOUS
    <2>2. t \in Seq(BlueAnswers) /\ Len(t) = Len(bLine) - 1 /\ \A i \in 1 .. Len(bLine) - 1 : t[i] = bLine[i + 1]
      BY <1>1, <2>1, TailFacts, Zenon
    <2> QED BY <2>1, <2>2
  <1>3. PICK n \in Nat : n = Len(bLine) /\ n >= 1 /\ Head(bLine) = bLine[1]
    BY <1>1, TailFacts
  <1>4. PICK c \in BlueAnswers : c = CutRest /\ c.kind = "status" /\ c.rid = 0
    <2>1. PICK d \in Seq(BlueItems) : d = <<>>
      BY NothingFacts
    <2>2. PICK c : c = [kind |-> "status", rid |-> 0, data |-> d]
      OBVIOUS
    <2>3. c \in BlueAnswers /\ c.kind = "status" /\ c.rid = 0
      BY <2>2, BlueConstants DEF BlueAnswers
    <2> QED BY <2>1, <2>2, <2>3 DEF CutRest
  <1>5. PICK l \in Seq(BlueAnswers) : /\ l = <<c>> \o t /\ Len(l) = n /\ l[1] = c
                                      /\ \A i \in 1 .. n : i # 1 => l[i] = t[i - 1]
    <2>1. PICK l : l = <<c>> \o t
      OBVIOUS
    <2>2. Len(t) = n - 1
      BY <1>2, <1>3
    <2>3. l \in Seq(BlueAnswers) /\ Len(l) = n /\ l[1] = c /\ \A i \in 1 .. n : i # 1 => l[i] = t[i - 1]
      BY <1>3, <1>4, <2>1, <2>2
    <2> QED BY <2>1, <2>3
  <1>6. \A i \in 1 .. n : i # 1 => i - 1 \in 1 .. n - 1 /\ (i - 1) + 1 = i
    OBVIOUS
  <1>7. \A i \in 1 .. n : i # 1 => l[i] = bLine[i]
    BY <1>2, <1>3, <1>5, <1>6
  <1>8. bLine' = l /\ 1 \in 1 .. n
    BY <1>2, <1>3, <1>4, <1>5 DEF ReadsPart
  <1> QED BY <1>1, <1>3, <1>4, <1>5, <1>7, <1>8

\* A block is thrown away on an EC600U, and will be asked for again.
LEMMA BlueAgain ==
    ASSUME BlueInv, bPc = "wait", bChip = "exx00u", bWhat = "block", bPc' = "block", bFaults' \in Nat,
           bLine' \in Seq(BlueAnswers), \A j \in 1 .. Len(bLine') : bLine'[j].kind = "status",
           UNCHANGED <<bChip, bRid, bFlag, bFilter, bQueries, bExit, bWhat, bI, bOff, bVal, bFiles, bRet, bStale>>
    PROVE  BlueInv'
  <1>1. InBlocks /\ InBlocks' /\ Requesting
    BY DEF InBlocks, Requesting
  <1>2. bI \in DOMAIN BlueTable /\ BlueTable[bI].type = "region" /\ bOff <= BlueTable[bI].size
    <2>1. bI \in DOMAIN BlueTable /\ BlueTable[bI].type = "region" /\ bOff < BlueTable[bI].size
          /\ bOff \in Nat /\ BlueTable[bI].size \in Nat
      BY <1>1, BlueConstants DEF BlueInv, BlueTyped, BluePlace
    <2> QED BY <2>1
  <1>3. BlueTyped'
    BY <1>2 DEF BlueInv, BlueTyped, BlueTypeOK
  <1>4. BluePlace'
    BY <1>2 DEF BlueInv, BluePlace, IsApDump, Requesting
  <1>5. Exx00uLine' /\ Ec800gLine'
    BY DEF Exx00uLine, Ec800gLine
  <1>6. BlueFilesInv'
    BY <1>1, BlueFilesKept DEF BlueInv
  <1>7. BlueImage'
    BY BlueImageKept DEF BlueInv
  <1> QED BY <1>3, <1>4, <1>5, <1>6, <1>7 DEF BlueInv

\* An answer is read on an EC600U.
LEMMA Exx00uReceivesStep ==
    ASSUME BlueInv, Exx00uReceives
    PROVE  BlueInv'
  <1>1. /\ UNCHANGED <<bChip, bRid, bFlag, bFilter, bQueries, bExit>>
        /\ bPc = "wait" /\ bChip = "exx00u" /\ bLine # <<>> /\ ~bExit /\ ~IsApDump
    BY DEF Exx00uReceives, IsApDump
  <1>2. CASE ReadsPart /\ bPc' = "block" /\ UNCHANGED <<bWhat, bI, bOff, bVal, bFiles, bRet, bStale>>
    <2>1. /\ bLine' \in Seq(BlueAnswers) /\ Len(bLine') = Len(bLine) /\ bFaults' \in Nat
          /\ Head(bLine) = bLine[1] /\ 1 \in 1 .. Len(bLine)
          /\ \A i \in 1 .. Len(bLine) : (i # 1 /\ bLine'[i] = bLine[i]) \/ bLine'[i].kind = "status"
      BY <1>1, <1>2, BlueCut DEF BlueInv
    <2>2. bLine[1].kind \in {"psram", "block"}
      BY <1>2, <2>1 DEF ReadsPart
    <2>3. Genuine(bLine[1]) /\ \A j \in 1 .. Len(bLine) : bLine[j].kind # "status" => j = 1
      BY <1>1, <2>1, <2>2 DEF BlueInv, Exx00uLine
    <2>4. bWhat = "block"
      BY <1>1, <2>2, <2>3 DEF BlueInv, BluePlace, Genuine, Requesting
    <2>5. \A j \in 1 .. Len(bLine') : bLine'[j].kind = "status"
      BY <2>1, <2>3
    <2> QED BY <1>1, <1>2, <2>1, <2>4, <2>5, BlueAgain
  <1>3. CASE ~(ReadsPart /\ bPc' = "block" /\ UNCHANGED <<bWhat, bI, bOff, bVal, bFiles, bRet, bStale>>)
    <2>1. PICK k \in 1 .. Len(bLine) : bLine' = SubSeq(bLine, k + 1, Len(bLine))
      BY <1>3 DEF Exx00uReceives, ReadsAnswers
    <2>2. /\ bLine' \in Seq(BlueAnswers) /\ Head(bLine) = bLine[1] /\ bLine[1] \in BlueAnswers /\ 1 \in 1 .. Len(bLine)
          /\ \A i \in 1 .. Len(bLine') : bLine'[i] = bLine[i + k] /\ i + k \in 1 .. Len(bLine) /\ i + k # 1
      BY <1>1, <2>1, BlueDropped DEF BlueInv
    <2>3. PICK a \in BlueAnswers : a = bLine[1] /\ a = Head(bLine)
      BY <2>2
    <2>4. PICK d \in Seq(BlueItems) : d = a.data
      BY <2>3 DEF BlueAnswers
    <2>5. a.kind # "status" => Genuine(a) /\ \A j \in 1 .. Len(bLine') : bLine'[j].kind = "status"
      BY <1>1, <2>2, <2>3 DEF BlueInv, Exx00uLine
    <2>6. a.kind # "status" => d = BlueAnswerData /\ (bWhat = "block" => Len(d) = BlockLen) /\ a.kind = bWhat
      BY <1>1, <2>4, <2>5, BlueDataFacts DEF Genuine, Requesting
    <2>7. PICK bit \in BOOLEAN : bit <=> (bI + 1) \in BlueBits
      OBVIOUS
    <2>8. bit = ((bI + 1) \in BlueBits)
      BY <2>7, Zenon
    <2>9. CASE a.kind = "status" /\ UNCHANGED <<bPc, bWhat, bI, bOff, bVal, bFiles, bRet, bFaults, bStale>>
      <3>1. Exx00uLine' /\ Ec800gLine'
        BY <1>1, <2>1, <2>9, BlueSuffix
      <3>2. bFaults' \in Nat
        BY <2>9 DEF BlueInv, BlueTyped
      <3> QED BY <1>1, <2>2, <2>9, <3>1, <3>2, BluePassed
    <2>10. CASE a.kind # "status" /\ a.rid = bRid /\ Taken(a.data, (bI + 1) \in BlueBits, FALSE)
      <3>1. Taken(d, bit, FALSE)
        BY <2>4, <2>8, <2>10
      <3> QED BY <1>1, <2>2, <2>5, <2>6, <2>7, <2>10, <3>1, BlueTaken
    <2>11. CASE /\ a.kind = "block" /\ a.rid # bRid
                /\ bPc' = "block" /\ UNCHANGED <<bWhat, bI, bOff, bVal, bFiles, bRet, bFaults, bStale>>
      <3>1. bFaults' \in Nat /\ bWhat = "block"
        BY <2>6, <2>11 DEF BlueInv, BlueTyped
      <3> QED BY <1>1, <2>2, <2>5, <2>11, <3>1, BlueAgain
    <2>12. CASE a.kind = "read32" /\ a.rid # bRid /\ Taken(a.data, bVal, TRUE)
      <3>1. Taken(d, bVal, TRUE) /\ bVal \in BOOLEAN
        BY <2>4, <2>12 DEF BlueInv, BlueTyped
      <3> QED BY <1>1, <2>2, <2>5, <2>6, <2>12, <3>1, BlueTaken
    <2> QED BY <1>3, <2>3, <2>9, <2>10, <2>11, <2>12 DEF Exx00uReceives
  <1> QED BY <1>2, <1>3

\* An answer is read on an EC800G, where its number tells whether it is the one waited for.
LEMMA Ec800gReceivesStep ==
    ASSUME BlueInv, Ec800gReceives
    PROVE  BlueInv'
  <1>1. /\ UNCHANGED <<bChip, bRid, bFlag, bFilter, bQueries, bExit>> /\ bPc = "wait" /\ bChip = "ec800g"
        /\ ~IsApDump
    BY DEF Ec800gReceives, IsApDump
  <1>2. CASE /\ bLine # <<>> /\ ~bExit
             /\ \E k \in 1 .. Len(bLine) : ReadsAnswers(k)
             /\ LET a == Head(bLine) IN
                \/ a.rid # bRid /\ UNCHANGED <<bPc, bWhat, bI, bOff, bVal, bFiles, bRet, bFaults, bStale>>
                \/ a.rid = bRid /\ \E v \in BOOLEAN : Taken(a.data, v, bWhat \in {"read32", "second"})
                \/ /\ a.rid = bRid /\ bWhat = "psram" /\ BFault /\ BlueReturns(-1)
                   /\ UNCHANGED <<bWhat, bI, bOff, bVal, bFiles, bStale>>
    <2>0. PICK k \in 1 .. Len(bLine) : bLine' = SubSeq(bLine, k + 1, Len(bLine))
      BY <1>2 DEF ReadsAnswers
    <2>1. /\ bLine' \in Seq(BlueAnswers) /\ Head(bLine) = bLine[1] /\ bLine[1] \in BlueAnswers /\ 1 \in 1 .. Len(bLine)
          /\ Len(bLine') = Len(bLine) - k /\ k \in Nat /\ k >= 1
      BY <1>2, <2>0, BlueDropped DEF BlueInv
    <2>2. PICK a \in BlueAnswers : a = bLine[1] /\ a = Head(bLine)
      BY <2>1
    <2>3. PICK d \in Seq(BlueItems) : d = a.data
      BY <2>2 DEF BlueAnswers
    <2>4. a.rid = bRid => Genuine(a) /\ bLine' = <<>>
      <3>1. a.rid = bRid => 1 = Len(bLine) /\ Genuine(bLine[1])
        BY <1>1, <1>2, <2>1, <2>2 DEF BlueInv, Ec800gLine
      <3>2. 1 = Len(bLine) => Len(bLine') = 0
        <4>1. PICK n, m : n = Len(bLine) /\ m = Len(bLine') /\ m = n - k /\ k \in 1 .. n
          BY <2>0, <2>1
        <4>2. n = 1 => m = 0
          BY <4>1
        <4> QED BY <4>1, <4>2
      <3>3. Len(bLine') = 0 => bLine' = <<>>
        BY <2>1
      <3> QED BY <2>2, <3>1, <3>2, <3>3
    <2>5. a.rid = bRid => d = BlueAnswerData /\ (bWhat = "block" => Len(d) = BlockLen)
      BY <1>1, <2>3, <2>4, BlueDataFacts DEF Genuine, Requesting
    <2>6. CASE a.rid # bRid /\ UNCHANGED <<bPc, bWhat, bI, bOff, bVal, bFiles, bRet, bFaults, bStale>>
      <3>1. Exx00uLine' /\ Ec800gLine'
        BY <1>1, <1>2, <2>0, <2>6, BlueSuffix
      <3>2. bFaults' \in Nat
        BY <2>6 DEF BlueInv, BlueTyped
      <3> QED BY <1>1, <2>1, <2>6, <3>1, <3>2, BluePassed
    <2>7. CASE a.rid = bRid /\ \E v \in BOOLEAN : Taken(a.data, v, bWhat \in {"read32", "second"})
      <3>1. PICK v \in BOOLEAN : Taken(a.data, v, bWhat \in {"read32", "second"})
        BY <2>7
      <3>2. PICK st \in BOOLEAN : st <=> bWhat \in {"read32", "second"}
        OBVIOUS
      <3>3. st = (bWhat \in {"read32", "second"})
        BY <3>2, Zenon
      <3>4. Taken(d, v, st)
        BY <2>3, <3>1, <3>3
      <3> QED BY <1>1, <1>2, <2>1, <2>4, <2>5, <2>7, <3>2, <3>4, BlueTaken
    <2>8. CASE /\ a.rid = bRid /\ bWhat = "psram" /\ BFault /\ BlueReturns(-1)
               /\ UNCHANGED <<bWhat, bI, bOff, bVal, bFiles, bStale>>
      <3>1. bExit' \in BOOLEAN /\ bOff' \in Nat /\ ~IsApDump
        BY <1>1, <2>8 DEF BlueInv, BlueTyped, IsApDump
      <3> QED BY <1>1, <1>2, <2>0, <2>8, <3>1, BlueFailed
    <2> QED BY <1>2, <2>2, <2>6, <2>7, <2>8
  <1>3. CASE /\ bExit /\ UNCHANGED bLine
             /\ \E v \in BOOLEAN : Taken([k \in 1 .. (IF bWhat = "block" THEN BlockLen ELSE 0) |-> <<0, 0>>], v, TRUE)
    <2>1. PICK v \in BOOLEAN : Taken([k \in 1 .. (IF bWhat = "block" THEN BlockLen ELSE 0) |-> <<0, 0>>], v, TRUE)
      BY <1>3
    <2>2. PICK n \in Nat : n = (IF bWhat = "block" THEN BlockLen ELSE 0)
      BY <1>1, BlockLenFacts DEF Requesting
    <2>3. PICK d \in Seq(BlueItems) : d = [k \in 1 .. n |-> <<0, 0>>] /\ Len(d) = n
      <3>1. <<0, 0>> \in BlueItems
        BY DEF BlueItems
      <3>2. PICK z \in BlueItems : z = <<0, 0>>
        BY <3>1
      <3>3. PICK d : d = [k \in 1 .. n |-> z]
        OBVIOUS
      <3>4. d \in Seq(BlueItems) /\ Len(d) = n
        BY <3>3
      <3> QED BY <3>2, <3>3, <3>4
    <2>4. Taken(d, v, TRUE) /\ (bWhat = "block" => Len(d) = BlockLen)
      BY <2>1, <2>2, <2>3
    <2>5. bLine' \in Seq(BlueAnswers)
      BY <1>3 DEF BlueInv, BlueTyped
    <2> QED BY <1>1, <1>3, <2>4, <2>5, BlueTaken
  <1>4. CASE bLine # <<>> /\ ~bExit /\ ReadsPart /\ UNCHANGED <<bPc, bWhat, bI, bOff, bVal, bFiles, bRet, bStale>>
    <2>1. /\ bLine' \in Seq(BlueAnswers) /\ Len(bLine') = Len(bLine) /\ bFaults' \in Nat
          /\ \A i \in 1 .. Len(bLine) : bLine'[i] = bLine[i] \/ bLine'[i].rid = 0
      BY <1>4, BlueCut DEF BlueInv
    <2>2. bRid # 0
      BY BlueConstants DEF BlueInv, BlueTyped, BlueTypeOK
    <2>3. \A g : Genuine(g)' <=> Genuine(g)
      BY <1>4 DEF Genuine, BlueAnswerData, BlockLen
    <2>4. \A j \in 1 .. Len(bLine) : bLine[j].rid = bRid => j = Len(bLine) /\ Genuine(bLine[j])
      BY <1>1, <1>4 DEF BlueInv, Ec800gLine
    <2>5. Exx00uLine' /\ Ec800gLine'
      BY <1>1, <1>4, <2>1, <2>2, <2>3, <2>4 DEF Exx00uLine, Ec800gLine
    <2> QED BY <1>1, <1>4, <2>1, <2>5, BluePassed
  <1> QED BY <1>2, <1>3, <1>4 DEF Ec800gReceives

\* The AP dump.
LEMMA ApDumpStartStep ==
    ASSUME BlueInv, ApDumpStart \/ ApDumpStart8310
    PROVE  BlueInv'
  <1>1. /\ UNCHANGED <<bChip, bWhat, bRid, bFlag, bI, bOff, bVal, bFiles, bLine, bFilter, bQueries, bStale>>
        /\ bPc = "log" /\ IsApDump /\ bExit \in BOOLEAN
    BY DEF ApDumpStart, ApDumpStart8310, IsApDump, BlueInv, BlueTyped
  <1>2. CASE bPc' = "apdump" /\ UNCHANGED <<bRet, bFaults, bExit>>
    <2>1. BlueTyped'
      BY <1>1, <1>2 DEF BlueInv, BlueTyped, BlueTypeOK
    <2>2. BluePlace'
      BY <1>1, <1>2 DEF BlueInv, BluePlace, IsApDump, Requesting
    <2>3. Exx00uLine' /\ Ec800gLine'
      BY <1>1 DEF Exx00uLine, Ec800gLine, IsApDump
    <2>4. BlueFilesInv' /\ BlueImage'
      BY <1>1, <1>2, BlueFilesKept, BlueImageKept DEF BlueInv, InBlocks, Requesting
    <2> QED BY <2>1, <2>2, <2>3, <2>4 DEF BlueInv
  <1>3. CASE BFault /\ BlueReturns(-1) /\ bExit' \in {bExit, TRUE}
    <2>1. bExit' \in BOOLEAN /\ bOff' \in Nat
      BY <1>1, <1>3 DEF BlueInv, BlueTyped
    <2>2. bExit => bExit'
      BY <1>3
    <2> QED BY <1>1, <1>3, <2>1, <2>2, BlueFailed
  <1>4. (bPc' = "apdump" /\ UNCHANGED <<bRet, bFaults, bExit>>) \/ (BFault /\ BlueReturns(-1) /\ bExit' \in {bExit, TRUE})
    BY DEF ApDumpStart, ApDumpStart8310
  <1> QED BY <1>2, <1>3, <1>4

\* A block is written and the next one due.
LEMMA ApDumpReadStep ==
    ASSUME BlueInv, ApDumpRead
    PROVE  BlueInv'
  <1>1. /\ UNCHANGED <<bChip, bWhat, bRid, bFlag, bI, bVal, bLine, bFilter, bQueries, bExit, bStale>>
        /\ bPc = "apdump" /\ IsApDump /\ bOff < ApChunks /\ bOff' = bOff + 1 /\ bOff \in Nat /\ bOff' \in Nat
        /\ bExit' \in BOOLEAN
    BY DEF ApDumpRead, BlueInv, BluePlace, BlueTyped
  <1>2. CASE bFiles' = [bFiles EXCEPT ![0] = Append(@, <<0, bOff>>)] /\ UNCHANGED <<bPc, bRet, bFaults>>
    <2>1. 0 \in BlueRegions /\ 0 \notin DOMAIN BlueTable /\ bFiles \in [BlueRegions -> Seq(BlueItems)]
          /\ \A i \in DOMAIN BlueTable : i \in BlueRegions /\ i # 0
      BY BlueConstants DEF BlueInv, BlueTyped, BlueRegions
    <2>2. PICK f \in Seq(BlueItems) : f = bFiles[0] /\ Len(f) = bOff
      BY <1>1, <2>1 DEF BlueInv, BlueFilesInv
    <2>3. PICK e \in BlueItems : e = <<0, bOff>>
      BY <1>1 DEF BlueItems
    <2>4. PICK g : g = Append(f, e)
      OBVIOUS
    <2>5. g \in Seq(BlueItems) /\ Len(g) = Len(f) + 1 /\ g[Len(f) + 1] = e /\ \A i \in 1 .. Len(f) : g[i] = f[i]
      BY <2>4, AppendFacts
    <2>6. bFiles' = [bFiles EXCEPT ![0] = g]
      BY <1>2, <2>1, <2>2, <2>3, <2>4
    <2>7. bFiles' \in [BlueRegions -> Seq(BlueItems)] /\ bFiles'[0] = g /\ \A i \in BlueRegions : i # 0 => bFiles'[i] = bFiles[i]
      BY <2>1, <2>5, <2>6
    <2>8. BlueTyped'
      BY <1>1, <1>2, <2>7 DEF BlueInv, BlueTyped, BlueTypeOK
    <2>9. BluePlace'
      BY <1>1, <1>2 DEF BlueInv, BluePlace, IsApDump, Requesting
    <2>10. Exx00uLine' /\ Ec800gLine'
      BY <1>1 DEF Exx00uLine, Ec800gLine, IsApDump
    <2>11. BlueFilesInv'
      <3>1. \A i \in DOMAIN BlueTable : bFiles'[i] = <<>>
        BY <1>1, <2>1, <2>7 DEF BlueInv, BlueFilesInv
      <3>2. Len(bFiles'[0]) = bOff' /\ bOff' <= ApChunks
        BY <1>1, <2>2, <2>5, <2>7, BlueConstants
      <3> QED BY <1>1, <1>2, <3>1, <3>2 DEF BlueFilesInv, IsApDump
    <2>12. BlueImage'
      <3>1. bRet' # 1
        BY <1>1, <1>2 DEF BlueInv, BluePlace
      <3> SUFFICES ASSUME ~bExit PROVE BlueExact'
        BY <1>1, <3>1 DEF BlueImage, BlueExact, BlueComplete
      <3>2. \A i \in BlueRegions : \A k \in DOMAIN bFiles[i] : bFiles[i][k] = <<i, k - 1>>
        BY <2>1 DEF BlueInv, BlueImage, BlueExact
      <3>3. PICK o \in Nat : o = bOff /\ Len(f) = o /\ Len(g) = o + 1
        BY <1>1, <2>2, <2>5
      <3>4. DOMAIN f = 1 .. o /\ DOMAIN g = 1 .. o + 1
        BY <2>5, <3>3
      <3>5. \A k \in 1 .. o + 1 : (k \in 1 .. o \/ k = o + 1) /\ (o + 1) - 1 = o
        OBVIOUS
      <3>6. \A k \in 1 .. o + 1 : g[k] = <<0, k - 1>>
        BY <2>1, <2>2, <2>3, <2>5, <3>2, <3>3, <3>4, <3>5
      <3>7. \A i \in BlueRegions : \A k \in DOMAIN bFiles'[i] : bFiles'[i][k] = <<i, k - 1>>
        BY <2>7, <3>2, <3>4, <3>6
      <3> QED BY <2>7, <3>7 DEF BlueExact
    <2> QED BY <2>8, <2>9, <2>10, <2>11, <2>12 DEF BlueInv
  <1>3. CASE BFault /\ BlueReturns(-1) /\ UNCHANGED bFiles
    BY <1>1, <1>3, BlueFailed
  <1> QED BY <1>2, <1>3 DEF ApDumpRead

\* The dump ends.
LEMMA ApDumpEndStep ==
    ASSUME BlueInv, ApDumpQuiet \/ ApDumpExit
    PROVE  BlueInv'
  <1>1. /\ UNCHANGED <<bChip, bWhat, bRid, bFlag, bI, bOff, bVal, bFiles, bLine, bFilter, bQueries, bExit>>
        /\ bPc = "apdump" /\ IsApDump /\ bPc' = "end" /\ bRet' \in {1, 2}
        /\ bRet' = 1 => bOff = ApChunks \/ bStale' = TRUE
    BY DEF ApDumpQuiet, ApDumpExit, BlueReturns, BlueInv, BluePlace
  <1>2. bStale' \in BOOLEAN /\ bFaults' \in Nat
    <2>1. bStale \in BOOLEAN /\ bFaults \in Nat
      BY DEF BlueInv, BlueTyped
    <2>2. (bStale' = bStale /\ bFaults' = bFaults) \/ (bStale' = TRUE /\ bFaults > 0 /\ bFaults' = bFaults - 1)
      BY DEF ApDumpQuiet, ApDumpExit, BFault
    <2>3. bFaults' \in Nat
      BY <2>1, <2>2
    <2>4. bStale' \in BOOLEAN
      BY <2>1, <2>2
    <2> QED BY <2>3, <2>4
  <1>3. BlueTyped'
    BY <1>1, <1>2 DEF BlueInv, BlueTyped, BlueTypeOK
  <1>4. BluePlace'
    BY <1>1 DEF BlueInv, BluePlace, IsApDump, Requesting
  <1>5. Exx00uLine' /\ Ec800gLine'
    BY <1>1 DEF Exx00uLine, Ec800gLine, IsApDump
  <1>6. BlueFilesInv'
    BY <1>1 DEF BlueInv, BlueFilesInv, IsApDump
  <1>7. BlueImage'
    BY <1>1 DEF BlueInv, BlueImage, BlueExact, BlueComplete, BlueFilesInv, IsApDump
  <1> QED BY <1>3, <1>4, <1>5, <1>6, <1>7 DEF BlueInv

\* Every step keeps the invariant.
LEMMA BlueStep ==
    ASSUME BlueInv, [BlueNext]_blueVars, RidsSuffice
    PROVE  BlueInv'
  <1>1. CASE UNCHANGED blueVars
    <2>1. /\ UNCHANGED <<bChip, bPc, bWhat, bRid, bFlag, bI, bOff, bVal, bFiles, bLine, bFilter>>
          /\ UNCHANGED <<bQueries, bExit, bRet, bFaults, bStale>>
      BY <1>1 DEF blueVars
    <2>2. BlueTyped' /\ BluePlace'
      BY <2>1 DEF BlueInv, BlueTyped, BlueTypeOK, BluePlace, IsApDump, Requesting
    <2> QED BY <2>1, <2>2, ExxLineKept, EcLineKept, BlueFilesKept, BlueImageKept DEF BlueInv, InBlocks, Requesting
  <1>2. CASE BlueNext
    BY <1>2, FilterChecksStep, FilterQueriesStep, BlueDetectedStep, BlueLoggedStep, BlueSleptStep, BlueEntryStep,
       BlueOpenStep, BlueBlockStep, BumpRidStep, SendRequestStep, Exx00uReceivesStep, Ec800gReceivesStep,
       ApDumpStartStep, ApDumpReadStep, ApDumpEndStep, BlueSignalStep DEF BlueNext, BlueMain
  <1> QED BY <1>1, <1>2

\* The module stays the one it is.
LEMMA BlueChipKept ==
    ASSUME [BlueNext]_blueVars
    PROVE  bChip' = bChip
  <1>1. FilterChecks \/ FilterQueries \/ BlueSignal => bChip' = bChip
    BY DEF FilterChecks, FilterQueries, BlueSignal
  <1>2. BlueDetected \/ BlueLogged \/ BlueSlept \/ BlueEntry \/ BlueOpen \/ BlueBlock \/ BumpRid => bChip' = bChip
    BY DEF BlueDetected, BlueLogged, BlueSlept, BlueEntry, BlueOpen, BlueBlock, BumpRid
  <1>3. SendRequest \/ Exx00uReceives \/ Ec800gReceives => bChip' = bChip
    BY DEF SendRequest, Exx00uReceives, Ec800gReceives
  <1>4. ApDumpStart \/ ApDumpStart8310 \/ ApDumpRead \/ ApDumpQuiet \/ ApDumpExit => bChip' = bChip
    BY DEF ApDumpStart, ApDumpStart8310, ApDumpRead, ApDumpQuiet, ApDumpExit
  <1> QED BY <1>1, <1>2, <1>3, <1>4 DEF BlueNext, BlueMain, blueVars

\* For every table of regions and every size of a request, any number of faults and of status
\* queries of the filter thread: each file of a blue screen or AP dump holds its region block
\* for block, whichever way the two threads advance rid, and the dump is whole when it is
\* reported as successful.  Of the EC800G, which takes any answer with its number, at most as
\* many status queries may be unread as there are numbers (2^32).
THEOREM BlueCorrect == BlueSpec => [](RidsSuffice => BlueTypeOK /\ BlueImage)
  <1> DEFINE Inv == RidsSuffice => BlueInv
  <1>1. BlueInit => Inv
    BY BlueInitially DEF BlueInit
  <1>2. Inv /\ [BlueNext]_blueVars => Inv'
    BY BlueStep, BlueChipKept DEF RidsSuffice
  <1>3. Inv => (RidsSuffice => BlueTypeOK /\ BlueImage)
    BY DEF BlueInv, BlueTyped
  <1> QED BY <1>1, <1>2, <1>3, PTL DEF BlueSpec

-----------------------------------------------------------------------------
(* Eigen: the invariant *)

\* The dumps of all sessions together count no more cells than RDReqCell has.
CellsFit == Len(EigenCells) * EigenSessions <= CellMax

\* The module names its memory from the lowest address on, no address twice, and no two cells
\* that follow one another lie 2^31 or more apart.
CellsAscend ==
    /\ \A i, j \in DOMAIN EigenCells : i < j => EigenCells[i].addr + EigenCells[i].len <= EigenCells[j].addr
    /\ \A i \in DOMAIN EigenCells :
          i < Len(EigenCells) => EigenCells[i + 1].addr - (EigenCells[i].addr + EigenCells[i].len) < AddrHalf

\* A cell, and the extent of the image.
Cells == [addr : Nat, len : Nat]

CellCount == Len(EigenCells)

EigenBase == EigenCells[1].addr

EigenEnd == EigenCells[CellCount].addr + EigenCells[CellCount].len

\* The zeros behind the image of a later dump.
Behind == IF Signed(0 - EigenEnd) > 0 THEN Signed(0 - EigenEnd) ELSE 0

\* Address a is in a cell.
InCells(a) == \E i \in DOMAIN EigenCells : a \in EigenCells[i].addr .. EigenCells[i].addr + EigenCells[i].len - 1

\* What the dump has for address a.
Image(a) == IF InCells(a) THEN a ELSE Zero

\* No cell is shorter than the first request for it.
AllWhole == \A i \in DOMAIN EigenCells : Whole(EigenCells[i])

\* The cells are being read.
Reading == eState \in {"request", "receive"}

\* The types of all variables.
EigenTyped ==
    /\ EigenTypeOK /\ eSession \in 1 .. EigenSessions /\ ePacket \in Nat /\ eLogs \in Seq(Seq(Nat)) /\ eOpen \in BOOLEAN
    /\ (eState = "log" /\ eOpen /\ eFaults = EigenFaults => ePacket = Last(Last(eLogs)))
    /\ eCells \in [1 .. CellMax -> Cells] /\ eRead \in Nat /\ eReq \in Cells /\ eFile \in Seq(Nat \cup {Zero})
    /\ eOut \in Seq(Cells) /\ eIn \in Seq([ok : BOOLEAN, data : Seq(Nat)])
    /\ eLate \in BOOLEAN /\ eFaults \in 0 .. EigenFaults
    /\ (eState = "receive" => eTime < ReadTimes) /\ (eRet = 1 => eState = "end")

\* The cells counted: one dump in a session at most, each stored from the first entry on.
CellsCounted ==
    /\ eCount <= CellCount * eSession
    /\ (eState \in {"log", "sync", "info"} => eCount <= CellCount * (eSession - 1))
    /\ (eState = "create" \/ Reading => eCount >= CellCount)
    /\ (Reading => eCell <= eCount)
    /\ \A i \in 1 .. CellMax : i > CellCount => eCells[i] = NoCell
    /\ (eState = "create" \/ Reading => \A i \in 1 .. CellCount : eCells[i] = EigenCells[i])

\* The blocks a request asks for.
BlocksOf(req) == [i \in 1 .. req.len |-> req.addr + i - 1]

\* At most one request, the current one, or its answer is on the line.
RequestInStep ==
    /\ (eState \in {"info", "create"} => eOut = <<>> /\ eIn = <<>>)
    /\ (eState = "request" /\ ~eLate => eOut = <<>> /\ eIn = <<>>)
    /\ (eState = "receive" /\ ~eLate =>
          /\ (eOut # <<>> => eIn = <<>> /\ Len(eOut) = 1 /\ eOut[1] = eReq)
          /\ (eIn # <<>> => eOut = <<>> /\ Len(eIn) = 1 /\ eIn[1].data = BlocksOf(eReq)))

\* The request is for what follows in the cell, and the file has everything before it.
ReadSoFar ==
    (Reading /\ ~eLate /\ AllWhole) =>
        /\ (eState = "receive" => eCell <= CellCount)
        /\ (eCell <= CellCount =>
              LET c == EigenCells[eCell] IN
                /\ eRead <= c.len /\ eReq.addr = c.addr + eRead
                /\ eReq.len = (IF c.len - eRead < ReadMax THEN c.len - eRead ELSE ReadMax)
                /\ Len(eFile) = c.addr + eRead - EigenBase)
        /\ (eCell > CellCount => eRead = 0 /\ Len(eFile) = (EigenEnd - EigenBase) + Behind)
        /\ \A i \in 1 .. Len(eFile) : eFile[i] = Image(EigenBase + i - 1)

\* The inductive invariant.
EigenInv == EigenTyped /\ CellsCounted /\ RequestInStep /\ ReadSoFar /\ EigenFiles

-----------------------------------------------------------------------------
(* Eigen: the memory and its image *)

\* What the assumption on the constants gives.
LEMMA EigenConstants ==
    /\ CellCount \in Nat /\ CellCount >= 1 /\ DOMAIN EigenCells = 1 .. CellCount
    /\ \A i \in 1 .. CellCount : EigenCells[i] \in Cells /\ EigenCells[i].addr \in Nat /\ EigenCells[i].len \in Nat
    /\ ReadMax \in Nat /\ ReadMax >= 1 /\ ReadTimes \in Nat /\ ReadTimes >= 1 /\ CellMax \in Nat /\ CellMax >= 1
    /\ EigenLimit \in Nat /\ EigenSessions \in Nat /\ EigenSessions >= 1 /\ EigenFaults \in Nat
    /\ EigenBase \in Nat /\ EigenEnd \in Nat /\ AddrHalf \in Nat /\ AddrHalf >= 1
  <1>1. EigenCells \in Seq(Cells) /\ EigenCells # <<>>
    BY EigenAssumption DEF Cells
  <1>2. CellCount \in Nat /\ CellCount >= 1 /\ DOMAIN EigenCells = 1 .. CellCount
    BY <1>1, TailFacts DEF CellCount
  <1>3. \A i \in 1 .. CellCount : EigenCells[i] \in Cells
    BY <1>1, ElementOfSeq DEF CellCount
  <1>4. \A c \in Cells : c.addr \in Nat /\ c.len \in Nat
    BY DEF Cells
  <1>5. 1 \in 1 .. CellCount /\ CellCount \in 1 .. CellCount
    BY <1>2
  <1>6. EigenBase \in Nat /\ EigenEnd \in Nat
    BY <1>3, <1>4, <1>5 DEF EigenBase, EigenEnd
  <1>7. /\ ReadMax \in Nat /\ ReadMax >= 1 /\ ReadTimes \in Nat /\ ReadTimes >= 1 /\ CellMax \in Nat /\ CellMax >= 1
        /\ EigenLimit \in Nat /\ EigenSessions \in Nat /\ EigenSessions >= 1 /\ AddrHalf \in Nat /\ AddrHalf >= 1
    <2>1. \A x \in {ReadMax, ReadTimes, CellMax, AddrHalf, EigenLimit, EigenSessions} : x \in Nat /\ x >= 1
      BY EigenAssumption
    <2> QED BY <2>1
  <1>8. EigenFaults \in Nat
    BY EigenAssumption
  <1> QED BY <1>2, <1>3, <1>4, <1>6, <1>7, <1>8

\* The cells of one dump more.
LEMMA CountFacts ==
    ASSUME CellsFit, NEW s \in 1 .. EigenSessions
    PROVE  /\ CellCount * s \in Nat /\ CellCount * s <= CellMax /\ CellCount * (s - 1) \in Nat /\ CellCount <= CellMax
           /\ CellCount * (s - 1) + CellCount = CellCount * s
  <1>1. PICK n \in Nat : n = CellCount /\ n >= 1
    BY EigenConstants
  <1>2. PICK m \in Nat : m = EigenSessions /\ m >= 1 /\ n * m <= CellMax /\ CellMax \in Nat
    BY <1>1, EigenConstants DEF CellsFit, CellCount
  <1>3. s \in Nat /\ s >= 1 /\ s <= m /\ s - 1 \in Nat
    BY <1>2
  <1>4. PICK d \in Nat : m = s + d
    <2>1. m - s \in Nat /\ m = s + (m - s)
      BY <1>3
    <2> QED BY <2>1
  <1>5. n * s \in Nat /\ n * d \in Nat /\ n * (s + d) = n * s + n * d
    BY <1>3, <1>4
  <1>6. n * s <= CellMax
    BY <1>2, <1>4, <1>5
  <1>7. PICK e \in Nat : s = e + 1
    <2>1. s = (s - 1) + 1
      BY <1>3
    <2> QED BY <1>3, <2>1
  <1>8. n * e \in Nat /\ n * (e + 1) = n * e + n /\ s - 1 = e
    BY <1>7
  <1>9. n <= CellMax
    <2>1. PICK x \in Nat : x = n * e /\ x + n <= CellMax
      BY <1>6, <1>7, <1>8
    <2> QED BY <1>2, <2>1
  <1> QED BY <1>1, <1>5, <1>6, <1>7, <1>8, <1>9

\* A file that is the image of the memory stays so with what follows in memory.
LEMMA ImageGrows ==
    ASSUME NEW f \in Seq(Nat \cup {Zero}), NEW d \in Seq(Nat \cup {Zero}),
           \A k \in 1 .. Len(f) : f[k] = Image(EigenBase + k - 1),
           \A k \in 1 .. Len(d) : d[k] = Image(EigenBase + (Len(f) + k) - 1)
    PROVE  /\ f \o d \in Seq(Nat \cup {Zero}) /\ Len(f \o d) = Len(f) + Len(d)
           /\ \A k \in 1 .. Len(f \o d) : (f \o d)[k] = Image(EigenBase + k - 1)
  <1>1. PICK g : g = f \o d
    OBVIOUS
  <1>2. PICK n \in Nat, m \in Nat : n = Len(f) /\ m = Len(d)
    OBVIOUS
  <1>3. /\ g \in Seq(Nat \cup {Zero}) /\ Len(g) = n + m
        /\ \A i \in 1 .. n : g[i] = f[i]
        /\ \A i \in 1 .. m : g[n + i] = d[i]
    BY <1>1, <1>2, ConcatFacts
  <1>4. \A k \in 1 .. n + m : g[k] = Image(EigenBase + k - 1)
    <2> SUFFICES ASSUME NEW k \in 1 .. n + m PROVE g[k] = Image(EigenBase + k - 1)
      OBVIOUS
    <2>1. CASE k \in 1 .. n
      BY <1>2, <1>3, <2>1
    <2>2. CASE k \notin 1 .. n
      <3>1. PICK j \in 1 .. m : k = n + j
        <4>1. k - n \in 1 .. m /\ k = n + (k - n)
          BY <2>2
        <4> QED BY <4>1
      <3>2. g[n + j] = Image(EigenBase + (n + j) - 1)
        BY <1>2, <1>3
      <3> QED BY <3>1, <3>2
    <2> QED BY <2>1, <2>2
  <1> QED BY <1>1, <1>2, <1>3, <1>4

\* The addresses of a cell are in the image.
LEMMA CellImage ==
    ASSUME NEW i \in 1 .. CellCount, NEW o \in Nat, o < EigenCells[i].len
    PROVE  Image(EigenCells[i].addr + o) = EigenCells[i].addr + o
  <1>1. EigenCells[i].addr \in Nat /\ EigenCells[i].len \in Nat /\ i \in DOMAIN EigenCells
    BY EigenConstants
  <1>2. EigenCells[i].addr + o \in EigenCells[i].addr .. EigenCells[i].addr + EigenCells[i].len - 1
    BY <1>1
  <1> QED BY <1>1, <1>2 DEF Image, InCells

\* Those between a cell and the next one are zeros.
LEMMA GapImage ==
    ASSUME CellsAscend, NEW i \in 1 .. CellCount, i < CellCount, NEW a \in Nat,
           a >= EigenCells[i].addr + EigenCells[i].len, a < EigenCells[i + 1].addr
    PROVE  Image(a) = Zero
  <1>1. ASSUME NEW j \in 1 .. CellCount, a \in EigenCells[j].addr .. EigenCells[j].addr + EigenCells[j].len - 1
        PROVE  FALSE
    <2>1. /\ EigenCells[j].addr \in Nat /\ EigenCells[j].len \in Nat /\ EigenCells[i].addr \in Nat /\ EigenCells[i].len \in Nat
          /\ i + 1 \in 1 .. CellCount /\ EigenCells[i + 1].addr \in Nat /\ EigenCells[i + 1].len \in Nat
          /\ DOMAIN EigenCells = 1 .. CellCount
      BY EigenConstants
    <2>2. j < i \/ j = i \/ j = i + 1 \/ j > i + 1
      BY EigenConstants
    <2>3. CASE j < i
      <3>1. EigenCells[j].addr + EigenCells[j].len <= EigenCells[i].addr
        BY <2>1, <2>3 DEF CellsAscend
      <3>2. PICK x \in Nat, y \in Nat, z \in Nat, w \in Nat :
               /\ x = EigenCells[j].addr /\ y = EigenCells[j].len /\ z = EigenCells[i].addr /\ w = EigenCells[i].len
        BY <2>1
      <3>3. a \in x .. x + y - 1 /\ x + y <= z /\ a >= z + w
        BY <1>1, <3>1, <3>2
      <3> QED BY <3>3
    <2>4. CASE j = i
      BY <1>1, <2>1, <2>4
    <2>5. CASE j = i + 1
      BY <1>1, <2>1, <2>5
    <2>6. CASE j > i + 1
      <3>1. EigenCells[i + 1].addr + EigenCells[i + 1].len <= EigenCells[j].addr
        BY <2>1, <2>6 DEF CellsAscend
      <3> QED BY <1>1, <2>1, <3>1
    <2> QED BY <2>2, <2>3, <2>4, <2>5, <2>6
  <1> QED BY <1>1, EigenConstants DEF Image, InCells

-----------------------------------------------------------------------------
(* Eigen: the log *)

\* The number of the last packet before file i, and of the last one of all.
EndBefore(logs, i) == IF i = 1 THEN 0 ELSE Last(logs[i - 1])

EndOf(logs) == IF logs = <<>> THEN 0 ELSE Last(Last(logs))

\* A file without a gap.
Gapless(f) == f # <<>> /\ \A k \in DOMAIN f : f[k] = f[1] + k - 1

\* The packets after a, up to b, are in T.
Only(a, b, T) == a <= b /\ a + 1 .. b \subseteq T

\* The files hold the packets up to p but for those of T.
Logged(logs, p, T) ==
    /\ \A i \in DOMAIN logs : Gapless(logs[i]) /\ Only(EndBefore(logs, i), logs[i][1] - 1, T)
    /\ Only(EndOf(logs), p, T)

\* The property in these words.
LEMMA LoggedIs == EigenLogged <=> (eFaults = EigenFaults => Logged(eLogs, ePacket, eTriggers))
  BY Zenon DEF EigenLogged, Logged, Gapless, Only, OnlyTriggers, EndBefore, EndOf

\* t is s with its element k exchanged for x.
Exchanged(t, s, k, x) == t = [s EXCEPT ![k] = x]

\* An element exchanged: the others stay.
LEMMA ExchangedFacts ==
    ASSUME NEW S, NEW s \in Seq(S), NEW k \in 1 .. Len(s), NEW x \in S, NEW t, Exchanged(t, s, k, x)
    PROVE  t \in Seq(S) /\ Len(t) = Len(s) /\ t[k] = x /\ \A i \in 1 .. Len(s) : i # k => t[i] = s[i]
  BY DEF Exchanged

\* The files before m hold what they should.
FilesBefore(logs, m, T) ==
    \A i \in 1 .. m : i < m => Gapless(logs[i]) /\ Only(EndBefore(logs, i), logs[i][1] - 1, T)

\* File m is empty or ends with packet p.
LastFile(logs, m, p, T) ==
    \/ logs[m] = <<>> /\ Only(EndBefore(logs, m), p, T)
    \/ Gapless(logs[m]) /\ Only(EndBefore(logs, m), logs[m][1] - 1, T) /\ Last(logs[m]) = p

\* Packet p + 1 is written behind the last one of the last file, which may be empty.
PacketSaved(logs, m, p, T, t) ==
    /\ logs \in Seq(Seq(Nat)) /\ m \in Nat /\ m = Len(logs) /\ m >= 1 /\ p \in Nat
    /\ FilesBefore(logs, m, T) /\ LastFile(logs, m, p, T)
    /\ Exchanged(t, logs, m, Append(logs[m], p + 1))

\* The files are then those up to packet p + 1.
LEMMA PacketLogged ==
    ASSUME NEW logs, NEW m, NEW p, NEW T, NEW t, PacketSaved(logs, m, p, T, t)
    PROVE  Logged(t, p + 1, T) /\ Last(Last(t)) = p + 1
  <1> SUFFICES ASSUME logs \in Seq(Seq(Nat)), m \in Nat, m = Len(logs), m >= 1, p \in Nat,
                      FilesBefore(logs, m, T), LastFile(logs, m, p, T),
                      Exchanged(t, logs, m, Append(logs[m], p + 1))
               PROVE  Logged(t, p + 1, T) /\ Last(Last(t)) = p + 1
    BY Zenon DEF PacketSaved
  <1>1. PICK f \in Seq(Nat) : f = logs[m]
    <2>1. m \in 1 .. Len(logs)
      OBVIOUS
    <2> QED BY <2>1, ElementOfSeq
  <1>2. PICK n \in Nat : n = Len(f)
    OBVIOUS
  <1>3. PICK g : g = Append(f, p + 1)
    OBVIOUS
  <1>4. g \in Seq(Nat) /\ Len(g) = n + 1 /\ g[n + 1] = p + 1 /\ \A k \in 1 .. n : g[k] = f[k]
    BY <1>2, <1>3, AppendFacts
  <1>5. t \in Seq(Seq(Nat)) /\ Len(t) = m /\ t[m] = g /\ \A i \in 1 .. m : i # m => t[i] = logs[i]
    <2>1. PICK S : S = Seq(Nat)
      OBVIOUS
    <2>2. logs \in Seq(S) /\ m \in 1 .. Len(logs) /\ g \in S /\ Exchanged(t, logs, m, g)
      BY <1>1, <1>3, <1>4, <2>1
    <2>3. t \in Seq(S) /\ Len(t) = Len(logs) /\ t[m] = g /\ \A i \in 1 .. Len(logs) : i # m => t[i] = logs[i]
      BY <2>2, ExchangedFacts
    <2> QED BY <2>1, <2>3
  <1>6. t # <<>> /\ DOMAIN t = 1 .. m /\ DOMAIN g = 1 .. n + 1 /\ DOMAIN f = 1 .. n
    <2>1. t # <<>>
      BY <1>5
    <2>2. DOMAIN t = 1 .. m
      BY <1>5
    <2>3. DOMAIN g = 1 .. n + 1 /\ DOMAIN f = 1 .. n
      BY <1>2, <1>4
    <2> QED BY <2>1, <2>2, <2>3
  <1>7. \A i \in 1 .. m : EndBefore(t, i) = EndBefore(logs, i)
    <2> SUFFICES ASSUME NEW i \in 1 .. m PROVE EndBefore(t, i) = EndBefore(logs, i)
      OBVIOUS
    <2>1. CASE i = 1
      BY <2>1 DEF EndBefore
    <2>2. CASE i # 1
      <3>1. i - 1 \in 1 .. m /\ i - 1 # m
        BY <2>2
      <3>2. t[i - 1] = logs[i - 1]
        BY <1>5, <3>1
      <3> QED BY <3>2 DEF EndBefore
    <2> QED BY <2>1, <2>2
  <1>8. g # <<>>
    BY <1>4
  <1>9. Gapless(g) /\ Only(EndBefore(logs, m), g[1] - 1, T)
    <2>1. CASE f = <<>> /\ Only(EndBefore(logs, m), p, T)
      <3>1. n = 0
        BY <1>2, <2>1
      <3>2. g[1] = p + 1 /\ (p + 1) - 1 = p /\ DOMAIN g = 1 .. 1
        BY <1>4, <1>6, <3>1
      <3>3. \A k \in 1 .. 1 : g[k] = g[1] + k - 1
        BY <1>4, <3>2
      <3>4. Gapless(g)
        BY <1>8, <3>2, <3>3 DEF Gapless
      <3> QED BY <2>1, <3>2, <3>4
    <2>2. CASE Gapless(f) /\ Only(EndBefore(logs, m), f[1] - 1, T) /\ Last(f) = p
      <3>1. n >= 1 /\ 1 \in 1 .. n /\ n \in 1 .. n
        BY <1>2, <2>2, TailFacts DEF Gapless
      <3>2. g[1] = f[1]
        BY <1>4, <3>1
      <3>3. PICK a \in Nat : a = f[1]
        BY <1>2, <3>1, ElementOfSeq
      <3>4. p = a + n - 1
        <4>1. f[n] = a + n - 1
          BY <1>6, <2>2, <3>1, <3>3 DEF Gapless
        <4>2. Last(f) = f[n]
          BY <1>2 DEF Last
        <4> QED BY <2>2, <4>1, <4>2
      <3>5. ASSUME NEW k \in 1 .. n + 1 PROVE g[k] = a + k - 1
        <4>1. CASE k \in 1 .. n
          <5>1. f[k] = a + k - 1
            BY <1>6, <2>2, <3>3, <4>1 DEF Gapless
          <5> QED BY <1>4, <4>1, <5>1
        <4>2. CASE k = n + 1
          BY <1>4, <3>4, <4>2
        <4> QED BY <4>1, <4>2
      <3>6. Gapless(g)
        BY <1>6, <1>8, <3>2, <3>3, <3>5 DEF Gapless
      <3> QED BY <2>2, <3>2, <3>6
    <2> QED BY <1>1, <2>1, <2>2, Zenon DEF LastFile
  <1>10. ASSUME NEW i \in 1 .. m
         PROVE  Gapless(t[i]) /\ Only(EndBefore(t, i), t[i][1] - 1, T)
    <2>1. CASE i # m
      <3>1. i < m
        BY <2>1
      <3>2. t[i] = logs[i] /\ EndBefore(t, i) = EndBefore(logs, i)
        BY <1>5, <1>7, <2>1
      <3>3. Gapless(logs[i]) /\ Only(EndBefore(logs, i), logs[i][1] - 1, T)
        BY <3>1, Zenon DEF FilesBefore
      <3> QED BY <3>2, <3>3, Zenon
    <2>2. CASE i = m
      BY <1>5, <1>7, <1>9, <2>2
    <2> QED BY <2>1, <2>2
  <1>11. Last(Last(t)) = p + 1
    BY <1>4, <1>5 DEF Last
  <1>12. Only(EndOf(t), p + 1, T)
    <2>1. (p + 1) + 1 .. p + 1 = {} /\ p + 1 <= p + 1
      OBVIOUS
    <2> QED BY <1>6, <1>11, <2>1 DEF Only, EndOf
  <1> QED BY <1>5, <1>6, <1>10, <1>11, <1>12 DEF Logged

-----------------------------------------------------------------------------
(* Eigen: the steps *)

\* A fault more, or none.
EigenFault == eFaults' = eFaults \/ EFault

\* The log depends on its files, on the packets received and on the faults only.
LEMMA EigenLoggedKept ==
    ASSUME EigenLogged, eFaults \in 0 .. EigenFaults, UNCHANGED <<eLogs, ePacket, eTriggers>>, EigenFault
    PROVE  EigenLogged' /\ eFaults' \in 0 .. EigenFaults
  <1>1. eFaults' \in 0 .. EigenFaults /\ (eFaults' = EigenFaults => eFaults = EigenFaults)
    BY EigenConstants DEF EigenFault, EFault
  <1> QED BY <1>1 DEF EigenLogged, OnlyTriggers

\* So do the cells on the session and the state.
LEMMA CellsKept ==
    ASSUME CellsCounted, UNCHANGED <<eCount, eCells, eSession>>,
           eState' \in {"log", "sync", "info"} => eState \in {"log", "sync", "info"},
           eState' = "create" \/ Reading' => eState = "create" \/ Reading, Reading' => eCell' <= eCount
    PROVE  CellsCounted'
  BY DEF CellsCounted

\* The session ends.
LEMMA EigenEnds ==
    ASSUME EigenInv, UNCHANGED <<eSession, ePacket, eLogs, eTriggers, eCells, eCount, eCell, eRead, eReq, eTime, eFile, eOut, eIn, eLate>>,
           EigenFault, eState' = "end", eOpen' = FALSE, eRet' \in {-1, 0, 1}, EigenImage'
    PROVE  EigenInv'
  <1>1. EigenLogged' /\ eFaults' \in 0 .. EigenFaults
    BY EigenLoggedKept DEF EigenInv, EigenTyped, EigenFiles
  <1>2. EigenTyped'
    BY <1>1 DEF EigenInv, EigenTyped, EigenTypeOK
  <1>3. CellsCounted'
    BY CellsKept DEF EigenInv, Reading
  <1>4. RequestInStep' /\ ReadSoFar'
    BY DEF RequestInStep, ReadSoFar, Reading
  <1> QED BY <1>1, <1>2, <1>3, <1>4 DEF EigenInv, EigenFiles

\* The initial states, with and without a module of this kind.
LEMMA EigenInitially ==
    ASSUME CellsFit, EigenFresh, (eState = "log" /\ eSession = 1) \/ (eState = "end" /\ eSession = EigenSessions)
    PROVE  EigenInv
  <1>1. eSession \in 1 .. EigenSessions
    BY EigenConstants
  <1>2. eCells \in [1 .. CellMax -> Cells] /\ eReq \in Cells /\ \A i \in 1 .. CellMax : eCells[i] = NoCell
    BY DEF EigenFresh, NoCell, Cells
  <1>3. /\ eLogs \in Seq(Seq(Nat)) /\ eFile \in Seq(Nat \cup {Zero}) /\ eOut \in Seq(Cells)
        /\ eIn \in Seq([ok : BOOLEAN, data : Seq(Nat)]) /\ DOMAIN eFile = {} /\ DOMAIN eLogs = {}
    BY DEF EigenFresh
  <1>4. EigenTyped
    <2>1. /\ eFaults \in 0 .. EigenFaults /\ eTime \in 0 .. ReadTimes /\ eCount \in 0 .. CellMax /\ eCell \in 1 .. CellMax
          /\ ePacket \in Nat /\ eRead \in Nat /\ eRet = 0 /\ eLate = FALSE /\ eOpen = FALSE
      BY EigenConstants DEF EigenFresh
    <2>2. EigenTypeOK
      BY <1>3, <2>1 DEF EigenTypeOK
    <2>3. eLate \in BOOLEAN /\ eOpen \in BOOLEAN
      BY <2>1, Zenon
    <2>4. eRet # 1
      BY <2>1
    <2>5. eState # "receive"
      OBVIOUS
    <2>6. ~eOpen
      BY <2>1
    <2> QED BY <1>1, <1>2, <1>3, <2>1, <2>2, <2>3, <2>4, <2>5, <2>6, Zenon DEF EigenTyped
  <1>5. CellsCounted
    <2>1. CellCount * eSession \in Nat /\ CellCount * (eSession - 1) \in Nat
      BY <1>1, CountFacts
    <2>2. eCount = 0 /\ eCount <= CellCount * eSession /\ eCount <= CellCount * (eSession - 1)
      BY <2>1 DEF EigenFresh
    <2> QED BY <1>2, <2>2 DEF CellsCounted, Reading
  <1>6. RequestInStep /\ ReadSoFar
    BY DEF RequestInStep, ReadSoFar, Reading
  <1>7. EigenFiles
    BY <1>3 DEF EigenFiles, EigenImage, EigenLogged, OnlyTriggers, EigenFresh
  <1> QED BY <1>4, <1>5, <1>6, <1>7 DEF EigenInv

\* One lemma per action: it keeps the invariant.
LEMMA EigenSaveStep ==
    ASSUME EigenInv, EigenSave
    PROVE  EigenInv'
  <1>1. /\ eState = "log" /\ ePacket' = ePacket + 1 /\ ePacket \in Nat /\ eLogs \in Seq(Seq(Nat)) /\ (eOpen => eLogs # <<>>)
        /\ UNCHANGED <<eSession, eTriggers, eCells, eCount, eCell, eRead, eReq, eTime, eFile, eRet, eOut, eIn, eLate>> /\ eRet # 1
        /\ eFaults \in 0 .. EigenFaults /\ eRet \in {-1, 0, 1} /\ EigenLimit \in Nat
    BY EigenConstants DEF EigenSave, eDumpVars, eLineVars, EigenInv, EigenTyped, EigenTypeOK
  <1>2. CASE EFault /\ eState' = "end" /\ eOpen' = FALSE /\ eLogs' = eLogs
    <2>1. eFaults' \in 0 .. EigenFaults /\ eFaults' # EigenFaults /\ ePacket' \in Nat
      BY <1>1, <1>2, EigenConstants DEF EFault
    <2>2. EigenTyped'
      BY <1>1, <1>2, <2>1 DEF EigenInv, EigenTyped, EigenTypeOK
    <2>3. CellsCounted'
      BY <1>1, <1>2, CellsKept DEF EigenInv, Reading
    <2>4. RequestInStep' /\ ReadSoFar'
      BY <1>2 DEF RequestInStep, ReadSoFar, Reading
    <2>5. EigenFiles'
      BY <1>1, <2>1 DEF EigenFiles, EigenImage, EigenLogged, OnlyTriggers
    <2> QED BY <2>2, <2>3, <2>4, <2>5 DEF EigenInv
  <1>3. ASSUME NEW logs, logs = (IF eOpen THEN eLogs ELSE Append(eLogs, <<>>)), NEW log,
               log = Append(logs[Len(logs)], ePacket'), eLogs' = [logs EXCEPT ![Len(logs)] = log],
               eOpen' = (Len(log) < EigenLimit), UNCHANGED <<eState, eFaults>>
        PROVE  EigenInv'
    <2>1. PICK n \in Nat : n = Len(eLogs)
      BY <1>1
    <2>2. PICK m \in Nat : /\ m = Len(logs) /\ m >= 1 /\ logs \in Seq(Seq(Nat))
                           /\ (eOpen => logs = eLogs /\ m = n)
                           /\ (~eOpen => m = n + 1 /\ logs[m] = <<>> /\ \A i \in 1 .. n : logs[i] = eLogs[i])
      <3>1. CASE eOpen
        <4>1. n >= 1
          BY <1>1, <2>1, <3>1, TailFacts
        <4> QED BY <1>1, <1>3, <2>1, <3>1, <4>1
      <3>2. CASE ~eOpen
        <4>1. PICK e \in Seq(Nat) : e = <<>>
          BY NothingFacts
        <4>2. PICK ls : ls = Append(eLogs, e)
          OBVIOUS
        <4>3. ls \in Seq(Seq(Nat)) /\ Len(ls) = n + 1 /\ ls[n + 1] = e /\ \A i \in 1 .. n : ls[i] = eLogs[i]
          BY <1>1, <2>1, <4>2, AppendFacts
        <4>4. logs = ls /\ n + 1 \in Nat /\ n + 1 >= 1
          BY <1>3, <2>1, <3>2, <4>1, <4>2
        <4> QED BY <3>2, <4>1, <4>3, <4>4
      <3> QED BY <3>1, <3>2
    <2>3. PICK p \in Nat : p = ePacket
      BY <1>1
    <2>4. PICK t : t = eLogs' /\ Exchanged(t, logs, m, Append(logs[m], p + 1))
      BY <1>1, <1>3, <2>2, <2>3 DEF Exchanged
    <2>5. t \in Seq(Seq(Nat)) /\ t # <<>>
      <3>1. PICK S : S = Seq(Nat)
        OBVIOUS
      <3>2. logs \in Seq(S) /\ m \in 1 .. Len(logs) /\ logs[m] \in S
        BY <2>2, <3>1, ElementOfSeq
      <3>3. PICK g \in S : g = Append(logs[m], p + 1)
        <4>1. PICK f \in Seq(Nat) : f = logs[m]
          BY <3>1, <3>2
        <4>2. Append(f, p + 1) \in Seq(Nat)
          BY <2>3, <4>1, AppendFacts
        <4> QED BY <3>1, <4>1, <4>2
      <3>4. Exchanged(t, logs, m, g)
        BY <2>4, <3>3
      <3>5. t \in Seq(S) /\ Len(t) = Len(logs)
        BY <3>2, <3>3, <3>4, ExchangedFacts
      <3>6. t # <<>>
        BY <2>2, <3>5
      <3> QED BY <3>1, <3>5, <3>6
    <2>6. EigenLogged' /\ (eFaults = EigenFaults => ePacket' = Last(Last(eLogs')))
      <3> SUFFICES ASSUME eFaults = EigenFaults PROVE Logged(t, p + 1, eTriggers) /\ Last(Last(t)) = p + 1
        <4>1. eLogs' = t /\ ePacket' = p + 1 /\ eFaults' = eFaults /\ eTriggers' = eTriggers
          BY <1>1, <1>3, <2>3, <2>4
        <4>2. Logged(eLogs', ePacket', eTriggers') => EigenLogged'
          BY Zenon DEF EigenLogged, Logged, Gapless, Only, OnlyTriggers, EndBefore, EndOf
        <4>3. eFaults' # EigenFaults => EigenLogged'
          BY DEF EigenLogged
        <4> QED BY <4>1, <4>2, <4>3
      <3>1. Logged(eLogs, p, eTriggers)
        BY <2>3, LoggedIs DEF EigenInv, EigenFiles
      <3>2. DOMAIN eLogs = 1 .. n /\ (eLogs = <<>> <=> n = 0)
        BY <1>1, <2>1
      <3>3. /\ \A i \in 1 .. n : Gapless(eLogs[i]) /\ Only(EndBefore(eLogs, i), eLogs[i][1] - 1, eTriggers)
            /\ Only(EndOf(eLogs), p, eTriggers)
        BY <3>1, <3>2, Zenon DEF Logged
      <3>4. \A i \in 1 .. n : logs[i] = eLogs[i] /\ EndBefore(logs, i) = EndBefore(eLogs, i)
        <4> SUFFICES ASSUME NEW i \in 1 .. n PROVE logs[i] = eLogs[i] /\ EndBefore(logs, i) = EndBefore(eLogs, i)
          OBVIOUS
        <4>1. i # 1 => i - 1 \in 1 .. n
          OBVIOUS
        <4>2. logs[i] = eLogs[i] /\ (i # 1 => logs[i - 1] = eLogs[i - 1])
          BY <2>2, <4>1
        <4> QED BY <4>2 DEF EndBefore
      <3>5. \A i \in 1 .. m : i < m => i \in 1 .. n
        BY <2>2
      <3>6. \A i \in 1 .. m : i < m => Gapless(logs[i]) /\ Only(EndBefore(logs, i), logs[i][1] - 1, eTriggers)
        BY <3>3, <3>4, <3>5, Zenon
      <3>7. CASE eOpen
        <4>1. m = n /\ m \in 1 .. n /\ logs = eLogs
          BY <2>2, <3>7
        <4>2. Last(eLogs[n]) = p
          <5>1. p = Last(Last(eLogs))
            BY <1>1, <2>3, <3>7 DEF EigenInv, EigenTyped
          <5> QED BY <2>1, <5>1 DEF Last
        <4>3. Gapless(logs[m]) /\ Only(EndBefore(logs, m), logs[m][1] - 1, eTriggers) /\ Last(logs[m]) = p
          BY <3>3, <4>1, <4>2
        <4>4. PICK T : T = eTriggers
          OBVIOUS
        <4>5. FilesBefore(logs, m, T) /\ LastFile(logs, m, p, T)
          BY <3>6, <4>3, <4>4, Zenon DEF FilesBefore, LastFile
        <4>6. Logged(t, p + 1, T) /\ Last(Last(t)) = p + 1
          <5>1. PacketSaved(logs, m, p, T, t)
            BY <2>2, <2>4, <4>5, Zenon DEF PacketSaved
          <5> QED BY <5>1, PacketLogged
        <4> QED BY <4>4, <4>6, Zenon
      <3>8. CASE ~eOpen
        <4>1. m = n + 1 /\ logs[m] = <<>>
          BY <2>2, <3>8
        <4>2. EndBefore(logs, m) = EndOf(eLogs)
          <5>1. CASE n = 0
            BY <3>2, <4>1, <5>1 DEF EndBefore, EndOf
          <5>2. CASE n # 0
            <6>1. m # 1 /\ m - 1 = n /\ n \in 1 .. n
              BY <4>1, <5>2
            <6>2. logs[m - 1] = eLogs[n]
              BY <3>4, <6>1
            <6> QED BY <2>1, <3>2, <5>2, <6>1, <6>2 DEF EndBefore, EndOf, Last
          <5> QED BY <5>1, <5>2
        <4>3. logs[m] = <<>> /\ Only(EndBefore(logs, m), p, eTriggers)
          BY <3>3, <4>1, <4>2
        <4>4. PICK T : T = eTriggers
          OBVIOUS
        <4>5. FilesBefore(logs, m, T) /\ LastFile(logs, m, p, T)
          BY <3>6, <4>3, <4>4, Zenon DEF FilesBefore, LastFile
        <4>6. Logged(t, p + 1, T) /\ Last(Last(t)) = p + 1
          <5>1. PacketSaved(logs, m, p, T, t)
            BY <2>2, <2>4, <4>5, Zenon DEF PacketSaved
          <5> QED BY <5>1, PacketLogged
        <4> QED BY <4>4, <4>6, Zenon
      <3> QED BY <3>7, <3>8
    <2>7. EigenTyped'
      <3>1. eOpen' \in BOOLEAN
        <4>1. (Len(log) < EigenLimit) \in BOOLEAN
          OBVIOUS
        <4> QED BY <1>3, <4>1
      <3>2. eLogs' \in Seq(Seq(Nat)) /\ eLogs' # <<>> /\ ePacket' \in Nat
        BY <1>1, <2>4, <2>5
      <3> QED BY <1>1, <1>3, <2>6, <3>1, <3>2 DEF EigenInv, EigenTyped, EigenTypeOK
    <2>8. CellsCounted'
      BY <1>1, <1>3, CellsKept DEF EigenInv, Reading
    <2>9. RequestInStep' /\ ReadSoFar'
      BY <1>1, <1>3 DEF RequestInStep, ReadSoFar, Reading
    <2>10. EigenImage'
      BY <1>1 DEF EigenImage
    <2> QED BY <2>6, <2>7, <2>8, <2>9, <2>10 DEF EigenInv, EigenFiles
  <1> QED BY <1>2, <1>3 DEF EigenSave, Stamped

\* What every step starts from.
LEMMA EigenTypes ==
    ASSUME EigenInv
    PROVE  /\ eSession \in 1 .. EigenSessions /\ ePacket \in Nat /\ eLogs \in Seq(Seq(Nat)) /\ eOpen \in BOOLEAN
           /\ eCells \in [1 .. CellMax -> Cells] /\ eRead \in Nat /\ eReq \in Cells /\ eFile \in Seq(Nat \cup {Zero})
           /\ eOut \in Seq(Cells) /\ eIn \in Seq([ok : BOOLEAN, data : Seq(Nat)]) /\ eLate \in BOOLEAN
           /\ eFaults \in 0 .. EigenFaults /\ eTime \in 0 .. ReadTimes /\ eCount \in 0 .. CellMax /\ eCell \in 1 .. CellMax
           /\ eRet \in {-1, 0, 1} /\ (eRet = 1 => eState = "end")
           /\ eReq.addr \in Nat /\ eReq.len \in Nat /\ eCell \in Nat /\ eCount \in Nat
           /\ eState \in {"log", "sync", "info", "create", "request", "receive", "end"}
           /\ eCells[eCell] \in Cells /\ eCells[eCell].addr \in Nat /\ eCells[eCell].len \in Nat
  <1>1. \A c \in Cells : c.addr \in Nat /\ c.len \in Nat
    BY DEF Cells
  <1>2. eCells \in [1 .. CellMax -> Cells] /\ eCell \in 1 .. CellMax /\ eReq \in Cells
    BY DEF EigenInv, EigenTyped, EigenTypeOK
  <1>3. eCells[eCell] \in Cells
    BY <1>2
  <1>4. /\ eReq.addr \in Nat /\ eReq.len \in Nat /\ eCells[eCell].addr \in Nat /\ eCells[eCell].len \in Nat
    BY <1>1, <1>2, <1>3
  <1>5. eCount \in 0 .. CellMax /\ CellMax \in Nat
    BY EigenConstants DEF EigenInv, EigenTyped, EigenTypeOK
  <1>6. eCell \in Nat /\ eCount \in Nat
    BY <1>2, <1>5
  <1> QED BY <1>2, <1>3, <1>4, <1>5, <1>6 DEF EigenInv, EigenTyped, EigenTypeOK

\* The log ends with a failing read.
LEMMA EigenReadFailsStep ==
    ASSUME EigenInv, EigenReadFails
    PROVE  EigenInv'
  <1>1. eRet \in {-1, 0, 1} /\ eRet # 1
    BY EigenTypes DEF EigenReadFails
  <1>2. EigenImage'
    BY <1>1 DEF EigenImage, EigenReadFails
  <1> QED BY <1>1, <1>2, EigenEnds DEF EigenReadFails, eDumpVars, eLineVars, EigenFault

\* The dump fails before its first cell.
LEMMA EigenFailsStep ==
    ASSUME EigenInv, EigenDumpFails \/ TooManyErrors
    PROVE  EigenInv'
  <1>1. eRet' = -1 /\ eState' = "end" /\ eOpen' = FALSE
    BY DEF EigenDumpFails, TooManyErrors, DumpReturns
  <1>2. EigenImage'
    BY <1>1 DEF EigenImage
  <1> QED BY <1>1, <1>2, EigenEnds DEF EigenDumpFails, TooManyErrors, eDumpVars, eLineVars, EigenFault

\* The dump begins.
LEMMA EigenTriggerStep ==
    ASSUME EigenInv, EigenTrigger
    PROVE  EigenInv'
  <1>1. /\ eState = "log" /\ eState' = "sync" /\ ePacket' = ePacket + 1
        /\ eTriggers' = eTriggers \cup {ePacket'} /\ UNCHANGED <<eSession, eLogs, eOpen, eCells, eCount, eCell, eRead, eReq, eTime, eFile>>
        /\ UNCHANGED <<eRet, eOut, eIn, eLate, eFaults>>
    BY DEF EigenTrigger, eDumpVars, eLineVars
  <1>2. PICK p \in Nat : p = ePacket /\ ePacket' = p + 1 /\ ePacket' \in Nat
    <2>1. ePacket \in Nat
      BY EigenTypes
    <2>2. ePacket' = ePacket + 1
      BY <1>1
    <2> QED BY <2>1, <2>2
  <1>6. EigenTyped'
    BY <1>1, <1>2 DEF EigenInv, EigenTyped, EigenTypeOK
  <1>3. CellsCounted'
    BY <1>1, CellsKept DEF EigenInv, Reading
  <1>4. RequestInStep' /\ ReadSoFar'
    BY <1>1 DEF RequestInStep, ReadSoFar, Reading
  <1>5. EigenImage'
    BY <1>1, EigenTypes DEF EigenInv, EigenFiles, EigenImage
  <1>7. EigenLogged'
    <2> SUFFICES ASSUME eFaults = EigenFaults PROVE Logged(eLogs, p + 1, eTriggers \cup {p + 1})
      <3>1. /\ eLogs' = eLogs /\ ePacket' = p + 1 /\ eFaults' = eFaults /\ eTriggers' = eTriggers \cup {p + 1}
        BY <1>1, <1>2
      <3>2. Logged(eLogs', ePacket', eTriggers') => EigenLogged'
        BY Zenon DEF EigenLogged, Logged, Gapless, Only, OnlyTriggers, EndBefore, EndOf
      <3>3. eFaults' # EigenFaults => EigenLogged'
        BY DEF EigenLogged
      <3> QED BY <3>1, <3>2, <3>3
    <2>1. Logged(eLogs, p, eTriggers)
      BY <1>2, LoggedIs DEF EigenInv, EigenFiles
    <2>2. PICK T : T = eTriggers \cup {p + 1} /\ eTriggers \subseteq T /\ p + 1 \in T
      <3>1. eTriggers \subseteq (eTriggers \cup {p + 1}) /\ p + 1 \in (eTriggers \cup {p + 1})
        BY Zenon
      <3> QED BY <3>1, Zenon
    <2>3. \A a, b : Only(a, b, eTriggers) => Only(a, b, T)
      BY <2>2 DEF Only
    <2>4. EndOf(eLogs) \in Nat
      <3>1. CASE eLogs # <<>>
        <4>1. PICK n \in Nat : n = Len(eLogs) /\ n \in 1 .. n /\ DOMAIN eLogs = 1 .. n
          BY <3>1, EigenTypes, TailFacts
        <4>2. PICK f \in Seq(Nat) : f = eLogs[n]
          BY <4>1, EigenTypes, ElementOfSeq
        <4>3. f # <<>>
          BY <2>1, <4>1, <4>2 DEF Logged, Gapless
        <4>4. Len(f) \in 1 .. Len(f)
          BY <4>3, TailFacts
        <4>5. f[Len(f)] \in Nat
          BY <4>4, ElementOfSeq
        <4> QED BY <3>1, <4>1, <4>2, <4>5 DEF EndOf, Last
      <3> QED BY <3>1 DEF EndOf
    <2>5. Only(EndOf(eLogs), p + 1, T)
      <3>1. PICK e \in Nat : e = EndOf(eLogs) /\ e <= p /\ e + 1 .. p \subseteq eTriggers
        BY <2>1, <2>4 DEF Logged, Only
      <3>2. \A q \in e + 1 .. p + 1 : q \in e + 1 .. p \/ q = p + 1
        BY <3>1
      <3>3. e <= p + 1
        BY <3>1
      <3> QED BY <2>2, <3>1, <3>2, <3>3 DEF Only
    <2> QED BY <2>1, <2>2, <2>3, <2>5 DEF Logged
  <1> QED BY <1>3, <1>4, <1>5, <1>6, <1>7 DEF EigenInv, EigenFiles

\* Nothing is on the line once the module has answered.
LEMMA SyncStartStep ==
    ASSUME EigenInv, SyncStart
    PROVE  EigenInv'
  <1>1. /\ eState = "sync" /\ eState' = "info" /\ eIn' = <<>> /\ eOut' = <<>>
        /\ UNCHANGED <<eSession, ePacket, eLogs, eTriggers, eOpen, eCells, eCount, eCell, eRead, eReq, eTime, eFile>>
        /\ UNCHANGED <<eRet, eLate, eFaults>>
    BY DEF SyncStart, eLogVars, eDumpVars
  <1>2. EigenTyped'
    <2>1. eOut' \in Seq(Cells) /\ eIn' \in Seq([ok : BOOLEAN, data : Seq(Nat)])
      BY <1>1
    <2> QED BY <1>1, <2>1 DEF EigenInv, EigenTyped, EigenTypeOK
  <1>3. CellsCounted'
    BY <1>1, CellsKept DEF EigenInv, Reading
  <1>4. RequestInStep' /\ ReadSoFar'
    BY <1>1 DEF RequestInStep, ReadSoFar, Reading
  <1>5. EigenFiles'
    BY <1>1, EigenTypes DEF EigenInv, EigenFiles, EigenImage, EigenLogged, OnlyTriggers
  <1> QED BY <1>2, <1>3, <1>4, <1>5 DEF EigenInv

\* The cells are counted once more and stored from the first entry on.
LEMMA SendGetInfoUsbStep ==
    ASSUME EigenInv, SendGetInfoUsb, CellsFit
    PROVE  EigenInv'
  <1>1. /\ eState = "info" /\ eState' = "create"
        /\ eCells' = [i \in DOMAIN eCells |-> IF i \in DOMAIN EigenCells THEN EigenCells[i] ELSE eCells[i]]
        /\ eCount' = eCount + CellCount
        /\ UNCHANGED <<eSession, ePacket, eLogs, eTriggers, eOpen, eCell, eRead, eReq, eTime, eFile>>
        /\ UNCHANGED <<eRet, eOut, eIn, eLate, eFaults>>
    BY DEF SendGetInfoUsb, eLogVars, eLineVars, CellCount
  <1>2. /\ eCells' \in [1 .. CellMax -> Cells]
        /\ \A i \in 1 .. CellMax : eCells'[i] = IF i \in DOMAIN EigenCells THEN EigenCells[i] ELSE eCells[i]
    BY <1>1, EigenTypes, EigenConstants
  <1>3. PICK s \in 1 .. EigenSessions, c \in Nat : s = eSession /\ c = eCount /\ c <= CellCount * (s - 1)
    BY <1>1, EigenTypes DEF EigenInv, CellsCounted
  <1>4. /\ c + CellCount <= CellCount * s /\ c + CellCount \in 0 .. CellMax /\ CellCount <= c + CellCount /\ CellCount <= CellMax
    <2>1. PICK x \in Nat, y \in Nat, n \in Nat : x = CellCount * (s - 1) /\ y = CellCount * s /\ n = CellCount /\ x + n = y /\ y <= CellMax
      BY CountFacts, EigenConstants
    <2>2. n <= CellMax /\ CellMax \in Nat
      BY <2>1, CountFacts, EigenConstants
    <2> QED BY <1>3, <2>1, <2>2
  <1>5. EigenTyped'
    BY <1>1, <1>2, <1>3, <1>4 DEF EigenInv, EigenTyped, EigenTypeOK
  <1>6. CellsCounted'
    <2>1. eCount' <= CellCount * eSession' /\ eCount' >= CellCount
      BY <1>1, <1>3, <1>4, EigenConstants
    <2>2. \A i \in 1 .. CellMax : i > CellCount => eCells'[i] = NoCell
      <3>1. \A i \in 1 .. CellMax : i > CellCount => i \notin DOMAIN EigenCells
        BY EigenConstants
      <3> QED BY <1>2, <3>1 DEF EigenInv, CellsCounted
    <2>3. \A i \in 1 .. CellCount : eCells'[i] = EigenCells[i]
      <3>1. \A i \in 1 .. CellCount : i \in 1 .. CellMax /\ i \in DOMAIN EigenCells
        BY <1>4, EigenConstants
      <3> QED BY <1>2, <3>1
    <2> QED BY <1>1, <2>1, <2>2, <2>3 DEF CellsCounted, Reading
  <1>7. RequestInStep' /\ ReadSoFar'
    BY <1>1 DEF EigenInv, RequestInStep, ReadSoFar, Reading
  <1>8. EigenFiles'
    BY <1>1, EigenTypes DEF EigenInv, EigenFiles, EigenImage, EigenLogged, OnlyTriggers
  <1> QED BY <1>5, <1>6, <1>7, <1>8 DEF EigenInv

\* The first request for a cell of at least that length.
LEMMA FirstRequest ==
    ASSUME NEW i \in 1 .. CellMax, eCells \in [1 .. CellMax -> Cells], StartCell(i)
    PROVE  eCell' = i /\ eRead' = 0 /\ eTime' = 0 /\ eReq' \in Cells /\ eReq'.addr = eCells[i].addr /\ eReq'.len = ReadMax
  <1>1. eCells[i] \in Cells /\ ReadMax \in Nat
    BY EigenConstants
  <1>2. PICK a \in Nat : a = eCells[i].addr
    BY <1>1 DEF Cells
  <1>3. eReq' = [addr |-> a, len |-> ReadMax]
    BY <1>2 DEF StartCell
  <1> QED BY <1>1, <1>2, <1>3 DEF StartCell, Cells

\* The file is empty and the first cell due.
LEMMA CreateDumpStep ==
    ASSUME EigenInv, CreateDump
    PROVE  EigenInv'
  <1>1. /\ eState = "create" /\ eState' = "request" /\ eFile' = <<>> /\ eLate' = FALSE /\ StartCell(1)
        /\ UNCHANGED <<eSession, ePacket, eLogs, eTriggers, eOpen, eCells, eCount, eRet, eOut, eIn, eFaults>>
    BY DEF CreateDump, eLogVars
  <1>2. 1 \in 1 .. CellMax /\ eCells \in [1 .. CellMax -> Cells] /\ 1 \in 1 .. CellCount
    BY EigenConstants, EigenTypes
  <1>3. eCell' = 1 /\ eRead' = 0 /\ eTime' = 0 /\ eReq' \in Cells /\ eReq'.addr = eCells[1].addr /\ eReq'.len = ReadMax
    BY <1>1, <1>2, FirstRequest
  <1>4. EigenTyped'
    <2>1. eFile' \in Seq(Nat \cup {Zero}) /\ DOMAIN eFile' = {}
      BY <1>1
    <2>2. eTime' \in 0 .. ReadTimes /\ eRead' \in Nat /\ eCell' \in 1 .. CellMax
      BY <1>2, <1>3, EigenConstants
    <2> QED BY <1>1, <1>3, <2>1, <2>2 DEF EigenInv, EigenTyped, EigenTypeOK
  <1>5. CellsCounted'
    <2>1. eCell' <= eCount
      <3>1. eCount >= CellCount /\ eCount \in Nat
        BY <1>1, EigenTypes DEF EigenInv, CellsCounted
      <3> QED BY <1>3, <3>1, EigenConstants
    <2> QED BY <1>1, <2>1, CellsKept DEF EigenInv, Reading
  <1>6. RequestInStep'
    BY <1>1 DEF EigenInv, RequestInStep
  <1>7. ReadSoFar'
    <2>1. eCells[1] = EigenCells[1] /\ EigenCells[1].addr \in Nat /\ EigenCells[1].len \in Nat /\ EigenBase = EigenCells[1].addr
      BY <1>1, <1>2, EigenConstants DEF EigenInv, CellsCounted, EigenBase
    <2>2. Len(eFile') = 0
      BY <1>1
    <2>3. PICK l \in Nat, a \in Nat : l = EigenCells[1].len /\ a = EigenCells[1].addr
      BY <2>1
    <2>4. AllWhole => l >= ReadMax
      BY <1>2, <2>3, EigenConstants DEF AllWhole, Whole
    <2>5. l >= ReadMax => (0 <= l /\ a = a + 0 /\ ReadMax = (IF l - 0 < ReadMax THEN l - 0 ELSE ReadMax) /\ 0 = a + 0 - a)
      BY EigenConstants
    <2>6. 1 <= CellCount /\ ~(1 > CellCount)
      BY EigenConstants
    <2> QED BY <1>1, <1>3, <2>1, <2>2, <2>3, <2>4, <2>5, <2>6 DEF ReadSoFar
  <1>8. EigenFiles'
    BY <1>1, EigenTypes DEF EigenInv, EigenFiles, EigenImage, EigenLogged, OnlyTriggers
  <1> QED BY <1>4, <1>5, <1>6, <1>7, <1>8 DEF EigenInv

\* A new session may count the cells once more.
LEMMA EigenRestartStep ==
    ASSUME EigenInv, EigenRestart
    PROVE  EigenInv'
  <1>1. /\ eState = "end" /\ eSession < EigenSessions /\ eState' = "log" /\ eSession' = eSession + 1 /\ eRet' = 0
        /\ UNCHANGED <<ePacket, eLogs, eTriggers, eOpen, eCells, eCount, eCell, eRead, eReq, eTime, eFile, eOut, eIn, eLate, eFaults>>
    BY DEF EigenRestart, eDumpVars, eLineVars
  <1>2. PICK s \in 1 .. EigenSessions : s = eSession /\ s + 1 \in 1 .. EigenSessions /\ (s + 1) - 1 = s
    <2>1. eSession \in 1 .. EigenSessions /\ EigenSessions \in Nat /\ eSession < EigenSessions
      BY <1>1, EigenTypes, EigenConstants, Zenon
    <2>2. eSession + 1 \in 1 .. EigenSessions /\ (eSession + 1) - 1 = eSession
      BY <2>1
    <2> QED BY <2>1, <2>2, Zenon
  <1>3. EigenTyped'
    BY <1>1, <1>2 DEF EigenInv, EigenTyped, EigenTypeOK
  <1>4. CellsCounted'
    <2>1. eCount <= CellCount * s /\ eCount \in Nat
      BY <1>2, EigenTypes DEF EigenInv, CellsCounted
    <2>2. CellCount * s <= CellCount * (s + 1) /\ CellCount * s \in Nat /\ CellCount * (s + 1) \in Nat
      <3>1. PICK n \in Nat, k \in Nat : n = CellCount /\ k = s
        BY EigenConstants
      <3>2. n * k \in Nat /\ n * (k + 1) = n * k + n
        OBVIOUS
      <3> QED BY <3>1, <3>2
    <2>3. eCount <= CellCount * (s + 1)
      BY <2>1, <2>2
    <2>4. eSession' = s + 1 /\ eSession' - 1 = s /\ eCount' = eCount
      BY <1>1, <1>2
    <2> QED BY <1>1, <2>1, <2>3, <2>4 DEF EigenInv, CellsCounted, Reading
  <1>5. RequestInStep' /\ ReadSoFar'
    BY <1>1 DEF RequestInStep, ReadSoFar, Reading
  <1>6. EigenFiles'
    BY <1>1 DEF EigenInv, EigenFiles, EigenImage, EigenLogged, OnlyTriggers
  <1> QED BY <1>3, <1>4, <1>5, <1>6 DEF EigenInv

\* Steps of the reading that leave the file and the place in it.
LEMMA ReadKept ==
    ASSUME ReadSoFar, UNCHANGED <<eFile, eCell, eRead, eReq>>, eLate => eLate', Reading' => Reading,
           (eState' = "receive" /\ ~eLate' /\ AllWhole) => eCell <= CellCount
    PROVE  ReadSoFar'
  BY DEF ReadSoFar

\* The request goes out on an empty line.
LEMMA RequestDataStep ==
    ASSUME EigenInv, RequestData
    PROVE  EigenInv'
  <1>1. /\ eState = "request" /\ MoreData /\ eTime < ReadTimes /\ eState' = "receive" /\ eOut' = Append(eOut, eReq)
        /\ UNCHANGED <<eSession, ePacket, eLogs, eTriggers, eOpen, eCells, eCount, eCell, eRead, eReq, eTime, eFile>>
        /\ UNCHANGED <<eRet, eIn, eLate, eFaults>>
    BY DEF RequestData, SendRamDumpAck, eLogVars, eDumpVars
  <1>2. PICK r \in Cells, o \in Seq(Cells) : r = eReq /\ o = eOut
    BY EigenTypes
  <1>3. PICK q : q = Append(o, r)
    OBVIOUS
  <1>4. q \in Seq(Cells) /\ Len(q) = Len(o) + 1 /\ q[Len(o) + 1] = r
    BY <1>3, AppendFacts
  <1>5. EigenTyped'
    BY <1>1, <1>2, <1>3, <1>4 DEF EigenInv, EigenTyped, EigenTypeOK
  <1>6. CellsCounted'
    BY <1>1, CellsKept DEF EigenInv, CellsCounted, Reading
  <1>7. RequestInStep'
    <2>1. ~eLate => o = <<>> /\ eIn = <<>>
      BY <1>1, <1>2 DEF EigenInv, RequestInStep
    <2>2. o = <<>> => Len(q) = 1 /\ q[1] = r
      BY <1>4
    <2> QED BY <1>1, <1>2, <1>3, <2>1, <2>2 DEF RequestInStep
  <1>8. ReadSoFar'
    <2>1. eCell <= CellCount
      <3>1. eCell > CellCount => eCells[eCell] = NoCell
        BY EigenTypes DEF EigenInv, CellsCounted
      <3>2. eCells[eCell] # NoCell
        <4>1. eRead < eCells[eCell].len /\ eRead \in Nat /\ eCells[eCell].len \in Nat
          BY <1>1, EigenTypes DEF MoreData
        <4>2. eCells[eCell].len # 0
          BY <4>1
        <4>3. NoCell.len = 0
          BY DEF NoCell
        <4> QED BY <4>2, <4>3
      <3>3. eCell \in Nat /\ CellCount \in Nat
        BY EigenTypes, EigenConstants
      <3> QED BY <3>1, <3>2, <3>3
    <2> QED BY <1>1, <2>1, ReadKept DEF EigenInv, Reading
  <1>9. EigenFiles'
    BY <1>1, EigenTypes DEF EigenInv, EigenFiles, EigenImage, EigenLogged, OnlyTriggers
  <1> QED BY <1>5, <1>6, <1>7, <1>8, <1>9 DEF EigenInv

\* The request is given up; if the module still has it, an answer may come late.
LEMMA AnswerTimeoutStep ==
    ASSUME EigenInv, AnswerTimeout
    PROVE  EigenInv'
  <1>1. /\ eState = "receive" /\ eIn = <<>> /\ eState' = "request" /\ eLate' = (eLate \/ eOut # <<>>)
        /\ UNCHANGED <<eSession, ePacket, eLogs, eTriggers, eOpen, eCells, eCount, eCell, eRead, eReq, eTime, eFile>>
        /\ UNCHANGED <<eRet, eOut, eIn, eFaults>>
    BY DEF AnswerTimeout, AckAndData, eLogVars, eDumpVars
  <1>2. eLate' \in BOOLEAN /\ (eLate' <=> eLate \/ eOut # <<>>)
    BY <1>1, Zenon
  <1>3. EigenTyped'
    BY <1>1, <1>2 DEF EigenInv, EigenTyped, EigenTypeOK
  <1>4. CellsCounted'
    BY <1>1, CellsKept DEF EigenInv, CellsCounted, Reading
  <1>5. RequestInStep'
    BY <1>1, <1>2 DEF RequestInStep
  <1>6. ReadSoFar'
    BY <1>1, <1>2, ReadKept DEF EigenInv, Reading
  <1>7. EigenFiles'
    BY <1>1, EigenTypes DEF EigenInv, EigenFiles, EigenImage, EigenLogged, OnlyTriggers
  <1> QED BY <1>3, <1>4, <1>5, <1>6, <1>7 DEF EigenInv

\* Nothing is left of one.
LEMMA TailOfOne ==
    ASSUME NEW S, NEW s \in Seq(S), Len(s) = 1
    PROVE  Tail(s) = <<>>
  <1>1. s # <<>>
    OBVIOUS
  <1>2. PICK t : t = Tail(s)
    OBVIOUS
  <1>3. PICK m : m = Len(s) /\ t \in Seq(S) /\ Len(t) = m - 1
    BY <1>1, <1>2, TailFacts
  <1>4. Len(t) = 0
    BY <1>3
  <1> QED BY <1>2, <1>3, <1>4

\* The answer is dropped.
LEMMA BadChecksumStep ==
    ASSUME EigenInv, BadChecksum
    PROVE  EigenInv'
  <1>1. /\ eState = "receive" /\ eIn # <<>> /\ eIn' = Tail(eIn) /\ eTime' = eTime + 1 /\ eState' = "request"
        /\ UNCHANGED <<eSession, ePacket, eLogs, eTriggers, eOpen, eCells, eCount, eCell, eRead, eReq, eFile>>
        /\ UNCHANGED <<eRet, eOut, eLate, eFaults>>
    BY DEF BadChecksum, AckAndData, eLogVars
  <1>2. eTime' \in 0 .. ReadTimes
    <2>1. eTime < ReadTimes /\ eTime \in Nat
      BY <1>1, EigenTypes, EigenConstants DEF EigenInv, EigenTyped
    <2> QED BY <1>1, <2>1, EigenConstants
  <1>3. PICK A : A = [ok : BOOLEAN, data : Seq(Nat)] /\ eIn \in Seq(A)
    BY EigenTypes
  <1>4. eIn' \in Seq(A) /\ (Len(eIn) = 1 => eIn' = <<>>)
    BY <1>1, <1>3, TailFacts, TailOfOne
  <1>5. EigenTyped'
    BY <1>1, <1>2, <1>3, <1>4 DEF EigenInv, EigenTyped, EigenTypeOK
  <1>6. CellsCounted'
    BY <1>1, CellsKept DEF EigenInv, CellsCounted, Reading
  <1>7. RequestInStep'
    BY <1>1, <1>4 DEF EigenInv, RequestInStep
  <1>8. ReadSoFar'
    BY <1>1, ReadKept DEF EigenInv, Reading
  <1>9. EigenFiles'
    BY <1>1, EigenTypes DEF EigenInv, EigenFiles, EigenImage, EigenLogged, OnlyTriggers
  <1> QED BY <1>5, <1>6, <1>7, <1>8, <1>9 DEF EigenInv

\* The answer to a request.
LEMMA BlocksOfFacts ==
    ASSUME NEW r \in Cells
    PROVE  /\ BlocksOf(r) \in Seq(Nat) /\ Len(BlocksOf(r)) = r.len /\ r.addr \in Nat /\ r.len \in Nat
           /\ \A k \in 1 .. r.len : BlocksOf(r)[k] = r.addr + k - 1
  <1>1. PICK a \in Nat, n \in Nat : a = r.addr /\ n = r.len
    BY DEF Cells
  <1>2. \A k \in 1 .. n : a + k - 1 \in Nat
    OBVIOUS
  <1>3. BlocksOf(r) = [k \in 1 .. n |-> a + k - 1]
    BY <1>1 DEF BlocksOf
  <1>4. PICK f : f = [k \in 1 .. n |-> a + k - 1]
    OBVIOUS
  <1>5. f \in Seq(Nat) /\ Len(f) = n /\ \A k \in 1 .. n : f[k] = a + k - 1
    BY <1>2, <1>4
  <1> QED BY <1>1, <1>3, <1>4, <1>5

\* The answer takes the place of the request.
LEMMA EigenAnswersStep ==
    ASSUME EigenInv, EigenAnswers
    PROVE  EigenInv'
  <1> DEFINE A == [ok : BOOLEAN, data : Seq(Nat)]
  <1>1. /\ eOut # <<>> /\ eState \in {"request", "receive"} /\ eOut' = Tail(eOut)
        /\ UNCHANGED <<eState, eSession, ePacket, eLogs, eTriggers, eOpen, eCells, eCount, eCell, eRead, eReq, eTime, eFile>>
        /\ UNCHANGED <<eRet, eLate>>
    BY DEF EigenAnswers, eLogVars, eDumpVars
  <1>2. eOut \in Seq(Cells) /\ eIn \in Seq(A) /\ eFaults \in 0 .. EigenFaults
    BY EigenTypes
  <1>3. PICK r \in Cells : r = eOut[1]
    BY <1>1, <1>2, TailFacts
  <1>4. eOut' \in Seq(Cells) /\ (Len(eOut) = 1 => eOut' = <<>>)
    BY <1>1, <1>2, TailFacts, TailOfOne
  <1>5. eIn' = eIn \/ (\E b \in BOOLEAN : eIn' = Append(eIn, [ok |-> b, data |-> BlocksOf(r)]))
    BY <1>3 DEF EigenAnswers, BlocksOf
  <1>6. eFaults' = eFaults \/ EFault
    BY DEF EigenAnswers
  <1>7. eIn' = eIn \/ (eIn' \in Seq(A) /\ Len(eIn') = Len(eIn) + 1 /\ eIn'[Len(eIn) + 1].data = BlocksOf(r))
    <2>1. ASSUME NEW b \in BOOLEAN, eIn' = Append(eIn, [ok |-> b, data |-> BlocksOf(r)])
          PROVE  eIn' \in Seq(A) /\ Len(eIn') = Len(eIn) + 1 /\ eIn'[Len(eIn) + 1].data = BlocksOf(r)
      <3>1. PICK e \in A : e = [ok |-> b, data |-> BlocksOf(r)] /\ e.data = BlocksOf(r)
        <4>1. PICK d \in Seq(Nat) : d = BlocksOf(r)
          BY BlocksOfFacts
        <4>2. PICK e : e = [ok |-> b, data |-> d]
          OBVIOUS
        <4>3. e \in A /\ e.data = d
          BY <4>2
        <4> QED BY <4>1, <4>2, <4>3
      <3>2. PICK s \in Seq(A), t \in Seq(A) : s = eIn /\ t = Append(s, e)
        BY <1>2, AppendFacts
      <3>3. t \in Seq(A) /\ Len(t) = Len(s) + 1 /\ t[Len(s) + 1] = e
        BY <3>2, AppendFacts
      <3> QED BY <2>1, <3>1, <3>2, <3>3
    <2> QED BY <1>5, <2>1
  <1>8. EigenTyped'
    <2>1. eFaults' \in 0 .. EigenFaults
      BY <1>2, <1>6, EigenConstants DEF EFault
    <2>2. eIn' \in Seq(A)
      BY <1>2, <1>7
    <2> QED BY <1>1, <1>4, <2>1, <2>2 DEF EigenInv, EigenTyped, EigenTypeOK
  <1>9. CellsCounted'
    BY <1>1, CellsKept DEF EigenInv, CellsCounted, Reading
  <1>10. RequestInStep'
    <2> SUFFICES ASSUME ~eLate
                 PROVE  /\ eState = "receive" /\ eOut' = <<>>
                        /\ (eIn' # <<>> => Len(eIn') = 1 /\ eIn'[1].data = BlocksOf(eReq))
      BY <1>1 DEF RequestInStep, BlocksOf
    <2>1. eState = "receive" /\ eIn = <<>> /\ Len(eOut) = 1 /\ eOut[1] = eReq
      BY <1>1 DEF EigenInv, RequestInStep
    <2>2. Len(eIn) = 0
      BY <2>1
    <2> QED BY <1>3, <1>4, <1>7, <2>1, <2>2
  <1>11. ReadSoFar'
    BY <1>1, ReadKept DEF EigenInv, Reading, ReadSoFar
  <1>12. EigenFiles'
    <2>1. EigenLogged'
      BY <1>1, <1>2, <1>6, EigenLoggedKept DEF EigenInv, EigenFiles, EigenFault
    <2> QED BY <1>1, <2>1, EigenTypes DEF EigenFiles, EigenImage
  <1> QED BY <1>8, <1>9, <1>10, <1>11, <1>12 DEF EigenInv

\* What is left of the line after an answer was read.
LEMMA RestOfLine ==
    ASSUME NEW S, NEW s \in Seq(S), NEW k \in 1 .. Len(s)
    PROVE  SubSeq(s, k + 1, Len(s)) \in Seq(S) /\ (Len(s) = 1 => SubSeq(s, k + 1, Len(s)) = <<>>)
  <1>1. PICK n \in Nat : n = k /\ n <= Len(s)
    OBVIOUS
  <1>2. PICK t : t = SubSeq(s, n + 1, Len(s))
    OBVIOUS
  <1>3. t \in Seq(S) /\ Len(t) = Len(s) - n
    BY <1>1, <1>2, CutFacts
  <1>4. Len(s) = 1 => Len(t) = 0
    <2>1. PICK m : m = Len(s) /\ k \in 1 .. m /\ Len(t) = m - k
      BY <1>1, <1>3
    <2>2. m = 1 => m - k = 0
      BY <2>1
    <2> QED BY <2>1, <2>2
  <1>5. Len(t) = 0 => t = <<>>
    BY <1>3
  <1> QED BY <1>1, <1>2, <1>3, <1>4, <1>5

\* The next request after one for n of the l blocks of a cell, of which r are read.
AskLen(l, r) == IF l - r < ReadMax THEN l - r ELSE ReadMax

\* The length of the first and of the next request.
NextAsk(l, r, n) == IF l - (r + n) \in 0 .. ReadMax - 1 THEN l - (r + n) ELSE n

\* An answered request is followed by one for what is left, never beyond the cell.
LEMMA NextRequest ==
    ASSUME NEW l \in Nat, NEW r \in Nat, NEW n \in Nat, r <= l, n = AskLen(l, r)
    PROVE  r + n <= l /\ NextAsk(l, r, n) = AskLen(l, r + n)
  BY EigenConstants DEF AskLen, NextAsk

\* The answer is the next part of the image.
LEMMA ReceiveDataStep ==
    ASSUME EigenInv, ReceiveData
    PROVE  EigenInv'
  <1> DEFINE A == [ok : BOOLEAN, data : Seq(Nat)]
             next(n) == IF eCells[eCell].len - (eRead + n) \in 0 .. ReadMax - 1
                        THEN eCells[eCell].len - (eRead + n) ELSE eReq.len
  <1>1. /\ eState = "receive" /\ eIn # <<>> /\ (\E k \in 1 .. Len(eIn) : eIn' = SubSeq(eIn, k + 1, Len(eIn)))
        /\ eState' = "request" /\ eTime' = 0
        /\ UNCHANGED <<eSession, ePacket, eLogs, eTriggers, eOpen, eCells, eCount, eCell, eRet, eOut, eLate, eFaults>>
    BY DEF ReceiveData, AckAndData, eLogVars
  <1>2. eIn \in Seq(A) /\ eFile \in Seq(Nat \cup {Zero}) /\ eRead \in Nat /\ eReq.addr \in Nat /\ eReq.len \in Nat
        /\ eCells[eCell].len \in Nat
    BY EigenTypes
  <1>3. PICK d \in Seq(Nat) : d = eIn[1].data
    <2>1. eIn[1] \in A
      BY <1>1, <1>2, TailFacts
    <2> QED BY <2>1
  <1>4. PICK n \in Nat : n = Len(d)
    OBVIOUS
  <1>5. eFile' = eFile \o d /\ eRead' = eRead + n /\ eReq' = [addr |-> eReq.addr + n, len |-> next(n)]
    BY <1>3, <1>4 DEF ReceiveData
  <1>6. next(n) \in Nat /\ eReq.addr + n \in Nat /\ eRead + n \in Nat
    BY <1>2, <1>4, EigenConstants
  <1>7. eReq' \in Cells /\ eReq'.addr = eReq.addr + n /\ eReq'.len = next(n)
    <2>1. PICK x \in Nat, y \in Nat : x = eReq.addr + n /\ y = next(n)
      BY <1>6
    <2>2. eReq' = [addr |-> x, len |-> y]
      BY <1>5, <2>1
    <2> HIDE DEF next
    <2> QED BY <2>1, <2>2 DEF Cells
  <1>8. d \in Seq(Nat \cup {Zero})
    OBVIOUS
  <1>9. eIn' \in Seq(A) /\ (Len(eIn) = 1 => eIn' = <<>>)
    BY <1>1, <1>2, RestOfLine
  <1>10. EigenTyped'
    <2>1. eFile' \in Seq(Nat \cup {Zero})
      BY <1>2, <1>5, <1>8, ConcatFacts
    <2>2. eTime' \in 0 .. ReadTimes /\ eRead' \in Nat
      BY <1>1, <1>5, <1>6, EigenConstants
    <2>3. \A i \in DOMAIN eFile' : eFile'[i] \in Nat \cup {Zero}
      BY <2>1
    <2> HIDE DEF next
    <2> QED BY <1>1, <1>7, <1>9, <2>1, <2>2, <2>3 DEF EigenInv, EigenTyped, EigenTypeOK
  <1>11. CellsCounted'
    BY <1>1, CellsKept DEF EigenInv, CellsCounted, Reading
  <1>12. RequestInStep'
    BY <1>1, <1>9 DEF EigenInv, RequestInStep
  <1>13. ReadSoFar'
    <2> SUFFICES ASSUME ~eLate, AllWhole PROVE ReadSoFar'
      BY <1>1 DEF ReadSoFar
    <2>1. PICK i \in 1 .. CellCount : i = eCell
      <3>1. eCell <= CellCount
        BY <1>1 DEF EigenInv, ReadSoFar, Reading
      <3>2. eCell \in Nat /\ eCell >= 1
        BY EigenTypes, EigenConstants
      <3> QED BY <3>1, <3>2, EigenConstants
    <2>2. PICK a \in Nat, l \in Nat, r \in Nat : a = EigenCells[i].addr /\ l = EigenCells[i].len /\ r = eRead
      BY <1>2, <2>1, EigenConstants
    <2>3. eCells[eCell] = EigenCells[i] /\ i <= CellCount /\ ~(i > CellCount)
      BY <1>1, <2>1, EigenConstants DEF EigenInv, CellsCounted, Reading
    <2>4. /\ r <= l /\ eReq.addr = a + r /\ eReq.len = (IF l - r < ReadMax THEN l - r ELSE ReadMax)
          /\ Len(eFile) = a + r - EigenBase
          /\ \A k \in 1 .. Len(eFile) : eFile[k] = Image(EigenBase + k - 1)
      BY <1>1, <2>1, <2>2, <2>3 DEF EigenInv, ReadSoFar, Reading
    <2>5. d = BlocksOf(eReq)
      BY <1>1, <1>3 DEF EigenInv, RequestInStep
    <2>6. n = eReq.len /\ \A k \in 1 .. n : d[k] = (a + r) + k - 1
      BY <1>4, <2>4, <2>5, EigenTypes, BlocksOfFacts
    <2>7. r + n <= l /\ next(n) = (IF l - (r + n) < ReadMax THEN l - (r + n) ELSE ReadMax)
      <3>1. n = AskLen(l, r)
        BY <2>4, <2>6 DEF AskLen
      <3>2. next(n) = NextAsk(l, r, n)
        <4>1. eCells[eCell].len = l /\ eRead = r /\ eReq.len = n
          BY <2>2, <2>3, <2>6
        <4> QED BY <4>1 DEF NextAsk
      <3> HIDE DEF next
      <3>3. r <= l
        BY <2>4
      <3>4. r + n <= l /\ NextAsk(l, r, n) = AskLen(l, r + n)
        BY <3>1, <3>3, NextRequest
      <3> QED BY <3>2, <3>4 DEF AskLen
    <2> HIDE DEF next
    <2>8. PICK b \in Nat, m \in Nat : b = EigenBase /\ m = Len(eFile) /\ m = a + r - b
      <3>1. Len(eFile) \in Nat
        BY <1>2, TailFacts
      <3>2. Len(eFile) = a + r - EigenBase /\ EigenBase \in Nat
        BY <2>4, EigenConstants
      <3> QED BY <3>1, <3>2, Zenon
    <2>9. ASSUME NEW k \in 1 .. n PROVE d[k] = Image(b + (m + k) - 1)
      <3>1. PICK o \in Nat : o = r + k - 1 /\ o < l
        BY <2>7
      <3>2. (a + r) + k - 1 = a + o /\ b + (m + k) - 1 = a + o
        BY <2>8, <3>1
      <3>3. Image(a + o) = a + o
        BY <2>2, <3>1, CellImage
      <3>4. d[k] = (a + r) + k - 1
        BY <2>6
      <3> QED BY <3>2, <3>3, <3>4
    <2>10. PICK f : f = eFile \o d
      OBVIOUS
    <2>11. Len(f) = m + n /\ \A k \in 1 .. Len(f) : f[k] = Image(b + k - 1)
      <3>1. \A k \in 1 .. Len(d) : d[k] = Image(EigenBase + (Len(eFile) + k) - 1)
        BY <1>4, <2>8, <2>9
      <3>2. /\ Len(eFile \o d) = Len(eFile) + Len(d)
            /\ \A k \in 1 .. Len(eFile \o d) : (eFile \o d)[k] = Image(EigenBase + k - 1)
        BY <1>2, <1>8, <2>4, <3>1, ImageGrows
      <3> QED BY <1>4, <2>8, <2>10, <3>2
    <2>12. m + n = a + (r + n) - b /\ (a + r) + n = a + (r + n)
      BY <2>8
    <2>13. eFile' = f /\ eRead' = r + n /\ eReq'.addr = a + (r + n) /\ eReq'.len = next(n) /\ eCell' = i
      BY <1>1, <1>5, <1>7, <2>1, <2>2, <2>4, <2>10, <2>12
    <2> QED BY <1>1, <2>2, <2>3, <2>7, <2>8, <2>11, <2>12, <2>13 DEF ReadSoFar
  <1>14. EigenFiles'
    BY <1>1, EigenTypes DEF EigenInv, EigenFiles, EigenImage, EigenLogged, OnlyTriggers
  <1> QED BY <1>10, <1>11, <1>12, <1>13, <1>14 DEF EigenInv

\* A sequence of the same element.
LEMMA SameFacts ==
    ASSUME NEW S, NEW v \in S, NEW n \in Nat
    PROVE  /\ [j \in 1 .. n |-> v] \in Seq(S) /\ Len([j \in 1 .. n |-> v]) = n
           /\ \A k \in 1 .. n : [j \in 1 .. n |-> v][k] = v
  OBVIOUS

\* A sequence of zeros.
LEMMA ZerosFacts ==
    ASSUME NEW n \in Nat
    PROVE  /\ [j \in 1 .. n |-> Zero] \in Seq(Nat \cup {Zero}) /\ Len([j \in 1 .. n |-> Zero]) = n
           /\ \A k \in 1 .. n : [j \in 1 .. n |-> Zero][k] = Zero
  <1>1. PICK v \in Nat \cup {Zero} : v = Zero
    OBVIOUS
  <1>2. /\ [j \in 1 .. n |-> v] \in Seq(Nat \cup {Zero}) /\ Len([j \in 1 .. n |-> v]) = n
        /\ \A k \in 1 .. n : [j \in 1 .. n |-> v][k] = v
    BY SameFacts
  <1> QED BY <1>1, <1>2, Zenon

\* What the conversion to an int leaves.
LEMMA SignedFacts ==
    ASSUME NEW x \in Int
    PROVE  Signed(x) \in Int /\ (x \in Nat /\ x < AddrHalf => Signed(x) = x)
  <1>1. PICK h \in Nat : h = AddrHalf /\ h >= 1
    BY EigenConstants
  <1>2. PICK w \in Nat \ {0} : w = 2 * h
    BY <1>1
  <1>3. x % w \in 0 .. w - 1
    OBVIOUS
  <1>4. x \in Nat /\ x < h => x % w = x
    BY <1>1, <1>2
  <1>5. PICK r \in Int : r = x % w
    BY <1>3
  <1>6. Signed(x) = IF r < h THEN r ELSE r - w
    BY <1>1, <1>2, <1>5 DEF Signed
  <1> QED BY <1>1, <1>2, <1>4, <1>5, <1>6

\* Behind the last cell there is nothing.
LEMMA BehindImage ==
    ASSUME CellsAscend, NEW a \in Nat, a >= EigenEnd
    PROVE  Image(a) = Zero
  <1>1. ASSUME NEW j \in 1 .. CellCount, a \in EigenCells[j].addr .. EigenCells[j].addr + EigenCells[j].len - 1
        PROVE  FALSE
    <2>1. PICK n \in Nat : n = CellCount /\ n \in 1 .. n /\ DOMAIN EigenCells = 1 .. n
      BY EigenConstants
    <2>2. PICK x \in Nat, y \in Nat, v \in Nat, u \in Nat :
             x = EigenCells[j].addr /\ y = EigenCells[j].len /\ v = EigenCells[n].addr /\ u = EigenCells[n].len
      BY <2>1, EigenConstants
    <2>3. EigenEnd = v + u
      BY <2>1, <2>2 DEF EigenEnd
    <2>4. CASE j = n
      BY <1>1, <2>2, <2>3, <2>4
    <2>5. CASE j # n
      <3>1. j < n
        BY <2>1, <2>5
      <3>2. x + y <= v
        BY <2>1, <2>2, <3>1 DEF CellsAscend
      <3> QED BY <1>1, <2>2, <2>3, <3>2
    <2> QED BY <2>4, <2>5
  <1> QED BY <1>1, EigenConstants DEF Image, InCells

\* Up to the next cell.
LEMMA PaddingFacts ==
    ASSUME CellsAscend, NEW i \in 1 .. CellCount, i < CellCount, NEW z,
           z = [j \in 1 .. Signed(EigenCells[i + 1].addr - (EigenCells[i].addr + EigenCells[i].len)) |-> Zero]
    PROVE  /\ i + 1 \in 1 .. CellCount /\ z \in Seq(Nat \cup {Zero})
           /\ Len(z) = EigenCells[i + 1].addr - (EigenCells[i].addr + EigenCells[i].len)
           /\ \A k \in 1 .. Len(z) : z[k] = Image(EigenCells[i].addr + EigenCells[i].len + k - 1)
  <1>1. i + 1 \in 1 .. CellCount /\ i < i + 1
    BY EigenConstants
  <1>2. PICK a \in Nat, l \in Nat, c \in Nat : a = EigenCells[i].addr /\ l = EigenCells[i].len /\ c = EigenCells[i + 1].addr
    BY <1>1, EigenConstants
  <1>3. a + l <= c
    BY <1>1, <1>2, EigenConstants DEF CellsAscend
  <1>4. PICK n \in Nat : n = c - (a + l)
    BY <1>3
  <1>5. z = [j \in 1 .. n |-> Zero]
    <2>1. n < AddrHalf
      BY <1>1, <1>2, <1>4, EigenConstants DEF CellsAscend, CellCount
    <2>2. Signed(n) = n
      BY <2>1, SignedFacts
    <2> QED BY <1>2, <1>4, <2>2
  <1>6. z \in Seq(Nat \cup {Zero}) /\ Len(z) = n /\ \A k \in 1 .. n : z[k] = Zero
    BY <1>5, ZerosFacts
  <1>7. ASSUME NEW k \in 1 .. n PROVE Image(a + l + k - 1) = Zero
    <2>1. PICK x \in Nat : x = a + l + k - 1 /\ x >= a + l /\ x < c
      BY <1>4
    <2> QED BY <1>2, <2>1, GapImage
  <1> QED BY <1>1, <1>2, <1>4, <1>6, <1>7

\* No zeros before a cell that lies before.
LEMMA NoPadding ==
    ASSUME NEW n \in Int, n <= 0
    PROVE  [j \in 1 .. n |-> Zero] = <<>>
  OBVIOUS

\* The zeros up to the next cell are the next part of the image.
LEMMA CellDoneStep ==
    ASSUME EigenInv, CellDone, CellsAscend
    PROVE  EigenInv'
  <1>1. /\ eState = "request" /\ ~MoreData /\ eCell < eCount /\ eFile' = eFile \o Padding(eCell) /\ StartCell(eCell + 1)
        /\ eState' = eState
        /\ UNCHANGED <<eSession, ePacket, eLogs, eTriggers, eOpen, eCells, eCount, eRet, eOut, eIn, eLate, eFaults>>
    BY DEF CellDone, eLogVars, eLineVars
  <1>2. eCells \in [1 .. CellMax -> Cells] /\ eFile \in Seq(Nat \cup {Zero}) /\ eRead \in Nat /\ eCell \in Nat /\ eCell >= 1
        /\ eCell + 1 \in 1 .. CellMax /\ eCell \in 1 .. CellMax /\ eCount \in Nat
    <2>1. /\ eCells \in [1 .. CellMax -> Cells] /\ eFile \in Seq(Nat \cup {Zero}) /\ eRead \in Nat
          /\ eCell \in 1 .. CellMax /\ eCount \in 0 .. CellMax /\ eCell < eCount
      BY <1>1, EigenTypes
    <2>2. CellMax \in Nat
      BY EigenConstants
    <2> QED BY <2>1, <2>2
  <1>3. /\ eCell' = eCell + 1 /\ eRead' = 0 /\ eTime' = 0 /\ eReq' \in Cells /\ eReq'.addr = eCells[eCell + 1].addr
        /\ eReq'.len = ReadMax
    BY <1>1, <1>2, FirstRequest
  <1>4. PICK a \in Nat, l \in Nat, c \in Nat : a = eCells[eCell].addr /\ l = eCells[eCell].len /\ c = eCells[eCell + 1].addr
    <2>1. eCells[eCell + 1] \in Cells
      BY <1>2
    <2>2. eCells[eCell + 1].addr \in Nat
      BY <2>1 DEF Cells
    <2> QED BY <2>2, EigenTypes
  <1>5. PICK n \in Int : n = Signed(c - (a + l))
    BY SignedFacts
  <1>6. PICK z : z = Padding(eCell) /\ z = [j \in 1 .. n |-> Zero]
    BY <1>4, <1>5 DEF Padding
  <1>7. z \in Seq(Nat \cup {Zero}) /\ (n <= 0 => z = <<>>)
    <2>1. CASE n <= 0
      BY <1>6, <2>1, NoPadding
    <2>2. CASE n > 0
      <3>1. n \in Nat
        BY <2>2
      <3> QED BY <1>6, <2>2, <3>1
    <2> QED BY <2>1, <2>2
  <1>8. EigenTyped'
    <2>1. eFile' \in Seq(Nat \cup {Zero})
      BY <1>1, <1>2, <1>6, <1>7, ConcatFacts
    <2>2. eTime' \in 0 .. ReadTimes /\ eRead' \in Nat /\ eCell' \in 1 .. CellMax
      BY <1>2, <1>3, EigenConstants
    <2>3. \A i \in DOMAIN eFile' : eFile'[i] \in Nat \cup {Zero}
      BY <2>1
    <2> QED BY <1>1, <1>3, <2>1, <2>2, <2>3 DEF EigenInv, EigenTyped, EigenTypeOK
  <1>9. CellsCounted'
    <2>1. eCell' <= eCount
      BY <1>1, <1>2, <1>3
    <2> QED BY <1>1, <2>1, CellsKept DEF EigenInv, Reading
  <1>10. RequestInStep'
    BY <1>1 DEF EigenInv, RequestInStep
  <1>11. ReadSoFar'
    <2> SUFFICES ASSUME ~eLate, AllWhole PROVE ReadSoFar'
      BY <1>1 DEF ReadSoFar
    <2>1. /\ (eCell <= CellCount =>
               /\ eRead <= EigenCells[eCell].len /\ Len(eFile) = EigenCells[eCell].addr + eRead - EigenBase)
          /\ (eCell > CellCount => Len(eFile) = (EigenEnd - EigenBase) + Behind)
          /\ \A k \in 1 .. Len(eFile) : eFile[k] = Image(EigenBase + k - 1)
      BY <1>1 DEF EigenInv, ReadSoFar, Reading
    <2>2. \A i \in 1 .. CellCount : eCells[i] = EigenCells[i]
      BY <1>1 DEF EigenInv, CellsCounted, Reading
    <2>3. \A i \in 1 .. CellMax : i > CellCount => eCells[i] = NoCell
      BY DEF EigenInv, CellsCounted
    <2>4. eRead >= l
      <3>1. ~(eRead < l)
        BY <1>1, <1>4 DEF MoreData
      <3> QED BY <1>2, <3>1
    <2>5. PICK i \in Nat, b \in Nat, m \in Nat : i = eCell /\ b = EigenBase /\ m = Len(eFile) /\ i >= 1
      <3>1. EigenBase \in Nat
        BY EigenConstants
      <3>2. Len(eFile) \in Nat
        BY <1>2
      <3> QED BY <1>2, <3>1, <3>2
    <2>6. CASE i < CellCount
      <3>1. i \in 1 .. CellCount /\ i + 1 \in 1 .. CellCount /\ i <= CellCount
        BY <2>5, <2>6, EigenConstants
      <3>2. /\ a = EigenCells[i].addr /\ l = EigenCells[i].len /\ c = EigenCells[i + 1].addr
            /\ eCells[i + 1] = EigenCells[i + 1]
        BY <1>4, <2>2, <2>5, <3>1
      <3>3. m = a + l - b
        <4>1. eRead <= l /\ m = a + eRead - b
          BY <2>1, <2>5, <3>1, <3>2
        <4>2. eRead = l
          BY <1>2, <2>4, <4>1
        <4> QED BY <4>1, <4>2
      <3>4. Len(z) = c - (a + l) /\ \A k \in 1 .. Len(z) : z[k] = Image(a + l + k - 1)
        <4>1. z = [j \in 1 .. Signed(EigenCells[i + 1].addr - (EigenCells[i].addr + EigenCells[i].len)) |-> Zero]
          BY <1>5, <1>6, <3>2
        <4>2. /\ Len(z) = EigenCells[i + 1].addr - (EigenCells[i].addr + EigenCells[i].len)
              /\ \A k \in 1 .. Len(z) : z[k] = Image(EigenCells[i].addr + EigenCells[i].len + k - 1)
          BY <2>6, <3>1, <4>1, PaddingFacts, ZenonT(40)
        <4> QED BY <3>2, <4>2
      <3>5. PICK y \in Nat : y = Len(z)
        BY <1>7
      <3>6. \A k \in 1 .. y : z[k] = Image(b + (m + k) - 1)
        <4>1. \A k \in 1 .. y : a + l + k - 1 = b + (m + k) - 1
          BY <3>3
        <4> QED BY <3>4, <3>5, <4>1
      <3>7. PICK f : f = eFile \o z
        OBVIOUS
      <3>8. Len(f) = m + y /\ \A k \in 1 .. Len(f) : f[k] = Image(b + k - 1)
        <4>1. \A k \in 1 .. Len(z) : z[k] = Image(EigenBase + (Len(eFile) + k) - 1)
          BY <2>5, <3>5, <3>6
        <4>2. /\ Len(eFile \o z) = Len(eFile) + Len(z)
              /\ \A k \in 1 .. Len(eFile \o z) : (eFile \o z)[k] = Image(EigenBase + k - 1)
          BY <1>2, <1>7, <2>1, <4>1, ImageGrows
        <4> QED BY <2>5, <3>5, <3>7, <4>2
      <3>9. m + y = c + 0 - b
        BY <3>3, <3>4, <3>5
      <3>10. PICK w \in Nat : w = EigenCells[i + 1].len /\ w >= ReadMax
        BY <3>1, EigenConstants DEF AllWhole, Whole
      <3>11. 0 <= w /\ ReadMax = (IF w - 0 < ReadMax THEN w - 0 ELSE ReadMax) /\ c = c + 0
        BY <3>10, EigenConstants
      <3>12. i + 1 <= CellCount /\ ~(i + 1 > CellCount)
        BY <3>1, EigenConstants
      <3>13. eFile' = f /\ eCell' = i + 1 /\ eReq'.addr = c /\ eReq'.len = ReadMax /\ eRead' = 0
        BY <1>1, <1>3, <1>4, <1>6, <2>5, <3>7
      <3> QED BY <1>1, <2>5, <3>2, <3>8, <3>9, <3>10, <3>11, <3>12, <3>13 DEF ReadSoFar
    <2>7. CASE i >= CellCount
      <3>1. c = 0 /\ i + 1 > CellCount /\ ~(i + 1 <= CellCount)
        <4>1. i + 1 > CellCount /\ ~(i + 1 <= CellCount)
          BY <2>7, EigenConstants
        <4>2. eCells[i + 1] = NoCell
          BY <1>2, <2>3, <2>5, <4>1
        <4> QED BY <1>4, <2>5, <4>1, <4>2 DEF NoCell
      <3>2. PICK y \in Nat : y = Len(z) /\ y = (IF n > 0 THEN n ELSE 0) /\ \A k \in 1 .. y : z[k] = Zero
        <4>1. CASE n <= 0
          BY <1>7, <4>1
        <4>2. CASE n > 0
          <5>1. n \in Nat
            BY <4>2
          <5>2. Len(z) = n /\ \A k \in 1 .. n : z[k] = Zero
            BY <1>6, <5>1, ZerosFacts
          <5> QED BY <4>2, <5>1, <5>2
        <4> QED BY <4>1, <4>2
      <3>3. PICK e \in Nat : e = EigenEnd
        BY EigenConstants
      <3>4. m + y = (e - b) + Behind /\ m >= e - b
        <4>1. CASE i = CellCount
          <5>1. i \in 1 .. CellCount /\ i <= CellCount
            BY <4>1, EigenConstants
          <5>2. a = EigenCells[i].addr /\ l = EigenCells[i].len /\ e = a + l
            BY <1>4, <2>2, <2>5, <3>3, <4>1, <5>1 DEF EigenEnd
          <5>3. eRead <= l /\ m = a + eRead - b
            BY <2>1, <2>5, <5>1, <5>2
          <5>4. eRead = l
            BY <1>2, <2>4, <5>3
          <5>5. m = e - b
            BY <5>2, <5>3, <5>4
          <5>6. n = Signed(0 - e)
            BY <1>5, <3>1, <5>2
          <5>7. y = Behind
            BY <3>2, <3>3, <5>6 DEF Behind
          <5> QED BY <5>5, <5>7
        <4>2. CASE i # CellCount
          <5>1. i > CellCount
            BY <2>7, <4>2, EigenConstants
          <5>2. m = (e - b) + Behind
            BY <2>1, <2>5, <3>3, <5>1
          <5>3. a = 0 /\ l = 0
            <6>1. eCells[i] = NoCell
              BY <1>2, <2>3, <2>5, <5>1
            <6> QED BY <1>4, <2>5, <6>1 DEF NoCell
          <5>4. n = 0
            <6>1. c - (a + l) = 0 /\ 0 \in Nat /\ 0 < AddrHalf
              BY <3>1, <5>3, EigenConstants
            <6>2. Signed(0) = 0
              BY <6>1, SignedFacts
            <6> QED BY <1>5, <6>1, <6>2
          <5>5. y = 0
            BY <3>2, <5>4
          <5>6. Behind >= 0 /\ Behind \in Int
            <6>1. 0 - EigenEnd \in Int
              BY <3>3
            <6>2. Signed(0 - EigenEnd) \in Int
              BY <6>1, SignedFacts
            <6> QED BY <6>2 DEF Behind
          <5> QED BY <5>2, <5>5, <5>6
        <4> QED BY <4>1, <4>2
      <3>5. PICK f : f = eFile \o z
        OBVIOUS
      <3>6. Len(f) = m + y /\ \A k \in 1 .. Len(f) : f[k] = Image(b + k - 1)
        <4>1. \A k \in 1 .. y : z[k] = Image(b + (m + k) - 1)
          <5> SUFFICES ASSUME NEW k \in 1 .. y PROVE z[k] = Image(b + (m + k) - 1)
            OBVIOUS
          <5>1. PICK x \in Nat : x = b + (m + k) - 1 /\ x >= e
            BY <3>4
          <5>2. Image(x) = Zero
            BY <3>3, <5>1, BehindImage
          <5> QED BY <3>2, <5>1, <5>2
        <4>2. \A k \in 1 .. Len(z) : z[k] = Image(EigenBase + (Len(eFile) + k) - 1)
          BY <2>5, <3>2, <4>1
        <4>3. /\ Len(eFile \o z) = Len(eFile) + Len(z)
              /\ \A k \in 1 .. Len(eFile \o z) : (eFile \o z)[k] = Image(EigenBase + k - 1)
          BY <1>2, <1>7, <2>1, <4>2, ImageGrows
        <4> QED BY <2>5, <3>2, <3>5, <4>3
      <3>7. eFile' = f /\ eCell' = i + 1 /\ eRead' = 0
        BY <1>1, <1>3, <1>6, <2>5, <3>5
      <3> QED BY <1>1, <2>5, <3>1, <3>3, <3>4, <3>6, <3>7 DEF ReadSoFar
    <2> QED BY <2>5, <2>6, <2>7, EigenConstants
  <1>12. EigenFiles'
    BY <1>1, EigenTypes DEF EigenInv, EigenFiles, EigenImage, EigenLogged, OnlyTriggers
  <1> QED BY <1>8, <1>9, <1>10, <1>11, <1>12 DEF EigenInv

\* Behind the last cell, also behind its second count, the image is complete.
LEMMA LastCellDoneStep ==
    ASSUME EigenInv, LastCellDone
    PROVE  EigenInv'
  <1>1. /\ eState = "request" /\ ~MoreData /\ eCell = eCount
        /\ UNCHANGED <<eSession, ePacket, eLogs, eTriggers, eCells, eCount, eCell, eRead, eReq, eTime, eFile, eOut, eIn, eLate>>
        /\ eState' = "end" /\ eOpen' = FALSE /\ eRet' \in {-1, 1} /\ EigenFault
    BY DEF LastCellDone, DumpReturns, eDumpVars, eLineVars, EigenFault
  <1>2. EigenImage'
    <2> DEFINE Zeros == IF eCount > CellCount THEN Behind ELSE 0
    <2> SUFFICES ASSUME ~eLate, AllWhole
                 PROVE  Len(eFile) = (EigenEnd - EigenBase) + Zeros /\ \A i \in DOMAIN eFile : eFile[i] = Image(EigenBase + i - 1)
      <3>1. ASSUME ~eLate, AllWhole,
                   Len(eFile) = (EigenEnd - EigenBase) + Zeros, \A i \in DOMAIN eFile : eFile[i] = Image(EigenBase + i - 1)
            PROVE  EigenImage'
        <4>1. eFile' = eFile
          BY <1>1
        <4>2. /\ Len(eFile') = (EigenEnd - EigenBase) + Zeros
              /\ \A i \in DOMAIN eFile' : eFile'[i] = Image(EigenBase + i - 1)
          BY <3>1, <4>1, Zenon
        <4>3. \A x : Image(x) = IF \E i \in DOMAIN EigenCells : x \in EigenCells[i].addr .. EigenCells[i].addr + EigenCells[i].len - 1
                                THEN x ELSE Zero
          BY Zenon DEF Image, InCells
        <4>4. /\ EigenEnd = EigenCells[Len(EigenCells)].addr + EigenCells[Len(EigenCells)].len
              /\ EigenBase = EigenCells[1].addr
          BY Zenon DEF EigenEnd, EigenBase, CellCount
        <4>5. \A i \in DOMAIN eFile' : eFile'[i] =
                IF \E j \in DOMAIN EigenCells :
                     EigenCells[1].addr + i - 1 \in EigenCells[j].addr .. EigenCells[j].addr + EigenCells[j].len - 1
                THEN EigenCells[1].addr + i - 1 ELSE Zero
          <5> TAKE i \in DOMAIN eFile'
          <5>1. PICK x : x = EigenBase + i - 1
            OBVIOUS
          <5>2. eFile'[i] = Image(x) /\ x = EigenCells[1].addr + i - 1
            BY <4>2, <4>4, <5>1, Zenon
          <5>3. Image(x) = IF \E j \in DOMAIN EigenCells : x \in EigenCells[j].addr .. EigenCells[j].addr + EigenCells[j].len - 1
                           THEN x ELSE Zero
            BY <4>3, Zenon
          <5> QED BY <5>2, <5>3, Zenon
        <4>7. MemoryEnd = EigenEnd /\ Wrapped = Signed(0 - EigenEnd)
          <5>1. MemoryEnd = EigenEnd
            BY Zenon DEF MemoryEnd, EigenEnd, CellCount
          <5> QED BY <5>1, Zenon DEF Wrapped
        <4>8. Len(eFile') = (MemoryEnd - EigenCells[1].addr)
                            + IF eCount' > Len(EigenCells) /\ Wrapped > 0 THEN Wrapped ELSE 0
          <5>1. Zeros = IF eCount > CellCount /\ Wrapped > 0 THEN Wrapped ELSE 0
            BY <4>7 DEF Behind
          <5>2. eCount' = eCount
            BY <1>1
          <5> HIDE DEF Zeros
          <5> QED BY <4>2, <4>4, <4>7, <5>1, <5>2, Zenon DEF CellCount
        <4> HIDE DEF Zeros
        <4> QED BY <4>5, <4>8, Zenon DEF EigenImage
      <3>2. ASSUME ~(~eLate /\ AllWhole)
            PROVE  EigenImage'
        BY <1>1, <3>2 DEF EigenImage, AllWhole
      <3> QED BY <3>1, <3>2
    <2>1. /\ (eCell <= CellCount =>
               /\ eRead <= EigenCells[eCell].len /\ Len(eFile) = EigenCells[eCell].addr + eRead - EigenBase)
          /\ (eCell > CellCount => Len(eFile) = (EigenEnd - EigenBase) + Behind)
          /\ \A k \in 1 .. Len(eFile) : eFile[k] = Image(EigenBase + k - 1)
      BY <1>1 DEF EigenInv, ReadSoFar, Reading
    <2>2. DOMAIN eFile = 1 .. Len(eFile)
      BY EigenTypes
    <2>3. CASE eCell > CellCount
      BY <1>1, <2>1, <2>2, <2>3
    <2>4. CASE ~(eCell > CellCount)
      <3>1. eCell = CellCount
        <4>1. eCount >= CellCount
          BY <1>1 DEF EigenInv, CellsCounted, Reading
        <4> QED BY <1>1, <2>4, <4>1, EigenTypes, EigenConstants
      <3>2. CellCount \in 1 .. CellCount /\ eCell <= CellCount
        BY <3>1, EigenConstants
      <3>3. eCells[eCell] = EigenCells[eCell] /\ EigenEnd = EigenCells[eCell].addr + EigenCells[eCell].len
        BY <1>1, <3>1, <3>2 DEF EigenInv, CellsCounted, Reading, EigenEnd
      <3>4. PICK l \in Nat, r \in Nat : l = EigenCells[eCell].len /\ r = eRead /\ ~(r < l)
        <4>1. ~(eRead < EigenCells[eCell].len)
          BY <1>1, <3>3 DEF MoreData
        <4> QED BY <3>3, <4>1, EigenTypes
      <3>5. r <= l /\ Len(eFile) = EigenCells[eCell].addr + r - EigenBase
        BY <2>1, <3>2, <3>4
      <3>6. r = l
        BY <3>4, <3>5
      <3>7. Len(eFile) = EigenEnd - EigenBase
        <4>1. PICK x \in Nat, b \in Nat : x = EigenCells[eCell].addr /\ b = EigenBase
          BY <3>1, <3>2, EigenConstants
        <4>2. EigenEnd = x + l
          BY <3>3, <3>4, <4>1
        <4>3. Len(eFile) = x + l - b
          BY <3>5, <3>6, <4>1
        <4> QED BY <4>1, <4>2, <4>3
      <3>8. \A i \in DOMAIN eFile : eFile[i] = Image(EigenBase + i - 1)
        BY <2>1, <2>2, Zenon
      <3>9. Zeros = 0 /\ Len(eFile) \in Int
        BY <1>1, <2>4, EigenTypes
      <3> QED BY <3>7, <3>8, <3>9
    <2> QED BY <2>3, <2>4
  <1>3. eRet' \in {-1, 0, 1}
    BY <1>1
  <1> QED BY <1>1, <1>2, <1>3, EigenEnds

\* Every step keeps the invariant.
LEMMA EigenStep ==
    ASSUME EigenInv, [EigenNext]_eigenVars, CellsFit, CellsAscend
    PROVE  EigenInv'
  <1>1. CASE UNCHANGED eigenVars
    <2>1. /\ UNCHANGED <<eState, eSession, ePacket, eLogs, eTriggers, eOpen, eCells, eCount, eCell, eRead, eReq, eTime, eFile>>
          /\ UNCHANGED <<eRet, eOut, eIn, eLate, eFaults>>
      BY <1>1 DEF eigenVars, eLogVars, eDumpVars, eLineVars
    <2>2. EigenTyped'
      BY <2>1 DEF EigenInv, EigenTyped, EigenTypeOK
    <2>3. CellsCounted' /\ ReadSoFar'
      BY <2>1 DEF EigenInv, CellsCounted, ReadSoFar, Reading
    <2>4. RequestInStep'
      BY <2>1 DEF EigenInv, RequestInStep
    <2>5. EigenFiles'
      BY <2>1 DEF EigenInv, EigenFiles, EigenImage, EigenLogged, OnlyTriggers
    <2> QED BY <2>2, <2>3, <2>4, <2>5 DEF EigenInv
  <1>2. CASE EigenNext
    BY <1>2, EigenSaveStep, EigenReadFailsStep, EigenTriggerStep, EigenFailsStep, SyncStartStep, SendGetInfoUsbStep,
       CreateDumpStep, RequestDataStep, ReceiveDataStep, BadChecksumStep, AnswerTimeoutStep, CellDoneStep,
       LastCellDoneStep, EigenRestartStep, EigenAnswersStep DEF EigenNext, EigenHost
  <1> QED BY <1>1, <1>2

\* For every memory whose cells ascend, every length of a request and of a log file, any number
\* of packets, sessions, lost requests and damaged answers: the log files hold every packet in
\* order but those that announced a dump, and a dump reported as caught is the image of the
\* memory, also the second one of a run, for which GetDumpDataUsb goes through the cells twice
\* and which ends with the zeros of a 32-bit difference if the memory ends above 2^31.
THEOREM EigenCorrect ==
    ASSUME CellsFit, CellsAscend
    PROVE  EigenSpec => [](EigenTypeOK /\ EigenFiles)
  <1>1. EigenInit => EigenInv
    BY EigenInitially DEF EigenInit
  <1>2. EigenInv /\ [EigenNext]_eigenVars => EigenInv'
    BY EigenStep
  <1>3. EigenInv => EigenTypeOK /\ EigenFiles
    BY DEF EigenInv, EigenTyped
  <1> QED BY <1>1, <1>2, <1>3, PTL DEF EigenSpec

-----------------------------------------------------------------------------
(* The four dumps together *)

\* A Sahara dump that does not take place.
LEMMA SaharaAbsentInv ==
    ASSUME SaharaAbsent
    PROVE  SaharaInv
  <1>1. RawBuf \in Nat \ {0} /\ SaharaFaults \in Nat
    BY SaharaAssumption
  <1>2. sahTable \in Seq(Nat) /\ TableLen = 0 /\ maxRead \in 1 .. RawBuf /\ q_state = "done" /\ sahRet = "false"
    BY <1>1 DEF SaharaAbsent, TableLen
  <1>3. sahFiles = <<>> /\ toModule = <<>> /\ fromModule = <<>> /\ sahSeg = 1 /\ sahCur = 0 /\ sahLen = 0
    BY DEF SaharaAbsent, SaharaFresh
  <1>4. wide \in BOOLEAN /\ late \in BOOLEAN /\ gap \in BOOLEAN
    BY Zenon DEF SaharaAbsent, SaharaFresh
  <1>5. SaharaTypeOK
    <2>1. Len(sahFiles) <= TableLen /\ sahSeg \in 1 .. TableLen + 1 /\ sahCur \in Nat /\ sahLen \in 0 .. RawBuf
      BY <1>1, <1>2, <1>3
    <2> QED BY <1>2, <1>4, <2>1 DEF SaharaTypeOK
  <1>6. sahFiles \in Seq(Seq(Items)) /\ toModule \in Seq(Requests) /\ fromModule \in Seq(Items)
    BY <1>3
  <1>7. sahFaults \in Nat
    BY <1>1 DEF SaharaAbsent, SaharaFresh
  <1>8. SaharaTyped
    BY <1>2, <1>4, <1>5, <1>6, <1>7 DEF SaharaTyped
  <1>9. Place /\ Lengths /\ SaharaExact
    BY <1>2, <1>3 DEF Place, Lengths, SaharaExact, Before, Within
  <1>10. Line
    BY <1>2 DEF Line
  <1> QED BY <1>8, <1>9, <1>10 DEF SaharaInv

\* A ymodem dump that does not take place.
LEMMA YmodemAbsentInv ==
    ASSUME YmodemAbsent
    PROVE  YmodemWhole
  <1>1. /\ yState = "quit" /\ yRet = "error" /\ yRetry = 0 /\ yFile = 0 /\ yClosed = {} /\ yFrames = <<>>
        /\ yNext = <<1, 0>> /\ yFaults \in Nat /\ yBuff = Silent /\ ySaved = [f \in Files |-> <<>>]
        /\ yTrust = "stale"
    BY YmodemAssumption DEF YmodemAbsent, YmodemFresh, Files
  <1>2. YmodemTypeOK
    <2>1. 0 \in 0 .. WaitRetries - 1 /\ 0 \in 0 .. Len(AsrFiles)
      BY YmodemAssumption, LastFacts
    <2> QED BY <1>1, <2>1 DEF YmodemTypeOK
  <1>3. yNext \in Frames /\ yBuff \in Frames
    BY <1>1, PairFacts DEF Silent
  <1>4. ySaved \in [Files -> Seq(Frames)] /\ yFrames \in Seq(Frames)
    BY <1>1, NothingFacts
  <1>5. YmodemFiles
    BY <1>1 DEF YmodemFiles, YmodemNoGap, YmodemSuccess, Files
  <1>6. Flow
    BY <1>1, FirstSent DEF Flow
  <1> QED BY <1>1, <1>2, <1>3, <1>4, <1>5, <1>6 DEF YmodemInv, YmodemTyped, YmodemWhole

\* The program as it runs, with one module of any kind: every dump is typed, and what it leaves
\* on disk is the memory of the module as far as the dump read it, under the conditions of the
\* theorems above; no protocol that is not at work touches its files.
THEOREM DumpCorrect ==
    ASSUME CellsFit, CellsAscend
    PROVE  DumpSpec =>
             [](RidsSuffice => DumpTypeOK /\ SaharaImage /\ YmodemFiles /\ EigenFiles /\ BlueImage)
  <1> DEFINE Inv == SaharaInv /\ YmodemWhole /\ EigenInv /\ (RidsSuffice => BlueInv)
  <1>1. DumpInit => Inv
    <2>1. SaharaInit \/ SaharaAbsent => SaharaInv
      BY SaharaInitially, SaharaAbsentInv
    <2>2. YmodemInit \/ YmodemAbsent => YmodemWhole
      BY YmodemInitially, YmodemAbsentInv
    <2>3. EigenInit \/ EigenAbsent => EigenInv
      BY EigenInitially DEF EigenInit, EigenAbsent
    <2>4. BlueInit \/ BlueAbsent => BlueInv
      BY BlueInitially DEF BlueInit, BlueAbsent
    <2> QED BY <2>1, <2>2, <2>3, <2>4 DEF DumpInit
  <1>2. Inv /\ [DumpNext]_dumpVars => Inv'
    <2> SUFFICES ASSUME Inv, [DumpNext]_dumpVars PROVE Inv'
      OBVIOUS
    <2>1. /\ [SaharaNext]_saharaVars /\ [YmodemNext]_ymodemVars /\ [EigenNext]_eigenVars /\ [BlueNext]_blueVars
      BY Zenon DEF DumpNext, dumpVars
    <2>2. SaharaInv' /\ YmodemWhole' /\ EigenInv'
      BY <2>1, SaharaStep, YmodemStep, EigenStep
    <2>3. RidsSuffice' => BlueInv'
      BY <2>1, BlueStep, BlueChipKept DEF RidsSuffice
    <2> QED BY <2>2, <2>3
  <1>3. Inv => (RidsSuffice => DumpTypeOK /\ SaharaImage /\ YmodemFiles /\ EigenFiles /\ BlueImage)
    <2>1. SaharaInv => SaharaTypeOK /\ SaharaImage
      BY SaharaWhole
    <2>2. YmodemWhole => YmodemTypeOK /\ YmodemFiles
      BY YmodemConclusion
    <2>3. EigenInv => EigenTypeOK /\ EigenFiles
      BY DEF EigenInv, EigenTyped
    <2>4. BlueInv => BlueTypeOK /\ BlueImage
      BY DEF BlueInv, BlueTyped
    <2> QED BY <2>1, <2>2, <2>3, <2>4 DEF DumpTypeOK
  <1> QED BY <1>1, <1>2, <1>3, PTL DEF DumpSpec
==============================================================================
