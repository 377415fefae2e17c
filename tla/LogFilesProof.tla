---------------------------- MODULE LogFilesProof ----------------------------
(***************************************************************************)
(* Proofs about the log files, for every set of options, every number of   *)
(* logs and of parts of a log, of sessions and of dumps.                   *)
(***************************************************************************)
EXTENDS LogFiles, FiniteSetTheorems, SequenceTheorems, TLAPS

\* A ring and compression are not combined.
Apart == Num = 0 \/ MaxDir = 0

\* With compression every log can be created, nothing is dumped, and there is
\* one session.
OneRun == MaxDir > 0 => Num = 0 /\ opt.sessions <= 1 /\ opt.dumps = 0 /\ ~OpenMayFail

Threads == [pc : {"off", "next", "zip", "delete", "done"}, part : 1 .. 4,
            file : (Logs \X Parts) \cup {NoFile}]

Typed ==
    /\ TypeOK /\ opt \in Options
    /\ thr \in [Logs -> Threads]
    /\ \A f \in plain \cup zips : f[1] <= made
    /\ preDump \subseteq 1 .. made
    /\ mpc \in {"check", "create"} => made < opt.logs

\* What has been saved into the log that is written fills it, and nothing else:
\* a log not made yet is empty.
Sizes ==
    /\ \A f \in Logs \X Parts : f[1] > made => size[f] = 0
    /\ mpc = "open" => \A p \in Parts : size[<<cur, p>>] <= saved
    /\ mpc \in {"idle", "check", "create"} => saved = 0

\* A compress thread works on a part there is, and no thread knows the name of
\* the log that is written.
Compressing ==
    /\ \A l \in Logs : thr[l].pc \in {"zip", "delete"} => /\ thr[l].part <= LastPart
                                                          /\ thr[l].file # NoFile
    /\ \A p \in 1 .. 3 : names[p][1] <= made /\ (cur # None => names[p][1] # cur)
    /\ \A l \in Logs : thr[l].file[1] <= made /\ (cur # None => thr[l].file[1] # cur)
    /\ MaxDir = 0 => /\ mpc # "check" /\ zips = {} /\ queue = <<>>
                     /\ \A l \in Logs : thr[l].pc = "off"

\* The ring names what is on disk and not set aside; its last entry is the last
\* log made.
RingNames ==
    Num > 0 /\ MaxDir = 0 =>
        /\ ringIdx \in 0 .. Num - 1 /\ ring[ringIdx] \in {None, made}
        /\ \A i \in 0 .. Num - 1 : ring[i] = made /\ made # None => i = ringIdx
        /\ \A l \in LogsOnDisk \ preDump : \E i \in 0 .. Num - 1 : ring[i] = l

\* A log in the ring was created at an earlier sequence number, and since then
\* at least as many logs were made as the number has advanced.
RingOrder ==
    Num > 0 /\ MaxDir = 0 =>
        \A i \in 0 .. Num - 1 :
            <<ring[i], 1>> \in plain =>
                \E s \in 0 .. seq - 1 : Slot(s) = i /\ ring[i] + (seq - 1 - s) <= made

\* As long as every log could be created, the last one is on disk, and one set
\* aside is on disk and not in the ring.
SetAside ==
    MaxDir = 0 /\ seq = made =>
        /\ made # 0 => <<made, 1>> \in plain
        /\ \A l \in preDump : /\ <<l, 1>> \in plain
                              /\ \A i \in 0 .. Num - 1 : ring[i] # l

\* What the queue names is there, as a log or as its archive.
EveryNameOnDisk == \A i \in 1 .. Len(queue) : queue[i] \in plain \cup zips

\* In one run with compression a file is queued once, and is on disk as long as
\* it is queued: a thread deletes the original only when the archive is there,
\* or the file has been removed from the queue.
Queued ==
    OneRun /\ MaxDir > 0 =>
        /\ EveryNameOnDisk
        /\ \A j, k \in 1 .. Len(queue) : queue[j] = queue[k] => j = k
        /\ \A l \in Logs : thr[l].pc = "delete" /\ thr[l].file \notin zips =>
                               \A k \in 1 .. Len(queue) : queue[k] # thr[l].file
        /\ session = 0 => mpc = "between" /\ made = 0
        /\ made = 0 => plain = {} /\ zips = {} /\ queue = <<>>
        /\ dumps = <<>>
        /\ mpc \in {"idle", "open"} /\ made # 0 => queue # <<>>

IInv ==
    /\ Typed /\ Sizes /\ Compressing /\ CurrentSafe
    /\ RingNames /\ RingOrder /\ SetAside /\ Queued

-----------------------------------------------------------------------------
(* Facts about the options, the parts and the order of sequence numbers.   *)

\* The options of a run.
LEMMA OptFacts ==
    ASSUME Typed
    PROVE  /\ Num \in Nat /\ MaxDir \in Nat /\ Limit \in Nat \ {0}
           /\ opt.sessions \in Nat /\ opt.dumps \in Nat
           /\ opt.logs \in 0 .. MaxLogs /\ MaxLogs \in Nat /\ OpenMayFail \in BOOLEAN
           /\ made \in Nat /\ seq \in Nat
  BY LogFilesAssumption DEF Typed, TypeOK, Num, MaxDir, Limit, OpenMayFail

\* The parts of a log.
LEMMA PartFacts ==
    /\ Parts \subseteq 1 .. 3 /\ 1 \in Parts /\ MaxLogs \in Nat
    /\ IsFiniteSet(Parts) /\ Cardinality(Parts) \in 1 .. 3
    /\ LastPart \in Parts /\ LastPart \in 1 .. 3 /\ \A q \in Parts : q <= LastPart
  <1>1. Parts \subseteq 1 .. 3 /\ 1 \in Parts /\ MaxLogs \in Nat
    BY LogFilesAssumption
  <1>2. IsFiniteSet(1 .. 3) /\ Cardinality(1 .. 3) = 3
    <2>1. 1 \in Int /\ 3 \in Int
      OBVIOUS
    <2>2. IsFiniteSet(1 .. 3) /\ Cardinality(1 .. 3) = IF 1 > 3 THEN 0 ELSE 3 - 1 + 1
      BY <2>1, FS_Interval, Zenon
    <2>3. (IF 1 > 3 THEN 0 ELSE 3 - 1 + 1) = 3
      OBVIOUS
    <2> QED BY <2>2, <2>3
  <1>3. IsFiniteSet(Parts) /\ Cardinality(Parts) <= 3 /\ Cardinality(Parts) \in Nat
    <2>1. IsFiniteSet(Parts) /\ Cardinality(Parts) <= Cardinality(1 .. 3)
      BY <1>1, <1>2, FS_Subset, Zenon
    <2>2. Cardinality(Parts) \in Nat
      BY <2>1, FS_CardinalityType, Zenon
    <2> QED BY <2>1, <2>2, <1>2, Zenon
  <1>4. Cardinality(Parts) # 0
    BY <1>1, <1>3, FS_EmptySet
  <1>5. \E p \in Parts : \A q \in Parts : q <= p
    <2>1. CASE 3 \in Parts
      BY <2>1, <1>1
    <2>2. CASE 3 \notin Parts /\ 2 \in Parts
      BY <2>2, <1>1
    <2>3. CASE 3 \notin Parts /\ 2 \notin Parts
      BY <2>3, <1>1
    <2> QED BY <2>1, <2>2, <2>3
  <1>6. LastPart \in Parts /\ \A q \in Parts : q <= LastPart
    BY <1>5 DEF LastPart
  <1> QED BY <1>1, <1>3, <1>4, <1>6

\* A thread is a record.
LEMMA ThreadFacts ==
    ASSUME Typed, NEW l \in Logs
    PROVE  /\ thr[l] \in Threads
           /\ thr[l].pc \in {"off", "next", "zip", "delete", "done"} /\ thr[l].part \in 1 .. 4
           /\ thr[l].file \in (Logs \X Parts) \cup {NoFile}
  BY DEF Typed, Threads

\* The size of the directory is a number.
LEMMA DirSizeType ==
    ASSUME Typed
    PROVE  DirSize \in Int
  <1> DEFINE U == {u \in plain \X (1 .. Limit) : u[2] <= size[u[1]]}
  <1>1. IsFiniteSet(Logs) /\ IsFiniteSet(1 .. Limit)
    BY FS_Interval, OptFacts DEF Logs
  <1>2. IsFiniteSet(Logs \X Parts)
    BY <1>1, PartFacts, FS_Product
  <1>3. IsFiniteSet(plain) /\ IsFiniteSet(zips)
    BY <1>2, FS_Subset DEF Typed, TypeOK
  <1>4. IsFiniteSet(plain \X (1 .. Limit))
    BY <1>1, <1>3, FS_Product
  <1>5. IsFiniteSet(U)
    BY <1>4, FS_Subset
  <1>6. Cardinality(U) \in Nat /\ Cardinality(zips) \in Nat
    BY <1>3, <1>5, FS_CardinalityType
  <1>7. Len(dumps) \in Nat
    BY DEF Typed, TypeOK
  <1> QED BY <1>6, <1>7 DEF DirSize

\* Division with remainder.
LEMMA DivMod ==
    ASSUME NEW n \in Nat \ {0}, NEW a \in Nat
    PROVE  a = n * (a \div n) + (a % n)
  OBVIOUS

\* Two sequence numbers of one slot are at least Num apart.
LEMMA SameSlot ==
    ASSUME NEW n \in Nat \ {0}, NEW a \in Nat, NEW b \in Nat, a < b, a % n = b % n
    PROVE  b - a >= n
  <1> DEFINE qa == a \div n
             qb == b \div n
  <1>1. qa \in Int /\ qb \in Int /\ a = n * qa + (a % n) /\ b = n * qb + (b % n)
    <2>1. qa \in Int /\ qb \in Int
      OBVIOUS
    <2>2. a = n * qa + (a % n)
      BY DivMod, Zenon
    <2>3. b = n * qb + (b % n)
      BY DivMod, Zenon
    <2> QED BY <2>1, <2>2, <2>3
  <1> HIDE DEF qa, qb
  <1>2. a % n \in Int /\ b % n \in Int
    OBVIOUS
  <1>3. b - a = n * qb - n * qa
    BY <1>1, <1>2
  <1>4. n * qb - n * qa = n * (qb - qa)
    BY <1>1
  <1>5. PICK d \in Int : d = qb - qa
    BY <1>1
  <1>6. b - a = n * d /\ n * d > 0
    BY <1>3, <1>4, <1>5
  <1>7. d >= 1
    BY <1>5, <1>6
  <1>8. n * d >= n
    BY <1>7, <1>5
  <1> QED BY <1>6, <1>8

\* A slot is an index of the ring.
LEMMA SlotType ==
    ASSUME Typed, Num > 0, NEW s \in Nat
    PROVE  Slot(s) \in 0 .. Num - 1
  BY OptFacts DEF Slot

\* What scandir finds.
LEMMA ScannedType ==
    ASSUME Typed, NEW q \in Scanned
    PROVE  /\ q \in Seq((Logs \X Parts) \cup {DumpDir})
           /\ plain = {} /\ zips = {} /\ dumps = <<>> => q = <<>>
  <1> DEFINE logs == {[file |-> f, from |-> 2 * f[1], to |-> 2 * f[1], what |-> 0] : f \in plain}
             archives == {[file |-> f, from |-> 2 * f[1], to |-> 2 * made + 1, what |-> 1] : f \in zips}
             dirs == {[file |-> DumpDir, from |-> 2 * dumps[i] + 1, to |-> 2 * dumps[i] + 1, what |-> i]
                         : i \in 1 .. Len(dumps)}
             entries == logs \cup archives \cup dirs
  <1>1. PICK s \in SetToSeqs(entries) : q = [i \in DOMAIN s |-> s[i].file]
    BY DEF Scanned
  <1>2. s \in [1 .. Cardinality(entries) -> entries]
    BY DEF SetToSeqs
  <1>3. IsFiniteSet(entries)
    <2>1. IsFiniteSet(Logs)
      BY FS_Interval, OptFacts DEF Logs
    <2>2. IsFiniteSet(Logs \X Parts)
      BY <2>1, PartFacts, FS_Product
    <2>3. IsFiniteSet(plain) /\ IsFiniteSet(zips)
      BY <2>2, FS_Subset DEF Typed, TypeOK
    <2>4. IsFiniteSet(1 .. Len(dumps))
      BY FS_Interval DEF Typed, TypeOK
    <2>5. IsFiniteSet(logs)
      <3> DEFINE g == [f \in plain |-> [file |-> f, from |-> 2 * f[1], to |-> 2 * f[1], what |-> 0]]
      <3>1. g \in Surjection(plain, logs)
        BY DEF Surjection
      <3> HIDE DEF g
      <3> QED BY <3>1, <2>3, FS_Surjection, Zenon
    <2>6. IsFiniteSet(archives)
      <3> DEFINE g == [f \in zips |-> [file |-> f, from |-> 2 * f[1], to |-> 2 * made + 1, what |-> 1]]
      <3>1. g \in Surjection(zips, archives)
        BY DEF Surjection
      <3> HIDE DEF g
      <3> QED BY <3>1, <2>3, FS_Surjection, Zenon
    <2>7. IsFiniteSet(dirs)
      <3> DEFINE g == [i \in 1 .. Len(dumps) |->
                          [file |-> DumpDir, from |-> 2 * dumps[i] + 1, to |-> 2 * dumps[i] + 1, what |-> i]]
      <3>1. g \in Surjection(1 .. Len(dumps), dirs)
        BY DEF Surjection
      <3> HIDE DEF g
      <3> QED BY <3>1, <2>4, FS_Surjection, Zenon
    <2> QED BY <2>5, <2>6, <2>7, FS_Union
  <1>4. Cardinality(entries) \in Nat
    BY <1>3, FS_CardinalityType
  <1>5. \A e \in entries : e.file \in (Logs \X Parts) \cup {DumpDir}
    BY DEF Typed, TypeOK
  <1> HIDE DEF entries
  <1>6. q \in [1 .. Cardinality(entries) -> (Logs \X Parts) \cup {DumpDir}]
    BY <1>1, <1>2, <1>5
  <1>7. q \in Seq((Logs \X Parts) \cup {DumpDir})
    BY <1>4, <1>6
  <1>8. plain = {} /\ zips = {} /\ dumps = <<>> => q = <<>>
    <2>1. plain = {} /\ zips = {} /\ dumps = <<>> => entries = {}
      BY DEF entries
    <2>2. Cardinality({}) = 0
      BY FS_EmptySet, Zenon
    <2>3. Cardinality(entries) = 0 => Len(q) = 0
      BY <1>4, <1>6
    <2>4. Len(q) = 0 => q = <<>>
      BY <1>7, EmptySeq
    <2> QED BY <2>1, <2>2, <2>3, <2>4
  <1> QED BY <1>7, <1>8

\* Closing a log starts a thread, or none; no thread gets the name of a later log.
LEMMA CloseFacts ==
    ASSUME Typed, Compressing, mpc = "open", NEW e, CloseLog(e)
    PROVE  /\ cur' = None
           /\ names' \in [1 .. 3 -> (Logs \X Parts) \cup {NoFile}] /\ thr' \in [Logs -> Threads]
           /\ \A p \in 1 .. 3 : names'[p][1] <= made
           /\ \A l \in Logs : /\ thr'[l].file = thr[l].file /\ thr'[l].part = thr[l].part
                              /\ thr'[l].pc \in {thr[l].pc, "next"}
           /\ MaxDir = 0 => UNCHANGED <<names, thr>>
  <1>1. cur = made /\ cur \in Logs /\ made \in Nat
    BY OptFacts DEF Typed, TypeOK, None, Logs
  <1>2. CASE UNCHANGED <<names, thr>> /\ cur' = None
    BY <1>2, ThreadFacts DEF Typed, TypeOK, Compressing
  <1>3. CASE StartCompress /\ cur' = None /\ MaxDir > 0
    <2>1. /\ names' = [p \in 1 .. 3 |-> IF p \in Parts THEN <<cur, p>> ELSE NoFile]
          /\ thr' = [thr EXCEPT ![cur].pc = "next"]
      BY <1>3 DEF StartCompress
    <2>2. names' \in [1 .. 3 -> (Logs \X Parts) \cup {NoFile}]
      BY <1>1, <2>1
    <2>3. \A p \in 1 .. 3 : names'[p] = <<cur, p>> \/ names'[p] = <<0, 1>>
      BY <2>1 DEF NoFile
    <2>4. \A p \in 1 .. 3 : names'[p][1] <= made
      BY <2>3, <1>1
    <2>5. thr \in [Logs -> Threads]
      BY DEF Typed
    <2>6. thr' = [thr EXCEPT ![cur] = [thr[cur] EXCEPT !.pc = "next"]]
      BY <2>1
    <2>7. thr[cur] \in Threads
      BY <2>5, <1>1
    <2>8. /\ [thr[cur] EXCEPT !.pc = "next"] \in Threads
          /\ [thr[cur] EXCEPT !.pc = "next"].file = thr[cur].file
          /\ [thr[cur] EXCEPT !.pc = "next"].part = thr[cur].part
          /\ [thr[cur] EXCEPT !.pc = "next"].pc = "next"
      BY <2>7 DEF Threads
    <2>9. thr' \in [Logs -> Threads]
      BY <2>5, <2>6, <2>8
    <2>10. \A l \in Logs : /\ thr'[l].file = thr[l].file /\ thr'[l].part = thr[l].part
                           /\ thr'[l].pc \in {thr[l].pc, "next"}
      BY <2>5, <2>6, <2>8
    <2> QED BY <1>3, <2>2, <2>4, <2>9, <2>10
  <1> QED BY <1>2, <1>3, OptFacts DEF CloseLog, zipVars

\* What saving a packet does.
LEMMA SaveFacts ==
    ASSUME IInv, NEW p \in Parts, Save(p)
    PROVE  /\ mpc = "open" /\ cur = made /\ made \in Logs
           /\ size' = [size EXCEPT ![<<cur, p>>] = size[<<cur, p>>] + 1]
           /\ UNCHANGED <<session, plain, zips, dumps, made, seq, ring, ringIdx, queue, total, rest, preDump>>
           /\ \/ mpc' = "idle" /\ saved' = 0 /\ cur' = None
              \/ mpc' = "open" /\ saved' = saved + 1 /\ saved + 1 < Limit /\ cur' = cur
           /\ names' \in [1 .. 3 -> (Logs \X Parts) \cup {NoFile}] /\ thr' \in [Logs -> Threads]
           /\ \A q \in 1 .. 3 : names'[q][1] <= made /\ (cur' # None => names'[q][1] # cur')
           /\ \A l \in Logs : /\ thr'[l].file = thr[l].file /\ thr'[l].part = thr[l].part
                              /\ thr'[l].pc \in {thr[l].pc, "next"}
           /\ MaxDir = 0 => UNCHANGED <<names, thr>>
  <1>1. /\ mpc = "open" /\ size' = [size EXCEPT ![<<cur, p>>] = size[<<cur, p>>] + 1]
        /\ UNCHANGED <<session, plain, zips, dumps, made, seq, ring, ringIdx, queue, total, rest, preDump>>
    BY DEF Save, ringVars, queueVars
  <1>2. Typed /\ Compressing
    BY DEF IInv
  <1>3. cur = made /\ made \in Logs
    BY <1>1, <1>2, OptFacts DEF Typed, TypeOK, None, Logs
  <1>4. CASE mpc' = "idle" /\ saved' = 0 /\ CloseLog(FALSE)
    BY <1>1, <1>2, <1>3, <1>4, CloseFacts
  <1>5. CASE mpc' = "open" /\ saved' = saved + 1 /\ saved + 1 < Limit /\ UNCHANGED <<cur, names, thr>>
    BY <1>1, <1>2, <1>3, <1>5, ThreadFacts DEF Typed, TypeOK, Compressing
  <1>6. saved \in Nat /\ Limit \in Nat
    BY <1>2, OptFacts DEF Typed, TypeOK
  <1>7. \/ saved + 1 >= Limit /\ mpc' = "idle" /\ saved' = 0 /\ CloseLog(FALSE)
        \/ ~(saved + 1 >= Limit) /\ saved' = saved + 1 /\ UNCHANGED <<mpc, cur, names, thr>>
    BY DEF Save, zipVars
  <1>8. \/ mpc' = "idle" /\ saved' = 0 /\ CloseLog(FALSE)
        \/ mpc' = "open" /\ saved' = saved + 1 /\ saved + 1 < Limit /\ UNCHANGED <<cur, names, thr>>
    <2>1. ~(saved + 1 >= Limit) <=> saved + 1 < Limit
      BY <1>6
    <2> QED BY <1>1, <1>7, <2>1, Zenon
  <1> QED BY <1>4, <1>5, <1>8

\* What leaving the loop does.
LEMMA LeaveFacts ==
    ASSUME IInv, NEW e \in BOOLEAN, Leave(e)
    PROVE  /\ mpc \in {"idle", "open"} /\ mpc' \in {"exited", "between"} /\ cur' = None
           /\ UNCHANGED <<session, plain, zips, size, dumps, made, seq, ring, ringIdx, saved, queue, total,
                          rest, preDump>>
           /\ names' \in [1 .. 3 -> (Logs \X Parts) \cup {NoFile}] /\ thr' \in [Logs -> Threads]
           /\ \A q \in 1 .. 3 : names'[q][1] <= made
           /\ \A l \in Logs : /\ thr'[l].file = thr[l].file /\ thr'[l].part = thr[l].part
                              /\ thr'[l].pc \in {thr[l].pc, "next"}
           /\ MaxDir = 0 => UNCHANGED <<names, thr>>
  <1>1. /\ mpc \in {"idle", "open"} /\ mpc' \in {"exited", "between"}
        /\ UNCHANGED <<session, plain, zips, size, dumps, made, seq, ring, ringIdx, saved, queue, total,
                       rest, preDump>>
    BY DEF Leave, disk, ringVars, queueVars
  <1>2. Typed /\ Compressing
    BY DEF IInv
  <1>3. CASE cur = None /\ UNCHANGED <<cur, names, thr>>
    BY <1>1, <1>2, <1>3, ThreadFacts DEF Typed, TypeOK, Compressing
  <1>4. CASE cur # None /\ CloseLog(e)
    <2>1. mpc = "open"
      BY <1>2, <1>4 DEF Typed, TypeOK
    <2> QED BY <1>1, <1>2, <1>4, <2>1, CloseFacts
  <1> QED BY <1>3, <1>4 DEF Leave, zipVars

-----------------------------------------------------------------------------
(* The main thread.                                                        *)

\* A session starts with an empty queue.
LEMMA StartSessionStep ==
    ASSUME IInv, StartSession, opt' = opt
    PROVE  IInv'
  <1>o. Num' = Num /\ MaxDir' = MaxDir /\ Limit' = Limit /\ OneRun' = OneRun
    BY DEF Num, MaxDir, Limit, OneRun, OpenMayFail
  <1>t. /\ Num \in Nat /\ MaxDir \in Nat /\ Limit \in Nat \ {0}
        /\ opt.sessions \in Nat /\ opt.dumps \in Nat
        /\ opt.logs \in 0 .. MaxLogs /\ MaxLogs \in Nat
        /\ made \in Nat /\ seq \in Nat
    BY OptFacts DEF IInv
  <1>1. Typed'
    <2>1. queue' \in Seq((Logs \X Parts) \cup {DumpDir})
      BY EmptySeq DEF StartSession
    <2>2. session' \in 0 .. opt.sessions
      BY <1>t DEF IInv, Typed, TypeOK, StartSession
    <2>3. mpc' = "idle" /\ saved' = 0 /\ 0 \in 0 .. Limit - 1 /\ mpc = "between"
      BY <1>t DEF StartSession
    <2> QED
      BY <1>o, <2>1, <2>2, <2>3
         DEF IInv, Typed, TypeOK, StartSession, disk, ringVars, zipVars, None
  <1>2. Sizes'
    BY <1>o, <1>t, PartFacts DEF IInv, Typed, TypeOK, Sizes, None, StartSession, disk, ringVars,
       queueVars, zipVars
  <1>3. Compressing'
    BY <1>o, <1>t, PartFacts DEF IInv, Typed, TypeOK, Compressing, None, StartSession, disk,
       ringVars, queueVars, zipVars
  <1>4. CurrentSafe'
    BY <1>o, <1>t, PartFacts DEF IInv, Typed, TypeOK, CurrentSafe, Compressing, None, Files,
       StartSession, disk, ringVars, queueVars, zipVars
  <1>5. RingNames'
    BY <1>o, <1>t, PartFacts DEF IInv, Typed, TypeOK, RingNames, LogsOnDisk, Compressing,
       StartSession, disk, ringVars, queueVars, zipVars
  <1>6. RingOrder'
    BY <1>o, <1>t, PartFacts DEF IInv, Typed, TypeOK, RingOrder, Slot, Compressing, StartSession,
       disk, ringVars, queueVars, zipVars
  <1>7. SetAside'
    BY <1>o, <1>t, PartFacts DEF IInv, Typed, TypeOK, SetAside, Compressing, StartSession, disk,
       ringVars, queueVars, zipVars
  <1>8. Queued'
    <2>1. Len(queue') = 0 /\ queue' = <<>>
      BY EmptySeq DEF StartSession
    <2>2. OneRun /\ MaxDir > 0 => session = 0 /\ session' = 1
      BY <1>t DEF IInv, Typed, TypeOK, OneRun, StartSession
    <2>3. UNCHANGED <<plain, zips, dumps, made, thr>>
      BY DEF StartSession, disk, ringVars, zipVars
    <2> QED
      BY <1>o, <2>1, <2>2, <2>3 DEF IInv, Queued, EveryNameOnDisk
  <1> QED BY <1>1, <1>2, <1>3, <1>4, <1>5, <1>6, <1>7, <1>8 DEF IInv

\* There is room.
LEMMA CheckDoneStep ==
    ASSUME IInv, CheckDone, opt' = opt
    PROVE  IInv'
  <1>o. Num' = Num /\ MaxDir' = MaxDir /\ Limit' = Limit /\ OneRun' = OneRun
    BY DEF Num, MaxDir, Limit, OneRun, OpenMayFail
  <1>t. /\ Num \in Nat /\ MaxDir \in Nat /\ Limit \in Nat \ {0}
        /\ opt.sessions \in Nat /\ opt.dumps \in Nat
        /\ opt.logs \in 0 .. MaxLogs /\ MaxLogs \in Nat
        /\ made \in Nat /\ seq \in Nat
    BY OptFacts DEF IInv
  <1>1. Typed'
    BY <1>o, <1>t, PartFacts DEF IInv, Typed, TypeOK, None, CheckDone, disk, ringVars, queueVars,
       zipVars
  <1>2. Sizes'
    BY <1>o, <1>t, PartFacts DEF IInv, Typed, TypeOK, Sizes, None, CheckDone, disk, ringVars,
       queueVars, zipVars
  <1>3. Compressing'
    BY <1>o, <1>t, PartFacts DEF IInv, Typed, TypeOK, Compressing, None, CheckDone, disk,
       ringVars, queueVars, zipVars
  <1>4. CurrentSafe'
    BY <1>o, <1>t, PartFacts DEF IInv, Typed, TypeOK, CurrentSafe, Compressing, None, Files,
       CheckDone, disk, ringVars, queueVars, zipVars
  <1>5. RingNames'
    BY <1>o, <1>t, PartFacts DEF IInv, Typed, TypeOK, RingNames, LogsOnDisk, Compressing,
       CheckDone, disk, ringVars, queueVars, zipVars
  <1>6. RingOrder'
    BY <1>o, <1>t, PartFacts DEF IInv, Typed, TypeOK, RingOrder, Slot, Compressing, CheckDone,
       disk, ringVars, queueVars, zipVars
  <1>7. SetAside'
    BY <1>o, <1>t, PartFacts DEF IInv, Typed, TypeOK, SetAside, Compressing, CheckDone, disk,
       ringVars, queueVars, zipVars
  <1>8. Queued'
    BY <1>o, <1>t, PartFacts DEF IInv, Typed, TypeOK, Queued, OneRun, EveryNameOnDisk, Compressing,
       CheckDone, disk, ringVars, queueVars, zipVars
  <1> QED BY <1>1, <1>2, <1>3, <1>4, <1>5, <1>6, <1>7, <1>8 DEF IInv

\* A packet is saved, and a full log is closed.
LEMMA SaveStep ==
    ASSUME IInv, NEW p \in Parts, Save(p), opt' = opt
    PROVE  IInv'
  <1>o. Num' = Num /\ MaxDir' = MaxDir /\ Limit' = Limit /\ OneRun' = OneRun
    BY DEF Num, MaxDir, Limit, OneRun, OpenMayFail
  <1>t. /\ Num \in Nat /\ MaxDir \in Nat /\ Limit \in Nat \ {0}
        /\ opt.sessions \in Nat /\ opt.dumps \in Nat
        /\ opt.logs \in 0 .. MaxLogs /\ MaxLogs \in Nat
        /\ made \in Nat /\ seq \in Nat
    BY OptFacts DEF IInv
  <1>u. /\ UNCHANGED <<session, plain, zips, dumps, made, seq, ring, ringIdx, queue, total, rest, preDump>>
        /\ names' \in [1 .. 3 -> (Logs \X Parts) \cup {NoFile}] /\ thr' \in [Logs -> Threads]
        /\ \A l \in Logs : /\ thr'[l].file = thr[l].file
                           /\ thr'[l].pc = "delete" => thr[l].pc = "delete"
        /\ mpc' \in {"idle", "open"} => mpc = "open"
    BY SaveFacts
  <1>v. mpc \in {"idle", "open"}
    BY SaveFacts
  <1>1. Typed'
    <2>1. /\ size \in [Logs \X Parts -> 0 .. Limit] /\ saved \in 0 .. Limit - 1
          /\ size[<<cur, p>>] <= saved /\ <<cur, p>> \in Logs \X Parts
      BY SaveFacts DEF IInv, Typed, TypeOK, Sizes
    <2>2. size[<<cur, p>>] + 1 \in 0 .. Limit
      BY <2>1, <1>t
    <2>3. size' \in [Logs \X Parts -> 0 .. Limit]
      BY <2>1, <2>2, SaveFacts
    <2>4. saved' \in 0 .. Limit - 1
      BY <2>1, SaveFacts, <1>t
    <2>5. \A l \in Logs : /\ thr'[l].pc \in {"off", "next", "zip", "delete", "done"}
                          /\ thr'[l].part \in 1 .. 4
      BY SaveFacts DEF Threads
    <2>6. cur' \in {None, made'} /\ (mpc' = "open" <=> cur' # None) /\ mpc' \in {"idle", "open"}
      <3>1. \/ mpc' = "idle" /\ cur' = None
            \/ mpc' = "open" /\ cur' = made
        BY SaveFacts
      <3>2. made \in Logs /\ made' = made
        BY SaveFacts
      <3>3. made # None
        BY <3>2, <1>t DEF Logs, None
      <3> QED BY <3>1, <3>2, <3>3
    <2> QED
      BY <1>o, <1>u, <2>3, <2>4, <2>5, <2>6 DEF IInv, Typed, TypeOK
  <1>2. Sizes'
    <2>1. /\ size \in [Logs \X Parts -> 0 .. Limit] /\ <<cur, p>> \in Logs \X Parts
          /\ saved \in Nat /\ Limit \in Nat
      BY SaveFacts, <1>t, SMTT(30) DEF IInv, Typed, TypeOK
    <2>2. /\ size'[<<cur, p>>] = size[<<cur, p>>] + 1
          /\ \A f \in Logs \X Parts : f # <<cur, p>> => size'[f] = size[f]
      BY <2>1, SaveFacts
    <2>3. \A f \in Logs \X Parts : f[1] > made => size'[f] = 0
      BY <2>2, SaveFacts DEF IInv, Sizes, Logs
    <2>4. mpc' = "open" => \A q \in Parts : size'[<<cur', q>>] <= saved'
      <3> SUFFICES ASSUME mpc' = "open", NEW q \in Parts PROVE size'[<<cur, q>>] <= saved + 1
        BY SaveFacts
      <3>1. <<cur, q>> \in Logs \X Parts /\ size[<<cur, q>>] \in Nat /\ size[<<cur, q>>] <= saved
        BY <2>1, SaveFacts DEF IInv, Sizes
      <3>2. size'[<<cur, q>>] \in {size[<<cur, q>>], size[<<cur, q>>] + 1}
        BY <2>2, <3>1
      <3> QED BY <2>1, <3>1, <3>2
    <2> QED
      BY <2>3, <2>4, SaveFacts DEF Sizes
  <1>3. Compressing'
    <2>1. \A l \in Logs : thr'[l].pc \in {"zip", "delete"} => thr[l].pc \in {"zip", "delete"}
      BY SaveFacts
    <2>2. cur' # None => cur' = cur
      BY SaveFacts
    <2>3. MaxDir = 0 => mpc' # "check" /\ zips' = {} /\ queue' = <<>> /\ \A l \in Logs : thr'[l].pc = "off"
      BY SaveFacts DEF IInv, Compressing
    <2> QED BY <1>o, <2>1, <2>2, <2>3, SaveFacts, ZenonT(60) DEF IInv, Compressing
  <1>4. CurrentSafe'
    BY SaveFacts DEF IInv, Typed, TypeOK, CurrentSafe, Files, None
  <1>5. RingNames'
    BY <1>o, SaveFacts, ZenonT(60) DEF IInv, RingNames, LogsOnDisk
  <1>6. RingOrder'
    BY <1>o, SaveFacts, ZenonT(60) DEF IInv, RingOrder, Slot
  <1>7. SetAside'
    BY <1>o, <1>u DEF IInv, SetAside
  <1>8. Queued'
    BY <1>o, <1>u, <1>v DEF IInv, Queued, EveryNameOnDisk
  <1> QED BY <1>1, <1>2, <1>3, <1>4, <1>5, <1>6, <1>7, <1>8 DEF IInv

\* A log that is open is closed.
LEMMA LeaveStep ==
    ASSUME IInv, NEW e \in BOOLEAN, Leave(e), opt' = opt
    PROVE  IInv'
  <1>o. Num' = Num /\ MaxDir' = MaxDir /\ Limit' = Limit /\ OneRun' = OneRun
    BY DEF Num, MaxDir, Limit, OneRun, OpenMayFail
  <1>t. /\ Num \in Nat /\ MaxDir \in Nat /\ Limit \in Nat \ {0}
        /\ opt.sessions \in Nat /\ opt.dumps \in Nat
        /\ opt.logs \in 0 .. MaxLogs /\ MaxLogs \in Nat
        /\ made \in Nat /\ seq \in Nat
    BY OptFacts DEF IInv
  <1>u. /\ UNCHANGED <<session, plain, zips, dumps, made, seq, ring, ringIdx, queue, total, rest, preDump>>
        /\ names' \in [1 .. 3 -> (Logs \X Parts) \cup {NoFile}] /\ thr' \in [Logs -> Threads]
        /\ \A l \in Logs : /\ thr'[l].file = thr[l].file
                           /\ thr'[l].pc = "delete" => thr[l].pc = "delete"
        /\ mpc' \in {"idle", "open"} => mpc = "open"
    BY LeaveFacts
  <1>v. mpc \in {"idle", "open"}
    BY LeaveFacts
  <1>1. Typed'
    <2>1. \A l \in Logs : /\ thr'[l].pc \in {"off", "next", "zip", "delete", "done"}
                          /\ thr'[l].part \in 1 .. 4
      BY LeaveFacts DEF Threads
    <2>2. cur' \in {None, made'} /\ (mpc' = "open" <=> cur' # None)
      BY LeaveFacts
    <2> QED
      BY <1>o, <2>1, <2>2, LeaveFacts DEF IInv, Typed, TypeOK
  <1>2. Sizes'
    BY LeaveFacts DEF IInv, Sizes
  <1>3. Compressing'
    <2>1. \A l \in Logs : thr'[l].pc \in {"zip", "delete"} => thr[l].pc \in {"zip", "delete"}
      BY LeaveFacts
    <2>2. cur' # None => cur' = cur
      BY LeaveFacts
    <2>3. MaxDir = 0 => mpc' # "check" /\ zips' = {} /\ queue' = <<>> /\ \A l \in Logs : thr'[l].pc = "off"
      BY LeaveFacts DEF IInv, Compressing
    <2> QED BY <1>o, <2>1, <2>2, <2>3, LeaveFacts DEF IInv, Compressing
  <1>4. CurrentSafe'
    BY LeaveFacts DEF IInv, Typed, TypeOK, CurrentSafe, Files, None
  <1>5. RingNames'
    BY <1>o, LeaveFacts DEF IInv, RingNames, LogsOnDisk
  <1>6. RingOrder'
    BY <1>o, LeaveFacts DEF IInv, RingOrder, Slot
  <1>7. SetAside'
    BY <1>o, <1>u DEF IInv, SetAside
  <1>8. Queued'
    BY <1>o, <1>u, <1>v DEF IInv, Queued, EveryNameOnDisk
  <1> QED BY <1>1, <1>2, <1>3, <1>4, <1>5, <1>6, <1>7, <1>8 DEF IInv

\* A packet arrives and no log is open: the size of the directory is taken.
LEMMA CreateBeginStep ==
    ASSUME IInv, CreateBegin, opt' = opt
    PROVE  IInv'
  <1>o. Num' = Num /\ MaxDir' = MaxDir /\ Limit' = Limit /\ OneRun' = OneRun
    BY DEF Num, MaxDir, Limit, OneRun, OpenMayFail
  <1>t. /\ Num \in Nat /\ MaxDir \in Nat /\ Limit \in Nat \ {0}
        /\ opt.sessions \in Nat /\ opt.dumps \in Nat
        /\ opt.logs \in 0 .. MaxLogs /\ MaxLogs \in Nat
        /\ made \in Nat /\ seq \in Nat
    BY OptFacts DEF IInv
  <1>u. /\ mpc = "idle" /\ made < opt.logs /\ mpc' \in {"check", "create"}
        /\ UNCHANGED <<session, plain, zips, size, dumps, made, seq, ring, ringIdx, cur, saved, names,
                       thr, preDump>>
    BY DEF CreateBegin, disk, ringVars, zipVars
  <1>v. /\ queue' \in Seq((Logs \X Parts) \cup {DumpDir}) /\ total' \in Int /\ rest' \in 0 .. 2
        /\ MaxDir = 0 => queue' = queue /\ mpc' = "create"
        /\ OneRun => queue' = queue
    <2>1. CASE MaxDir > 0 /\ queue = <<>>
      <3>1. queue' \in Scanned /\ total' = DirSize /\ rest' = 0
        BY <2>1 DEF CreateBegin
      <3>2. total' \in Int
        BY <3>1, DirSizeType DEF IInv
      <3>3. Typed
        BY DEF IInv
      <3>4. /\ queue' \in Seq((Logs \X Parts) \cup {DumpDir})
            /\ plain = {} /\ zips = {} /\ dumps = <<>> => queue' = <<>>
        BY <3>1, <3>3, ScannedType
      <3>5. OneRun => plain = {} /\ zips = {} /\ dumps = <<>>
        BY <1>u, <2>1 DEF IInv, Queued
      <3> QED BY <1>t, <2>1, <3>1, <3>2, <3>4, <3>5
    <2>2. CASE MaxDir > 0 /\ queue # <<>>
      <3>1. queue' = queue /\ total' = DirSize /\ rest' = 0
        BY <2>2 DEF CreateBegin
      <3>2. total' \in Int
        BY <3>1, DirSizeType DEF IInv
      <3> QED BY <1>t, <2>2, <3>1, <3>2 DEF IInv, Typed, TypeOK
    <2>3. CASE ~(MaxDir > 0)
      BY <2>3 DEF CreateBegin, queueVars, IInv, Typed, TypeOK
    <2> QED BY <2>1, <2>2, <2>3
  <1>1. Typed'
    BY <1>o, <1>u, <1>v DEF IInv, Typed, TypeOK
  <1>2. Sizes'
    BY <1>u DEF IInv, Sizes
  <1>3. Compressing'
    BY <1>o, <1>u, <1>v DEF IInv, Compressing
  <1>4. CurrentSafe'
    BY <1>u DEF IInv, CurrentSafe, Files
  <1>5. RingNames'
    BY <1>o, <1>u DEF IInv, RingNames, LogsOnDisk
  <1>6. RingOrder'
    BY <1>o, <1>u DEF IInv, RingOrder, Slot
  <1>7. SetAside'
    BY <1>o, <1>u DEF IInv, SetAside
  <1>8. Queued'
    BY <1>o, <1>u, <1>v DEF IInv, Queued, EveryNameOnDisk
  <1> QED BY <1>1, <1>2, <1>3, <1>4, <1>5, <1>6, <1>7, <1>8 DEF IInv

\* A dump is caught: the newest log leaves the ring.
LEMMA CatchDumpStep ==
    ASSUME IInv, CatchDump, opt' = opt
    PROVE  IInv'
  <1>o. Num' = Num /\ MaxDir' = MaxDir /\ Limit' = Limit /\ OneRun' = OneRun
    BY DEF Num, MaxDir, Limit, OneRun, OpenMayFail
  <1>t. /\ Num \in Nat /\ MaxDir \in Nat /\ Limit \in Nat \ {0}
        /\ opt.sessions \in Nat /\ opt.dumps \in Nat
        /\ opt.logs \in 0 .. MaxLogs /\ MaxLogs \in Nat
        /\ made \in Nat /\ seq \in Nat
    BY OptFacts DEF IInv
  <1>u. /\ mpc = "between" /\ Len(dumps) < opt.dumps
        /\ UNCHANGED <<mpc, session, plain, zips, size, made, seq, ringIdx, cur, saved, queue, total, rest,
                       names, thr>>
        /\ dumps' = Append(dumps, made)
        /\ preDump' = preDump \cup {l \in LogsOnDisk : \A k \in LogsOnDisk : k <= l}
    BY DEF CatchDump, queueVars, zipVars
  <1>a. ring \in [0 .. Num - 1 -> 0 .. made]
    BY DEF IInv, Typed, TypeOK
  <1>b. /\ ring' \in [0 .. Num - 1 -> 0 .. made]
        /\ \A i \in 0 .. Num - 1 : ring'[i] = IF i = ringIdx THEN 0 ELSE ring[i]
    <2>1. CASE Num > 0
      <3>1. ring' = [ring EXCEPT ![ringIdx] = 0]
        BY <2>1 DEF CatchDump, Protect, None
      <3>2. 0 \in 0 .. made
        BY <1>t
      <3> QED BY <1>a, <3>1, <3>2
    <2>2. CASE ~(Num > 0)
      <3>1. ring' = ring /\ 0 .. Num - 1 = {}
        BY <2>2, <1>t DEF CatchDump
      <3> QED BY <1>a, <3>1
    <2> QED BY <2>1, <2>2
  <1>c. \A l \in LogsOnDisk : l \in 1 .. made /\ l \in Nat
    <2> SUFFICES ASSUME NEW l \in LogsOnDisk PROVE l \in 1 .. made
      OBVIOUS
    <2>1. PICK p \in Parts : <<l, p>> \in plain \cup zips
      BY DEF LogsOnDisk
    <2>2. <<l, p>>[1] <= made
      BY <2>1 DEF IInv, Typed
    <2> QED BY <1>t, <2>2 DEF LogsOnDisk, Logs
  <1>1. Typed'
    <2>1. dumps' \in Seq(0 .. made) /\ Len(dumps') <= opt.dumps
      <3>1. dumps \in Seq(0 .. made) /\ made \in 0 .. made
        BY <1>t DEF IInv, Typed, TypeOK
      <3>2. dumps' \in Seq(0 .. made) /\ Len(dumps') = Len(dumps) + 1 /\ Len(dumps) \in Nat
        BY <3>1, <1>u
      <3> QED BY <3>2, <1>t, <1>u
    <2>2. preDump' \subseteq 1 .. made
      BY <1>c, <1>u DEF IInv, Typed
    <2>3. preDump' \subseteq Logs
      BY <1>u DEF IInv, Typed, TypeOK, LogsOnDisk
    <2> QED BY <1>o, <1>u, <1>b, <2>1, <2>2, <2>3 DEF IInv, Typed, TypeOK
  <1>2. Sizes'
    BY <1>u DEF IInv, Sizes
  <1>3. Compressing'
    BY <1>o, <1>u DEF IInv, Compressing
  <1>4. CurrentSafe'
    BY <1>u DEF IInv, CurrentSafe, Files
  <1>5. RingNames'
    <2> SUFFICES ASSUME Num > 0, MaxDir = 0
                 PROVE  /\ ringIdx \in 0 .. Num - 1 /\ ring'[ringIdx] \in {None, made}
                        /\ \A i \in 0 .. Num - 1 : ring'[i] = made /\ made # None => i = ringIdx
                        /\ \A l \in LogsOnDisk \ preDump' : \E i \in 0 .. Num - 1 : ring'[i] = l
      BY <1>o, <1>u DEF RingNames, LogsOnDisk
    <2>1. /\ ringIdx \in 0 .. Num - 1 /\ ring[ringIdx] \in {0, made}
          /\ \A i \in 0 .. Num - 1 : ring[i] = made /\ made # 0 => i = ringIdx
          /\ \A l \in LogsOnDisk \ preDump : \E i \in 0 .. Num - 1 : ring[i] = l
      BY DEF IInv, RingNames, None
    <2>2. ASSUME NEW l \in LogsOnDisk \ preDump' PROVE \E i \in 0 .. Num - 1 : ring'[i] = l
      <3>1. l \in LogsOnDisk \ preDump
        BY <1>u
      <3>2. PICK i \in 0 .. Num - 1 : ring[i] = l
        BY <2>1, <3>1
      <3>3. l # made
        <4>1. PICK k \in LogsOnDisk : ~(k <= l)
          BY <1>u, <3>1
        <4> QED BY <4>1, <1>c, <1>t, <3>1
      <3>4. i # ringIdx
        BY <3>1, <3>2, <3>3, <2>1, <1>c
      <3> QED BY <3>2, <3>4, <1>b
    <2> QED BY <2>1, <2>2, <1>b DEF None
  <1>6. RingOrder'
    <2> SUFFICES ASSUME Num > 0, MaxDir = 0, NEW i \in 0 .. Num - 1, <<ring'[i], 1>> \in plain
                 PROVE  \E s \in 0 .. seq - 1 : Slot(s) = i /\ ring'[i] + (seq - 1 - s) <= made
      BY <1>o, <1>u DEF RingOrder, Slot
    <2>1. ring'[i] # 0
      BY DEF IInv, Typed, TypeOK, Logs
    <2>2. ring'[i] = ring[i]
      BY <2>1, <1>b
    <2> QED BY <2>2 DEF IInv, RingOrder
  <1>7. SetAside'
    <2> SUFFICES ASSUME MaxDir = 0, seq = made
                 PROVE  /\ made # 0 => <<made, 1>> \in plain
                        /\ \A l \in preDump' : /\ <<l, 1>> \in plain
                                               /\ \A i \in 0 .. Num - 1 : ring'[i] # l
      BY <1>o, <1>u DEF SetAside
    <2>1. /\ made # 0 => <<made, 1>> \in plain
          /\ \A l \in preDump : /\ <<l, 1>> \in plain
                                /\ \A i \in 0 .. Num - 1 : ring[i] # l
      BY DEF IInv, SetAside
    <2>2. \A l \in preDump' : l \in 1 .. made
      BY <1>1, <1>u DEF Typed
    <2>3. ASSUME NEW l \in preDump', l \notin preDump
          PROVE  l = made /\ made # 0
      <3>1. l \in LogsOnDisk /\ \A k \in LogsOnDisk : k <= l
        BY <2>3, <1>u
      <3>2. made # 0
        BY <3>1, <1>c, <1>t
      <3>3. made \in LogsOnDisk
        BY <3>2, <2>1, PartFacts, <1>t DEF LogsOnDisk, IInv, Typed, TypeOK, Logs
      <3> QED BY <3>1, <3>2, <3>3, <1>c, <1>t
    <2>4. \A i \in 0 .. Num - 1 : ring[i] = made /\ made # 0 => i = ringIdx
      BY <1>t DEF IInv, RingNames, None
    <2>5. ASSUME NEW l \in preDump' PROVE <<l, 1>> \in plain
      BY <2>1, <2>3
    <2>6. ASSUME NEW l \in preDump', NEW i \in 0 .. Num - 1 PROVE ring'[i] # l
      <3>1. CASE l \in preDump
        <4>1. ring[i] # l
          BY <3>1, <2>1
        <4>2. l # 0
          BY <2>2, <1>t
        <4> QED BY <4>1, <4>2, <1>b
      <3>2. CASE l \notin preDump
        BY <3>2, <2>3, <2>4, <1>b
      <3> QED BY <3>1, <3>2
    <2> QED BY <2>1, <2>5, <2>6
  <1>8. Queued'
    <2>1. OneRun /\ MaxDir > 0 => FALSE
      BY <1>u, <1>t DEF OneRun, IInv, Typed, TypeOK
    <2> QED BY <2>1, <1>o DEF Queued
  <1> QED BY <1>1, <1>2, <1>3, <1>4, <1>5, <1>6, <1>7, <1>8 DEF IInv

\* A file is removed from the directory, or cannot be.
LEMMA RemoveFacts ==
    ASSUME IInv, RemoveOldest
    PROVE  /\ mpc = "check" /\ cur = None /\ MaxDir > 0 /\ queue # <<>>
           /\ UNCHANGED <<mpc, session, size, dumps, made, seq, ring, ringIdx, cur, saved, names, thr,
                          preDump>>
           /\ rest' \in 0 .. 2 /\ total' \in Int
           /\ \/ /\ plain' = plain \ {Head(queue)} /\ Head(queue) \notin zips /\ zips' = zips
                 /\ queue' = Tail(queue)
              \/ plain' = plain /\ zips' = zips \ {Head(queue)} /\ queue' = Tail(queue)
              \/ Head(queue) \notin plain \cup zips /\ UNCHANGED <<plain, zips, queue>>
  <1>1. /\ mpc = "check" /\ queue # <<>>
        /\ UNCHANGED <<mpc, session, size, dumps, made, seq, ring, ringIdx, cur, saved, names, thr, preDump>>
    BY DEF RemoveOldest, MoreToRemove, ringVars, zipVars
  <1>2. cur = None
    BY <1>1 DEF IInv, Typed, TypeOK
  <1>3. MaxDir > 0
    BY <1>1, OptFacts DEF IInv, Compressing
  <1>4. rest' \in 0 .. 2
    <2>1. rest' = IF rest > 0 THEN rest - 1 ELSE Cardinality(Parts) - 1
      BY DEF RemoveOldest
    <2>2. rest \in 0 .. 2 /\ Cardinality(Parts) \in 1 .. 3
      BY PartFacts DEF IInv, Typed, TypeOK
    <2> QED BY <2>1, <2>2
  <1>5. total' \in Int
    <2>1. total \in Int /\ \A f \in plain : size[f] \in Int
      BY OptFacts DEF IInv, Typed, TypeOK
    <2>2. \/ total' = total - 1
          \/ Head(queue) \in plain /\ total' = total - size[Head(queue)]
          \/ total' = total
      BY DEF RemoveOldest
    <2> QED BY <2>1, <2>2
  <1>6. \/ /\ plain' = plain \ {Head(queue)} /\ Head(queue) \notin zips /\ zips' = zips
           /\ queue' = Tail(queue)
        \/ plain' = plain /\ zips' = zips \ {Head(queue)} /\ queue' = Tail(queue)
        \/ Head(queue) \notin plain \cup zips /\ UNCHANGED <<plain, zips, queue>>
    BY DEF RemoveOldest, Dequeued
  <1> QED BY <1>1, <1>2, <1>3, <1>4, <1>5, <1>6

\* With a limit on the directory there is no file of a ring to lose; what is
\* queued behind the head is not the head.
LEMMA RemoveOldestStep ==
    ASSUME IInv, RemoveOldest, opt' = opt
    PROVE  IInv'
  <1>o. Num' = Num /\ MaxDir' = MaxDir /\ Limit' = Limit /\ OneRun' = OneRun
    BY DEF Num, MaxDir, Limit, OneRun, OpenMayFail
  <1>t. /\ Num \in Nat /\ MaxDir \in Nat /\ Limit \in Nat \ {0}
        /\ opt.sessions \in Nat /\ opt.dumps \in Nat
        /\ opt.logs \in 0 .. MaxLogs /\ MaxLogs \in Nat
        /\ made \in Nat /\ seq \in Nat
    BY OptFacts DEF IInv
  <1>u. /\ mpc = "check" /\ cur = None /\ MaxDir > 0 /\ queue # <<>>
        /\ UNCHANGED <<mpc, session, size, dumps, made, seq, ring, ringIdx, cur, saved, names, thr, preDump>>
        /\ rest' \in 0 .. 2 /\ total' \in Int /\ plain' \subseteq plain /\ zips' \subseteq zips
        /\ queue' \in {queue, Tail(queue)}
    BY RemoveFacts
  <1>v. queue \in Seq((Logs \X Parts) \cup {DumpDir})
    BY DEF IInv, Typed, TypeOK
  <1>1. Typed'
    <2>1. queue' \in Seq((Logs \X Parts) \cup {DumpDir})
      BY <1>u, <1>v
    <2> QED BY <1>o, <1>u, <2>1 DEF IInv, Typed, TypeOK
  <1>2. Sizes'
    BY <1>u DEF IInv, Sizes
  <1>3. Compressing'
    BY <1>o, <1>u DEF IInv, Compressing
  <1>4. CurrentSafe'
    BY <1>u DEF CurrentSafe
  <1>5. RingNames'
    BY <1>o, <1>u, <1>t DEF RingNames
  <1>6. RingOrder'
    BY <1>o, <1>u, <1>t DEF RingOrder
  <1>7. SetAside'
    BY <1>o, <1>u, <1>t DEF SetAside
  <1>8. Queued'
    <2> SUFFICES ASSUME OneRun
                 PROVE  /\ EveryNameOnDisk'
                        /\ \A j, k \in 1 .. Len(queue') : queue'[j] = queue'[k] => j = k
                        /\ \A l \in Logs : thr[l].pc = "delete" /\ thr[l].file \notin zips' =>
                                               \A k \in 1 .. Len(queue') : queue'[k] # thr[l].file
                        /\ session # 0 /\ made # 0 /\ dumps = <<>>
      BY <1>o, <1>u DEF Queued
    <2>1. /\ EveryNameOnDisk
          /\ \A j, k \in 1 .. Len(queue) : queue[j] = queue[k] => j = k
          /\ \A l \in Logs : thr[l].pc = "delete" /\ thr[l].file \notin zips =>
                                 \A k \in 1 .. Len(queue) : queue[k] # thr[l].file
          /\ session # 0 /\ made # 0 /\ dumps = <<>>
      BY <1>u DEF IInv, Queued
    <2>2. /\ Len(queue) \in Nat /\ 1 \in 1 .. Len(queue) /\ Head(queue) = queue[1]
          /\ Len(Tail(queue)) = Len(queue) - 1
          /\ \A k \in 1 .. Len(Tail(queue)) : Tail(queue)[k] = queue[k + 1]
      BY <1>u, <1>v
    <2>3. Head(queue) \in plain \cup zips
      BY <2>1, <2>2 DEF EveryNameOnDisk
    <2>4. queue' = Tail(queue)
      BY <2>3, RemoveFacts
    <2>5. ASSUME NEW k \in 1 .. Len(queue')
          PROVE  k + 1 \in 1 .. Len(queue) /\ queue'[k] = queue[k + 1] /\ queue'[k] # Head(queue)
      <3>1. k + 1 \in 1 .. Len(queue) /\ queue'[k] = queue[k + 1] /\ k + 1 # 1
        BY <2>2, <2>4
      <3> QED BY <3>1, <2>1, <2>2
    <2>6. EveryNameOnDisk'
      <3> SUFFICES ASSUME NEW k \in 1 .. Len(queue') PROVE queue'[k] \in plain' \cup zips'
        BY DEF EveryNameOnDisk
      <3>1. queue'[k] \in plain \cup zips /\ queue'[k] # Head(queue)
        BY <2>1, <2>5 DEF EveryNameOnDisk
      <3> QED BY <3>1, RemoveFacts
    <2>7. \A j, k \in 1 .. Len(queue') : queue'[j] = queue'[k] => j = k
      <3> SUFFICES ASSUME NEW j \in 1 .. Len(queue'), NEW k \in 1 .. Len(queue'), queue'[j] = queue'[k]
                   PROVE  j = k
        OBVIOUS
      <3>1. j + 1 = k + 1
        BY <2>1, <2>5
      <3> QED BY <3>1
    <2>8. ASSUME NEW l \in Logs, thr[l].pc = "delete", thr[l].file \notin zips',
                 NEW k \in 1 .. Len(queue')
          PROVE  queue'[k] # thr[l].file
      <3>1. CASE thr[l].file \notin zips
        BY <3>1, <2>1, <2>5, <2>8
      <3>2. CASE thr[l].file \in zips
        <4>1. thr[l].file = Head(queue)
          BY <3>2, <2>8, RemoveFacts
        <4> QED BY <4>1, <2>5
      <3> QED BY <3>1, <3>2
    <2> QED BY <2>1, <2>6, <2>7, <2>8
  <1> QED BY <1>1, <1>2, <1>3, <1>4, <1>5, <1>6, <1>7, <1>8 DEF IInv

\* Queue r is q, with the name of part p of log n behind it if it is configured.
Behind(r, q, n, p) ==
    /\ Len(r) \in Nat /\ Len(r) >= Len(q) /\ (p \in Parts => Len(r) = Len(q) + 1)
    /\ \A k \in 1 .. Len(r) : \/ k \in 1 .. Len(q) /\ r[k] = q[k]
                              \/ p \in Parts /\ k = Len(q) + 1 /\ r[k] = <<n, p>>

\* Queueing the name of a part.
LEMMA Queueing ==
    ASSUME NEW S, NEW q \in Seq(S), NEW n, NEW p, p \in Parts => <<n, p>> \in S
    PROVE  q \o Name(n, p) \in Seq(S) /\ Behind(q \o Name(n, p), q, n, p)
  <1>1. CASE p \in Parts
    <2> DEFINE f == <<n, p>>
               r == q \o <<f>>
    <2>1. f \in S /\ r = q \o Name(n, p)
      BY <1>1 DEF Name
    <2> HIDE DEF f
    <2>2. <<f>> \in Seq(S) /\ Len(<<f>>) = 1 /\ <<f>>[1] = f
      BY <2>1
    <2>3. r \in Seq(S) /\ Len(r) = Len(q) + 1 /\ Len(q) \in Nat
      BY <2>1, <2>2
    <2>4. \A k \in 1 .. Len(q) + 1 : r[k] = IF k <= Len(q) THEN q[k] ELSE f
      BY <2>1, <2>2, <2>3
    <2> HIDE DEF r
    <2>5. \A k \in 1 .. Len(r) : \/ k \in 1 .. Len(q) /\ r[k] = q[k]
                                 \/ k = Len(q) + 1 /\ r[k] = f
      BY <2>3, <2>4
    <2>6. Len(r) \in Nat /\ Len(r) >= Len(q)
      BY <2>3
    <2>7. Behind(r, q, n, p)
      BY <1>1, <2>3, <2>5, <2>6, Zenon DEF f, Behind
    <2> QED BY <2>1, <2>3, <2>7, Zenon
  <1>2. CASE p \notin Parts
    <2>1. q \o Name(n, p) = q
      BY <1>2 DEF Name
    <2>2. Len(q) \in Nat /\ Len(q) >= Len(q)
      OBVIOUS
    <2>3. Behind(q, q, n, p)
      BY <1>2, <2>2 DEF Behind
    <2> QED BY <2>1, <2>3
  <1> QED BY <1>1, <1>2

\* What a new log's names add to a queue that holds no name of it.
LEMMA QueuedNames ==
    ASSUME NEW S, NEW q \in Seq(S), NEW n, \A p \in Parts : <<n, p>> \in S
    PROVE  LET r == q \o Name(n, 1) \o Name(n, 2) \o Name(n, 3)
           IN  /\ r \in Seq(S) /\ r # <<>>
               /\ \A k \in 1 .. Len(r) : (\E j \in 1 .. Len(q) : r[k] = q[j]) \/ r[k] \in Files(n)
               /\ (/\ \A j \in 1 .. Len(q) : q[j] \notin {n} \X Parts
                   /\ \A j, k \in 1 .. Len(q) : q[j] = q[k] => j = k)
                  => \A j, k \in 1 .. Len(r) : r[j] = r[k] => j = k
  <1> DEFINE q1 == q \o Name(n, 1)
             q2 == q1 \o Name(n, 2)
             r == q2 \o Name(n, 3)
  <1>q. Len(q) \in Nat
    OBVIOUS
  <1>1. /\ q1 \in Seq(S) /\ Len(q1) \in Nat /\ Len(q1) = Len(q) + 1
        /\ \A k \in 1 .. Len(q1) : \/ k \in 1 .. Len(q) /\ q1[k] = q[k]
                                   \/ 1 \in Parts /\ k = Len(q) + 1 /\ q1[k] = <<n, 1>>
    <2>1. 1 \in Parts /\ (1 \in Parts => <<n, 1>> \in S)
      BY PartFacts, Zenon
    <2>2. q1 \in Seq(S) /\ Behind(q1, q, n, 1)
      BY <2>1, Queueing, Zenon
    <2> HIDE DEF q1
    <2> QED BY <2>1, <2>2 DEF Behind
  <1> HIDE DEF q1
  <1>2. /\ q2 \in Seq(S) /\ Len(q2) \in Nat /\ Len(q2) >= Len(q1)
        /\ \A k \in 1 .. Len(q2) : \/ k \in 1 .. Len(q1) /\ q2[k] = q1[k]
                                   \/ 2 \in Parts /\ k = Len(q1) + 1 /\ q2[k] = <<n, 2>>
    <2>1. 2 \in Parts => <<n, 2>> \in S
      BY Zenon
    <2>2. q2 \in Seq(S) /\ Behind(q2, q1, n, 2)
      BY <1>1, <2>1, Queueing, Zenon
    <2> HIDE DEF q2
    <2> QED BY <2>1, <2>2 DEF Behind
  <1> HIDE DEF q2
  <1>3. /\ r \in Seq(S) /\ Len(r) \in Nat /\ Len(r) >= Len(q2)
        /\ \A k \in 1 .. Len(r) : \/ k \in 1 .. Len(q2) /\ r[k] = q2[k]
                                  \/ 3 \in Parts /\ k = Len(q2) + 1 /\ r[k] = <<n, 3>>
    <2>1. 3 \in Parts => <<n, 3>> \in S
      BY Zenon
    <2>2. r \in Seq(S) /\ Behind(r, q2, n, 3)
      BY <1>2, <2>1, Queueing, Zenon
    <2> HIDE DEF r
    <2> QED BY <2>1, <2>2 DEF Behind
  <1> HIDE DEF r
  <1>4. r # <<>>
    <2>1. Len(r) >= 1 /\ Len(<<>>) = 0
      BY <1>q, <1>1, <1>2, <1>3
    <2> QED BY <2>1
  <1>5. \A k \in 1 .. Len(r) : (\E j \in 1 .. Len(q) : r[k] = q[j]) \/ r[k] \in Files(n)
    <2>1. \A p \in Parts : <<n, p>> \in Files(n)
      BY DEF Files
    <2>2. \A k \in 1 .. Len(q1) : (\E j \in 1 .. Len(q) : q1[k] = q[j]) \/ q1[k] \in Files(n)
      BY <1>1, <2>1
    <2>3. \A k \in 1 .. Len(q2) : (\E j \in 1 .. Len(q) : q2[k] = q[j]) \/ q2[k] \in Files(n)
      BY <1>2, <2>1, <2>2
    <2> QED BY <1>3, <2>1, <2>3
  <1>6. ASSUME \A j \in 1 .. Len(q) : q[j] \notin {n} \X Parts,
               \A j, k \in 1 .. Len(q) : q[j] = q[k] => j = k
        PROVE  \A j, k \in 1 .. Len(r) : r[j] = r[k] => j = k
    <2>0. <<n, 1>> # <<n, 2>> /\ <<n, 1>> # <<n, 3>> /\ <<n, 2>> # <<n, 3>>
      OBVIOUS
    <2>a. \A p \in Parts : \A j \in 1 .. Len(q) : q[j] # <<n, p>>
      <3>1. \A p \in Parts : <<n, p>> \in {n} \X Parts
        OBVIOUS
      <3> QED BY <1>6, <3>1, Zenon
    <2>1. \A j, k \in 1 .. Len(q1) : q1[j] = q1[k] => j = k
      BY <1>1, <1>6, <2>a
    <2>2. \A k \in 1 .. Len(q1) : \A p \in Parts : p # 1 => q1[k] # <<n, p>>
      BY <1>1, <2>a
    <2>3. \A j, k \in 1 .. Len(q2) : q2[j] = q2[k] => j = k
      BY <1>2, <2>1, <2>2
    <2>4. \A k \in 1 .. Len(q2) : 3 \in Parts => q2[k] # <<n, 3>>
      BY <1>2, <2>2, <2>0
    <2> QED BY <1>3, <2>3, <2>4
  <1> QED BY <1>3, <1>4, <1>5, <1>6 DEF r, q2, q1

\* What creating a log does.
LEMMA CreateFacts ==
    ASSUME IInv, NEW ok \in BOOLEAN, CreateFile(ok)
    PROVE  /\ mpc = "create" /\ cur = None /\ saved = 0 /\ made + 1 \in Logs /\ made < opt.logs
           /\ made' = made + 1
           /\ UNCHANGED <<session, zips, size, dumps, saved, total, rest, names, thr, preDump>>
           /\ plain' = (plain \ Evicted) \cup {f \in Files(made + 1) : ok \/ f[2] # 1}
           /\ Num = 0 => UNCHANGED <<ring, ringIdx>>
           /\ Num > 0 => /\ ring' = [ring EXCEPT ![Slot(seq)] = made + 1] /\ ringIdx' = Slot(seq)
                         /\ Slot(seq) \in 0 .. Num - 1
           /\ MaxDir = 0 => queue' = queue
           /\ MaxDir > 0 => queue' = queue \o Name(made + 1, 1) \o Name(made + 1, 2) \o Name(made + 1, 3)
           /\ ok => mpc' = "open" /\ cur' = made + 1 /\ seq' = seq + 1
           /\ ~ok => mpc' = "between" /\ cur' = None /\ seq' = seq
  <1>1. Typed
    BY DEF IInv
  <1>2. /\ Num \in Nat /\ MaxDir \in Nat /\ made \in Nat /\ seq \in Nat /\ opt.logs \in 0 .. MaxLogs
        /\ MaxLogs \in Nat
    BY <1>1, OptFacts
  <1>3. mpc = "create" /\ made' = made + 1
    BY DEF CreateFile
  <1>4. cur = None /\ saved = 0 /\ made < opt.logs
    BY <1>3 DEF IInv, Typed, TypeOK, Sizes
  <1>5. made + 1 \in Logs
    BY <1>2, <1>4 DEF Logs
  <1>6. Num > 0 => Slot(seq) \in 0 .. Num - 1
    BY <1>1, <1>2, SlotType
  <1>7. UNCHANGED <<session, zips, size, dumps, saved, total, rest, names, thr, preDump>>
    BY DEF CreateFile, zipVars
  <1>8. /\ Num = 0 => UNCHANGED <<ring, ringIdx>>
        /\ Num > 0 => ring' = [ring EXCEPT ![Slot(seq)] = made + 1] /\ ringIdx' = Slot(seq)
    BY <1>2 DEF CreateFile
  <1>9. /\ MaxDir = 0 => queue' = queue
        /\ MaxDir > 0 => queue' = queue \o Name(made + 1, 1) \o Name(made + 1, 2) \o Name(made + 1, 3)
    BY <1>2, SMTT(30) DEF CreateFile
  <1>10. /\ ok => mpc' = "open" /\ cur' = made + 1 /\ seq' = seq + 1
         /\ ~ok => mpc' = "between" /\ cur' = None /\ seq' = seq
    BY <1>4 DEF CreateFile
  <1>11. plain' = (plain \ Evicted) \cup {f \in Files(made + 1) : ok \/ f[2] # 1}
    BY DEF CreateFile
  <1> QED BY <1>3, <1>4, <1>5, <1>6, <1>7, <1>8, <1>9, <1>10, <1>11

\* What is on disk after a log has been created, part by part.
LEMMA CreatePlain ==
    ASSUME IInv, NEW ok \in BOOLEAN, CreateFile(ok)
    PROVE  /\ \A f \in plain' : \/ f \in plain /\ f \in Logs \X Parts /\ f[1] <= made
                                   /\ f[1] # OldestOfRing
                                \/ f \in Files(made + 1) /\ (ok \/ f[2] # 1)
           /\ \A l, p : <<l, p>> \in plain /\ l # OldestOfRing => <<l, p>> \in plain'
           /\ ok => Files(made + 1) \subseteq plain'
  <1>1. plain' = (plain \ Evicted) \cup {f \in Files(made + 1) : ok \/ f[2] # 1}
    BY CreateFacts
  <1>2. plain \subseteq Logs \X Parts /\ \A f \in plain : f[1] <= made
    BY DEF IInv, Typed, TypeOK
  <1>3. ASSUME NEW f \in plain, f \notin Evicted PROVE f[1] # OldestOfRing
    <2>1. f = <<f[1], f[2]>> /\ f[2] \in Parts
      BY <1>2
    <2> QED BY <2>1, <1>3 DEF Evicted, Files
  <1>4. ASSUME NEW l, NEW p, <<l, p>> \in plain, l # OldestOfRing PROVE <<l, p>> \in plain'
    <2>1. <<l, p>> \notin Evicted
      BY <1>4 DEF Evicted, Files
    <2> QED BY <2>1, <1>4, <1>1
  <1>5. ASSUME ok PROVE Files(made + 1) \subseteq plain'
    BY <1>1, <1>5
  <1>6. ASSUME NEW f \in plain'
        PROVE  \/ f \in plain /\ f \in Logs \X Parts /\ f[1] <= made /\ f[1] # OldestOfRing
               \/ f \in Files(made + 1) /\ (ok \/ f[2] # 1)
    BY <1>1, <1>2, <1>3
  <1> QED BY <1>4, <1>5, <1>6

\* A log is created, in place of the oldest one of a ring.
LEMMA CreateFileStep ==
    ASSUME IInv, NEW ok \in {TRUE, ~OpenMayFail}, CreateFile(ok), opt' = opt
    PROVE  IInv'
  <1>o. Num' = Num /\ MaxDir' = MaxDir /\ Limit' = Limit /\ OneRun' = OneRun
    BY DEF Num, MaxDir, Limit, OneRun, OpenMayFail
  <1>t. /\ Num \in Nat /\ MaxDir \in Nat /\ Limit \in Nat \ {0}
        /\ opt.sessions \in Nat /\ opt.dumps \in Nat
        /\ opt.logs \in 0 .. MaxLogs /\ MaxLogs \in Nat
        /\ made \in Nat /\ seq \in Nat
    BY OptFacts DEF IInv
  <1>k. ok \in BOOLEAN /\ (~OpenMayFail => ok)
    BY OptFacts DEF IInv
  <1>u. /\ mpc = "create" /\ cur = None /\ saved = 0 /\ made + 1 \in Logs /\ made < opt.logs
        /\ made' = made + 1
        /\ UNCHANGED <<session, zips, size, dumps, saved, total, rest, names, thr, preDump>>
        /\ Num = 0 => UNCHANGED <<ring, ringIdx>>
        /\ Num > 0 => /\ ring' = [ring EXCEPT ![Slot(seq)] = made + 1] /\ ringIdx' = Slot(seq)
                      /\ Slot(seq) \in 0 .. Num - 1
        /\ MaxDir = 0 => queue' = queue
        /\ MaxDir > 0 => queue' = queue \o Name(made + 1, 1) \o Name(made + 1, 2) \o Name(made + 1, 3)
        /\ ok => mpc' = "open" /\ cur' = made + 1 /\ seq' = seq + 1
        /\ ~ok => mpc' = "between" /\ cur' = None /\ seq' = seq
    BY <1>k, CreateFacts
  <1>p. /\ \A f \in plain' : \/ f \in plain /\ f \in Logs \X Parts /\ f[1] <= made /\ f[1] # OldestOfRing
                             \/ f \in Files(made + 1) /\ (ok \/ f[2] # 1)
        /\ \A l, p : <<l, p>> \in plain /\ l # OldestOfRing => <<l, p>> \in plain'
        /\ ok => Files(made + 1) \subseteq plain'
    BY <1>k, CreatePlain
  <1>r. ring \in [0 .. Num - 1 -> 0 .. made] /\ ringIdx \in Nat /\ seq \in 0 .. made
    BY DEF IInv, Typed, TypeOK
  <1>s. /\ ring' \in [0 .. Num - 1 -> 0 .. made + 1] /\ ringIdx' \in Nat
        /\ Num > 0 => \A i \in 0 .. Num - 1 : ring'[i] = IF i = Slot(seq) THEN made + 1 ELSE ring[i]
    <2>1. CASE Num = 0
      BY <2>1, <1>r, <1>u, <1>t
    <2>2. CASE Num > 0
      <3>1. made + 1 \in 0 .. made + 1 /\ ring \in [0 .. Num - 1 -> 0 .. made + 1]
        BY <1>r, <1>t
      <3>2. /\ ring' = [ring EXCEPT ![Slot(seq)] = made + 1] /\ ringIdx' = Slot(seq)
            /\ Slot(seq) \in 0 .. Num - 1
        BY <2>2, <1>u
      <3>3. ring' \in [0 .. Num - 1 -> 0 .. made + 1]
        BY <3>1, <3>2
      <3>4. \A i \in 0 .. Num - 1 : ring'[i] = IF i = Slot(seq) THEN made + 1 ELSE ring[i]
        BY <3>1, <3>2
      <3>5. ringIdx' \in Nat
        BY <3>2, <1>t
      <3> QED BY <3>3, <3>4, <3>5
    <2> QED BY <2>1, <2>2, <1>t
  <1>w. \A p \in Parts : <<made + 1, p>> \in Files(made + 1) /\ <<made + 1, p>> \in Logs \X Parts
    BY <1>u DEF Files
  <1>x. \A f \in Files(made + 1) : f \in Logs \X Parts /\ f[1] = made + 1
    BY <1>u DEF Files
  <1>1. Typed'
    <2>1. plain' \subseteq Logs \X Parts
      BY <1>p, <1>x
    <2>2. \A f \in plain' \cup zips' : f[1] <= made + 1
      <3>1. \A f \in plain \cup zips : f[1] <= made /\ f[1] \in Nat
        BY DEF IInv, Typed, TypeOK, Logs
      <3>2. \A f \in plain' : f \in plain \/ f[1] = made + 1
        BY <1>p, <1>x
      <3> QED BY <3>1, <3>2, <1>u, <1>t
    <2>3. dumps \in Seq(0 .. made + 1)
      <3>1. dumps \in Seq(0 .. made) /\ 0 .. made \subseteq 0 .. made + 1
        BY <1>t DEF IInv, Typed, TypeOK
      <3> QED BY <3>1, SeqMonotonic
    <2>4. made + 1 \in 0 .. MaxLogs /\ seq' \in 0 .. made + 1
      BY <1>k, <1>u, <1>r, <1>t DEF Logs
    <2>5. cur' \in {None, made + 1} /\ (mpc' = "open" <=> cur' # None) /\ mpc' \in {"open", "between"}
      <3>1. made + 1 # None
        BY <1>t DEF None
      <3> QED BY <3>1, <1>k, <1>u
    <2>6. queue' \in Seq((Logs \X Parts) \cup {DumpDir})
      <3>1. CASE MaxDir = 0
        BY <3>1, <1>u DEF IInv, Typed, TypeOK
      <3>2. CASE MaxDir > 0
        <4> DEFINE S == (Logs \X Parts) \cup {DumpDir}
        <4>1. queue \in Seq(S) /\ \A p \in Parts : <<made + 1, p>> \in S
          BY <1>w DEF IInv, Typed, TypeOK
        <4> HIDE DEF S
        <4>2. queue \o Name(made + 1, 1) \o Name(made + 1, 2) \o Name(made + 1, 3) \in Seq(S)
          BY <4>1, QueuedNames, Zenon
        <4>3. queue' \in Seq(S)
          BY <3>2, <4>2, <1>u
        <4> QED BY <4>3 DEF S
      <3> QED BY <3>1, <3>2, <1>t
    <2>7. preDump \subseteq 1 .. made + 1
      BY <1>t DEF IInv, Typed
    <2>8. mpc' \notin {"check", "create"}
      BY <2>5
    <2> QED BY <1>o, <1>u, <1>s, <2>1, <2>2, <2>3, <2>4, <2>5, <2>6, <2>7, <2>8 DEF IInv, Typed, TypeOK
  <1>2. Sizes'
    <2>1. \A f \in Logs \X Parts : f[1] > made => size[f] = 0
      BY DEF IInv, Sizes
    <2>2. \A f \in Logs \X Parts : f[1] > made + 1 => size[f] = 0
      BY <2>1, <1>t DEF Logs
    <2>3. \A p \in Parts : size[<<made + 1, p>>] = 0
      <3> TAKE p \in Parts
      <3>1. <<made + 1, p>> \in Logs \X Parts /\ <<made + 1, p>>[1] > made
        BY <1>w, <1>t
      <3> QED BY <3>1, <2>1
    <2>4. mpc' \in {"open", "between"} /\ (mpc' = "open" => cur' = made + 1)
      BY <1>k, <1>u
    <2> QED BY <2>2, <2>3, <2>4, <1>u DEF Sizes
  <1>3. Compressing'
    <2>1. \A p \in 1 .. 3 : names[p][1] <= made /\ names[p][1] \in Nat
      <3>1. \A p \in 1 .. 3 : names[p] \in (Logs \X Parts) \cup {NoFile} /\ names[p][1] <= made
        BY DEF IInv, Typed, TypeOK, Compressing
      <3>2. \A f \in (Logs \X Parts) \cup {NoFile} : f[1] \in Nat
        BY DEF Logs, NoFile
      <3> QED BY <3>1, <3>2
    <2>2. \A l \in Logs : thr[l].file[1] <= made /\ thr[l].file[1] \in Nat
      <3>1. \A l \in Logs : thr[l].file \in (Logs \X Parts) \cup {NoFile} /\ thr[l].file[1] <= made
        BY ThreadFacts DEF IInv, Compressing
      <3>2. \A f \in (Logs \X Parts) \cup {NoFile} : f[1] \in Nat
        BY DEF Logs, NoFile
      <3> QED BY <3>1, <3>2
    <2>3. cur' \in {None, made + 1} /\ mpc' \in {"open", "between"}
      BY <1>k, <1>u
    <2>4. \A p \in 1 .. 3 : names[p][1] <= made + 1 /\ (cur' # None => names[p][1] # cur')
      BY <2>1, <2>3, <1>t
    <2>5. \A l \in Logs : thr[l].file[1] <= made + 1 /\ (cur' # None => thr[l].file[1] # cur')
      BY <2>2, <2>3, <1>t
    <2> QED BY <1>o, <1>u, <2>3, <2>4, <2>5 DEF IInv, Compressing
  <1>4. CurrentSafe'
    BY <1>k, <1>u, <1>p DEF CurrentSafe, Files
  <1>5. RingNames'
    <2> SUFFICES ASSUME Num > 0, MaxDir = 0
                 PROVE  /\ ringIdx' \in 0 .. Num - 1 /\ ring'[ringIdx'] \in {None, made + 1}
                        /\ \A i \in 0 .. Num - 1 : ring'[i] = made + 1 => i = ringIdx'
                        /\ \A l \in LogsOnDisk' \ preDump : \E i \in 0 .. Num - 1 : ring'[i] = l
      BY <1>o, <1>u DEF RingNames
    <2>1. \A l \in LogsOnDisk \ preDump : \E i \in 0 .. Num - 1 : ring[i] = l
      BY DEF IInv, RingNames
    <2>2. ringIdx' = Slot(seq) /\ Slot(seq) \in 0 .. Num - 1
      BY <1>u
    <2>3. \A i \in 0 .. Num - 1 : ring'[i] = made + 1 => i = ringIdx'
      BY <1>s, <1>r, <1>t, <2>2
    <2>4. ASSUME NEW l \in LogsOnDisk' \ preDump PROVE \E i \in 0 .. Num - 1 : ring'[i] = l
      <3>1. zips' = {}
        BY <1>u DEF IInv, Compressing
      <3>2. PICK p \in Parts : l \in Logs /\ <<l, p>> \in plain'
        BY <3>1 DEF LogsOnDisk
      <3>3. CASE <<l, p>> \in plain /\ l # OldestOfRing
        <4>1. l \in LogsOnDisk \ preDump
          BY <3>2, <3>3 DEF LogsOnDisk
        <4>2. PICK i \in 0 .. Num - 1 : ring[i] = l
          BY <4>1, <2>1
        <4>3. i # Slot(seq)
          BY <4>2, <3>3, <1>t DEF OldestOfRing
        <4> QED BY <4>2, <4>3, <1>s
      <3>4. CASE l = made + 1
        BY <3>4, <2>2, <1>s
      <3>5. \/ <<l, p>> \in plain /\ <<l, p>>[1] # OldestOfRing
            \/ <<l, p>> \in Files(made + 1)
        BY <3>2, <1>p
      <3> QED BY <3>3, <3>4, <3>5 DEF Files
    <2> QED BY <2>2, <2>3, <2>4, <1>s
  <1>6. RingOrder'
    <2> SUFFICES ASSUME Num > 0, MaxDir = 0, NEW i \in 0 .. Num - 1, <<ring'[i], 1>> \in plain'
                 PROVE  \E s \in 0 .. seq' - 1 : Slot(s) = i /\ ring'[i] + (seq' - 1 - s) <= made + 1
      BY <1>o, <1>u DEF RingOrder, Slot
    <2>1. CASE i = Slot(seq)
      <3>1. ring'[i] = made + 1
        BY <2>1, <1>s
      <3>2. ok
        <4>1. \/ <<made + 1, 1>>[1] <= made
              \/ ok \/ <<made + 1, 1>>[2] # 1
          BY <3>1, <1>p
        <4> QED BY <4>1, <1>t
      <3>3. seq' = seq + 1
        BY <3>2, <1>u
      <3>4. seq \in 0 .. seq' - 1 /\ Slot(seq) = i /\ ring'[i] + (seq' - 1 - seq) <= made + 1
        BY <2>1, <3>1, <3>3, <1>t
      <3> QED BY <3>4
    <2>2. CASE i # Slot(seq)
      <3>1. ring'[i] = ring[i] /\ ring[i] \in 0 .. made
        BY <2>2, <1>s, <1>r
      <3>2. <<ring[i], 1>> \in plain
        <4>1. <<ring[i], 1>> \in plain \/ <<ring[i], 1>> \in Files(made + 1)
          BY <3>1, <1>p
        <4>2. <<ring[i], 1>> \notin Files(made + 1)
          <5>1. ring[i] # made + 1
            BY <3>1, <1>t
          <5> QED BY <5>1 DEF Files
        <4> QED BY <4>1, <4>2
      <3>3. PICK s \in 0 .. seq - 1 : Slot(s) = i /\ ring[i] + (seq - 1 - s) <= made
        BY <3>2 DEF IInv, RingOrder
      <3>4. seq' \in {seq, seq + 1}
        BY <1>k, <1>u
      <3>5. s \in 0 .. seq' - 1 /\ ring[i] + (seq' - 1 - s) <= made + 1
        <4>1. s \in Nat /\ s <= seq - 1 /\ ring[i] \in Nat
          BY <3>1, <3>3, <1>t
        <4>2. seq \in Nat /\ made \in Nat /\ ring[i] + (seq - 1 - s) <= made
          BY <3>3, <1>t
        <4>3. CASE seq' = seq
          BY <4>1, <4>2, <4>3
        <4>4. CASE seq' = seq + 1
          BY <4>1, <4>2, <4>4
        <4> QED BY <4>3, <4>4, <3>4
      <3> QED BY <3>1, <3>3, <3>5
    <2> QED BY <2>1, <2>2
  <1>7. SetAside'
    <2> SUFFICES ASSUME MaxDir = 0, seq' = made + 1
                 PROVE  /\ <<made + 1, 1>> \in plain'
                        /\ \A l \in preDump : /\ <<l, 1>> \in plain'
                                              /\ \A i \in 0 .. Num - 1 : ring'[i] # l
      BY <1>o, <1>u DEF SetAside
    <2>1. ok /\ seq = made
      <3>1. CASE ok
        BY <3>1, <1>u, <1>t
      <3>2. CASE ~ok
        BY <3>2, <1>u, <1>t, <1>r
      <3> QED BY <3>1, <3>2
    <2>2. <<made + 1, 1>> \in plain'
      BY <2>1, <1>p, <1>w, PartFacts
    <2>3. \A l \in preDump : l \in 1 .. made /\ <<l, 1>> \in plain /\ \A i \in 0 .. Num - 1 : ring[i] # l
      BY <2>1 DEF IInv, SetAside, Typed
    <2>4. ASSUME NEW l \in preDump PROVE l # OldestOfRing
      <3>1. CASE Num = 0
        <4>1. l \in 1 .. made
          BY <2>3
        <4>2. l # 0
          BY <4>1
        <4> QED BY <3>1, <4>2 DEF OldestOfRing, None
      <3>2. CASE Num # 0
        <4>1. Slot(seq) \in 0 .. Num - 1
          BY <3>2, <1>u, <1>t
        <4> QED BY <3>2, <4>1, <2>3 DEF OldestOfRing
      <3> QED BY <3>1, <3>2
    <2>5. ASSUME NEW l \in preDump PROVE <<l, 1>> \in plain'
      BY <2>3, <2>4, <1>p
    <2>6. ASSUME NEW l \in preDump, NEW i \in 0 .. Num - 1 PROVE ring'[i] # l
      <3>1. l # made + 1
        <4>1. l \in 1 .. made
          BY <2>3
        <4> QED BY <4>1, <1>t
      <3>2. ring[i] # l
        BY <2>3
      <3>3. Num > 0
        BY <1>t
      <3> QED BY <3>1, <3>2, <3>3, <1>s
    <2> QED BY <2>2, <2>5, <2>6
  <1>8. Queued'
    <2> SUFFICES ASSUME OneRun, MaxDir > 0
                 PROVE  /\ EveryNameOnDisk'
                        /\ \A j, k \in 1 .. Len(queue') : queue'[j] = queue'[k] => j = k
                        /\ \A l \in Logs : thr[l].pc = "delete" /\ thr[l].file \notin zips =>
                                               \A k \in 1 .. Len(queue') : queue'[k] # thr[l].file
                        /\ session # 0 /\ made + 1 # 0 /\ dumps = <<>> /\ queue' # <<>>
      BY <1>o, <1>u DEF Queued
    <2>1. /\ EveryNameOnDisk
          /\ \A j, k \in 1 .. Len(queue) : queue[j] = queue[k] => j = k
          /\ \A l \in Logs : thr[l].pc = "delete" /\ thr[l].file \notin zips =>
                                 \A k \in 1 .. Len(queue) : queue[k] # thr[l].file
          /\ session # 0 /\ dumps = <<>>
      BY <1>u DEF IInv, Queued
    <2>2. ok /\ OldestOfRing = 0
      BY <1>k DEF OneRun, OldestOfRing, None
    <2> DEFINE S == (Logs \X Parts) \cup {DumpDir}
    <2>3. queue \in Seq(S) /\ \A p \in Parts : <<made + 1, p>> \in S
      BY <1>w DEF IInv, Typed, TypeOK
    <2>4. \A f \in plain \cup zips : f \in Logs \X Parts /\ f[1] <= made
      BY DEF IInv, Typed, TypeOK
    <2>5. \A j \in 1 .. Len(queue) : queue[j] \notin {made + 1} \X Parts
      <3>1. \A f \in {made + 1} \X Parts : ~(f[1] <= made)
        BY <1>t
      <3> QED BY <3>1, <2>1, <2>4 DEF EveryNameOnDisk
    <2> HIDE DEF S
    <2> DEFINE r == queue \o Name(made + 1, 1) \o Name(made + 1, 2) \o Name(made + 1, 3)
    <2>6. /\ r # <<>>
          /\ \A k \in 1 .. Len(r) : (\E j \in 1 .. Len(queue) : r[k] = queue[j]) \/ r[k] \in Files(made + 1)
          /\ \A j, k \in 1 .. Len(r) : r[j] = r[k] => j = k
      BY <2>1, <2>3, <2>5, QueuedNames, Zenon
    <2>7. queue' = r
      BY <1>u
    <2> HIDE DEF r
    <2>8. \A k \in 1 .. Len(queue') : (\E j \in 1 .. Len(queue) : queue'[k] = queue[j])
                                      \/ queue'[k] \in Files(made + 1)
      BY <2>6, <2>7
    <2>9. plain \subseteq plain'
      <3> SUFFICES ASSUME NEW f \in plain PROVE f \in plain'
        OBVIOUS
      <3>1. f = <<f[1], f[2]>> /\ f[1] \in Logs
        BY <2>4
      <3>2. f[1] # 0
        BY <3>1 DEF Logs
      <3> QED BY <3>1, <3>2, <2>2, <1>p
    <2>10. EveryNameOnDisk'
      BY <2>1, <2>2, <2>8, <2>9, <1>p, <1>u DEF EveryNameOnDisk
    <2>11. ASSUME NEW l \in Logs, thr[l].pc = "delete", thr[l].file \notin zips,
                  NEW k \in 1 .. Len(queue')
           PROVE  queue'[k] # thr[l].file
      <3>1. thr[l].file[1] <= made
        BY DEF IInv, Compressing
      <3>2. thr[l].file \notin Files(made + 1)
        <4>1. ~(made + 1 <= made)
          BY <1>t
        <4> QED BY <4>1, <3>1, <1>x
      <3> QED BY <3>2, <2>1, <2>8, <2>11
    <2>12. made + 1 # 0
      BY <1>t
    <2> QED BY <2>1, <2>6, <2>7, <2>10, <2>11, <2>12
  <1> QED BY <1>1, <1>2, <1>3, <1>4, <1>5, <1>6, <1>7, <1>8 DEF IInv

-----------------------------------------------------------------------------
(* The compress threads.                                                   *)

\* Threads run only with compression; one that works on a file has a part and a
\* name there is.
LEMMA RunningFacts ==
    ASSUME IInv, NEW l \in Logs, thr[l].pc # "off"
    PROVE  /\ MaxDir > 0 /\ thr \in [Logs -> Threads] /\ thr[l] \in Threads
           /\ LastPart \in 1 .. 3 /\ thr[l].part \in 1 .. 4
           /\ thr[l].pc \in {"zip", "delete"} =>
                  /\ thr[l].part <= LastPart /\ thr[l].file \in Logs \X Parts
                  /\ thr[l].file[1] <= made
                  /\ cur # None => thr[l].file[1] # cur
  <1>1. MaxDir > 0
    BY OptFacts DEF IInv, Compressing
  <1>2. thr \in [Logs -> Threads] /\ thr[l] \in Threads /\ thr[l].part \in 1 .. 4
    BY ThreadFacts DEF IInv, Typed
  <1>3. LastPart \in 1 .. 3
    BY PartFacts
  <1>4. thr[l].file \in (Logs \X Parts) \cup {NoFile}
    BY ThreadFacts DEF IInv
  <1>5. thr[l].pc \in {"zip", "delete"} =>
                  /\ thr[l].part <= LastPart /\ thr[l].file # NoFile
                  /\ thr[l].file[1] <= made
                  /\ cur # None => thr[l].file[1] # cur
    BY DEF IInv, Compressing
  <1> QED BY <1>1, <1>2, <1>3, <1>4, <1>5

\* A thread takes its next name, goes on to the next part, or ends.
LEMMA TakeFacts ==
    ASSUME IInv, NEW l \in Logs, ThreadTake(l)
    PROVE  /\ MaxDir > 0 /\ thr' \in [Logs -> Threads]
           /\ UNCHANGED <<mpc, session, plain, zips, size, dumps, made, seq, ring, ringIdx, cur, saved, queue,
                          total, rest, names, preDump>>
           /\ \A k \in Logs : k # l => thr'[k] = thr[k]
           /\ \/ /\ thr'[l].pc = "zip" /\ thr'[l].part = thr[l].part /\ thr'[l].part <= LastPart
                 /\ thr[l].part \in 1 .. 3
                 /\ thr'[l].file = names[thr[l].part] /\ thr'[l].file \in plain
              \/ thr'[l].pc \in {"next", "done"} /\ thr'[l].file = thr[l].file
  <1>1. /\ thr[l].pc = "next"
        /\ UNCHANGED <<mpc, session, plain, zips, size, dumps, made, seq, ring, ringIdx, cur, saved, queue,
                       total, rest, names, preDump>>
    BY DEF ThreadTake, disk, ringVars, queueVars
  <1>2. /\ MaxDir > 0 /\ thr \in [Logs -> Threads] /\ thr[l] \in Threads
        /\ LastPart \in 1 .. 3 /\ thr[l].part \in 1 .. 4
    BY <1>1, RunningFacts
  <1>3. CASE thr' = [thr EXCEPT ![l].pc = "done"]
    <2>1. thr' = [thr EXCEPT ![l] = [thr[l] EXCEPT !.pc = "done"]]
      BY <1>3
    <2>2. /\ [thr[l] EXCEPT !.pc = "done"] \in Threads
          /\ [thr[l] EXCEPT !.pc = "done"].file = thr[l].file
          /\ [thr[l] EXCEPT !.pc = "done"].pc = "done"
      BY <1>2 DEF Threads
    <2> HIDE <1>3
    <2> QED BY <2>1, <2>2, <1>1, <1>2
  <1>4. ASSUME thr[l].part <= LastPart, names[thr[l].part] \in plain,
               thr' = [thr EXCEPT ![l].pc = "zip", ![l].file = names[thr[l].part]]
        PROVE  /\ thr' \in [Logs -> Threads]
               /\ \A k \in Logs : k # l => thr'[k] = thr[k]
               /\ thr'[l].pc = "zip" /\ thr'[l].part = thr[l].part /\ thr[l].part \in 1 .. 3
               /\ thr'[l].file = names[thr[l].part]
    <2> DEFINE f == names[thr[l].part]
               t == [thr[l] EXCEPT !.pc = "zip", !.file = f]
    <2>1. thr' = [thr EXCEPT ![l] = t]
      BY <1>4
    <2>2. f \in Logs \X Parts
      BY <1>4 DEF IInv, Typed, TypeOK
    <2> HIDE DEF f
    <2>3. t \in Threads /\ t.file = f /\ t.pc = "zip" /\ t.part = thr[l].part
      BY <1>2, <2>2 DEF Threads
    <2> HIDE DEF t
    <2>4. thr' \in [Logs -> Threads] /\ thr'[l] = t /\ \A k \in Logs : k # l => thr'[k] = thr[k]
      BY <2>1, <2>3, <1>2
    <2>5. thr[l].part \in 1 .. 3
      BY <1>2, <1>4
    <2> QED BY <2>3, <2>4, <2>5 DEF f
  <1>5. ASSUME thr[l].part <= LastPart, thr' = [thr EXCEPT ![l].part = thr[l].part + 1]
        PROVE  /\ thr' \in [Logs -> Threads]
               /\ \A k \in Logs : k # l => thr'[k] = thr[k]
               /\ thr'[l].pc = "next" /\ thr'[l].file = thr[l].file
    <2> DEFINE t == [thr[l] EXCEPT !.part = thr[l].part + 1]
    <2>1. thr' = [thr EXCEPT ![l] = t]
      BY <1>5
    <2>2. thr[l].part + 1 \in 1 .. 4
      BY <1>2, <1>5
    <2>3. t \in Threads /\ t.file = thr[l].file /\ t.pc = "next"
      BY <1>1, <1>2, <2>2 DEF Threads
    <2> HIDE DEF t
    <2>4. thr' \in [Logs -> Threads] /\ thr'[l] = t /\ \A k \in Logs : k # l => thr'[k] = thr[k]
      BY <2>1, <2>3, <1>2
    <2> QED BY <2>3, <2>4
  <1>6. \/ thr' = [thr EXCEPT ![l].pc = "done"]
        \/ /\ ~(thr[l].part > LastPart) /\ names[thr[l].part] \in plain
           /\ thr' = [thr EXCEPT ![l].pc = "zip", ![l].file = names[thr[l].part]]
        \/ ~(thr[l].part > LastPart) /\ thr' = [thr EXCEPT ![l].part = thr[l].part + 1]
    BY DEF ThreadTake
  <1>7. ~(thr[l].part > LastPart) => thr[l].part <= LastPart
    BY <1>2
  <1> QED BY <1>1, <1>2, <1>3, <1>4, <1>5, <1>6, <1>7

\* A name is taken: it is not one of the log that is written.
LEMMA ThreadTakeStep ==
    ASSUME IInv, NEW l \in Logs, ThreadTake(l), opt' = opt
    PROVE  IInv'
  <1>o. Num' = Num /\ MaxDir' = MaxDir /\ Limit' = Limit /\ OneRun' = OneRun
    BY DEF Num, MaxDir, Limit, OneRun, OpenMayFail
  <1>t. /\ Num \in Nat /\ MaxDir \in Nat /\ Limit \in Nat \ {0}
        /\ opt.sessions \in Nat /\ opt.dumps \in Nat
        /\ opt.logs \in 0 .. MaxLogs /\ MaxLogs \in Nat
        /\ made \in Nat /\ seq \in Nat
    BY OptFacts DEF IInv
  <1>u. /\ MaxDir > 0 /\ thr' \in [Logs -> Threads]
        /\ UNCHANGED <<mpc, session, plain, zips, size, dumps, made, seq, ring, ringIdx, cur, saved, queue,
                       total, rest, names, preDump>>
        /\ \A k \in Logs : k # l => thr'[k] = thr[k]
    BY TakeFacts
  <1>v. \/ /\ thr'[l].pc = "zip" /\ thr'[l].part = thr[l].part /\ thr'[l].part <= LastPart
           /\ thr[l].part \in 1 .. 3
           /\ thr'[l].file = names[thr[l].part] /\ thr'[l].file \in plain
        \/ thr'[l].pc \in {"next", "done"} /\ thr'[l].file = thr[l].file
    BY TakeFacts
  <1>1. Typed'
    <2>1. \A k \in Logs : /\ thr'[k].pc \in {"off", "next", "zip", "delete", "done"}
                          /\ thr'[k].part \in 1 .. 4
      BY <1>u DEF Threads
    <2> QED BY <1>o, <1>u, <2>1 DEF IInv, Typed, TypeOK
  <1>2. Sizes'
    BY <1>u DEF IInv, Sizes
  <1>3. Compressing'
    <2>1. /\ \A k \in Logs : thr[k].pc \in {"zip", "delete"} => /\ thr[k].part <= LastPart
                                                                /\ thr[k].file # NoFile
          /\ \A p \in 1 .. 3 : names[p][1] <= made /\ (cur # None => names[p][1] # cur)
          /\ \A k \in Logs : thr[k].file[1] <= made /\ (cur # None => thr[k].file[1] # cur)
      BY DEF IInv, Compressing
    <2>2. \A f \in plain : f # NoFile
      BY DEF IInv, Typed, TypeOK, NoFile, Logs
    <2>3. thr'[l].pc \in {"zip", "delete"} => thr'[l].part <= LastPart /\ thr'[l].file # NoFile
      BY <1>v, <2>2
    <2>4. thr'[l].file[1] <= made /\ (cur # None => thr'[l].file[1] # cur)
      BY <1>v, <2>1
    <2>5. \A k \in Logs : thr'[k].pc \in {"zip", "delete"} => /\ thr'[k].part <= LastPart
                                                              /\ thr'[k].file # NoFile
      BY <1>u, <2>1, <2>3
    <2>6. \A k \in Logs : thr'[k].file[1] <= made /\ (cur # None => thr'[k].file[1] # cur)
      BY <1>u, <2>1, <2>4
    <2> QED BY <1>o, <1>u, <1>t, <2>1, <2>5, <2>6 DEF Compressing
  <1>4. CurrentSafe'
    BY <1>u DEF IInv, CurrentSafe, Files
  <1>5. RingNames'
    BY <1>o, <1>u, <1>t DEF RingNames
  <1>6. RingOrder'
    BY <1>o, <1>u, <1>t DEF RingOrder
  <1>7. SetAside'
    BY <1>o, <1>u, <1>t DEF SetAside
  <1>8. Queued'
    <2>1. \A k \in Logs : thr'[k].pc = "delete" => thr'[k] = thr[k]
      BY <1>u, <1>v
    <2> QED BY <1>o, <1>u, <2>1 DEF IInv, Queued, EveryNameOnDisk
  <1> QED BY <1>1, <1>2, <1>3, <1>4, <1>5, <1>6, <1>7, <1>8 DEF IInv

\* The archive is complete.
LEMMA ThreadZipStep ==
    ASSUME IInv, NEW l \in Logs, ThreadZip(l), opt' = opt
    PROVE  IInv'
  <1>o. Num' = Num /\ MaxDir' = MaxDir /\ Limit' = Limit /\ OneRun' = OneRun
    BY DEF Num, MaxDir, Limit, OneRun, OpenMayFail
  <1>t. /\ Num \in Nat /\ MaxDir \in Nat /\ Limit \in Nat \ {0}
        /\ opt.sessions \in Nat /\ opt.dumps \in Nat
        /\ opt.logs \in 0 .. MaxLogs /\ MaxLogs \in Nat
        /\ made \in Nat /\ seq \in Nat
    BY OptFacts DEF IInv
  <1>u. /\ thr[l].pc = "zip" /\ zips' = zips \cup {thr[l].file}
        /\ thr' = [thr EXCEPT ![l].pc = "delete"]
        /\ UNCHANGED <<mpc, session, plain, size, dumps, made, seq, ring, ringIdx, cur, saved, queue, total,
                       rest, names, preDump>>
    BY DEF ThreadZip, ringVars, queueVars
  <1>r. /\ MaxDir > 0 /\ thr \in [Logs -> Threads] /\ thr[l] \in Threads
        /\ thr[l].part <= LastPart /\ thr[l].file \in Logs \X Parts /\ thr[l].file[1] <= made
    BY <1>u, RunningFacts
  <1>v. /\ thr' \in [Logs -> Threads]
        /\ \A k \in Logs : k # l => thr'[k] = thr[k]
        /\ thr'[l].pc = "delete" /\ thr'[l].part = thr[l].part /\ thr'[l].file = thr[l].file
    <2> DEFINE t == [thr[l] EXCEPT !.pc = "delete"]
    <2>1. thr' = [thr EXCEPT ![l] = t]
      BY <1>u
    <2>2. t \in Threads /\ t.file = thr[l].file /\ t.pc = "delete" /\ t.part = thr[l].part
      BY <1>r DEF Threads
    <2> HIDE DEF t
    <2>3. thr' \in [Logs -> Threads] /\ thr'[l] = t /\ \A k \in Logs : k # l => thr'[k] = thr[k]
      BY <2>1, <2>2, <1>r
    <2> QED BY <2>2, <2>3
  <1>w. /\ \A k \in Logs : thr'[k].file = thr[k].file /\ thr'[k].part = thr[k].part
        /\ \A k \in Logs : thr'[k].pc \in {"zip", "delete"} => thr[k].pc \in {"zip", "delete"}
        /\ zips' = zips \cup {thr[l].file}
        /\ UNCHANGED <<mpc, session, plain, size, dumps, made, seq, ring, ringIdx, cur, saved, queue, total,
                       rest, names, preDump>>
    BY <1>u, <1>v
  <1>1. Typed'
    <2>1. \A k \in Logs : /\ thr'[k].pc \in {"off", "next", "zip", "delete", "done"}
                          /\ thr'[k].part \in 1 .. 4
      BY <1>v DEF Threads
    <2>2. zips' \subseteq Logs \X Parts /\ \A f \in plain' \cup zips' : f[1] <= made
      BY <1>r, <1>w DEF IInv, Typed, TypeOK
    <2> QED BY <1>o, <1>v, <1>w, <2>1, <2>2 DEF IInv, Typed, TypeOK
  <1>2. Sizes'
    BY <1>w DEF IInv, Sizes
  <1>3. Compressing'
    BY <1>o, <1>r, <1>t, <1>w DEF IInv, Compressing
  <1>4. CurrentSafe'
    BY <1>w DEF IInv, CurrentSafe, Files
  <1>5. RingNames'
    BY <1>o, <1>r, <1>t DEF RingNames
  <1>6. RingOrder'
    BY <1>o, <1>r, <1>t DEF RingOrder
  <1>7. SetAside'
    BY <1>o, <1>r, <1>t DEF SetAside
  <1>8. Queued'
    <2>1. \A k \in Logs : thr'[k].pc = "delete" /\ thr'[k].file \notin zips' =>
                              thr[k].pc = "delete" /\ thr[k].file \notin zips
      BY <1>v, <1>w
    <2>2. made # 0
      <3>1. thr[l].file[1] \in 1 .. MaxLogs
        BY <1>r DEF Logs
      <3> QED BY <3>1, <1>r, <1>t
    <2> QED BY <1>o, <1>w, <2>1, <2>2 DEF IInv, Queued, EveryNameOnDisk
  <1> QED BY <1>1, <1>2, <1>3, <1>4, <1>5, <1>6, <1>7, <1>8 DEF IInv

\* The original is deleted: what is queued under its name is the archive.
LEMMA ThreadDeleteStep ==
    ASSUME IInv, NEW l \in Logs, ThreadDelete(l), opt' = opt
    PROVE  IInv'
  <1>o. Num' = Num /\ MaxDir' = MaxDir /\ Limit' = Limit /\ OneRun' = OneRun
    BY DEF Num, MaxDir, Limit, OneRun, OpenMayFail
  <1>t. /\ Num \in Nat /\ MaxDir \in Nat /\ Limit \in Nat \ {0}
        /\ opt.sessions \in Nat /\ opt.dumps \in Nat
        /\ opt.logs \in 0 .. MaxLogs /\ MaxLogs \in Nat
        /\ made \in Nat /\ seq \in Nat
    BY OptFacts DEF IInv
  <1>u. /\ thr[l].pc = "delete" /\ plain' = plain \ {thr[l].file}
        /\ thr' = [thr EXCEPT ![l].pc = "next", ![l].part = thr[l].part + 1]
        /\ UNCHANGED <<mpc, session, zips, size, dumps, made, seq, ring, ringIdx, cur, saved, queue, total,
                       rest, names, preDump>>
    BY DEF ThreadDelete, ringVars, queueVars
  <1>r. /\ MaxDir > 0 /\ thr \in [Logs -> Threads] /\ thr[l] \in Threads
        /\ LastPart \in 1 .. 3 /\ thr[l].part \in 1 .. 4 /\ thr[l].part <= LastPart
        /\ thr[l].file \in Logs \X Parts /\ (cur # None => thr[l].file[1] # cur)
    BY <1>u, RunningFacts
  <1>v. /\ thr' \in [Logs -> Threads]
        /\ \A k \in Logs : k # l => thr'[k] = thr[k]
        /\ thr'[l].pc = "next" /\ thr'[l].file = thr[l].file
    <2> DEFINE t == [thr[l] EXCEPT !.pc = "next", !.part = thr[l].part + 1]
    <2>1. thr' = [thr EXCEPT ![l] = t]
      BY <1>u
    <2>2. thr[l].part + 1 \in 1 .. 4
      BY <1>r
    <2>3. t \in Threads /\ t.file = thr[l].file /\ t.pc = "next"
      BY <1>r, <2>2 DEF Threads
    <2> HIDE DEF t
    <2>4. thr' \in [Logs -> Threads] /\ thr'[l] = t /\ \A k \in Logs : k # l => thr'[k] = thr[k]
      BY <2>1, <2>3, <1>r
    <2> QED BY <2>3, <2>4
  <1>w. /\ \A k \in Logs : thr'[k].file = thr[k].file
        /\ \A k \in Logs : thr'[k].pc \in {"zip", "delete"} => thr'[k] = thr[k]
        /\ plain' = plain \ {thr[l].file}
        /\ UNCHANGED <<mpc, session, zips, size, dumps, made, seq, ring, ringIdx, cur, saved, queue, total,
                       rest, names, preDump>>
    BY <1>u, <1>v
  <1>1. Typed'
    <2>1. \A k \in Logs : /\ thr'[k].pc \in {"off", "next", "zip", "delete", "done"}
                          /\ thr'[k].part \in 1 .. 4
      BY <1>v DEF Threads
    <2> QED BY <1>o, <1>v, <1>w, <2>1 DEF IInv, Typed, TypeOK
  <1>2. Sizes'
    BY <1>w DEF IInv, Sizes
  <1>3. Compressing'
    BY <1>o, <1>r, <1>t, <1>w DEF IInv, Compressing
  <1>4. CurrentSafe'
    BY <1>r, <1>w DEF IInv, CurrentSafe, Files
  <1>5. RingNames'
    BY <1>o, <1>r, <1>t DEF RingNames
  <1>6. RingOrder'
    BY <1>o, <1>r, <1>t DEF RingOrder
  <1>7. SetAside'
    BY <1>o, <1>r, <1>t DEF SetAside
  <1>8. Queued'
    <2>1. OneRun => EveryNameOnDisk'
      BY <1>r, <1>u, <1>w DEF IInv, Queued, EveryNameOnDisk
    <2> QED BY <1>o, <1>w, <2>1 DEF IInv, Queued
  <1> QED BY <1>1, <1>2, <1>3, <1>4, <1>5, <1>6, <1>7, <1>8 DEF IInv

-----------------------------------------------------------------------------
(* The invariant, and what follows from it.                                *)

\* Nothing has been created.
LEMMA InitIInv ==
    ASSUME Init
    PROVE  IInv
  <1>i. /\ opt \in Options /\ mpc = "between" /\ session = 0 /\ plain = {} /\ zips = {}
        /\ dumps = <<>> /\ made = 0 /\ seq = 0 /\ ringIdx = 0 /\ cur = None /\ saved = 0
        /\ queue = <<>> /\ total = 0 /\ rest = 0 /\ preDump = {}
    BY DEF Init
  <1>t. /\ Num \in Nat /\ MaxDir \in Nat /\ Limit \in Nat \ {0}
        /\ opt.sessions \in Nat /\ opt.dumps \in Nat
        /\ opt.logs \in 0 .. MaxLogs /\ MaxLogs \in Nat
    BY <1>i, LogFilesAssumption DEF Num, MaxDir, Limit
  <1>e. LogsOnDisk = {} /\ Len(<<>>) = 0
    BY <1>i DEF LogsOnDisk
  <1>z. /\ size \in [Logs \X Parts -> 0 .. Limit] /\ \A f \in Logs \X Parts : size[f] = 0
    <2>1. size = [f \in Logs \X Parts |-> 0] /\ 0 \in 0 .. Limit
      BY <1>t DEF Init
    <2> QED BY <2>1
  <1>r. ring \in [0 .. Num - 1 -> {0}]
    BY DEF Init, None
  <1>n. names \in [1 .. 3 -> {NoFile}]
    BY DEF Init
  <1>h. thr \in [Logs -> {Idle}] /\ Idle \in Threads /\ Idle.pc = "off" /\ Idle.file = NoFile
        /\ Idle.part \in 1 .. 4
    BY DEF Init, Idle, Threads
  <1>1. Typed
    <2>1. ring \in [0 .. Num - 1 -> 0 .. made] /\ made \in 0 .. MaxLogs /\ seq \in 0 .. made
      BY <1>r, <1>i, <1>t
    <2>2. names \in [1 .. 3 -> (Logs \X Parts) \cup {NoFile}]
      BY <1>n
    <2>3. thr \in [Logs -> Threads]
      BY <1>h
    <2>4. \A l \in Logs : thr[l].pc \in {"off", "next", "zip", "delete", "done"} /\ thr[l].part \in 1 .. 4
      BY <1>h
    <2>5. dumps \in Seq(0 .. made) /\ Len(dumps) <= opt.dumps /\ queue \in Seq((Logs \X Parts) \cup {DumpDir})
      BY <1>i, <1>t, EmptySeq
    <2>6. session \in 0 .. opt.sessions /\ saved \in 0 .. Limit - 1
      BY <1>i, <1>t
    <2>7. plain \subseteq Logs \X Parts /\ zips \subseteq Logs \X Parts /\ preDump \subseteq Logs
          /\ preDump \subseteq 1 .. made /\ \A f \in plain \cup zips : f[1] <= made
      BY <1>i
    <2>8. total \in Int /\ rest \in 0 .. 2 /\ ringIdx \in Nat
      BY <1>i
    <2> QED BY <1>i, <1>z, <2>1, <2>2, <2>3, <2>4, <2>5, <2>6, <2>7, <2>8 DEF Typed, TypeOK
  <1>2. Sizes
    BY <1>i, <1>z DEF Sizes
  <1>3. Compressing
    <2>1. NoFile[1] = 0
      BY DEF NoFile
    <2> QED BY <1>i, <1>n, <1>h, <2>1 DEF Compressing
  <1>4. CurrentSafe
    BY <1>i DEF CurrentSafe
  <1>5. RingNames
    <2>1. Num > 0 => ringIdx \in 0 .. Num - 1 /\ ring[ringIdx] = 0
      BY <1>i, <1>r, <1>t
    <2> QED BY <1>i, <1>e, <2>1 DEF RingNames, None
  <1>6. RingOrder
    BY <1>i DEF RingOrder
  <1>7. SetAside
    BY <1>i DEF SetAside
  <1>8. Queued
    BY <1>i, <1>e DEF Queued, EveryNameOnDisk
  <1> QED BY <1>1, <1>2, <1>3, <1>4, <1>5, <1>6, <1>7, <1>8 DEF IInv

\* A step that changes nothing.
LEMMA UnchangedIInv ==
    ASSUME IInv, UNCHANGED vars
    PROVE  IInv'
  <1>u. /\ opt' = opt
        /\ UNCHANGED <<mpc, session, plain, zips, size, dumps, made, seq, ring, ringIdx, cur, saved, queue,
                       total, rest, names, thr, preDump>>
    BY DEF vars, disk, ringVars, queueVars, zipVars
  <1>o. Num' = Num /\ MaxDir' = MaxDir /\ Limit' = Limit /\ OneRun' = OneRun
    BY <1>u DEF Num, MaxDir, Limit, OneRun, OpenMayFail
  <1>1. Typed'
    BY <1>o, <1>u DEF IInv, Typed, TypeOK
  <1>2. Sizes'
    BY <1>u DEF IInv, Sizes
  <1>3. Compressing'
    BY <1>o, <1>u DEF IInv, Compressing
  <1>4. CurrentSafe'
    BY <1>u DEF IInv, CurrentSafe, Files
  <1>5. RingNames'
    BY <1>o, <1>u DEF IInv, RingNames, LogsOnDisk
  <1>6. RingOrder'
    BY <1>o, <1>u DEF IInv, RingOrder, Slot
  <1>7. SetAside'
    BY <1>o, <1>u DEF IInv, SetAside
  <1>8. Queued'
    BY <1>o, <1>u DEF IInv, Queued, EveryNameOnDisk
  <1> QED BY <1>1, <1>2, <1>3, <1>4, <1>5, <1>6, <1>7, <1>8 DEF IInv

LEMMA NextIInv ==
    ASSUME IInv, [Next]_vars
    PROVE  IInv'
  <1>1. CASE UNCHANGED vars
    BY <1>1, UnchangedIInv
  <1>2. CASE Next
    <2>1. opt' = opt /\ Step
      BY <1>2 DEF Next
    <2>2. CASE StartSession
      BY <2>1, <2>2, StartSessionStep
    <2>3. CASE CatchDump
      BY <2>1, <2>3, CatchDumpStep
    <2>4. CASE CreateBegin
      BY <2>1, <2>4, CreateBeginStep
    <2>5. CASE Check
      BY <2>1, <2>5, RemoveOldestStep, CheckDoneStep DEF Check
    <2>6. ASSUME NEW ok \in {TRUE, ~OpenMayFail}, CreateFile(ok) PROVE IInv'
      BY <2>1, <2>6, CreateFileStep
    <2>7. ASSUME NEW p \in Parts, Save(p) PROVE IInv'
      BY <2>1, <2>7, SaveStep
    <2>8. ASSUME NEW e \in BOOLEAN, Leave(e) PROVE IInv'
      BY <2>1, <2>8, LeaveStep
    <2>9. ASSUME NEW l \in Logs, Compress(l) PROVE IInv'
      BY <2>1, <2>9, ThreadTakeStep, ThreadZipStep, ThreadDeleteStep DEF Compress
    <2>10. CASE Finished
      BY <2>10, UnchangedIInv DEF Finished
    <2> QED BY <2>1, <2>2, <2>3, <2>4, <2>5, <2>6, <2>7, <2>8, <2>9, <2>10 DEF Step
  <1> QED BY <1>1, <1>2

LEMMA Invariance == Spec => []IInv
  BY InitIInv, NextIInv, PTL DEF Spec

\* Types and ranges, whatever the options: in particular no file grows beyond
\* the limit of -m.
THEOREM TypeCorrect == Spec => []TypeOK
  <1>1. IInv => TypeOK
    BY DEF IInv, Typed
  <1> QED BY <1>1, Invariance, PTL

\* Whatever the options, the file being written stays in the directory: it is
\* not evicted from the ring, not removed for its size, and not compressed by a
\* thread that reads a shared name late.
THEOREM WrittenFileStays == Spec => []CurrentSafe
  <1>1. IInv => CurrentSafe
    BY DEF IInv
  <1> QED BY <1>1, Invariance, PTL

\* -n without -C: at most s_logfile_num logs, and those set aside, are kept.
THEOREM RingKept == Spec => []RingBounded
  <1>1. ASSUME IInv PROVE RingBounded
    <2> SUFFICES ASSUME Num > 0, MaxDir = 0
                 PROVE  Cardinality(LogsOnDisk \ preDump) <= Num
      BY DEF RingBounded
    <2> DEFINE R == {ring[i] : i \in 0 .. Num - 1}
               I == 0 .. Num - 1
    <2>1. Num \in Nat /\ MaxDir = 0
      BY <1>1, OptFacts DEF IInv
    <2>2. ring \in Surjection(I, R)
      BY <1>1 DEF IInv, Typed, TypeOK, Surjection
    <2>3. LogsOnDisk \ preDump \subseteq R
      BY <1>1, <2>1 DEF IInv, RingNames
    <2>4. IsFiniteSet(I) /\ Cardinality(I) = Num
      <3>1. 0 \in Int /\ Num - 1 \in Int
        BY <2>1
      <3>2. IsFiniteSet(I) /\ Cardinality(I) = IF 0 > Num - 1 THEN 0 ELSE (Num - 1) - 0 + 1
        BY <3>1, FS_Interval, Zenon
      <3> HIDE DEF I
      <3> QED BY <3>2, <2>1
    <2> HIDE DEF R, I
    <2>5. IsFiniteSet(R) /\ Cardinality(R) <= Cardinality(I)
      BY <2>2, <2>4, FS_Surjection, Zenon
    <2>6. IsFiniteSet(LogsOnDisk \ preDump) /\ Cardinality(LogsOnDisk \ preDump) <= Cardinality(R)
      BY <2>3, <2>5, FS_Subset, Zenon
    <2>7. Cardinality(LogsOnDisk \ preDump) \in Nat /\ Cardinality(R) \in Nat
      BY <2>5, <2>6, FS_CardinalityType, Zenon
    <2> QED BY <2>1, <2>4, <2>5, <2>6, <2>7
  <1>2. IInv => RingBounded
    BY <1>1
  <1> QED BY <1>2, Invariance, PTL

\* Without -C: the log before a dump outlives all that follow it, as long as
\* every log could be created.
THEOREM LogBeforeDumpKept == Spec => []PreDumpKept
  <1>1. IInv => PreDumpKept
    BY DEF IInv, SetAside, PreDumpKept
  <1> QED BY <1>1, Invariance, PTL

\* In one run with -C the queue names only what is there, however the compress
\* threads interleave with the main thread.
THEOREM QueueInPlace == Spec => [](OneRun => FilesInPlace)
  <1>1. ASSUME IInv, OneRun PROVE FilesInPlace
    <2>1. CASE MaxDir > 0
      BY <1>1, <2>1 DEF IInv, Queued, FilesInPlace, QueuedOnDisk, EveryNameOnDisk
    <2>2. CASE MaxDir = 0
      <3>1. Len(queue) = 0
        BY <1>1, <2>2, EmptySeq DEF IInv, Compressing
      <3> QED BY <1>1, <3>1 DEF IInv, FilesInPlace, QueuedOnDisk
    <2>3. MaxDir \in Nat
      BY <1>1, OptFacts DEF IInv
    <2> QED BY <2>1, <2>2, <2>3
  <1>2. IInv => (OneRun => FilesInPlace)
    BY <1>1
  <1> QED BY <1>2, Invariance, PTL

\* Only the oldest log makes room, if -n and -C are not combined.
THEOREM OldestEvicted == Spec => EvictsOldest
  <1> DEFINE Evict == mpc = "create" /\ (Num > 0 => MaxDir = 0) =>
                          \A f \in plain \ plain' : <<f[1], 1>> \in plain => f[1] + Num <= made'
  <1>1. ASSUME IInv, Next PROVE Evict
    <2> SUFFICES ASSUME mpc = "create", Num > 0 => MaxDir = 0, NEW f \in plain \ plain', <<f[1], 1>> \in plain
                 PROVE  f[1] + Num <= made'
      OBVIOUS
    <2>1. Num \in Nat /\ MaxDir \in Nat /\ made \in Nat /\ seq \in Nat /\ Apart
      <3>1. Num \in Nat /\ MaxDir \in Nat
        BY <1>1, OptFacts DEF IInv
      <3>2. made \in Nat /\ seq \in Nat
        BY <1>1, OptFacts DEF IInv
      <3>3. Apart
        BY <3>1 DEF Apart
      <3> QED BY <3>1, <3>2, <3>3
    <2>2. f \in Logs \X Parts /\ f[1] <= made /\ f[1] \in Nat /\ f[1] # 0
      BY <1>1 DEF IInv, Typed, TypeOK, Logs
    <2>3. ASSUME NEW l \in Logs, Compress(l) PROVE f[1] + Num <= made'
      <3>1. thr[l].pc # "off" /\ made' = made
        BY <2>3 DEF Compress, ThreadTake, ThreadZip, ThreadDelete, ringVars
      <3>2. MaxDir > 0
        BY <1>1, <3>1, RunningFacts
      <3>3. Num = 0
        BY <2>1, <3>2 DEF Apart
      <3> QED BY <2>2, <3>1, <3>3
    <2>4. ASSUME NEW ok \in BOOLEAN, CreateFile(ok) PROVE f[1] + Num <= made'
      <3>1. made' = made + 1 /\ (Num > 0 => Slot(seq) \in 0 .. Num - 1)
        BY <1>1, <2>4, CreateFacts
      <3>2. f[1] = OldestOfRing
        <4>1. f = <<f[1], f[2]>>
          BY <2>2
        <4> QED BY <4>1, <1>1, <2>4, CreatePlain
      <3>3. Num > 0 /\ f[1] = ring[Slot(seq)]
        BY <2>1, <2>2, <3>2 DEF OldestOfRing, None
      <3>4. MaxDir = 0
        BY <2>1, <3>3 DEF Apart
      <3>5. PICK s \in 0 .. seq - 1 : Slot(s) = Slot(seq) /\ f[1] + (seq - 1 - s) <= made
        BY <1>1, <3>1, <3>3, <3>4 DEF IInv, RingOrder
      <3>6. s \in Nat /\ s < seq
        BY <2>1, <3>5
      <3>7. s % Num = seq % Num
        BY <3>5 DEF Slot
      <3>8. seq - s >= Num
        BY <2>1, <3>3, <3>6, <3>7, SameSlot
      <3> QED BY <2>1, <2>2, <3>1, <3>5, <3>6, <3>8
    <2>5. OpenMayFail \in BOOLEAN
      BY <1>1, OptFacts DEF IInv
    <2>6. (\E ok \in {TRUE, ~OpenMayFail} : CreateFile(ok)) => \E ok \in BOOLEAN : CreateFile(ok)
      BY <2>5
    <2>7. \/ \E ok \in BOOLEAN : CreateFile(ok)
          \/ \E l \in Logs : Compress(l)
          \/ UNCHANGED plain
      BY <1>1, <2>6 DEF Next, Step, StartSession, CatchDump, CreateBegin, Check, RemoveOldest, CheckDone, Save,
         Leave, Finished, vars, disk
    <2> QED BY <2>3, <2>4, <2>7
  <1>2. IInv /\ [Next]_vars => [Evict]_vars
    BY <1>1
  <1> QED BY <1>2, Invariance, PTL DEF Spec, EvictsOldest
==============================================================================
