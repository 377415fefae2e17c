---------------------------- MODULE Qshrink4Proof ----------------------------
(***************************************************************************)
(* Proofs about the hash files of a qmdl2 log, for every list of files,    *)
(* every block size, and every number of sessions and of late answers.     *)
(***************************************************************************)
EXTENDS Qshrink4, SequenceTheorems, TLAPS

\* What the module may have been asked and may answer.
Requests ==
    {<<"id">>, <<"list">>} \cup ({"open"} \X Files) \cup ({"read"} \X Nat \X Nat \X (0 .. MaxRead))
        \cup ({"close"} \X Nat)

Packets ==
    {<<"id">>, <<"list">>, <<"ack">>} \cup ({"open"} \X Nat)
        \cup ({"data"} \X Files \X Nat \X (0 .. MaxRead)) \cup ({"closed"} \X Nat)

\* Requests and answers under way, by their place.
Reqs(kind) == {k \in 1 .. Len(reqs) : reqs[k][1] = kind}
Link(kind) == {k \in 1 .. Len(link) : link[k][1] = kind}

NoneOf(R, L) == R = {} /\ L = {}

\* At most one, asked for or answered.
OneOf(R, L) ==
    /\ \A a, b \in R : a = b
    /\ \A a, b \in L : a = b
    /\ R = {} \/ L = {}

Typed ==
    /\ TypeOK
    /\ disk \in [Files -> Seq(Files \X Nat)]
    /\ reqs \in Seq(Requests) /\ link \in Seq(Packets) /\ handles \in Seq(Files)
    /\ {ids, header, init4, got} \subseteq BOOLEAN

\* A session that queries the module starts with a module that has nothing left
\* to answer: it is the first one, or the module was gone.
Epochs ==
    /\ (session = 0 \/ abnormal) => pc = "off" /\ reqs = <<>> /\ link = <<>> /\ handles = <<>>
    /\ session = 0 => ~ids /\ ~init4
    /\ session > 0 => init4

\* op is what the thread waits for; a thread that was cancelled leaves it.
Waiting ==
    /\ waiting => op = pc
    /\ op # "none" /\ ~waiting => pc \in {"off", "done", "id"}

\* One list is asked for, and only before it is known.
ListOnce ==
    /\ OneOf(Reqs("list"), Link("list"))
    /\ list # <<>> => NoneOf(Reqs("list"), Link("list"))
    /\ (pc = "id" \/ (pc = "list" /\ ~waiting)) => NoneOf(Reqs("list"), Link("list")) /\ list = <<>>

\* Before a file is opened nothing the module still sends is about a file.
Unopened == (pc \in {"id", "list"} \/ (pc = "next" /\ ~got) \/ (pc = "open" /\ ~waiting))

\* All handles of the module are of the file the thread opens and reads.
OneFile ==
    /\ Unopened => handles = <<>> /\ Reqs("open") = {} /\ Link("open") = {}
    /\ pc \in {"open", "read", "close"} =>
           /\ i \in 1 .. Len(list)
           /\ \A h \in 1 .. Len(handles) : handles[h] = list[i]
           /\ \A k \in Reqs("open") : reqs[k][2] = list[i]
           /\ readFd \in 0 .. Len(handles)
    /\ \A k \in Link("open") : link[k][2] \in 1 .. Len(handles)
    /\ pc = "next" => i >= 1

\* At most one block is under way.  If it can still be written, it is the next
\* block of the file that is open.
Fits(f, o, n) == f = diskFd /\ o = Len(disk[f]) /\ o + n <= FileLen[f]

Writable == diskFd # NoFd /\ op # "none"

BlocksUnderWay ==
    /\ OneOf(Reqs("read"), Link("data"))
    /\ \A k \in Reqs("read") : reqs[k][2] \in 1 .. Len(handles)
    /\ Writable =>
           /\ \A k \in Reqs("read") : Fits(handles[reqs[k][2]], reqs[k][3], reqs[k][4])
           /\ \A k \in Link("data") : Fits(link[k][2], link[k][3], link[k][4])
    /\ Unopened \/ pc = "open" => NoneOf(Reqs("read"), Link("data"))

\* The read loop: off and readLen together are what is on disk, and a block that
\* has been taken is no longer under way.
ReadLoop ==
    /\ pc = "read" /\ waiting =>
           /\ diskFd = list[i] /\ total = FileLen[list[i]]
           /\ Len(disk[list[i]]) = off + readLen
           /\ readLen # 0 => NoneOf(Reqs("read"), Link("data"))
    /\ pc = "read" /\ ~waiting =>
           /\ NoneOf(Reqs("read"), Link("data"))
           /\ readFd # NoFd => /\ diskFd = list[i] /\ total = FileLen[list[i]]
                               /\ off = Len(disk[list[i]])

IInv == /\ Typed /\ QdbIsPrefix /\ HeaderAtEnd
        /\ Epochs /\ Waiting /\ ListOnce /\ OneFile /\ BlocksUnderWay /\ ReadLoop

-----------------------------------------------------------------------------
(* Facts about the constants, and about queues of requests and answers.    *)

\* The files and their lengths.
LEMMA FileFacts ==
    /\ Len(FileLen) \in Nat /\ Files = 1 .. Len(FileLen)
    /\ \A f \in Files : FileLen[f] \in Nat \ {0}
    /\ MaxRead \in Nat \ {0} /\ MaxSessions \in Nat \ {0} /\ MaxLate \in Nat \ {0}
    /\ 0 \notin Files
  BY Qshrink4Assumption DEF Files

\* What a request holds.
LEMMA RequestFacts ==
    \A r \in Requests :
        /\ r[1] \in {"id", "list", "open", "read", "close"}
        /\ r[1] = "open" => r[2] \in Files
        /\ r[1] = "read" => r[2] \in Nat /\ r[3] \in Nat /\ r[4] \in 0 .. MaxRead
        /\ r[1] = "close" => r[2] \in Nat
  BY DEF Requests

\* What a packet holds.
LEMMA PacketFacts ==
    \A a \in Packets :
        /\ a[1] \in {"id", "list", "ack", "open", "data", "closed"}
        /\ a[1] = "open" => a[2] \in Nat
        /\ a[1] = "data" => a[2] \in Files /\ a[3] \in Nat /\ a[4] \in 0 .. MaxRead
        /\ a[1] = "closed" => a[2] \in Nat
  BY DEF Packets

\* The queues of an invariant state.
LEMMA QueueFacts ==
    ASSUME Typed
    PROVE  /\ Len(reqs) \in Nat /\ Len(link) \in Nat /\ Len(handles) \in Nat
           /\ \A k \in 1 .. Len(reqs) : reqs[k] \in Requests
           /\ \A k \in 1 .. Len(link) : link[k] \in Packets
           /\ \A k \in 1 .. Len(handles) : handles[k] \in Files
           /\ Len(list) \in Nat
           /\ \A k \in 1 .. Len(list) : list[k] \in Files
           /\ \A f \in Files : disk[f] \in Seq(Files \X Nat) /\ Len(disk[f]) \in Nat
  BY ElementOfSeq DEF Typed, TypeOK

\* An empty queue holds nothing of any kind.
LEMMA EmptyQueues ==
    ASSUME NEW kind
    PROVE  /\ reqs = <<>> => Reqs(kind) = {}
           /\ link = <<>> => Link(kind) = {}
  BY DEF Reqs, Link

\* A request is added to the end.
LEMMA SendFacts ==
    ASSUME Typed, NEW r \in Requests, reqs' = Append(reqs, r)
    PROVE  /\ reqs' \in Seq(Requests)
           /\ Len(reqs') = Len(reqs) + 1 /\ reqs'[Len(reqs) + 1] = r
           /\ \A k \in 1 .. Len(reqs) : reqs'[k] = reqs[k]
  BY AppendProperties DEF Typed

\* The first request is taken.
LEMMA ServeFacts ==
    ASSUME Typed, reqs # <<>>, reqs' = Tail(reqs)
    PROVE  /\ reqs' \in Seq(Requests)
           /\ Len(reqs) \in Nat \ {0} /\ Len(reqs') = Len(reqs) - 1 /\ Head(reqs) = reqs[1]
           /\ \A k \in 1 .. Len(reqs') : reqs'[k] = reqs[k + 1]
  BY HeadTailProperties, EmptySeq DEF Typed

\* The first packet is taken.
LEMMA HandleFacts ==
    ASSUME Typed, link # <<>>, link' = Tail(link)
    PROVE  /\ link' \in Seq(Packets)
           /\ Len(link) \in Nat \ {0} /\ Len(link') = Len(link) - 1 /\ Head(link) = link[1]
           /\ \A k \in 1 .. Len(link') : link'[k] = link[k + 1]
  BY HeadTailProperties, EmptySeq DEF Typed

\* The kinds of the requests under way, when one is added.
LEMMA SendSets ==
    ASSUME Typed, NEW r \in Requests, reqs' = Append(reqs, r), NEW kind
    PROVE  Reqs(kind)' = IF r[1] = kind THEN Reqs(kind) \cup {Len(reqs) + 1} ELSE Reqs(kind)
  BY SendFacts, QueueFacts DEF Reqs

\* The kinds of the requests under way, when the first is taken.
LEMMA ServeSets ==
    ASSUME Typed, reqs # <<>>, reqs' = Tail(reqs), NEW kind
    PROVE  /\ Reqs(kind)' \subseteq 1 .. Len(reqs')
           /\ \A k \in Reqs(kind)' : k + 1 \in Reqs(kind) /\ k + 1 # 1
           /\ Head(reqs)[1] = kind => 1 \in Reqs(kind)
  BY ServeFacts, QueueFacts DEF Reqs

\* The kinds of the packets under way, when the first is taken.
LEMMA HandleSets ==
    ASSUME Typed, link # <<>>, link' = Tail(link), NEW kind
    PROVE  /\ Link(kind)' \subseteq 1 .. Len(link')
           /\ \A k \in Link(kind)' : k + 1 \in Link(kind) /\ k + 1 # 1
           /\ Head(link)[1] = kind => 1 \in Link(kind)
  BY HandleFacts, QueueFacts DEF Link

\* Packets are added to the end.
LEMMA LinkFacts ==
    ASSUME Typed, NEW a \in Seq(Packets), link' = link \o a
    PROVE  /\ link' \in Seq(Packets)
           /\ Len(a) \in Nat /\ Len(link') = Len(link) + Len(a)
           /\ \A k \in 1 .. Len(link) : link'[k] = link[k]
           /\ \A k \in Len(link) + 1 .. Len(link') : link'[k] = a[k - Len(link)]
  BY ConcatProperties DEF Typed

\* One packet of another kind, or of this kind, is added.
LEMMA LinkOne ==
    ASSUME Typed, NEW p \in Packets, link' = link \o <<p>>, NEW kind
    PROVE  /\ link' \in Seq(Packets) /\ Len(link') = Len(link) + 1 /\ link'[Len(link) + 1] = p
           /\ Link(kind)' = IF p[1] = kind THEN Link(kind) \cup {Len(link) + 1} ELSE Link(kind)
           /\ \A k \in 1 .. Len(link) : link'[k] = link[k]
  <1> DEFINE a == <<p>>
  <1>1. a \in Seq(Packets) /\ Len(a) = 1 /\ a[1] = p
    OBVIOUS
  <1>2. /\ link' \in Seq(Packets) /\ Len(link') = Len(link) + 1 /\ link'[Len(link) + 1] = p
        /\ \A k \in 1 .. Len(link) : link'[k] = link[k]
    <2>1. link' = link \o a
      OBVIOUS
    <2> HIDE DEF a
    <2>2. /\ link' \in Seq(Packets)
          /\ Len(a) \in Nat /\ Len(link') = Len(link) + Len(a)
          /\ \A k \in 1 .. Len(link) : link'[k] = link[k]
          /\ \A k \in Len(link) + 1 .. Len(link') : link'[k] = a[k - Len(link)]
      BY <1>1, <2>1, LinkFacts
    <2> QED BY <1>1, <2>2, QueueFacts
  <1> QED BY <1>2, QueueFacts DEF Link

\* An acknowledgement and a packet are added.
LEMMA LinkTwo ==
    ASSUME Typed, NEW p \in Packets, link' = link \o << <<"ack">>, p>>, NEW kind, kind # "ack"
    PROVE  /\ link' \in Seq(Packets) /\ Len(link') = Len(link) + 2 /\ link'[Len(link) + 2] = p
           /\ Link(kind)' = IF p[1] = kind THEN Link(kind) \cup {Len(link) + 2} ELSE Link(kind)
           /\ \A k \in 1 .. Len(link) : link'[k] = link[k]
  <1> DEFINE a == << <<"ack">>, p>>
  <1>1. a \in Seq(Packets) /\ Len(a) = 2 /\ a[2] = p /\ a[1][1] = "ack"
    BY DEF Packets
  <1>2. /\ link' \in Seq(Packets) /\ Len(link') = Len(link) + 2
        /\ link'[Len(link) + 2] = p /\ link'[Len(link) + 1][1] = "ack"
        /\ \A k \in 1 .. Len(link) : link'[k] = link[k]
    <2>1. link' = link \o a
      OBVIOUS
    <2> HIDE DEF a
    <2>2. /\ link' \in Seq(Packets)
          /\ Len(a) \in Nat /\ Len(link') = Len(link) + Len(a)
          /\ \A k \in 1 .. Len(link) : link'[k] = link[k]
          /\ \A k \in Len(link) + 1 .. Len(link') : link'[k] = a[k - Len(link)]
      BY <1>1, <2>1, LinkFacts
    <2> QED BY <1>1, <2>2, QueueFacts
  <1> QED BY <1>2, QueueFacts, SMTT(30) DEF Link

\* At most one of a kind is under way, however far it has come: the queue of
\* requests moves up, and the answer to the first may be added to the packets.
LEMMA OneMoves ==
    ASSUME NEW R, NEW L, NEW R1, NEW L1, NEW n,
           \A k \in R1 : k \in Nat \ {0} /\ k + 1 \in R,
           L1 = L \/ (1 \in R /\ L1 = L \cup {n})
    PROVE  /\ OneOf(R, L) => OneOf(R1, L1)
           /\ NoneOf(R, L) => NoneOf(R1, L1)
           /\ OneOf(R, L) /\ 1 \in R => R1 = {}
  <1>1. OneOf(R, L) /\ 1 \in R => R1 = {} /\ L = {}
    BY DEF OneOf
  <1>2. OneOf(R, L) => \A a, b \in R1 : a = b
    BY DEF OneOf
  <1>3. R = {} => R1 = {}
    OBVIOUS
  <1> QED BY <1>1, <1>2, <1>3 DEF OneOf, NoneOf

\* The next n blocks of a file after those that are there.
LEMMA BlocksAppended ==
    \A old \in Seq(Files \X Nat), f \in Files, n \in Nat : \A new :
        new = old \o Blocks(f, Len(old), n)
        => /\ new \in Seq(Files \X Nat) /\ Len(new) = Len(old) + n
           /\ \A k \in 1 .. Len(old) : new[k] = old[k]
           /\ \A k \in Len(old) + 1 .. Len(old) + n : new[k] = <<f, k>>
  <1> SUFFICES ASSUME NEW old \in Seq(Files \X Nat), NEW f \in Files, NEW n \in Nat,
                      NEW new, new = old \o Blocks(f, Len(old), n)
               PROVE  /\ new \in Seq(Files \X Nat) /\ Len(new) = Len(old) + n
                      /\ \A k \in 1 .. Len(old) : new[k] = old[k]
                      /\ \A k \in Len(old) + 1 .. Len(old) + n : new[k] = <<f, k>>
    OBVIOUS
  <1> DEFINE b == Blocks(f, Len(old), n)
             o == Len(old)
  <1>1. o \in Nat
    OBVIOUS
  <1>2. b = [k \in 1 .. n |-> <<f, o + k>>]
    BY DEF Blocks
  <1> HIDE DEF o
  <1>3. b \in Seq(Files \X Nat) /\ Len(b) = n /\ \A k \in 1 .. n : b[k] = <<f, o + k>>
    BY <1>1, <1>2
  <1>4. new = old \o b
    BY DEF o
  <1> HIDE DEF b
  <1>5. /\ new \in Seq(Files \X Nat) /\ Len(new) = Len(old) + Len(b)
        /\ \A k \in 1 .. Len(old) + Len(b) : new[k] = IF k <= Len(old) THEN old[k] ELSE b[k - Len(old)]
    <2> DEFINE S == Files \X Nat
    <2>1. old \in Seq(S) /\ b \in Seq(S)
      BY <1>3
    <2> HIDE DEF S
    <2>2. /\ new \in Seq(S) /\ Len(new) = Len(old) + Len(b)
          /\ \A k \in 1 .. Len(old) + Len(b) : new[k] = IF k <= Len(old) THEN old[k] ELSE b[k - Len(old)]
      BY <2>1, <1>4, ConcatProperties
    <2> QED BY <2>2 DEF S
  <1>6. \A k \in o + 1 .. o + n : k - o \in 1 .. n /\ o + (k - o) = k /\ k \in 1 .. o + n /\ ~(k <= o)
    BY <1>1
  <1>7. \A k \in 1 .. o : k \in 1 .. o + n /\ k <= o
    BY <1>1
  <1>8. /\ new \in Seq(Files \X Nat) /\ Len(new) = o + n
        /\ \A k \in 1 .. o + n : new[k] = IF k <= o THEN old[k] ELSE b[k - o]
    BY <1>3, <1>5 DEF o
  <1>9. \A k \in o + 1 .. o + n : new[k] = <<f, k>>
    BY <1>3, <1>6, <1>8
  <1>10. \A k \in 1 .. o : new[k] = old[k]
    BY <1>7, <1>8
  <1> QED BY <1>8, <1>9, <1>10 DEF o

\* The next n blocks of a file are written.
LEMMA DiskAppended ==
    ASSUME Typed, NEW f \in Files, NEW n \in Nat,
           disk' = [disk EXCEPT ![f] = disk[f] \o Blocks(f, Len(disk[f]), n)]
    PROVE  /\ disk'[f] \in Seq(Files \X Nat) /\ Len(disk'[f]) = Len(disk[f]) + n
           /\ \A k \in 1 .. Len(disk[f]) : disk'[f][k] = disk[f][k]
           /\ \A k \in Len(disk[f]) + 1 .. Len(disk[f]) + n : disk'[f][k] = <<f, k>>
  <1> DEFINE old == disk[f]
             new == disk'[f]
  <1>1. old \in Seq(Files \X Nat) /\ new = old \o Blocks(f, Len(old), n)
    BY DEF Typed
  <1> HIDE DEF old, new
  <1>2. new \in Seq(Files \X Nat)
    BY <1>1, BlocksAppended
  <1>3. Len(new) = Len(old) + n
    BY <1>1, BlocksAppended, ZenonT(60)
  <1>4. \A k \in 1 .. Len(old) : new[k] = old[k]
    BY <1>1, BlocksAppended, ZenonT(60)
  <1>5. \A k \in Len(old) + 1 .. Len(old) + n : new[k] = <<f, k>>
    BY <1>1, BlocksAppended, ZenonT(60)
  <1> QED BY <1>2, <1>3, <1>4, <1>5 DEF old, new

-----------------------------------------------------------------------------
(* Sessions.                                                               *)

\* A session starts with nothing under way, or keeps what is known.
LEMMA StartSessionStep == IInv /\ StartSession => IInv'
  <1> SUFFICES ASSUME IInv, StartSession PROVE IInv'
    OBVIOUS
  <1>a. pc' \in {"done", "id"}
    BY DEF StartSession
  <1>b. pc' = "id" => /\ reqs = <<>> /\ link = <<>> /\ handles = <<>>
                     /\ reqs' = <<>> /\ link' = <<>> /\ handles' = <<>> /\ list' = <<>>
    BY DEF IInv, Typed, TypeOK, Epochs, StartSession, module
  <1>c. fresh' => pc' = "id"
    BY DEF IInv, Typed, TypeOK, Epochs, StartSession, module
  <1>1. Typed'
    <2>1. /\ {ids', header', init4', got'} \subseteq BOOLEAN
          /\ fresh' \in BOOLEAN /\ abnormal' \in BOOLEAN
      BY DEF IInv, Typed, TypeOK, StartSession
    <2>2. list' \in Seq(Files) /\ Len(list') = 0
      BY DEF StartSession
    <2> QED
      BY <2>1, <2>2, <1>a, FileFacts, QueueFacts
         DEF IInv, Typed, TypeOK, StartSession, request, reading, module
  <1>2. QdbIsPrefix'
    BY FileFacts, QueueFacts DEF IInv, Typed, TypeOK, QdbIsPrefix, StartSession, request, reading,
       header4, sessions, module
  <1>3. HeaderAtEnd'
    BY FileFacts, QueueFacts, <1>a, <1>b, <1>c DEF IInv, Typed, TypeOK, HeaderAtEnd, StartSession,
       request, reading, header4, sessions, module
  <1>4. Epochs'
    BY FileFacts, QueueFacts DEF IInv, Typed, TypeOK, Epochs, StartSession, request, reading,
       header4, sessions, module
  <1>5. Waiting'
    BY FileFacts, QueueFacts DEF IInv, Typed, TypeOK, Waiting, StartSession, request, reading,
       header4, sessions, module
  <1>6. ListOnce'
    <2>1. list' = <<>> /\ Reqs("list")' = Reqs("list") /\ Link("list")' = Link("list")
      BY DEF StartSession, module, Reqs, Link
    <2>2. pc' = "id" => Reqs("list") = {} /\ Link("list") = {}
      BY <1>b, EmptyQueues
    <2> QED
      BY <2>1, <2>2, <1>a DEF IInv, ListOnce, OneOf, NoneOf
  <1>7. OneFile'
    <2>1. /\ Reqs("open")' = Reqs("open") /\ Link("open")' = Link("open")
          /\ handles' = handles /\ link' = link
      BY DEF StartSession, module, Reqs, Link
    <2>2. pc' = "id" => Reqs("open") = {} /\ Link("open") = {}
      BY <1>b, EmptyQueues
    <2> QED
      BY <2>1, <2>2, <1>a, <1>b DEF IInv, OneFile, Unopened
  <1>8. BlocksUnderWay'
    <2>1. /\ Reqs("read")' = Reqs("read") /\ Link("data")' = Link("data")
          /\ handles' = handles /\ link' = link /\ reqs' = reqs
          /\ diskFd' = diskFd /\ op' = op /\ disk' = disk
      BY DEF StartSession, module, Reqs, Link, reading, request
    <2>2. pc' = "id" => Reqs("read") = {} /\ Link("data") = {}
      BY <1>b, EmptyQueues
    <2> QED
      BY <2>1, <2>2, <1>a, <1>b
         DEF IInv, BlocksUnderWay, Unopened, OneOf, NoneOf, Writable, Fits
  <1>9. ReadLoop'
    BY FileFacts, QueueFacts DEF IInv, Typed, TypeOK, ReadLoop, NoneOf, Reqs, Link, NoFd,
       StartSession, request, reading, header4, sessions, module
  <1> QED BY <1>1, <1>2, <1>3, <1>4, <1>5, <1>6, <1>7, <1>8, <1>9 DEF IInv

\* A session ends with nothing under way, or as it was.
LEMMA EndSessionStep == IInv /\ EndSession => IInv'
  <1> SUFFICES ASSUME IInv, EndSession PROVE IInv'
    OBVIOUS
  <1>a. /\ pc' = "off" /\ waiting' = FALSE /\ op' = op /\ list' = list /\ diskFd' = diskFd
        /\ disk' = disk
        /\ \/ reqs' = <<>> /\ link' = <<>> /\ handles' = <<>>
           \/ reqs' = reqs /\ link' = link /\ handles' = handles
    BY DEF EndSession, module, header4, reading
  <1>b. ASSUME NEW kind
        PROVE  /\ Reqs(kind)' = {} \/ (Reqs(kind)' = Reqs(kind) /\ reqs' = reqs /\ handles' = handles)
               /\ Link(kind)' = {} \/ (Link(kind)' = Link(kind) /\ link' = link)
    BY <1>a DEF Reqs, Link
  <1>1. Typed'
    <2>1. waiting' \in BOOLEAN /\ abnormal' \in BOOLEAN
      BY DEF IInv, Typed, TypeOK, EndSession
    <2>2. reqs' \in Seq(Requests) /\ link' \in Seq(Packets) /\ handles' \in Seq(Files)
      BY EmptySeq DEF IInv, Typed, EndSession, module
    <2> QED
      BY <2>1, <2>2 DEF IInv, Typed, TypeOK, EndSession, reading, header4
  <1>2. QdbIsPrefix'
    BY FileFacts, QueueFacts DEF IInv, Typed, TypeOK, QdbIsPrefix, EndSession, request, reading,
       header4, sessions, module
  <1>3. HeaderAtEnd'
    BY FileFacts, QueueFacts DEF IInv, Typed, TypeOK, HeaderAtEnd, EndSession, request, reading,
       header4, sessions, module
  <1>4. Epochs'
    BY FileFacts, QueueFacts DEF IInv, Typed, TypeOK, Epochs, EndSession, request, reading,
       header4, sessions, module
  <1>5. Waiting'
    BY FileFacts, QueueFacts DEF IInv, Typed, TypeOK, Waiting, EndSession, request, reading,
       header4, sessions, module
  <1>6. ListOnce'
    BY <1>a, <1>b DEF IInv, ListOnce, OneOf, NoneOf
  <1>7. OneFile'
    BY FileFacts, QueueFacts DEF IInv, Typed, TypeOK, OneFile, Unopened, Reqs, Link, NoFd,
       EndSession, request, reading, header4, sessions, module
  <1>8. BlocksUnderWay'
    BY <1>a, <1>b DEF IInv, BlocksUnderWay, Unopened, OneOf, NoneOf, Writable, Fits
  <1>9. ReadLoop'
    BY FileFacts, QueueFacts DEF IInv, Typed, TypeOK, ReadLoop, NoneOf, Reqs, Link, NoFd,
       EndSession, request, reading, header4, sessions, module
  <1> QED BY <1>1, <1>2, <1>3, <1>4, <1>5, <1>6, <1>7, <1>8, <1>9 DEF IInv

-----------------------------------------------------------------------------
(* The filter thread.                                                      *)

\* The ids are known or not.
LEMMA IdsReturnStep == IInv /\ IdsReturn => IInv'
  <1> SUFFICES ASSUME IInv, IdsReturn PROVE IInv'
    OBVIOUS
  <1>1. Typed'
    BY FileFacts, QueueFacts DEF IInv, Typed, TypeOK, IdsReturn, request, reading, header4,
       sessions, module, Return
  <1>2. QdbIsPrefix'
    BY FileFacts, QueueFacts DEF IInv, Typed, TypeOK, QdbIsPrefix, IdsReturn, request, reading,
       header4, sessions, module, Return
  <1>3. HeaderAtEnd'
    BY FileFacts, QueueFacts DEF IInv, Typed, TypeOK, HeaderAtEnd, IdsReturn, request, reading,
       header4, sessions, module, Return
  <1>4. Epochs'
    BY FileFacts, QueueFacts DEF IInv, Typed, TypeOK, Epochs, IdsReturn, request, reading,
       header4, sessions, module, Return
  <1>5. Waiting'
    BY FileFacts, QueueFacts DEF IInv, Typed, TypeOK, Waiting, IdsReturn, request, reading,
       header4, sessions, module, Return
  <1>6. ListOnce'
    BY FileFacts, QueueFacts DEF IInv, Typed, TypeOK, ListOnce, OneOf, NoneOf, Reqs, Link,
       IdsReturn, request, reading, header4, sessions, module, Return
  <1>7. OneFile'
    BY FileFacts, QueueFacts DEF IInv, Typed, TypeOK, OneFile, Unopened, Reqs, Link, NoFd,
       IdsReturn, request, reading, header4, sessions, module, Return
  <1>8. BlocksUnderWay'
    BY FileFacts, QueueFacts DEF IInv, Typed, TypeOK, BlocksUnderWay, Unopened, OneOf, NoneOf,
       Reqs, Link, Writable, Fits, NoFd, IdsReturn, request, reading, header4, sessions, module,
       Return
  <1>9. ReadLoop'
    BY FileFacts, QueueFacts DEF IInv, Typed, TypeOK, ReadLoop, NoneOf, Reqs, Link, NoFd,
       IdsReturn, request, reading, header4, sessions, module, Return
  <1> QED BY <1>1, <1>2, <1>3, <1>4, <1>5, <1>6, <1>7, <1>8, <1>9 DEF IInv

\* The loop begins.
LEMMA ListReturnStep == IInv /\ ListReturn => IInv'
  <1> SUFFICES ASSUME IInv, ListReturn PROVE IInv'
    OBVIOUS
  <1>1. Typed'
    BY FileFacts, QueueFacts DEF IInv, Typed, TypeOK, ListReturn, request, reading, header4,
       sessions, module, Return
  <1>2. QdbIsPrefix'
    BY FileFacts, QueueFacts DEF IInv, Typed, TypeOK, QdbIsPrefix, ListReturn, request, reading,
       header4, sessions, module, Return
  <1>3. HeaderAtEnd'
    BY FileFacts, QueueFacts DEF IInv, Typed, TypeOK, HeaderAtEnd, ListReturn, request, reading,
       header4, sessions, module, Return
  <1>4. Epochs'
    BY FileFacts, QueueFacts DEF IInv, Typed, TypeOK, Epochs, ListReturn, request, reading,
       header4, sessions, module, Return
  <1>5. Waiting'
    BY FileFacts, QueueFacts DEF IInv, Typed, TypeOK, Waiting, ListReturn, request, reading,
       header4, sessions, module, Return
  <1>6. ListOnce'
    BY FileFacts, QueueFacts DEF IInv, Typed, TypeOK, ListOnce, OneOf, NoneOf, Reqs, Link,
       ListReturn, request, reading, header4, sessions, module, Return
  <1>7. OneFile'
    BY FileFacts, QueueFacts DEF IInv, Typed, TypeOK, OneFile, Unopened, Reqs, Link, NoFd,
       ListReturn, request, reading, header4, sessions, module, Return
  <1>8. BlocksUnderWay'
    BY FileFacts, QueueFacts DEF IInv, Typed, TypeOK, BlocksUnderWay, Unopened, OneOf, NoneOf,
       Reqs, Link, Writable, Fits, NoFd, ListReturn, request, reading, header4, sessions, module,
       Return
  <1>9. ReadLoop'
    BY FileFacts, QueueFacts DEF IInv, Typed, TypeOK, ReadLoop, NoneOf, Reqs, Link, NoFd,
       ListReturn, request, reading, header4, sessions, module, Return
  <1> QED BY <1>1, <1>2, <1>3, <1>4, <1>5, <1>6, <1>7, <1>8, <1>9 DEF IInv

\* A file is chosen before anything is asked about it.
LEMMA NextFileStep == IInv /\ NextFile => IInv'
  <1> SUFFICES ASSUME IInv, NextFile PROVE IInv'
    OBVIOUS
  <1>1. Typed'
    <2>1. UNCHANGED <<off, readLen, diskFd, disk, request, header4, sessions, module>>
      BY DEF NextFile, reading
    <2>2. pc' \in {"header", "next", "open"}
      BY DEF NextFile
    <2>3. i' \in Nat /\ total' \in Nat /\ readFd' \in Nat
      BY SMTT(30) DEF IInv, Typed, TypeOK, NextFile, reading, NoFd
    <2> QED
      BY <2>1, <2>2, <2>3 DEF IInv, Typed, TypeOK, request, header4, sessions, module
  <1>2. QdbIsPrefix'
    BY FileFacts, QueueFacts DEF IInv, Typed, TypeOK, QdbIsPrefix, NextFile, request, reading,
       header4, sessions, module, Return
  <1>3. HeaderAtEnd'
    BY FileFacts, QueueFacts DEF IInv, Typed, TypeOK, HeaderAtEnd, NextFile, request, reading,
       header4, sessions, module, Return
  <1>4. Epochs'
    BY FileFacts, QueueFacts DEF IInv, Typed, TypeOK, Epochs, NextFile, request, reading, header4,
       sessions, module, Return
  <1>5. Waiting'
    BY FileFacts, QueueFacts DEF IInv, Typed, TypeOK, Waiting, NextFile, request, reading,
       header4, sessions, module, Return
  <1>6. ListOnce'
    BY FileFacts, QueueFacts, SMTT(30) DEF IInv, Typed, TypeOK, ListOnce, OneOf, NoneOf, Reqs, Link,
       NextFile, request, reading, header4, sessions, module, Return
  <1>7. OneFile'
    <2>1. /\ Reqs("open")' = Reqs("open") /\ Link("open")' = Link("open")
          /\ handles' = handles /\ link' = link /\ reqs' = reqs /\ list' = list /\ got' = got
      BY DEF NextFile, module, Reqs, Link, header4
    <2>2. pc' = "open" => /\ ~got /\ i' = i /\ i <= Len(list) /\ readFd' = 0
      BY QueueFacts DEF IInv, Typed, TypeOK, NextFile, NoFd
    <2>3. pc' \in {"header", "next", "open"} /\ pc = "next"
      BY DEF NextFile
    <2>4. pc' = "next" => i' >= 1
      BY DEF IInv, Typed, TypeOK, OneFile, NextFile
    <2>5. i \in Nat /\ i >= 1 /\ Len(list) \in Nat
      BY <2>3, QueueFacts DEF IInv, Typed, TypeOK, OneFile
    <2>6. ~got => handles = <<>> /\ Reqs("open") = {} /\ Link("open") = {}
      BY <2>3 DEF IInv, OneFile, Unopened
    <2> QED
      BY <2>1, <2>2, <2>3, <2>4, <2>5, <2>6 DEF IInv, OneFile, Unopened
  <1>8. BlocksUnderWay'
    BY FileFacts, QueueFacts DEF IInv, Typed, TypeOK, BlocksUnderWay, Unopened, OneOf, NoneOf,
       Reqs, Link, Writable, Fits, NoFd, NextFile, request, reading, header4, sessions, module,
       Return
  <1>9. ReadLoop'
    BY FileFacts, QueueFacts DEF IInv, Typed, TypeOK, ReadLoop, NoneOf, Reqs, Link, NoFd,
       NextFile, request, reading, header4, sessions, module, Return
  <1> QED BY <1>1, <1>2, <1>3, <1>4, <1>5, <1>6, <1>7, <1>8, <1>9 DEF IInv

\* An opened file is empty on disk.
LEMMA OpenReturnStep == IInv /\ OpenReturn => IInv'
  <1> SUFFICES ASSUME IInv, OpenReturn PROVE IInv'
    OBVIOUS
  <1>a. i \in 1 .. Len(list) /\ list[i] \in Files
    BY QueueFacts DEF IInv, OneFile, OpenReturn
  <1>b. disk' = disk \/ disk' = [disk EXCEPT ![list[i]] = <<>>]
    BY DEF OpenReturn
  <1>c. /\ disk' \in [Files -> Seq(Files \X Nat)]
        /\ \A f \in Files : disk'[f] = disk[f] \/ disk'[f] = <<>>
    BY <1>a, <1>b, EmptySeq DEF IInv, Typed
  <1>d. readFd # NoFd => disk'[list[i]] = <<>> /\ Len(disk'[list[i]]) = 0
    BY <1>a DEF IInv, Typed, OpenReturn
  <1>1. Typed'
    <2>1. waiting' \in BOOLEAN
      BY DEF OpenReturn, Return
    <2>2. \A f \in Files : Len(disk'[f]) <= FileLen[f]
      BY <1>c, FileFacts DEF IInv, Typed, TypeOK
    <2>3. total' \in Nat /\ diskFd' \in {NoFd} \cup Files
      BY <1>a, FileFacts DEF IInv, Typed, TypeOK, OpenReturn
    <2> QED
      BY <2>1, <2>2, <2>3, <1>c
         DEF IInv, Typed, TypeOK, OpenReturn, Return, header4, sessions, module
  <1>2. QdbIsPrefix'
    <2>1. \A f \in Files : disk'[f] = <<>> => 1 .. Len(disk'[f]) = {}
      OBVIOUS
    <2> QED BY <2>1, <1>c DEF IInv, QdbIsPrefix
  <1>3. HeaderAtEnd'
    BY FileFacts, QueueFacts DEF IInv, Typed, TypeOK, HeaderAtEnd, OpenReturn, request, reading,
       header4, sessions, module, Return
  <1>4. Epochs'
    BY FileFacts, QueueFacts DEF IInv, Typed, TypeOK, Epochs, OpenReturn, request, reading,
       header4, sessions, module, Return
  <1>5. Waiting'
    BY FileFacts, QueueFacts DEF IInv, Typed, TypeOK, Waiting, OpenReturn, request, reading,
       header4, sessions, module, Return
  <1>6. ListOnce'
    BY FileFacts, QueueFacts, SMTT(30) DEF IInv, Typed, TypeOK, ListOnce, OneOf, NoneOf, Reqs, Link,
       OpenReturn, request, reading, header4, sessions, module, Return
  <1>7. OneFile'
    BY FileFacts, QueueFacts DEF IInv, Typed, TypeOK, OneFile, Unopened, Reqs, Link, NoFd,
       OpenReturn, request, reading, header4, sessions, module, Return
  <1>8. BlocksUnderWay'
    BY FileFacts, QueueFacts DEF IInv, Typed, TypeOK, BlocksUnderWay, Unopened, OneOf, NoneOf,
       Reqs, Link, Writable, Fits, NoFd, OpenReturn, request, reading, header4, sessions, module,
       Return
  <1>9. ReadLoop'
    <2>1. Reqs("read")' = Reqs("read") /\ Link("data")' = Link("data")
      BY DEF OpenReturn, module, Reqs, Link
    <2>2. NoneOf(Reqs("read"), Link("data"))
      BY DEF IInv, BlocksUnderWay, OpenReturn
    <2>3. readFd # NoFd => diskFd' = list[i] /\ total' = FileLen[list[i]]
      BY DEF OpenReturn
    <2>4. /\ pc' = "read" /\ ~waiting' /\ off' = 0
          /\ readFd' = readFd /\ list' = list /\ i' = i
      BY DEF OpenReturn, Return, header4
    <2> QED
      BY <2>1, <2>2, <2>3, <2>4, <1>d DEF ReadLoop, NoneOf
  <1> QED BY <1>1, <1>2, <1>3, <1>4, <1>5, <1>6, <1>7, <1>8, <1>9 DEF IInv

\* A full block has been taken; after any other the loop ends.
LEMMA ReadReturnStep == IInv /\ ReadReturn => IInv'
  <1> SUFFICES ASSUME IInv, ReadReturn PROVE IInv'
    OBVIOUS
  <1>1. Typed'
    <2>1. waiting' \in BOOLEAN
      BY Zenon DEF ReadReturn, Return
    <2> QED
      BY <2>1, FileFacts, QueueFacts DEF IInv, Typed, TypeOK, ReadReturn, request, reading,
         header4, sessions, module, Return
  <1>2. QdbIsPrefix'
    BY FileFacts, QueueFacts DEF IInv, Typed, TypeOK, QdbIsPrefix, ReadReturn, request, reading,
       header4, sessions, module, Return
  <1>3. HeaderAtEnd'
    BY FileFacts, QueueFacts DEF IInv, Typed, TypeOK, HeaderAtEnd, ReadReturn, request, reading,
       header4, sessions, module, Return
  <1>4. Epochs'
    BY FileFacts, QueueFacts DEF IInv, Typed, TypeOK, Epochs, ReadReturn, request, reading,
       header4, sessions, module, Return
  <1>5. Waiting'
    BY FileFacts, QueueFacts DEF IInv, Typed, TypeOK, Waiting, ReadReturn, request, reading,
       header4, sessions, module, Return
  <1>6. ListOnce'
    BY FileFacts, QueueFacts DEF IInv, Typed, TypeOK, ListOnce, OneOf, NoneOf, Reqs, Link,
       ReadReturn, request, reading, header4, sessions, module, Return
  <1>7. OneFile'
    BY FileFacts, QueueFacts DEF IInv, Typed, TypeOK, OneFile, Unopened, Reqs, Link, NoFd,
       ReadReturn, request, reading, header4, sessions, module, Return
  <1>8. BlocksUnderWay'
    BY FileFacts, QueueFacts DEF IInv, Typed, TypeOK, BlocksUnderWay, Unopened, OneOf, NoneOf,
       Reqs, Link, Writable, Fits, NoFd, ReadReturn, request, reading, header4, sessions, module,
       Return
  <1>9. ReadLoop'
    BY FileFacts, QueueFacts DEF IInv, Typed, TypeOK, ReadLoop, NoneOf, Reqs, Link, NoFd,
       ReadReturn, request, reading, header4, sessions, module, Return
  <1> QED BY <1>1, <1>2, <1>3, <1>4, <1>5, <1>6, <1>7, <1>8, <1>9 DEF IInv

\* Nothing is asked.
LEMMA ReadNothingStep == IInv /\ ReadNothing => IInv'
  <1> SUFFICES ASSUME IInv, ReadNothing PROVE IInv'
    OBVIOUS
  <1>1. Typed'
    BY FileFacts, QueueFacts DEF IInv, Typed, TypeOK, ReadNothing, request, reading, header4,
       sessions, module, Return
  <1>2. QdbIsPrefix'
    BY FileFacts, QueueFacts DEF IInv, Typed, TypeOK, QdbIsPrefix, ReadNothing, request, reading,
       header4, sessions, module, Return
  <1>3. HeaderAtEnd'
    BY FileFacts, QueueFacts DEF IInv, Typed, TypeOK, HeaderAtEnd, ReadNothing, request, reading,
       header4, sessions, module, Return
  <1>4. Epochs'
    BY FileFacts, QueueFacts DEF IInv, Typed, TypeOK, Epochs, ReadNothing, request, reading,
       header4, sessions, module, Return
  <1>5. Waiting'
    BY FileFacts, QueueFacts DEF IInv, Typed, TypeOK, Waiting, ReadNothing, request, reading,
       header4, sessions, module, Return
  <1>6. ListOnce'
    BY FileFacts, QueueFacts DEF IInv, Typed, TypeOK, ListOnce, OneOf, NoneOf, Reqs, Link,
       ReadNothing, request, reading, header4, sessions, module, Return
  <1>7. OneFile'
    BY FileFacts, QueueFacts DEF IInv, Typed, TypeOK, OneFile, Unopened, Reqs, Link, NoFd,
       ReadNothing, request, reading, header4, sessions, module, Return
  <1>8. BlocksUnderWay'
    BY FileFacts, QueueFacts DEF IInv, Typed, TypeOK, BlocksUnderWay, Unopened, OneOf, NoneOf,
       Reqs, Link, Writable, Fits, NoFd, ReadNothing, request, reading, header4, sessions, module,
       Return
  <1>9. ReadLoop'
    BY FileFacts, QueueFacts DEF IInv, Typed, TypeOK, ReadLoop, NoneOf, Reqs, Link, NoFd,
       ReadNothing, request, reading, header4, sessions, module, Return
  <1> QED BY <1>1, <1>2, <1>3, <1>4, <1>5, <1>6, <1>7, <1>8, <1>9 DEF IInv

\* No further file is fetched.
LEMMA FileDoneStep == IInv /\ FileDone => IInv'
  <1> SUFFICES ASSUME IInv, FileDone PROVE IInv'
    OBVIOUS
  <1>1. Typed'
    <2>1. got' \in BOOLEAN
      BY Zenon DEF FileDone
    <2>2. waiting' = FALSE \/ waiting' = waiting
      BY DEF FileDone, Return, request
    <2>3. waiting' \in BOOLEAN
      BY <2>2, Zenon DEF IInv, Typed, TypeOK
    <2>4. op' \in {"none", "id", "list", "open", "read", "close"}
      BY DEF IInv, Typed, TypeOK, FileDone, Return, request
    <2> QED
      BY <2>1, <2>3, <2>4 DEF IInv, Typed, TypeOK, FileDone, sessions, module, NoFd
  <1>2. QdbIsPrefix'
    BY FileFacts, QueueFacts DEF IInv, Typed, TypeOK, QdbIsPrefix, FileDone, request, reading,
       header4, sessions, module, Return
  <1>3. HeaderAtEnd'
    BY FileFacts, QueueFacts DEF IInv, Typed, TypeOK, HeaderAtEnd, FileDone, request, reading,
       header4, sessions, module, Return
  <1>4. Epochs'
    BY FileFacts, QueueFacts DEF IInv, Typed, TypeOK, Epochs, FileDone, request, reading, header4,
       sessions, module, Return
  <1>5. Waiting'
    BY FileFacts, QueueFacts DEF IInv, Typed, TypeOK, Waiting, FileDone, request, reading,
       header4, sessions, module, Return
  <1>6. ListOnce'
    BY FileFacts, QueueFacts DEF IInv, Typed, TypeOK, ListOnce, OneOf, NoneOf, Reqs, Link,
       FileDone, request, reading, header4, sessions, module, Return
  <1>7. OneFile'
    BY FileFacts, QueueFacts DEF IInv, Typed, TypeOK, OneFile, Unopened, Reqs, Link, NoFd,
       FileDone, request, reading, header4, sessions, module, Return
  <1>8. BlocksUnderWay'
    BY FileFacts, QueueFacts DEF IInv, Typed, TypeOK, BlocksUnderWay, Unopened, OneOf, NoneOf,
       Reqs, Link, Writable, Fits, NoFd, FileDone, request, reading, header4, sessions, module,
       Return
  <1>9. ReadLoop'
    BY FileFacts, QueueFacts DEF IInv, Typed, TypeOK, ReadLoop, NoneOf, Reqs, Link, NoFd,
       FileDone, request, reading, header4, sessions, module, Return
  <1> QED BY <1>1, <1>2, <1>3, <1>4, <1>5, <1>6, <1>7, <1>8, <1>9 DEF IInv

\* The header is complete.
LEMMA AddHeaderStep == IInv /\ AddHeader => IInv'
  <1> SUFFICES ASSUME IInv, AddHeader PROVE IInv'
    OBVIOUS
  <1>1. Typed'
    BY FileFacts, QueueFacts DEF IInv, Typed, TypeOK, AddHeader, request, reading, header4,
       sessions, module, Return
  <1>2. QdbIsPrefix'
    BY FileFacts, QueueFacts DEF IInv, Typed, TypeOK, QdbIsPrefix, AddHeader, request, reading,
       header4, sessions, module, Return
  <1>3. HeaderAtEnd'
    BY FileFacts, QueueFacts DEF IInv, Typed, TypeOK, HeaderAtEnd, AddHeader, request, reading,
       header4, sessions, module, Return
  <1>4. Epochs'
    BY FileFacts, QueueFacts DEF IInv, Typed, TypeOK, Epochs, AddHeader, request, reading,
       header4, sessions, module, Return
  <1>5. Waiting'
    BY FileFacts, QueueFacts DEF IInv, Typed, TypeOK, Waiting, AddHeader, request, reading,
       header4, sessions, module, Return
  <1>6. ListOnce'
    BY FileFacts, QueueFacts DEF IInv, Typed, TypeOK, ListOnce, OneOf, NoneOf, Reqs, Link,
       AddHeader, request, reading, header4, sessions, module, Return
  <1>7. OneFile'
    BY FileFacts, QueueFacts DEF IInv, Typed, TypeOK, OneFile, Unopened, Reqs, Link, NoFd,
       AddHeader, request, reading, header4, sessions, module, Return
  <1>8. BlocksUnderWay'
    BY FileFacts, QueueFacts DEF IInv, Typed, TypeOK, BlocksUnderWay, Unopened, OneOf, NoneOf,
       Reqs, Link, Writable, Fits, NoFd, AddHeader, request, reading, header4, sessions, module,
       Return
  <1>9. ReadLoop'
    BY FileFacts, QueueFacts DEF IInv, Typed, TypeOK, ReadLoop, NoneOf, Reqs, Link, NoFd,
       AddHeader, request, reading, header4, sessions, module, Return
  <1> QED BY <1>1, <1>2, <1>3, <1>4, <1>5, <1>6, <1>7, <1>8, <1>9 DEF IInv

\* The first request.
LEMMA QueryIdsStep == IInv /\ QueryIds => IInv'
  <1> SUFFICES ASSUME IInv, QueryIds PROVE IInv'
    OBVIOUS
  <1>r. <<"id">> \in Requests
    BY DEF Requests
  <1>a. reqs' = Append(reqs, <<"id">>) /\ Typed
    BY DEF QueryIds, Send, IInv
  <1>b. /\ reqs' \in Seq(Requests)
        /\ Len(reqs') = Len(reqs) + 1 /\ reqs'[Len(reqs) + 1] = <<"id">>
        /\ \A k \in 1 .. Len(reqs) : reqs'[k] = reqs[k]
    BY <1>r, <1>a, SendFacts
  <1>c. ASSUME NEW kind
        PROVE  /\ Reqs(kind)' = IF <<"id">>[1] = kind THEN Reqs(kind) \cup {Len(reqs) + 1} ELSE Reqs(kind)
               /\ Link(kind)' = Link(kind) /\ Reqs(kind) \subseteq 1 .. Len(reqs)
    <2>1. Reqs(kind)' = IF <<"id">>[1] = kind THEN Reqs(kind) \cup {Len(reqs) + 1} ELSE Reqs(kind)
      BY <1>r, <1>a, SendSets
    <2> QED BY <2>1 DEF Reqs, Link, QueryIds
  <1>1. Typed'
    <2>1. waiting' \in BOOLEAN
      BY Zenon DEF QueryIds, Send
    <2> QED
      BY <2>1, <1>b, FileFacts, QueueFacts
         DEF Typed, TypeOK, IInv, QueryIds, Send, reading, header4, sessions, NoFd
  <1>2. QdbIsPrefix'
    BY FileFacts, QueueFacts DEF IInv, Typed, TypeOK, QdbIsPrefix, QueryIds, Send, reading,
       header4, sessions
  <1>3. HeaderAtEnd'
    BY FileFacts, QueueFacts DEF IInv, Typed, TypeOK, HeaderAtEnd, QueryIds, Send, reading,
       header4, sessions
  <1>4. Epochs'
    BY FileFacts, QueueFacts DEF IInv, Typed, TypeOK, Epochs, QueryIds, Send, reading, header4,
       sessions
  <1>5. Waiting'
    BY FileFacts, QueueFacts DEF IInv, Typed, TypeOK, Waiting, QueryIds, Send, reading, header4,
       sessions
  <1>6. ListOnce'
    BY <1>c, QueueFacts DEF ListOnce, OneOf, NoneOf, IInv, QueryIds, Send, reading, header4, sessions
  <1>7. OneFile'
    BY <1>a, <1>b, <1>c, QueueFacts DEF OneFile, Unopened, IInv, QueryIds, Send, reading, header4, sessions, NoFd
  <1>8. BlocksUnderWay'
    BY <1>a, <1>b, <1>c, QueueFacts, ZenonT(60)
       DEF BlocksUnderWay, Unopened, OneOf, NoneOf, Writable, Fits, IInv, QueryIds, Send, reading, header4, sessions, NoFd
  <1>9. ReadLoop'
    BY <1>a, <1>b, <1>c, QueueFacts DEF ReadLoop, NoneOf, IInv, QueryIds, Send, reading, header4, sessions, NoFd
  <1> QED BY <1>1, <1>2, <1>3, <1>4, <1>5, <1>6, <1>7, <1>8, <1>9 DEF IInv

\* The list is asked for once.
LEMMA QueryListStep == IInv /\ QueryList => IInv'
  <1> SUFFICES ASSUME IInv, QueryList PROVE IInv'
    OBVIOUS
  <1>r. <<"list">> \in Requests
    BY DEF Requests
  <1>a. reqs' = Append(reqs, <<"list">>) /\ Typed
    BY DEF QueryList, Send, IInv
  <1>b. /\ reqs' \in Seq(Requests)
        /\ Len(reqs') = Len(reqs) + 1 /\ reqs'[Len(reqs) + 1] = <<"list">>
        /\ \A k \in 1 .. Len(reqs) : reqs'[k] = reqs[k]
    BY <1>r, <1>a, SendFacts
  <1>c. ASSUME NEW kind
        PROVE  /\ Reqs(kind)' = IF <<"list">>[1] = kind THEN Reqs(kind) \cup {Len(reqs) + 1} ELSE Reqs(kind)
               /\ Link(kind)' = Link(kind) /\ Reqs(kind) \subseteq 1 .. Len(reqs)
    <2>1. Reqs(kind)' = IF <<"list">>[1] = kind THEN Reqs(kind) \cup {Len(reqs) + 1} ELSE Reqs(kind)
      BY <1>r, <1>a, SendSets
    <2> QED BY <2>1 DEF Reqs, Link, QueryList
  <1>1. Typed'
    <2>1. waiting' \in BOOLEAN
      BY Zenon DEF QueryList, Send
    <2> QED
      BY <2>1, <1>b, FileFacts, QueueFacts
         DEF Typed, TypeOK, IInv, QueryList, Send, reading, header4, sessions, NoFd
  <1>2. QdbIsPrefix'
    BY FileFacts, QueueFacts DEF IInv, Typed, TypeOK, QdbIsPrefix, QueryList, Send, reading,
       header4, sessions
  <1>3. HeaderAtEnd'
    BY FileFacts, QueueFacts DEF IInv, Typed, TypeOK, HeaderAtEnd, QueryList, Send, reading,
       header4, sessions
  <1>4. Epochs'
    BY FileFacts, QueueFacts DEF IInv, Typed, TypeOK, Epochs, QueryList, Send, reading, header4,
       sessions
  <1>5. Waiting'
    BY FileFacts, QueueFacts DEF IInv, Typed, TypeOK, Waiting, QueryList, Send, reading, header4,
       sessions
  <1>6. ListOnce'
    BY <1>c, QueueFacts DEF ListOnce, OneOf, NoneOf, IInv, QueryList, Send, reading, header4, sessions
  <1>7. OneFile'
    BY <1>a, <1>b, <1>c, QueueFacts DEF OneFile, Unopened, IInv, QueryList, Send, reading, header4, sessions, NoFd
  <1>8. BlocksUnderWay'
    BY <1>a, <1>b, <1>c, QueueFacts, ZenonT(60)
       DEF BlocksUnderWay, Unopened, OneOf, NoneOf, Writable, Fits, IInv, QueryList, Send, reading, header4, sessions, NoFd
  <1>9. ReadLoop'
    BY <1>a, <1>b, <1>c, QueueFacts DEF ReadLoop, NoneOf, IInv, QueryList, Send, reading, header4, sessions, NoFd
  <1> QED BY <1>1, <1>2, <1>3, <1>4, <1>5, <1>6, <1>7, <1>8, <1>9 DEF IInv

\* The file is asked for once.
LEMMA SendOpenStep == IInv /\ SendOpen => IInv'
  <1> SUFFICES ASSUME IInv, SendOpen PROVE IInv'
    OBVIOUS
  <1>r. <<"open", list[i]>> \in Requests
    <2>1. list[i] \in Files
      BY QueueFacts DEF IInv, OneFile, SendOpen
    <2> QED BY <2>1 DEF Requests
  <1>a. reqs' = Append(reqs, <<"open", list[i]>>) /\ Typed
    BY DEF SendOpen, Send, IInv
  <1>b. /\ reqs' \in Seq(Requests)
        /\ Len(reqs') = Len(reqs) + 1 /\ reqs'[Len(reqs) + 1] = <<"open", list[i]>>
        /\ \A k \in 1 .. Len(reqs) : reqs'[k] = reqs[k]
    BY <1>r, <1>a, SendFacts
  <1>c. ASSUME NEW kind
        PROVE  /\ Reqs(kind)' = IF <<"open", list[i]>>[1] = kind THEN Reqs(kind) \cup {Len(reqs) + 1} ELSE Reqs(kind)
               /\ Link(kind)' = Link(kind) /\ Reqs(kind) \subseteq 1 .. Len(reqs)
    <2>1. Reqs(kind)' = IF <<"open", list[i]>>[1] = kind THEN Reqs(kind) \cup {Len(reqs) + 1} ELSE Reqs(kind)
      BY <1>r, <1>a, SendSets
    <2> QED BY <2>1 DEF Reqs, Link, SendOpen
  <1>1. Typed'
    <2>1. waiting' \in BOOLEAN
      BY Zenon DEF SendOpen, Send
    <2> QED
      BY <2>1, <1>b, FileFacts, QueueFacts
         DEF Typed, TypeOK, IInv, SendOpen, Send, reading, header4, sessions, NoFd
  <1>2. QdbIsPrefix'
    BY FileFacts, QueueFacts DEF IInv, Typed, TypeOK, QdbIsPrefix, SendOpen, Send, reading,
       header4, sessions
  <1>3. HeaderAtEnd'
    BY FileFacts, QueueFacts DEF IInv, Typed, TypeOK, HeaderAtEnd, SendOpen, Send, reading,
       header4, sessions
  <1>4. Epochs'
    BY FileFacts, QueueFacts DEF IInv, Typed, TypeOK, Epochs, SendOpen, Send, reading, header4,
       sessions
  <1>5. Waiting'
    BY FileFacts, QueueFacts DEF IInv, Typed, TypeOK, Waiting, SendOpen, Send, reading, header4,
       sessions
  <1>6. ListOnce'
    BY <1>c, QueueFacts DEF ListOnce, OneOf, NoneOf, IInv, SendOpen, Send, reading, header4, sessions
  <1>7. OneFile'
    BY <1>a, <1>b, <1>c, QueueFacts DEF OneFile, Unopened, IInv, SendOpen, Send, reading, header4, sessions, NoFd
  <1>8. BlocksUnderWay'
    BY <1>a, <1>b, <1>c, QueueFacts, ZenonT(60)
       DEF BlocksUnderWay, Unopened, OneOf, NoneOf, Writable, Fits, IInv, SendOpen, Send, reading, header4, sessions, NoFd
  <1>9. ReadLoop'
    BY <1>a, <1>b, <1>c, QueueFacts DEF ReadLoop, NoneOf, IInv, SendOpen, Send, reading, header4, sessions, NoFd
  <1> QED BY <1>1, <1>2, <1>3, <1>4, <1>5, <1>6, <1>7, <1>8, <1>9 DEF IInv

\* The next block is asked for once the last has been taken.
LEMMA SendReadStep == IInv /\ SendRead => IInv'
  <1> SUFFICES ASSUME IInv, SendRead PROVE IInv'
    OBVIOUS
  <1>s. Asked \in 0 .. MaxRead /\ Asked + off <= total /\ off \in Nat /\ readFd \in Nat
    BY FileFacts, SMTT(30) DEF IInv, Typed, TypeOK, SendRead, Asked
  <1>r. <<"read", readFd, off, Asked>> \in Requests
    BY <1>s DEF Requests
  <1>a. reqs' = Append(reqs, <<"read", readFd, off, Asked>>) /\ Typed
    BY DEF SendRead, Send, IInv
  <1>b. /\ reqs' \in Seq(Requests)
        /\ Len(reqs') = Len(reqs) + 1 /\ reqs'[Len(reqs) + 1] = <<"read", readFd, off, Asked>>
        /\ \A k \in 1 .. Len(reqs) : reqs'[k] = reqs[k]
    BY <1>r, <1>a, SendFacts
  <1>c. ASSUME NEW kind
        PROVE  /\ Reqs(kind)' = IF <<"read", readFd, off, Asked>>[1] = kind THEN Reqs(kind) \cup {Len(reqs) + 1} ELSE Reqs(kind)
               /\ Link(kind)' = Link(kind) /\ Reqs(kind) \subseteq 1 .. Len(reqs)
    <2>1. Reqs(kind)' = IF <<"read", readFd, off, Asked>>[1] = kind THEN Reqs(kind) \cup {Len(reqs) + 1} ELSE Reqs(kind)
      BY <1>r, <1>a, SendSets
    <2> QED BY <2>1 DEF Reqs, Link, SendRead
  <1>1. Typed'
    <2>1. waiting' \in BOOLEAN
      BY Zenon DEF SendRead, Send
    <2> QED
      BY <2>1, <1>b, FileFacts, QueueFacts
         DEF Typed, TypeOK, IInv, SendRead, Send, header4, sessions, NoFd
  <1>2. QdbIsPrefix'
    BY FileFacts, QueueFacts DEF IInv, Typed, TypeOK, QdbIsPrefix, SendRead, Send, header4,
       sessions
  <1>3. HeaderAtEnd'
    BY FileFacts, QueueFacts DEF IInv, Typed, TypeOK, HeaderAtEnd, SendRead, Send, header4,
       sessions
  <1>4. Epochs'
    BY FileFacts, QueueFacts DEF IInv, Typed, TypeOK, Epochs, SendRead, Send, header4, sessions
  <1>5. Waiting'
    BY FileFacts, QueueFacts DEF IInv, Typed, TypeOK, Waiting, SendRead, Send, header4, sessions
  <1>6. ListOnce'
    BY <1>c, QueueFacts DEF ListOnce, OneOf, NoneOf, IInv, SendRead, Send, header4, sessions
  <1>7. OneFile'
    <2>1. Reqs("open")' = Reqs("open") /\ Link("open")' = Link("open") /\ Reqs("open") \subseteq 1 .. Len(reqs)
      BY <1>c
    <2>2. /\ pc = "read" /\ pc' = "read"
          /\ UNCHANGED <<i, readFd, list, handles, link>>
      BY DEF SendRead, header4
    <2> QED
      BY <2>1, <2>2, <1>b DEF IInv, OneFile, Unopened
  <1>8. BlocksUnderWay'
    <2>1. /\ Reqs("read") = {} /\ Link("data") = {}
          /\ Reqs("read")' = {Len(reqs) + 1} /\ Link("data")' = {}
      BY <1>c DEF IInv, ReadLoop, NoneOf, SendRead, Send
    <2>2. /\ pc = "read" /\ pc' = "read"
          /\ UNCHANGED <<i, off, readFd, list, handles, link, diskFd, disk>>
      BY DEF SendRead, header4
    <2>3. readFd \in 1 .. Len(handles) /\ handles[readFd] = list[i]
      BY QueueFacts DEF IInv, Typed, OneFile, SendRead, NoFd
    <2>4. /\ reqs'[Len(reqs) + 1][2] = readFd /\ reqs'[Len(reqs) + 1][3] = off
          /\ reqs'[Len(reqs) + 1][4] = Asked
      BY <1>b
    <2>5. Fits(list[i], off, Asked)
      BY <1>s DEF IInv, ReadLoop, Fits, SendRead, Send
    <2> QED
      BY <2>1, <2>2, <2>3, <2>4, <2>5
         DEF BlocksUnderWay, OneOf, NoneOf, Unopened, Fits
  <1>9. ReadLoop'
    BY <1>a, <1>b, <1>c, QueueFacts DEF ReadLoop, NoneOf, IInv, SendRead, Send, header4, sessions, NoFd
  <1> QED BY <1>1, <1>2, <1>3, <1>4, <1>5, <1>6, <1>7, <1>8, <1>9 DEF IInv

\* Nothing is written any more.
LEMMA SendCloseStep == IInv /\ SendClose => IInv'
  <1> SUFFICES ASSUME IInv, SendClose PROVE IInv'
    OBVIOUS
  <1>r. <<"close", readFd>> \in Requests
    BY DEF Requests, IInv, Typed, TypeOK
  <1>a. reqs' = Append(reqs, <<"close", readFd>>) /\ Typed
    BY DEF SendClose, Send, IInv
  <1>b. /\ reqs' \in Seq(Requests)
        /\ Len(reqs') = Len(reqs) + 1 /\ reqs'[Len(reqs) + 1] = <<"close", readFd>>
        /\ \A k \in 1 .. Len(reqs) : reqs'[k] = reqs[k]
    BY <1>r, <1>a, SendFacts
  <1>c. ASSUME NEW kind
        PROVE  /\ Reqs(kind)' = IF <<"close", readFd>>[1] = kind THEN Reqs(kind) \cup {Len(reqs) + 1} ELSE Reqs(kind)
               /\ Link(kind)' = Link(kind) /\ Reqs(kind) \subseteq 1 .. Len(reqs)
    <2>1. Reqs(kind)' = IF <<"close", readFd>>[1] = kind THEN Reqs(kind) \cup {Len(reqs) + 1} ELSE Reqs(kind)
      BY <1>r, <1>a, SendSets
    <2> QED BY <2>1 DEF Reqs, Link, SendClose
  <1>1. Typed'
    <2>1. waiting' \in BOOLEAN
      BY Zenon DEF SendClose, Send
    <2> QED
      BY <2>1, <1>b, FileFacts, QueueFacts
         DEF Typed, TypeOK, IInv, SendClose, Send, header4, sessions, NoFd
  <1>2. QdbIsPrefix'
    BY FileFacts, QueueFacts DEF IInv, Typed, TypeOK, QdbIsPrefix, SendClose, Send, header4,
       sessions
  <1>3. HeaderAtEnd'
    BY FileFacts, QueueFacts DEF IInv, Typed, TypeOK, HeaderAtEnd, SendClose, Send, header4,
       sessions
  <1>4. Epochs'
    BY FileFacts, QueueFacts DEF IInv, Typed, TypeOK, Epochs, SendClose, Send, header4, sessions
  <1>5. Waiting'
    BY FileFacts, QueueFacts DEF IInv, Typed, TypeOK, Waiting, SendClose, Send, header4, sessions
  <1>6. ListOnce'
    BY <1>c, QueueFacts DEF ListOnce, OneOf, NoneOf, IInv, SendClose, Send, header4, sessions
  <1>7. OneFile'
    BY <1>a, <1>b, <1>c, QueueFacts DEF OneFile, Unopened, IInv, SendClose, Send, header4, sessions, NoFd
  <1>8. BlocksUnderWay'
    BY <1>a, <1>b, <1>c, QueueFacts, ZenonT(60)
       DEF BlocksUnderWay, Unopened, OneOf, NoneOf, Writable, Fits, IInv, SendClose, Send, header4, sessions, NoFd
  <1>9. ReadLoop'
    BY <1>a, <1>b, <1>c, QueueFacts DEF ReadLoop, NoneOf, IInv, SendClose, Send, header4, sessions, NoFd
  <1> QED BY <1>1, <1>2, <1>3, <1>4, <1>5, <1>6, <1>7, <1>8, <1>9 DEF IInv

-----------------------------------------------------------------------------
(* The module.                                                             *)

\* What an answer adds to the packets under way: one packet of the request's
\* kind, for a read possibly after an acknowledgement.
LEMMA AnswerFacts ==
    ASSUME Typed, OneFile, BlocksUnderWay, reqs # <<>>, NEW a \in Answers(Head(reqs)),
           link' = link \o a
    PROVE  LET r == Head(reqs)
           IN  /\ link' \in Seq(Packets)
               /\ \A k \in 1 .. Len(link) : link'[k] = link[k]
               /\ r[1] # "list" => Link("list")' = Link("list")
               /\ r[1] = "list" => Link("list")' = Link("list") \cup {Len(link) + 1}
               /\ r[1] # "open" => Link("open")' = Link("open")
               /\ r[1] = "open" => /\ Link("open")' = Link("open") \cup {Len(link) + 1}
                                   /\ link'[Len(link) + 1][2] = Len(handles) + 1
               /\ r[1] # "read" => Link("data")' = Link("data")
               /\ r[1] = "read" => \E n \in {Len(link) + 1, Len(link) + 2} :
                                       /\ Link("data")' = Link("data") \cup {n}
                                       /\ link'[n] = <<"data", handles[r[2]], r[3], r[4]>>
  <1> DEFINE r == Head(reqs)
  <1>1. r \in Requests /\ r = reqs[1] /\ Len(reqs) \in Nat \ {0}
    BY QueueFacts, HeadTailProperties, EmptySeq DEF Typed
  <1>2. r[1] \in {"id", "list", "open", "read", "close"}
    BY <1>1, RequestFacts
  <1> HIDE DEF r
  <1>3. CASE r[1] = "id"
    <2>1. a = << <<"id">> >> /\ <<"id">> \in Packets
      BY <1>3 DEF Answers, Packets, r
    <2> QED BY <2>1, <1>3, LinkOne DEF r
  <1>4. CASE r[1] = "list"
    <2>1. a = << <<"list">> >> /\ <<"list">> \in Packets
      BY <1>4 DEF Answers, Packets, r
    <2> QED BY <2>1, <1>4, LinkOne DEF r
  <1>5. CASE r[1] = "open"
    <2> DEFINE d == <<"open", Len(handles) + 1>>
    <2>1. a = <<d>> /\ d \in Packets /\ d[1] = "open" /\ d[2] = Len(handles) + 1
      BY <1>5, QueueFacts DEF Answers, Packets, r
    <2> HIDE DEF d
    <2>2. ASSUME NEW kind
          PROVE  /\ link' \in Seq(Packets) /\ link'[Len(link) + 1] = d
                 /\ Link(kind)' = IF d[1] = kind THEN Link(kind) \cup {Len(link) + 1} ELSE Link(kind)
                 /\ \A k \in 1 .. Len(link) : link'[k] = link[k]
      BY <2>1, LinkOne
    <2> QED BY <2>1, <2>2, <1>5 DEF r
  <1>6. CASE r[1] = "close"
    <2>1. a = << <<"closed", r[2]>> >> /\ <<"closed", r[2]>> \in Packets
      BY <1>1, <1>6, RequestFacts DEF Answers, Packets, r
    <2> QED BY <2>1, <1>6, LinkOne DEF r
  <1>7. CASE r[1] = "read"
    <2> DEFINE d == <<"data", handles[r[2]], r[3], r[4]>>
    <2>1. a = <<d>> \/ a = << <<"ack">>, d>>
      BY <1>7 DEF Answers, r
    <2>2. 1 \in Reqs("read")
      BY <1>1, <1>7 DEF Reqs
    <2>3. handles[r[2]] \in Files
      BY <2>2, <1>1, QueueFacts DEF BlocksUnderWay
    <2>4. d \in Packets /\ d[1] = "data"
      BY <2>3, <1>1, <1>7, RequestFacts DEF Packets
    <2> HIDE DEF d
    <2>5. CASE a = <<d>>
      <3>1. ASSUME NEW kind
            PROVE  /\ link' \in Seq(Packets) /\ link'[Len(link) + 1] = d
                   /\ Link(kind)' = IF d[1] = kind THEN Link(kind) \cup {Len(link) + 1} ELSE Link(kind)
                   /\ \A k \in 1 .. Len(link) : link'[k] = link[k]
        BY <2>5, <2>4, LinkOne
      <3> QED BY <3>1, <2>4, <1>7 DEF r, d
    <2>6. CASE a = << <<"ack">>, d>>
      <3>1. ASSUME NEW kind, kind # "ack"
            PROVE  /\ link' \in Seq(Packets) /\ link'[Len(link) + 2] = d
                   /\ Link(kind)' = IF d[1] = kind THEN Link(kind) \cup {Len(link) + 2} ELSE Link(kind)
                   /\ \A k \in 1 .. Len(link) : link'[k] = link[k]
        <4>1. link' = link \o << <<"ack">>, d>>
          BY <2>6
        <4> QED BY <4>1, <3>1, <2>4, LinkTwo
      <3> QED BY <3>1, <2>4, <1>7 DEF r, d
    <2> QED BY <2>1, <2>5, <2>6
  <1> QED BY <1>2, <1>3, <1>4, <1>5, <1>6, <1>7

\* What Serve does to the queues: the first request goes, its answer may be added.
LEMMA ServeEffect ==
    ASSUME IInv, Serve
    PROVE  /\ reqs' \in Seq(Requests) /\ link' \in Seq(Packets) /\ handles' \in Seq(Files)
           /\ Len(handles) \in Nat /\ Len(handles') \in Nat /\ Len(handles) <= Len(handles')
           /\ \A h \in 1 .. Len(handles) : handles'[h] = handles[h]
           /\ handles' # handles => /\ reqs[1][1] = "open" /\ 1 \in Reqs("open")
                                    /\ Len(handles') = Len(handles) + 1
                                    /\ handles'[Len(handles) + 1] = reqs[1][2]
           /\ \A k \in 1 .. Len(link) : link'[k] = link[k]
           /\ \A k \in 1 .. Len(reqs') : reqs'[k] = reqs[k + 1]
  <1>1. /\ reqs # <<>> /\ reqs' = Tail(reqs)
        /\ \/ UNCHANGED <<link, handles>>
           \/ /\ \E a \in Answers(Head(reqs)) : link' = link \o a
              /\ handles' = IF Head(reqs)[1] = "open" THEN Append(handles, Head(reqs)[2]) ELSE handles
    BY DEF Serve
  <1>2. /\ Typed /\ OneFile /\ BlocksUnderWay
    BY DEF IInv
  <1>3. /\ reqs' \in Seq(Requests)
        /\ Len(reqs) \in Nat \ {0} /\ Len(reqs') = Len(reqs) - 1 /\ Head(reqs) = reqs[1]
        /\ \A k \in 1 .. Len(reqs') : reqs'[k] = reqs[k + 1]
    BY <1>1, <1>2, ServeFacts
  <1>4. link' \in Seq(Packets) /\ \A k \in 1 .. Len(link) : link'[k] = link[k]
    <2>1. CASE UNCHANGED <<link, handles>>
      BY <2>1, <1>2 DEF Typed
    <2>2. ASSUME NEW a \in Answers(Head(reqs)), link' = link \o a
          PROVE  link' \in Seq(Packets) /\ \A k \in 1 .. Len(link) : link'[k] = link[k]
      BY <2>2, <1>1, <1>2, AnswerFacts
    <2> QED BY <1>1, <2>1, <2>2
  <1>5. /\ handles' \in Seq(Files)
        /\ Len(handles) \in Nat /\ Len(handles') \in Nat /\ Len(handles) <= Len(handles')
        /\ \A h \in 1 .. Len(handles) : handles'[h] = handles[h]
        /\ handles' # handles => /\ reqs[1][1] = "open"
                                 /\ Len(handles') = Len(handles) + 1
                                 /\ handles'[Len(handles) + 1] = reqs[1][2]
    <2>1. CASE handles' = handles
      BY <2>1, <1>2, QueueFacts DEF Typed
    <2>2. CASE handles' # handles
      <3>1. reqs[1][1] = "open" /\ handles' = Append(handles, reqs[1][2])
        BY <1>1, <1>3, <2>2
      <3>2. reqs[1][2] \in Files
        BY <3>1, <1>2, <1>3, QueueFacts, RequestFacts
      <3>3. handles \in Seq(Files)
        BY <1>2 DEF Typed
      <3> QED BY <3>1, <3>2, <3>3, AppendProperties
    <2> QED BY <2>1, <2>2
  <1>6. reqs[1][1] = "open" => 1 \in Reqs("open")
    BY <1>3 DEF Reqs
  <1> QED BY <1>3, <1>4, <1>5, <1>6

\* What Serve does to the kinds under way.
LEMMA ServeKinds ==
    ASSUME IInv, Serve
    PROVE  /\ \A kind \in {"list", "open", "read"} :
                  \A k \in Reqs(kind)' : k + 1 \in Reqs(kind) /\ k # 0 /\ k \in 1 .. Len(reqs')
           /\ Link("list")' = Link("list") \/ (1 \in Reqs("list") /\ Link("list")' = Link("list") \cup {Len(link) + 1})
           /\ \/ Link("open")' = Link("open")
              \/ /\ 1 \in Reqs("open") /\ Link("open")' = Link("open") \cup {Len(link) + 1}
                 /\ link'[Len(link) + 1][2] = Len(handles) + 1
                 /\ Len(handles') = Len(handles) + 1
           /\ \/ Link("data")' = Link("data")
              \/ /\ 1 \in Reqs("read")
                 /\ \E n \in {Len(link) + 1, Len(link) + 2} :
                        /\ Link("data")' = Link("data") \cup {n}
                        /\ link'[n] = <<"data", handles[reqs[1][2]], reqs[1][3], reqs[1][4]>>
  <1>1. /\ reqs # <<>> /\ reqs' = Tail(reqs)
        /\ \/ UNCHANGED <<link, handles>>
           \/ /\ \E a \in Answers(Head(reqs)) : link' = link \o a
              /\ handles' = IF Head(reqs)[1] = "open" THEN Append(handles, Head(reqs)[2]) ELSE handles
    BY DEF Serve
  <1>2. /\ Typed /\ OneFile /\ BlocksUnderWay
    BY DEF IInv
  <1>3. \A kind \in {"list", "open", "read"} :
            /\ \A k \in Reqs(kind)' : k + 1 \in Reqs(kind) /\ k # 0 /\ k \in 1 .. Len(reqs')
            /\ reqs[1][1] = kind => 1 \in Reqs(kind)
    BY <1>1, <1>2, ServeSets, ServeFacts
  <1>4. CASE UNCHANGED <<link, handles>>
    BY <1>3, <1>4 DEF Link
  <1>5. ASSUME NEW a \in Answers(Head(reqs)), link' = link \o a,
               handles' = IF Head(reqs)[1] = "open" THEN Append(handles, Head(reqs)[2]) ELSE handles
        PROVE  /\ Link("list")' = Link("list") \/ (reqs[1][1] = "list" /\ Link("list")' = Link("list") \cup {Len(link) + 1})
               /\ \/ Link("open")' = Link("open")
                  \/ /\ reqs[1][1] = "open" /\ Link("open")' = Link("open") \cup {Len(link) + 1}
                     /\ link'[Len(link) + 1][2] = Len(handles) + 1
                     /\ Len(handles') = Len(handles) + 1
               /\ \/ Link("data")' = Link("data")
                  \/ /\ reqs[1][1] = "read"
                     /\ \E n \in {Len(link) + 1, Len(link) + 2} :
                            /\ Link("data")' = Link("data") \cup {n}
                            /\ link'[n] = <<"data", handles[reqs[1][2]], reqs[1][3], reqs[1][4]>>
    <2>1. Head(reqs) = reqs[1]
      BY <1>1, <1>2, ServeFacts
    <2>2. reqs[1][1] = "open" => Len(handles') = Len(handles) + 1
      BY <1>2, <1>5, <2>1 DEF Typed
    <2> HIDE DEF Answers
    <2> QED BY <1>1, <1>2, <1>5, <2>1, <2>2, AnswerFacts
  <1> QED BY <1>1, <1>3, <1>4, <1>5

\* A request is taken, and answered or not.
LEMMA ServeStep == IInv /\ Serve => IInv'
  <1> SUFFICES ASSUME IInv, Serve PROVE IInv'
    OBVIOUS
  <1>a. /\ reqs # <<>>
        /\ UNCHANGED <<pc, waiting, op, i, off, readFd, total, readLen, diskFd, disk>>
        /\ UNCHANGED <<ids, list, header, init4, got, session, abnormal, fresh>>
    BY DEF Serve, request, reading, header4, sessions
  <1>1. Typed'
    BY <1>a, ServeEffect DEF IInv, Typed, TypeOK
  <1>2. QdbIsPrefix'
    BY <1>a DEF IInv, QdbIsPrefix
  <1>3. HeaderAtEnd'
    BY <1>a DEF IInv, HeaderAtEnd
  <1>4. Epochs'
    BY <1>a DEF IInv, Epochs
  <1>5. Waiting'
    BY <1>a DEF IInv, Waiting
  <1>b. /\ \A kind \in {"list", "open", "read"} : \A k \in Reqs(kind)' : k \in Nat \ {0} /\ k + 1 \in Reqs(kind)
        /\ Len(link) \in Nat /\ Len(reqs) \in Nat /\ Len(reqs') \in Nat
    BY ServeKinds, ServeEffect, QueueFacts DEF IInv
  <1>6. ListOnce'
    <2>1. /\ OneOf(Reqs("list"), Link("list")) => OneOf(Reqs("list")', Link("list")')
          /\ NoneOf(Reqs("list"), Link("list")) => NoneOf(Reqs("list")', Link("list")')
      <3>1. \E n : \/ Link("list")' = Link("list")
                   \/ 1 \in Reqs("list") /\ Link("list")' = Link("list") \cup {n}
        BY ServeKinds
      <3>2. \A k \in Reqs("list")' : k \in Nat \ {0} /\ k + 1 \in Reqs("list")
        BY <1>b
      <3> QED BY <3>1, <3>2, OneMoves
    <2> QED BY <1>a, <2>1 DEF IInv, ListOnce, OneOf, NoneOf
  <1>7. OneFile'
    <2>1. /\ Reqs("open") = {} => Reqs("open")' = {} /\ Link("open")' = Link("open")
          /\ Reqs("open") = {} => handles' = handles
      BY <1>b, ServeKinds, ServeEffect
    <2>2. Unopened' = Unopened
      BY <1>a DEF Unopened
    <2>3. ASSUME pc \in {"open", "read", "close"}
          PROVE  /\ i \in 1 .. Len(list)
                 /\ \A h \in 1 .. Len(handles') : handles'[h] = list[i]
                 /\ \A k \in Reqs("open")' : reqs'[k][2] = list[i]
                 /\ readFd \in 0 .. Len(handles')
      <3>1. \A k \in Reqs("open") : reqs[k][2] = list[i]
        BY <2>3 DEF IInv, OneFile
      <3>2. \A h \in 1 .. Len(handles) : handles[h] = list[i]
        BY <2>3 DEF IInv, OneFile
      <3>3. i \in 1 .. Len(list) /\ readFd \in 0 .. Len(handles)
        BY <2>3 DEF IInv, OneFile
      <3>4. \A k \in Reqs("open")' : reqs'[k][2] = list[i]
        BY <3>1, ServeKinds, ServeEffect
      <3>5. \A h \in 1 .. Len(handles') : handles'[h] = list[i]
        BY <3>1, <3>2, ServeEffect
      <3> QED BY <3>3, <3>4, <3>5, ServeEffect
    <2>4. \A k \in Link("open")' : link'[k][2] \in 1 .. Len(handles')
      <3>1. \A k \in Link("open") : k \in 1 .. Len(link) /\ link[k][2] \in 1 .. Len(handles)
        BY DEF IInv, OneFile, Link
      <3>2. \A k \in Link("open") : link'[k][2] \in 1 .. Len(handles')
        BY <3>1, ServeEffect
      <3> QED BY <3>2, ServeKinds, ServeEffect
    <2> QED BY <1>a, <2>1, <2>2, <2>3, <2>4 DEF IInv, OneFile
  <1>8. BlocksUnderWay'
    <2>1. OneOf(Reqs("read"), Link("data"))
      BY DEF IInv, BlocksUnderWay
    <2>2. \A k \in Reqs("read") : reqs[k][2] \in 1 .. Len(handles)
      BY DEF IInv, BlocksUnderWay
    <2>3. \E n \in {Len(link) + 1, Len(link) + 2} :
              \/ Link("data")' = Link("data")
              \/ /\ 1 \in Reqs("read") /\ Link("data")' = Link("data") \cup {n}
                 /\ link'[n] = <<"data", handles[reqs[1][2]], reqs[1][3], reqs[1][4]>>
      BY ServeKinds
    <2>4. /\ OneOf(Reqs("read")', Link("data")')
          /\ NoneOf(Reqs("read"), Link("data")) => NoneOf(Reqs("read")', Link("data")')
      BY <1>b, <2>1, <2>3, OneMoves
    <2>5. \A k \in Reqs("read")' : reqs'[k] = reqs[k + 1] /\ k + 1 \in Reqs("read")
      BY ServeKinds, ServeEffect
    <2>6. \A k \in Reqs("read") : handles'[reqs[k][2]] = handles[reqs[k][2]]
      BY <2>2, ServeEffect
    <2>7. \A k \in Reqs("read")' : reqs'[k][2] \in 1 .. Len(handles')
      BY <2>2, <2>5, ServeEffect
    <2>8. Unopened' = Unopened /\ pc' = pc /\ Writable' = Writable
      BY <1>a DEF Unopened, Writable
    <2>9. \A f, o, n : Fits(f, o, n)' = Fits(f, o, n)
      BY <1>a DEF Fits
    <2>10. ASSUME Writable
           PROVE  /\ \A k \in Reqs("read")' : Fits(handles'[reqs'[k][2]], reqs'[k][3], reqs'[k][4])
                  /\ \A k \in Link("data")' : Fits(link'[k][2], link'[k][3], link'[k][4])
      <3>1. \A k \in Reqs("read") : Fits(handles[reqs[k][2]], reqs[k][3], reqs[k][4])
        BY <2>10 DEF IInv, BlocksUnderWay
      <3>2. \A k \in Link("data") : Fits(link[k][2], link[k][3], link[k][4]) /\ link'[k] = link[k]
        BY <2>10, ServeEffect DEF IInv, BlocksUnderWay, Link
      <3> QED BY <2>3, <2>5, <2>6, <3>1, <3>2
    <2> QED
      BY <1>a, <2>4, <2>7, <2>8, <2>10, <2>9 DEF IInv, BlocksUnderWay, OneOf, NoneOf, Writable, Fits
  <1>9. ReadLoop'
    BY <1>a, ServeKinds DEF IInv, ReadLoop, NoneOf
  <1> QED BY <1>1, <1>2, <1>3, <1>4, <1>5, <1>6, <1>7, <1>8, <1>9 DEF IInv

-----------------------------------------------------------------------------
(* The main thread.                                                        *)

\* What Handle leaves alone, and what it does to the packets under way.
LEMMA HandleEffect ==
    ASSUME IInv, Handle
    PROVE  /\ UNCHANGED <<pc, waiting, op, i, off, total, diskFd, header, init4, got,
                          session, abnormal, fresh, reqs, handles>>
           /\ \A kind : Reqs(kind)' = Reqs(kind)
           /\ link # <<>> /\ link' \in Seq(Packets) /\ link[1] \in Packets
           /\ Len(link) \in Nat \ {0} /\ Head(link) = link[1]
           /\ \A k \in 1 .. Len(link') : link'[k] = link[k + 1]
           /\ \A kind \in {"list", "open", "data"} :
                  /\ Link(kind)' \subseteq 1 .. Len(link')
                  /\ \A k \in Link(kind)' : k \in Nat \ {0} /\ k + 1 \in Link(kind) /\ k + 1 # 1
                  /\ link[1][1] = kind => 1 \in Link(kind)
  <1>1. /\ link # <<>> /\ link' = Tail(link) /\ Typed
        /\ UNCHANGED <<pc, waiting, op, i, off, total, diskFd, header, init4, got,
                       session, abnormal, fresh, reqs, handles>>
    BY DEF Handle, IInv, request, sessions
  <1>2. /\ link' \in Seq(Packets)
        /\ Len(link) \in Nat \ {0} /\ Len(link') = Len(link) - 1 /\ Head(link) = link[1]
        /\ \A k \in 1 .. Len(link') : link'[k] = link[k + 1]
    BY <1>1, HandleFacts
  <1>3. link[1] \in Packets
    BY <1>1, <1>2, QueueFacts
  <1>4. \A kind \in {"list", "open", "data"} :
            /\ Link(kind)' \subseteq 1 .. Len(link')
            /\ \A k \in Link(kind)' : k \in Nat \ {0} /\ k + 1 \in Link(kind) /\ k + 1 # 1
            /\ link[1][1] = kind => 1 \in Link(kind)
    BY <1>1, <1>2, HandleSets
  <1>5. \A kind : Reqs(kind)' = Reqs(kind)
    BY <1>1 DEF Reqs
  <1> QED BY <1>1, <1>2, <1>3, <1>4, <1>5

\* What is said of a packet under way holds of it further on; one that is taken
\* is no longer under way.
LEMMA HandleKinds ==
    ASSUME IInv, Handle, NEW kind \in {"list", "open", "data"}, NEW R
    PROVE  /\ OneOf(R, Link(kind)) => OneOf(R, Link(kind)')
           /\ NoneOf(R, Link(kind)) => NoneOf(R, Link(kind)')
           /\ Link(kind) = {} => Link(kind)' = {}
           /\ OneOf(R, Link(kind)) /\ link[1][1] = kind => NoneOf(R, Link(kind)')
           /\ link[1][1] = kind => Link(kind) # {}
  <1>1. /\ \A k \in Link(kind)' : k \in Nat \ {0} /\ k + 1 \in Link(kind) /\ k + 1 # 1
        /\ link[1][1] = kind => 1 \in Link(kind)
    BY HandleEffect
  <1>2. OneOf(R, Link(kind)) => \A a, b \in Link(kind)' : a = b
    BY <1>1 DEF OneOf
  <1>3. OneOf(R, Link(kind)) /\ 1 \in Link(kind) => Link(kind)' = {} /\ R = {}
    BY <1>1 DEF OneOf
  <1>4. Link(kind) = {} => Link(kind)' = {}
    BY <1>1
  <1> QED BY <1>1, <1>2, <1>3, <1>4 DEF OneOf, NoneOf

\* The parts of the invariant that no packet disturbs, whatever it changes.
LEMMA HandleCommon ==
    ASSUME IInv, Handle
    PROVE  /\ HeaderAtEnd' /\ Waiting' /\ Writable' = Writable /\ Unopened' = Unopened
           /\ session # 0 /\ ~abnormal
  <1>1. UNCHANGED <<pc, waiting, op, header, fresh, got, diskFd>>
    BY HandleEffect
  <1>2. HeaderAtEnd' /\ Waiting'
    BY <1>1 DEF IInv, HeaderAtEnd, Waiting
  <1>3. Writable' = Writable /\ Unopened' = Unopened
    BY <1>1 DEF Writable, Unopened
  <1>4. session # 0 /\ ~abnormal
    BY HandleEffect DEF IInv, Epochs
  <1> QED BY <1>2, <1>3, <1>4

\* A packet that writes nothing leaves the others as they are.
LEMMA HandleBlocks ==
    ASSUME IInv, Handle, disk' = disk
    PROVE  BlocksUnderWay'
  <1>a. UNCHANGED <<pc, diskFd, reqs, handles>>
    BY HandleEffect
  <1>1. \A k \in Link("data")' : k + 1 \in Link("data") /\ link'[k] = link[k + 1]
    BY HandleEffect
  <1>2. /\ OneOf(Reqs("read"), Link("data")')
        /\ NoneOf(Reqs("read"), Link("data")) => NoneOf(Reqs("read"), Link("data")')
    BY HandleKinds DEF IInv, BlocksUnderWay
  <1> QED BY <1>a, <1>1, <1>2, HandleEffect, HandleCommon, SMTT(30) DEF IInv, BlocksUnderWay, Fits

\* A packet that changes neither the list nor what is read or written.
LEMMA HandleQuiet ==
    ASSUME IInv, Handle, UNCHANGED <<list, readLen, disk>>, ids' \in BOOLEAN,
           \/ readFd' = readFd
           \/ readFd' = NoFd
           \/ readFd' \in 1 .. Len(handles) /\ Link("open") # {} /\ op # "none"
    PROVE  IInv'
  <1>a. UNCHANGED <<pc, waiting, op, i, off, total, diskFd, header, init4, got,
                    session, abnormal, fresh, reqs, handles>>
    BY HandleEffect
  <1>b. readFd' \in Nat
    BY QueueFacts DEF IInv, Typed, TypeOK, NoFd
  <1>1. Typed'
    BY <1>a, <1>b, HandleEffect DEF IInv, Typed, TypeOK
  <1>2. QdbIsPrefix'
    BY DEF IInv, QdbIsPrefix
  <1>4. Epochs'
    BY <1>a, HandleCommon DEF IInv, Epochs
  <1>6. ListOnce'
    BY <1>a, HandleEffect, HandleKinds DEF IInv, ListOnce
  <1>7. OneFile'
    <2>1. \A k \in Link("open")' : link'[k][2] \in 1 .. Len(handles)
      BY HandleEffect DEF IInv, OneFile
    <2>2. Link("open") = {} => Link("open")' = {}
      BY HandleKinds
    <2>3. pc \in {"open", "read", "close"} => readFd' \in 0 .. Len(handles)
      BY QueueFacts DEF IInv, OneFile, NoFd, Typed
    <2> QED BY <1>a, <2>1, <2>2, <2>3, HandleEffect, HandleCommon DEF IInv, OneFile
  <1>8. BlocksUnderWay'
    BY HandleBlocks
  <1>9. ReadLoop'
    <2>1. NoneOf(Reqs("read"), Link("data")) => NoneOf(Reqs("read")', Link("data")')
      BY HandleKinds, HandleEffect
    <2>2. pc = "read" /\ ~waiting => op = "none"
      BY DEF IInv, Waiting
    <2> QED BY <1>a, <2>1, <2>2 DEF IInv, ReadLoop, NoneOf
  <1> QED BY <1>1, <1>2, HandleCommon, <1>4, <1>6, <1>7, <1>8, <1>9 DEF IInv

\* The list is taken once, before any file is opened.
LEMMA HandleList ==
    ASSUME IInv, Handle, link[1][1] = "list", list' = list \o [k \in 1 .. Len(FileLen) |-> k],
           UNCHANGED <<ids, readFd, readLen, disk>>
    PROVE  IInv'
  <1>a. UNCHANGED <<pc, waiting, op, i, off, total, diskFd, header, init4, got,
                    session, abnormal, fresh, reqs, handles>>
    BY HandleEffect
  <1>b. list = <<>> /\ pc # "id" /\ ~(pc = "list" /\ ~waiting)
    BY HandleKinds DEF IInv, ListOnce, NoneOf
  <1>c. pc \notin {"open", "read", "close"}
    <2>1. Len(list) = 0
      BY <1>b
    <2> QED BY <2>1 DEF IInv, OneFile
  <1>d. list' \in Seq(Files) /\ Len(list') = Len(FileLen)
    <2> DEFINE l == [k \in 1 .. Len(FileLen) |-> k]
    <2>1. l \in Seq(Files) /\ Len(l) = Len(FileLen)
      BY FileFacts
    <2> HIDE DEF l
    <2>2. list' = list \o l /\ list \in Seq(Files) /\ Len(list) = 0
      BY <1>b DEF l, IInv, Typed, TypeOK
    <2> QED BY <2>1, <2>2, ConcatProperties, FileFacts
  <1>1. Typed'
    BY <1>a, <1>d, HandleEffect, FileFacts DEF IInv, Typed, TypeOK
  <1>2. QdbIsPrefix'
    BY DEF IInv, QdbIsPrefix
  <1>4. Epochs'
    BY <1>a, HandleCommon DEF IInv, Epochs
  <1>6. ListOnce'
    <2>1. OneOf(Reqs("list"), Link("list"))
      BY DEF IInv, ListOnce
    <2>2. NoneOf(Reqs("list"), Link("list")')
      BY <2>1, HandleKinds
    <2> QED BY <1>a, <1>b, <2>2, HandleEffect DEF ListOnce, OneOf, NoneOf
  <1>7. OneFile'
    <2>1. \A k \in Link("open")' : link'[k][2] \in 1 .. Len(handles)
      BY HandleEffect DEF IInv, OneFile
    <2>2. Link("open") = {} => Link("open")' = {}
      BY HandleKinds
    <2> QED BY <1>a, <1>c, <2>1, <2>2, HandleEffect, HandleCommon DEF IInv, OneFile
  <1>8. BlocksUnderWay'
    BY HandleBlocks
  <1>9. ReadLoop'
    BY <1>a, <1>c DEF ReadLoop
  <1> QED BY <1>1, <1>2, HandleCommon, <1>4, <1>6, <1>7, <1>8, <1>9 DEF IInv

\* A block is written only if it is the next one of the file that is open.
LEMMA HandleData ==
    ASSUME IInv, Handle, link[1][1] = "data", op # "none",
           readLen' = link[1][4],
           disk' = IF diskFd = NoFd THEN disk
                   ELSE [disk EXCEPT ![diskFd] = @ \o Blocks(link[1][2], link[1][3], link[1][4])],
           UNCHANGED <<ids, list, readFd>>
    PROVE  IInv'
  <1> DEFINE f == link[1][2]
             o == link[1][3]
             n == link[1][4]
  <1>a. UNCHANGED <<pc, waiting, op, i, off, total, diskFd, header, init4, got,
                    session, abnormal, fresh, reqs, handles>>
    BY HandleEffect
  <1>b. f \in Files /\ o \in Nat /\ n \in 0 .. MaxRead /\ n \in Nat
    BY HandleEffect, PacketFacts, FileFacts
  <1>c. 1 \in Link("data") /\ OneOf(Reqs("read"), Link("data"))
    BY HandleEffect DEF IInv, BlocksUnderWay
  <1>d. NoneOf(Reqs("read"), Link("data")')
    BY <1>c, HandleKinds
  <1>e. diskFd # NoFd => f = diskFd /\ o = Len(disk[f]) /\ o + n <= FileLen[f]
    BY <1>c DEF IInv, BlocksUnderWay, Writable, Fits
  <1>f. diskFd # NoFd => /\ disk' = [disk EXCEPT ![f] = disk[f] \o Blocks(f, o, n)]
                         /\ f = diskFd
    BY <1>e DEF IInv, Typed
  <1> HIDE DEF f, o, n
  <1>h. disk \in [Files -> Seq(Files \X Nat)] /\ disk[f] \in Seq(Files \X Nat) /\ Len(disk[f]) \in Nat
    BY <1>b, QueueFacts DEF IInv, Typed
  <1>i. diskFd # NoFd => /\ o = Len(disk[f])
                         /\ disk'[f] \in Seq(Files \X Nat) /\ Len(disk'[f]) = o + n
                         /\ \A k \in 1 .. o : disk'[f][k] = disk[f][k]
                         /\ \A k \in o + 1 .. o + n : disk'[f][k] = <<f, k>>
    <2> SUFFICES ASSUME diskFd # NoFd
                 PROVE  /\ o = Len(disk[f])
                        /\ disk'[f] \in Seq(Files \X Nat) /\ Len(disk'[f]) = o + n
                        /\ \A k \in 1 .. o : disk'[f][k] = disk[f][k]
                        /\ \A k \in o + 1 .. o + n : disk'[f][k] = <<f, k>>
      OBVIOUS
    <2>1. o = Len(disk[f])
      BY <1>e DEF f, o, n
    <2>2. disk' = [disk EXCEPT ![f] = disk[f] \o Blocks(f, Len(disk[f]), n)]
      BY <1>f, <2>1
    <2>3. /\ disk'[f] \in Seq(Files \X Nat) /\ Len(disk'[f]) = Len(disk[f]) + n
          /\ \A k \in 1 .. Len(disk[f]) : disk'[f][k] = disk[f][k]
          /\ \A k \in Len(disk[f]) + 1 .. Len(disk[f]) + n : disk'[f][k] = <<f, k>>
      BY <2>2, <1>b, DiskAppended DEF IInv
    <2> QED BY <2>1, <2>3
  <1>j. /\ disk' \in [Files -> Seq(Files \X Nat)]
        /\ \A g \in Files : g # f \/ diskFd = NoFd => disk'[g] = disk[g]
    <2>1. CASE diskFd = NoFd
      BY <2>1, <1>h
    <2>2. CASE diskFd # NoFd
      BY <2>2, <1>f, <1>h, <1>i
    <2> QED BY <2>1, <2>2
  <1>k. \A g \in Files : Len(disk'[g]) <= FileLen[g]
    BY <1>e, <1>i, <1>j DEF IInv, Typed, TypeOK, f, o, n
  <1>1. Typed'
    <2>1. readLen' \in 0 .. MaxRead
      BY <1>b DEF n
    <2> QED BY <2>1, <1>a, <1>j, <1>k, HandleEffect, ZenonT(60) DEF IInv, Typed, TypeOK
  <1>2. QdbIsPrefix'
    <2> SUFFICES ASSUME NEW g \in Files, NEW k \in 1 .. Len(disk'[g]) PROVE disk'[g][k] = <<g, k>>
      BY DEF QdbIsPrefix
    <2>1. CASE g # f \/ diskFd = NoFd
      BY <2>1, <1>j DEF IInv, QdbIsPrefix
    <2>2. CASE g = f /\ diskFd # NoFd
      <3>1. Len(disk'[f]) = o + n /\ o = Len(disk[f]) /\ k \in 1 .. Len(disk'[f])
        BY <2>2, <1>i
      <3>2. k \in 1 .. o \/ k \in o + 1 .. o + n
        <4>1. k \in 1 .. o + n /\ o \in Nat /\ n \in Nat
          BY <3>1, <1>b
        <4> QED BY <4>1
      <3>3. CASE k \in 1 .. o
        <4>1. disk[f][k] = <<f, k>>
          BY <3>1, <3>3, <1>b DEF IInv, QdbIsPrefix
        <4> QED BY <4>1, <3>3, <2>2, <1>i
      <3>4. CASE k \in o + 1 .. o + n
        BY <3>4, <2>2, <1>i
      <3> QED BY <3>2, <3>3, <3>4
    <2> QED BY <2>1, <2>2
  <1>4. Epochs'
    BY <1>a, HandleCommon DEF IInv, Epochs
  <1>6. ListOnce'
    BY <1>a, HandleEffect, HandleKinds DEF IInv, ListOnce
  <1>7. OneFile'
    <2>1. \A k \in Link("open")' : link'[k][2] \in 1 .. Len(handles)
      BY HandleEffect DEF IInv, OneFile
    <2>2. Link("open") = {} => Link("open")' = {}
      BY HandleKinds
    <2> QED BY <1>a, <2>1, <2>2, HandleEffect, HandleCommon DEF IInv, OneFile
  <1>8. BlocksUnderWay'
    BY <1>a, <1>d, HandleEffect DEF BlocksUnderWay, NoneOf, OneOf
  <1>9. ReadLoop'
    <2>1. pc = "read" => waiting
      BY <1>c DEF IInv, ReadLoop, NoneOf
    <2>2. ASSUME pc = "read"
          PROVE  /\ diskFd = list[i] /\ total = FileLen[list[i]]
                 /\ Len(disk[list[i]]) = off + readLen
                 /\ readLen # 0 => NoneOf(Reqs("read"), Link("data"))
                 /\ list[i] \in Files
      BY <2>1, <2>2, QueueFacts DEF IInv, ReadLoop, OneFile
    <2>3. ASSUME pc = "read"
          PROVE  Len(disk'[list[i]]) = off + readLen'
      <3>1. readLen = 0
        BY <2>2, <2>3, <1>c DEF NoneOf
      <3>2. diskFd # NoFd /\ diskFd = list[i]
        BY <2>2, <2>3, FileFacts DEF NoFd
      <3>3. f = list[i] /\ o = Len(disk[f])
        BY <3>2, <1>e DEF f, o, n
      <3>4. off \in Nat
        BY DEF IInv, Typed, TypeOK
      <3>5. Len(disk'[f]) = o + n /\ readLen' = n
        BY <3>2, <1>i DEF n
      <3>6. Len(disk[f]) = off + 0
        <4>1. Len(disk[list[i]]) = off + readLen
          BY <2>2, <2>3
        <4> QED BY <4>1, <3>1, <3>3
      <3>7. Len(disk'[list[i]]) = o + readLen'
        BY <3>3, <3>5
      <3>8. o = off
        BY <3>3, <3>4, <3>6
      <3> QED BY <3>7, <3>8, Zenon
    <2> QED BY <1>a, <1>d, <2>1, <2>2, <2>3, HandleEffect DEF ReadLoop, NoneOf
  <1> QED BY <1>1, <1>2, HandleCommon, <1>4, <1>6, <1>7, <1>8, <1>9 DEF IInv

\* A packet is handled or ignored.
LEMMA HandleStep == IInv /\ Handle => IInv'
  <1> SUFFICES ASSUME IInv, Handle PROVE IInv'
    OBVIOUS
  <1>a. Head(link) = link[1] /\ link[1] \in Packets
    BY HandleEffect
  <1>b. ids \in BOOLEAN
    BY DEF IInv, Typed
  <1>1. CASE UNCHANGED <<ids, list, readFd, readLen, disk>>
    BY <1>1, <1>b, HandleQuiet
  <1>2. CASE ids' = TRUE /\ UNCHANGED <<list, readFd, readLen, disk>>
    <2>1. ids' \in BOOLEAN
      BY <1>2, Zenon
    <2> QED BY <1>2, <2>1, HandleQuiet
  <1>3. CASE link[1][1] = "list" /\ list' = list \o [k \in 1 .. Len(FileLen) |-> k]
             /\ UNCHANGED <<ids, readFd, readLen, disk>>
    BY <1>3, HandleList
  <1>4. CASE link[1][1] = "open" /\ op # "none" /\ readFd' = link[1][2]
             /\ UNCHANGED <<ids, list, readLen, disk>>
    <2>1. 1 \in Link("open") /\ readFd' \in 1 .. Len(handles)
      BY <1>4, HandleEffect DEF IInv, OneFile
    <2> QED BY <1>4, <1>b, <2>1, HandleQuiet
  <1>5. CASE /\ link[1][1] = "data" /\ op # "none" /\ readLen' = link[1][4]
             /\ disk' = IF diskFd = NoFd THEN disk
                        ELSE [disk EXCEPT ![diskFd] = @ \o Blocks(link[1][2], link[1][3], link[1][4])]
             /\ UNCHANGED <<ids, list, readFd>>
    BY <1>5, HandleData
  <1>6. CASE readFd' \in {readFd, NoFd} /\ UNCHANGED <<ids, list, readLen, disk>>
    BY <1>6, <1>b, HandleQuiet
  <1> QED BY <1>a, <1>1, <1>2, <1>3, <1>4, <1>5, <1>6 DEF Handle, Matches

-----------------------------------------------------------------------------
(* The theorems.                                                           *)

\* Nothing is under way at first.
LEMMA InitIInv == Init => IInv
  <1> SUFFICES ASSUME Init PROVE IInv
    OBVIOUS
  <1>1. Typed
    <2>1. /\ {ids, header, init4, got} \subseteq BOOLEAN
          /\ waiting \in BOOLEAN /\ abnormal \in BOOLEAN /\ fresh \in BOOLEAN
      BY Zenon DEF Init
    <2>2. /\ reqs \in Seq(Requests) /\ link \in Seq(Packets) /\ handles \in Seq(Files)
          /\ list \in Seq(Files) /\ Len(list) = 0
          /\ disk \in [Files -> Seq(Files \X Nat)] /\ \A f \in Files : Len(disk[f]) = 0
      BY EmptySeq DEF Init
    <2> QED BY <2>1, <2>2, FileFacts DEF Init, Typed, TypeOK, NoFd
  <1>2. QdbIsPrefix
    BY DEF Init, QdbIsPrefix
  <1>3. \A kind : Reqs(kind) = {} /\ Link(kind) = {}
    BY EmptyQueues DEF Init
  <1>4. HeaderAtEnd /\ Epochs /\ Waiting /\ ReadLoop
    BY DEF Init, HeaderAtEnd, Epochs, Waiting, ReadLoop
  <1>5. ListOnce /\ OneFile
    BY <1>3 DEF Init, ListOnce, OneFile, OneOf, NoneOf, Unopened
  <1>6. BlocksUnderWay
    BY <1>3 DEF Init, BlocksUnderWay, OneOf, NoneOf, Unopened
  <1> QED BY <1>1, <1>2, <1>4, <1>5, <1>6 DEF IInv

\* A step that changes nothing.
LEMMA StutterStep == IInv /\ UNCHANGED vars => IInv'
  <1> SUFFICES ASSUME IInv, UNCHANGED vars PROVE IInv'
    OBVIOUS
  <1>1. /\ UNCHANGED <<pc, waiting, op, i, off, readFd, total, readLen, diskFd, disk>>
        /\ UNCHANGED <<ids, list, header, init4, got, session, abnormal, fresh, reqs, link, handles>>
    BY DEF vars, request, reading, header4, sessions, module
  <1>2. \A kind : Reqs(kind)' = Reqs(kind) /\ Link(kind)' = Link(kind)
    BY <1>1 DEF Reqs, Link
  <1>3. Typed' /\ QdbIsPrefix'
    BY <1>1 DEF IInv, Typed, TypeOK, QdbIsPrefix
  <1>4. HeaderAtEnd' /\ Epochs' /\ Waiting'
    BY <1>1 DEF IInv, HeaderAtEnd, Epochs, Waiting
  <1>5. ListOnce' /\ OneFile'
    BY <1>1, <1>2 DEF IInv, ListOnce, OneFile, OneOf, NoneOf, Unopened
  <1>6. BlocksUnderWay'
    BY <1>1, <1>2 DEF IInv, BlocksUnderWay, OneOf, NoneOf, Unopened, Writable, Fits
  <1>7. ReadLoop'
    BY <1>1, <1>2 DEF IInv, ReadLoop, NoneOf
  <1> QED BY <1>3, <1>4, <1>5, <1>6, <1>7 DEF IInv

\* Every step keeps the invariant.
LEMMA NextIInv == IInv /\ [Next]_vars => IInv'
  BY StartSessionStep, EndSessionStep, QueryIdsStep, IdsReturnStep, QueryListStep, ListReturnStep,
     NextFileStep, SendOpenStep, OpenReturnStep, SendReadStep, ReadReturnStep, ReadNothingStep,
     SendCloseStep, FileDoneStep, AddHeaderStep, ServeStep, HandleStep, StutterStep
     DEF Next, FilterThread, Finished

\* The invariant holds throughout.
LEMMA AlwaysIInv == Spec => []IInv
  BY InitIInv, NextIInv, PTL DEF Spec

\* The state keeps its types, and no file on disk grows past the module's.
THEOREM TypeCorrect == Spec => []TypeOK
  <1>1. IInv => TypeOK
    BY DEF IInv, Typed
  <1> QED BY <1>1, AlwaysIInv, PTL

\* Whatever answers are late or lost, a .qdb on disk is a prefix of the hash
\* file it is named after (process_qsr_db_file_read_delayed_rsp).
THEOREM PrefixOnDisk == Spec => []QdbIsPrefix
  <1>1. IInv => QdbIsPrefix
    BY DEF IInv
  <1> QED BY <1>1, AlwaysIInv, PTL

\* A session that begins with the globals reset ends mdm_create_qshrink4_file
\* with a complete header.
THEOREM HeaderComplete == Spec => []HeaderAtEnd
  <1>1. IInv => HeaderAtEnd
    BY DEF IInv
  <1> QED BY <1>1, AlwaysIInv, PTL
==============================================================================
