------------------------------ MODULE TftpProof ------------------------------
(***************************************************************************)
(* Proofs about the upload by tftp, for every length of the log, size of a *)
(* block and number of retries, and for any number of failures that cannot *)
(* make the block numbers go round.                                        *)
(***************************************************************************)
EXTENDS Tftp, SequenceTheorems, TLAPS

\* The units of the log from one offset to another.
Units(a, b) == [i \in 1 .. b - a |-> a + i]

\* What a datagram about block a of the log carries: 0 is the request.
Number(a) == IF a = 0 THEN Oack ELSE a % BlockNumbers

Ordered(s) == \A i, j \in 1 .. Len(s) : i <= j => s[i] <= s[j]

Within(s, lo, hi) == \A j \in 1 .. Len(s) : lo <= s[j] /\ s[j] <= hi

Packets == [block : Nat, data : Seq(Nat)]

\* The block in the buffer may have been sent.
Sent == tpc \in {"send", "final", "abort"}

Top == IF Sent THEN tx ELSE tx - 1

\* How far the client can be ahead of the server: a block for each failing sendto.
Slack == IF cut THEN TftpFaults - tftpFaults ELSE 0

Typed ==
    /\ TftpTypeOK /\ needSend \in BOOLEAN /\ cut \in BOOLEAN
    /\ tx \in Nat \ {0} /\ tnext \in Nat \ {0} /\ tlog \in Nat
    /\ buf \in Seq(Nat) /\ pipe \in Seq(Nat) /\ tserver \in Seq(Nat)
    /\ toServer \in Seq(Packets) /\ toClient \in Seq(Nat) /\ tftpFaults \in 0 .. TftpFaults

Progress ==
    /\ tpc \notin {"fail", "abort"} => tries < TftpRetry
    /\ tpc \in {"wrq", "refused", "loop", "send"} => reSend <= TftpRetry + 1
    /\ tpc \in {"final", "done"} => pipe = <<>>
    /\ tpc = "done" => buf = <<>>
    /\ tpc = "wrq" => tx = 1
    /\ why = "order" => cut

\* no and ack are the blocks, by their place in the log, that the datagrams on their way to the
\* server and to the client are about.
Numbered(no, ack) ==
    /\ Len(no) = Len(toServer) /\ \A j \in 1 .. Len(no) : toServer[j].block = Number(no[j])
    /\ Len(ack) = Len(toClient) /\ \A j \in 1 .. Len(ack) : toClient[j] = Number(ack[j])

\* They are in order, and close together: the block a number stands for is never in doubt.
Window(no, ack) ==
    /\ rx = (tx - 1) % BlockNumbers /\ tx <= tnext + Slack /\ tnext <= Top + 1
    /\ Ordered(no) /\ Within(no, tnext - 1, Top)
    /\ Ordered(ack) /\ Within(ack, tx - 1 - Slack, tnext - 1)

\* off[a] is where block a begins in the log: the blocks, the buffer and the socket pair are the log.
Layout(off) ==
    /\ Len(off) = tx + 1 /\ off[1] = 0 /\ Ordered(off) /\ off[tx + 1] <= tlog
    /\ buf = Units(off[tx], off[tx + 1]) /\ pipe = Units(off[tx + 1], tlog)
    /\ tserver = Units(0, off[tnext])

Carries(no, off) ==
    \A j \in 1 .. Len(no) : no[j] > 0 => toServer[j].data = Units(off[no[j]], off[no[j] + 1])

Ghost(no, ack, off) == Numbered(no, ack) /\ Window(no, ack) /\ Layout(off) /\ Carries(no, off)

IInv == /\ Typed /\ Progress
        /\ \E no \in Seq(Nat), ack \in Seq(Nat), off \in Seq(Nat) : Ghost(no, ack, off)

-----------------------------------------------------------------------------
(* Numbers of blocks.                                                      *)

\* Division with remainder.
LEMMA DivMod ==
    ASSUME NEW n \in Nat \ {0}, NEW a \in Nat
    PROVE  a = n * (a \div n) + (a % n)
  OBVIOUS

\* Two numbers with the same remainder are far apart.
LEMMA SameRemainder ==
    ASSUME NEW n \in Nat \ {0}, NEW a \in Nat, NEW b \in Nat, a < b, a % n = b % n
    PROVE  b - a >= n
  <1> DEFINE qa == a \div n
             qb == b \div n
  <1>1. qa \in Int /\ qb \in Int /\ a = n * qa + (a % n) /\ b = n * qb + (b % n)
    <2>1. qa \in Int /\ qb \in Int
      OBVIOUS
    <2>2. a = n * qa + (a % n)
      BY DivMod, Zenon
    <2>3. b = n * qb + (b % n)
      BY DivMod, Zenon
    <2> QED BY <2>1, <2>2, <2>3
  <1> HIDE DEF qa, qb
  <1>2. a % n \in Int /\ b % n \in Int
    OBVIOUS
  <1>3. b - a = n * qb - n * qa
    BY <1>1, <1>2
  <1>4. n * qb - n * qa = n * (qb - qa)
    BY <1>1
  <1>5. PICK d \in Int : d = qb - qa
    BY <1>1
  <1>6. b - a = n * d /\ n * d > 0
    BY <1>3, <1>4, <1>5
  <1>7. d >= 1
    BY <1>5, <1>6
  <1>8. n * d >= n
    BY <1>7, <1>5
  <1> QED BY <1>6, <1>8

\* A number is not the answer to the request.
LEMMA NumberFacts ==
    ASSUME NEW a \in Nat
    PROVE  /\ Number(a) \in Nat /\ (Number(a) = Oack <=> a = 0)
           /\ a % BlockNumbers \in 0 .. BlockNumbers - 1
  <1>1. BlockNumbers \in Nat /\ BlockNumbers > 2
    BY TftpAssumption
  <1>2. a % BlockNumbers \in 0 .. BlockNumbers - 1
    BY <1>1
  <1> QED BY <1>1, <1>2 DEF Number, Oack

\* Blocks that are close together have different numbers.
LEMMA SameNumber ==
    ASSUME NEW a \in Nat, NEW b \in Nat, a % BlockNumbers = b % BlockNumbers,
           a - b < BlockNumbers, b - a < BlockNumbers
    PROVE  a = b
  <1>1. BlockNumbers \in Nat \ {0}
    BY TftpAssumption
  <1>2. CASE a < b
    <2>1. b - a >= BlockNumbers
      BY <1>1, <1>2, SameRemainder
    <2> QED BY <1>1, <2>1
  <1>3. CASE b < a
    <2>1. a - b >= BlockNumbers
      BY <1>1, <1>3, SameRemainder
    <2> QED BY <1>1, <2>1
  <1> QED BY <1>2, <1>3

-----------------------------------------------------------------------------
(* Units of the log.                                                       *)

\* The units between two offsets.
LEMMA UnitsFacts ==
    ASSUME NEW a \in Nat, NEW b \in Nat, a <= b
    PROVE  /\ Units(a, b) \in Seq(Nat) /\ Len(Units(a, b)) = b - a
           /\ \A i \in 1 .. b - a : Units(a, b)[i] = a + i
           /\ (Units(a, b) = <<>> <=> a = b)
  <1>1. b - a \in Nat
    OBVIOUS
  <1>2. PICK n \in Nat : n = b - a
    BY <1>1
  <1>3. Units(a, b) = [i \in 1 .. n |-> a + i]
    BY <1>2 DEF Units
  <1>4. [i \in 1 .. n |-> a + i] \in Seq(Nat) /\ Len([i \in 1 .. n |-> a + i]) = n
    OBVIOUS
  <1>5. \A i \in 1 .. n : [j \in 1 .. n |-> a + j][i] = a + i
    OBVIOUS
  <1>6. Units(a, b) = <<>> <=> n = 0
    BY <1>3, <1>4, EmptySeq
  <1> QED BY <1>2, <1>3, <1>4, <1>5, <1>6

\* One stretch of the log after another.
LEMMA UnitsConcat ==
    ASSUME NEW a \in Nat, NEW b \in Nat, NEW c \in Nat, a <= b, b <= c
    PROVE  Units(a, b) \o Units(b, c) = Units(a, c)
  <1> DEFINE s == Units(a, b)
             t == Units(b, c)
             u == Units(a, c)
  <1>1. /\ s \in Seq(Nat) /\ Len(s) = b - a /\ \A i \in 1 .. b - a : s[i] = a + i
        /\ t \in Seq(Nat) /\ Len(t) = c - b /\ \A i \in 1 .. c - b : t[i] = b + i
        /\ u \in Seq(Nat) /\ Len(u) = c - a /\ \A i \in 1 .. c - a : u[i] = a + i
    <2>1. s \in Seq(Nat) /\ Len(s) = b - a /\ \A i \in 1 .. b - a : s[i] = a + i
      BY UnitsFacts, Zenon
    <2>2. t \in Seq(Nat) /\ Len(t) = c - b /\ \A i \in 1 .. c - b : t[i] = b + i
      BY UnitsFacts, Zenon
    <2>3. a <= c
      OBVIOUS
    <2>4. u \in Seq(Nat) /\ Len(u) = c - a /\ \A i \in 1 .. c - a : u[i] = a + i
      BY <2>3, UnitsFacts, Zenon
    <2> QED BY <2>1, <2>2, <2>4, Zenon
  <1> HIDE DEF s, t, u
  <1>2. /\ s \o t \in Seq(Nat) /\ Len(s \o t) = Len(s) + Len(t)
        /\ \A i \in 1 .. Len(s) + Len(t) : (s \o t)[i] = IF i <= Len(s) THEN s[i] ELSE t[i - Len(s)]
    BY <1>1, ConcatProperties
  <1>3. Len(s \o t) = Len(u)
    BY <1>1, <1>2
  <1>4. ASSUME NEW i \in 1 .. Len(u) PROVE (s \o t)[i] = u[i]
    <2>1. i \in 1 .. c - a /\ u[i] = a + i /\ i \in 1 .. Len(s) + Len(t)
      BY <1>1
    <2>2. CASE i <= Len(s)
      <3>1. i \in 1 .. b - a
        BY <1>1, <2>1, <2>2
      <3> QED BY <1>1, <1>2, <2>1, <2>2, <3>1
    <2>3. CASE ~(i <= Len(s))
      <3>1. i - Len(s) \in 1 .. c - b /\ b + (i - Len(s)) = a + i
        BY <1>1, <2>1, <2>3
      <3>2. (s \o t)[i] = t[i - Len(s)]
        BY <1>2, <2>1, <2>3
      <3> QED BY <1>1, <2>1, <3>1, <3>2
    <2> QED BY <2>2, <2>3
  <1>5. s \o t = u
    BY <1>1, <1>2, <1>3, <1>4, SeqEqual
  <1> QED BY <1>5 DEF s, t, u

\* A stretch is read in two parts.
LEMMA UnitsSplit ==
    ASSUME NEW a \in Nat, NEW b \in Nat, NEW n \in Nat, a + n <= b
    PROVE  /\ SubSeq(Units(a, b), 1, n) = Units(a, a + n)
           /\ SubSeq(Units(a, b), n + 1, Len(Units(a, b))) = Units(a + n, b)
  <1> DEFINE s == Units(a, b)
  <1>1. s \in Seq(Nat) /\ Len(s) = b - a /\ \A i \in 1 .. b - a : s[i] = a + i
    BY UnitsFacts
  <1> HIDE DEF s
  <1>2. SubSeq(s, 1, n) = Units(a, a + n)
    <2>1. SubSeq(s, 1, n) = [i \in 1 .. n |-> s[i]]
      BY <1>1
    <2>2. \A i \in 1 .. n : s[i] = a + i
      BY <1>1
    <2>3. (a + n) - a = n
      OBVIOUS
    <2> QED BY <2>1, <2>2, <2>3 DEF Units
  <1>3. SubSeq(s, n + 1, Len(s)) = Units(a + n, b)
    <2>1. PICK m \in Nat : m = b - (a + n)
      OBVIOUS
    <2>2. SubSeq(s, n + 1, Len(s)) = [i \in 1 .. m |-> s[n + i]]
      BY <1>1, <2>1
    <2>3. \A i \in 1 .. m : s[n + i] = (a + n) + i
      BY <1>1, <2>1
    <2>4. Units(a + n, b) = [i \in 1 .. m |-> (a + n) + i]
      BY <2>1 DEF Units
    <2> QED BY <2>2, <2>3, <2>4
  <1> QED BY <1>2, <1>3 DEF s

\* One unit more.
LEMMA UnitsAppend ==
    ASSUME NEW a \in Nat, NEW b \in Nat, a <= b
    PROVE  Append(Units(a, b), b + 1) = Units(a, b + 1)
  <1>1. Units(b, b + 1) = <<b + 1>>
    <2>1. (b + 1) - b = 1
      OBVIOUS
    <2>2. Units(b, b + 1) = [i \in 1 .. 1 |-> b + i]
      BY <2>1 DEF Units
    <2>3. \A i \in 1 .. 1 : b + i = b + 1
      OBVIOUS
    <2> QED BY <2>2, <2>3
  <1>2. Units(a, b) \in Seq(Nat)
    BY UnitsFacts
  <1>3. Append(Units(a, b), b + 1) = Units(a, b) \o <<b + 1>>
    BY <1>2
  <1>4. Units(a, b) \o Units(b, b + 1) = Units(a, b + 1)
    <2>1. b + 1 \in Nat /\ b <= b + 1
      OBVIOUS
    <2> QED BY <2>1, UnitsConcat, Zenon
  <1> QED BY <1>1, <1>3, <1>4

-----------------------------------------------------------------------------
(* Sequences of numbers.                                                   *)

\* The rest of a sequence.
LEMMA TailFacts ==
    ASSUME NEW S, NEW s \in Seq(S), s # <<>>
    PROVE  /\ Tail(s) \in Seq(S) /\ Len(Tail(s)) = Len(s) - 1 /\ Len(s) \in Nat /\ Len(s) >= 1
           /\ \A i \in 1 .. Len(s) - 1 : Tail(s)[i] = s[i + 1] /\ i + 1 \in 1 .. Len(s)
           /\ Head(s) = s[1] /\ Head(s) \in S
  OBVIOUS

\* A sequence with one more element.
LEMMA AppendFacts ==
    ASSUME NEW S, NEW s \in Seq(S), NEW e \in S
    PROVE  /\ Append(s, e) \in Seq(S) /\ Len(Append(s, e)) = Len(s) + 1 /\ Len(s) \in Nat
           /\ \A i \in 1 .. Len(s) : Append(s, e)[i] = s[i]
           /\ Append(s, e)[Len(s) + 1] = e
  OBVIOUS

\* The rest of an ordered sequence is ordered, and not below its head.
LEMMA OrderedTail ==
    ASSUME NEW s \in Seq(Nat), s # <<>>, Ordered(s), NEW lo \in Int, NEW hi \in Int, Within(s, lo, hi)
    PROVE  /\ Ordered(Tail(s)) /\ Within(Tail(s), Head(s), hi) /\ Within(Tail(s), lo, hi)
           /\ lo <= Head(s) /\ Head(s) <= hi
  <1>1. /\ Len(Tail(s)) = Len(s) - 1 /\ Len(s) \in Nat /\ Len(s) >= 1
        /\ \A i \in 1 .. Len(s) - 1 : Tail(s)[i] = s[i + 1] /\ i + 1 \in 1 .. Len(s)
        /\ Head(s) = s[1]
    BY TailFacts
  <1>2. 1 \in 1 .. Len(s) /\ \A i \in 1 .. Len(s) - 1 : 1 <= i + 1
    BY <1>1
  <1>3. Ordered(Tail(s))
    BY <1>1 DEF Ordered
  <1>4. Within(Tail(s), Head(s), hi)
    BY <1>1, <1>2 DEF Ordered, Within
  <1>5. Within(Tail(s), lo, hi)
    BY <1>1 DEF Within
  <1>6. lo <= Head(s) /\ Head(s) <= hi
    BY <1>1, <1>2 DEF Within
  <1> QED BY <1>3, <1>4, <1>5, <1>6

\* A number that is not below the others is added.
LEMMA OrderedAppend ==
    ASSUME NEW s \in Seq(Nat), NEW e \in Nat, Ordered(s), NEW lo \in Int, NEW hi \in Int, NEW mid \in Int,
           Within(s, lo, mid), mid <= e, lo <= e, e <= hi
    PROVE  Ordered(Append(s, e)) /\ Within(Append(s, e), lo, hi)
  <1> DEFINE t == Append(s, e)
  <1>1. /\ Len(t) = Len(s) + 1 /\ Len(s) \in Nat
        /\ \A i \in 1 .. Len(s) : t[i] = s[i]
        /\ t[Len(s) + 1] = e
    BY AppendFacts
  <1>2. \A i \in 1 .. Len(s) : s[i] \in Nat /\ s[i] <= e
    BY DEF Within
  <1> HIDE DEF t
  <1>3. \A i \in 1 .. Len(t) : i \in 1 .. Len(s) \/ i = Len(s) + 1
    BY <1>1
  <1>4. Ordered(t)
    <2> SUFFICES ASSUME NEW i \in 1 .. Len(t), NEW j \in 1 .. Len(t), i <= j PROVE t[i] <= t[j]
      BY DEF Ordered
    <2>1. CASE j = Len(s) + 1
      BY <1>1, <1>2, <1>3, <2>1
    <2>2. CASE j \in 1 .. Len(s)
      <3>1. i \in 1 .. Len(s)
        BY <1>1, <2>2
      <3> QED BY <1>1, <2>2, <3>1 DEF Ordered
    <2> QED BY <1>3, <2>1, <2>2
  <1>5. Within(t, lo, hi)
    <2> SUFFICES ASSUME NEW i \in 1 .. Len(t) PROVE lo <= t[i] /\ t[i] <= hi
      BY DEF Within
    <2>1. CASE i = Len(s) + 1
      BY <1>1, <2>1
    <2>2. CASE i \in 1 .. Len(s)
      BY <1>1, <1>2, <2>2 DEF Within
    <2> QED BY <1>3, <2>1, <2>2
  <1> QED BY <1>4, <1>5 DEF t

\* Wider bounds.
LEMMA Wider ==
    ASSUME NEW s \in Seq(Nat), NEW lo \in Int, NEW hi \in Int, NEW lo2 \in Int, NEW hi2 \in Int,
           Within(s, lo, hi), lo2 <= lo, hi <= hi2
    PROVE  Within(s, lo2, hi2)
  BY DEF Within

\* The bounds of the acknowledgements after a block that was skipped.
LEMMA BoundsSkip ==
    ASSUME NEW q \in Seq(Nat), NEW t \in Nat, NEW n \in Nat, NEW s \in Nat, NEW s2 \in Nat,
           s + 1 <= s2, t <= n + s, Within(q, t - 1 - s, n - 1)
    PROVE  t + 1 <= n + s2 /\ Within(q, t - s2, n - 1)
  <1>1. t + 1 <= n + s2 /\ t - s2 <= t - 1 - s
    OBVIOUS
  <1>2. t - s2 \in Int /\ t - 1 - s \in Int /\ n - 1 \in Int /\ n - 1 <= n - 1
    OBVIOUS
  <1>3. PICK lo \in Int, lo2 \in Int, hi \in Int : lo = t - 1 - s /\ lo2 = t - s2 /\ hi = n - 1
    BY <1>2
  <1>4. Within(q, lo2, hi)
    BY <1>1, <1>3 DEF Within
  <1> QED BY <1>1, <1>3, <1>4

\* The same after a block that was acknowledged.
LEMMA BoundsNext ==
    ASSUME NEW q \in Seq(Nat), NEW t \in Nat, NEW n \in Nat, NEW s \in Nat,
           t + 1 <= n, Within(q, t, n - 1)
    PROVE  t + 1 <= n + s /\ Within(q, t - s, n - 1)
  <1>1. t + 1 <= n + s /\ t - s <= t
    OBVIOUS
  <1>2. t - s \in Int /\ t \in Int /\ n - 1 \in Int /\ n - 1 <= n - 1
    OBVIOUS
  <1>3. PICK lo \in Int, hi \in Int : lo = t - s /\ hi = n - 1
    BY <1>2
  <1>4. Within(q, lo, hi)
    BY <1>1, <1>3 DEF Within
  <1> QED BY <1>1, <1>3, <1>4

-----------------------------------------------------------------------------
(* What the steps do to the datagrams and to the log.                      *)

\* The numbers of the invariant.
LEMMA Numbers ==
    ASSUME Typed
    PROVE  /\ Slack \in 0 .. TftpFaults /\ Top \in Nat /\ Top <= tx /\ tx - 1 <= Top
           /\ tx \in Nat /\ tx >= 1 /\ tnext \in Nat /\ tnext >= 1 /\ tlog \in Nat
  <1>1. tx \in Nat /\ tx >= 1 /\ tnext \in Nat /\ tnext >= 1 /\ tlog \in Nat
    BY DEF Typed
  <1>2. Top \in Nat /\ Top <= tx /\ tx - 1 <= Top
    BY <1>1 DEF Top
  <1>3. TftpFaults \in Nat /\ tftpFaults \in 0 .. TftpFaults
    BY TftpAssumption DEF Typed
  <1>4. Slack \in 0 .. TftpFaults
    BY <1>3 DEF Slack
  <1> QED BY <1>1, <1>2, <1>4

\* The same after a step.
LEMMA NumbersNext ==
    ASSUME Typed'
    PROVE  /\ Slack' \in 0 .. TftpFaults /\ Top' \in Nat /\ Top' <= tx' /\ tx' - 1 <= Top'
           /\ tx' \in Nat /\ tx' >= 1 /\ tnext' \in Nat /\ tnext' >= 1 /\ tlog' \in Nat
  <1>1. tx' \in Nat /\ tx' >= 1 /\ tnext' \in Nat /\ tnext' >= 1 /\ tlog' \in Nat
    BY DEF Typed
  <1>2. Top' = tx' \/ Top' = tx' - 1
    BY Zenon DEF Top
  <1>3. TftpFaults \in Nat /\ tftpFaults' \in 0 .. TftpFaults
    BY TftpAssumption DEF Typed
  <1>4. Slack' = TftpFaults - tftpFaults' \/ Slack' = 0
    BY Zenon DEF Slack
  <1> QED BY <1>1, <1>2, <1>3, <1>4

\* Failures are not taken back.
LEMMA SlackGrows ==
    ASSUME Typed, Typed', cut => cut', tftpFaults' <= tftpFaults
    PROVE  Slack <= Slack'
  <1>1. TftpFaults \in Nat /\ tftpFaults \in 0 .. TftpFaults /\ tftpFaults' \in 0 .. TftpFaults
    BY TftpAssumption DEF Typed
  <1>2. CASE cut
    <2>1. cut'
      BY <1>2
    <2>2. Slack = TftpFaults - tftpFaults
      BY <1>2, Zenon DEF Slack
    <2>3. Slack' = TftpFaults - tftpFaults'
      BY <2>1, Zenon DEF Slack
    <2>4. PICK f \in Int : f = tftpFaults'
      BY <1>1
    <2>5. f <= tftpFaults
      BY <2>4
    <2>6. Slack <= TftpFaults - f
      BY <1>1, <2>2, <2>5
    <2> QED BY <2>3, <2>4, <2>6
  <1>3. CASE ~cut
    <2>1. Slack = 0
      BY <1>3, Zenon DEF Slack
    <2>2. Slack' \in 0 .. TftpFaults
      BY NumbersNext
    <2> QED BY <1>1, <2>1, <2>2
  <1> QED BY <1>2, <1>3

\* What most steps leave alone.
SameBlocks == UNCHANGED <<tx, rx, buf, pipe, tlog, tserver, tnext>>

Grows == Slack <= Slack' /\ Top <= Top'

\* The datagrams that are left are still close together.
LEMMA WindowKept ==
    ASSUME Typed, Typed', NEW no \in Seq(Nat), NEW ack \in Seq(Nat), Window(no, ack),
           Grows, UNCHANGED <<tx, rx, tnext>>,
           NEW no2 \in Seq(Nat), Ordered(no2), Within(no2, tnext - 1, Top'),
           NEW ack2 \in Seq(Nat), Ordered(ack2), Within(ack2, tx - 1 - Slack', tnext - 1)
    PROVE  Window(no2, ack2)'
  <1>1. /\ Slack \in Nat /\ Top \in Nat /\ tx \in Nat /\ tnext \in Nat
        /\ Slack' \in Nat /\ Top' \in Nat
    BY Numbers, NumbersNext
  <1>2. rx' = (tx' - 1) % BlockNumbers
    BY DEF Window
  <1>3. tx' <= tnext' + Slack' /\ tnext' <= Top' + 1
    <2>1. tx <= tnext + Slack /\ tnext <= Top + 1 /\ tx' = tx /\ tnext' = tnext
      BY DEF Window
    <2>2. PICK s \in Int, t \in Int : s = Slack' /\ t = Top'
      BY <1>1
    <2>3. Slack <= s /\ Top <= t
      BY <2>2 DEF Grows
    <2>4. tx <= tnext + s /\ tnext <= t + 1
      BY <1>1, <2>1, <2>3
    <2> QED BY <2>1, <2>2, <2>4
  <1>4. Within(no2, tnext' - 1, Top') /\ Within(ack2, tx' - 1 - Slack', tnext' - 1)
    BY Zenon
  <1> QED BY <1>2, <1>3, <1>4 DEF Window

\* The old bounds imply the new ones.
LEMMA WindowWider ==
    ASSUME Typed, Typed', UNCHANGED <<tx, tnext>>, Grows, NEW s \in Seq(Nat)
    PROVE  /\ Within(s, tnext - 1, Top) => Within(s, tnext - 1, Top')
           /\ Within(s, tx - 1 - Slack, tnext - 1) => Within(s, tx - 1 - Slack', tnext - 1)
  <1>1. /\ Slack \in Int /\ Top \in Int /\ tx \in Int /\ tnext \in Int
        /\ Slack' \in Int /\ Top' \in Int
    BY Numbers, NumbersNext
  <1>2. tx - 1 - Slack' <= tx - 1 - Slack /\ Top <= Top'
    <2>1. PICK sl \in Int : sl = Slack'
      BY <1>1
    <2>2. Slack <= sl
      BY <2>1 DEF Grows
    <2>3. tx - 1 - sl <= tx - 1 - Slack
      BY <1>1, <2>2
    <2> QED BY <2>1, <2>3 DEF Grows
  <1>3. /\ tnext - 1 \in Int /\ tnext - 1 <= tnext - 1
        /\ tx - 1 - Slack \in Int /\ tx - 1 - Slack' \in Int
    BY <1>1
  <1>4. Within(s, tnext - 1, Top) => Within(s, tnext - 1, Top')
    BY <1>1, <1>2, <1>3, Wider, Zenon
  <1>5. Within(s, tx - 1 - Slack, tnext - 1) => Within(s, tx - 1 - Slack', tnext - 1)
    <2>1. PICK lo \in Int, hi \in Int : lo = tx - 1 - Slack' /\ hi = tnext - 1
      BY <1>3
    <2>2. lo <= tx - 1 - Slack
      BY <1>2, <2>1
    <2>3. Within(s, tx - 1 - Slack, hi) => Within(s, lo, hi)
      BY <1>3, <2>2 DEF Within
    <2> QED BY <2>1, <2>3
  <1> QED BY <1>4, <1>5

\* The log is where it was.
LEMMA LayoutKept ==
    ASSUME NEW off \in Seq(Nat), Layout(off), SameBlocks
    PROVE  Layout(off)'
  BY DEF Layout, SameBlocks

\* A step that sends and receives nothing.
LEMMA NothingMoves ==
    ASSUME Typed, Typed', NEW no \in Seq(Nat), NEW ack \in Seq(Nat), NEW off \in Seq(Nat),
           Ghost(no, ack, off), Grows, SameBlocks, UNCHANGED <<toServer, toClient>>
    PROVE  Ghost(no, ack, off)'
  <1>1. Window(no, ack)'
    <2>1. /\ Ordered(no) /\ Within(no, tnext - 1, Top)
          /\ Ordered(ack) /\ Within(ack, tx - 1 - Slack, tnext - 1) /\ Window(no, ack)
      BY DEF Ghost, Window
    <2>2. Within(no, tnext - 1, Top') /\ Within(ack, tx - 1 - Slack', tnext - 1)
      BY <2>1, WindowWider DEF SameBlocks
    <2> QED BY <2>1, <2>2, WindowKept DEF SameBlocks
  <1>2. Layout(off)'
    BY LayoutKept DEF Ghost
  <1>3. Numbered(no, ack)' /\ Carries(no, off)'
    BY DEF Ghost, Numbered, Carries
  <1> QED BY <1>1, <1>2, <1>3 DEF Ghost

\* A datagram from the server is taken, or lost.
LEMMA AckTaken ==
    ASSUME Typed, Typed', NEW no \in Seq(Nat), NEW ack \in Seq(Nat), NEW off \in Seq(Nat),
           Ghost(no, ack, off), Grows, SameBlocks, UNCHANGED toServer,
           toClient # <<>>, toClient' = Tail(toClient)
    PROVE  Tail(ack) \in Seq(Nat) /\ Ghost(no, Tail(ack), off)'
  <1>1. /\ Numbered(no, ack) /\ Window(no, ack) /\ ack # <<>> /\ toClient \in Seq(Nat)
        /\ Ordered(no) /\ Within(no, tnext - 1, Top)
        /\ Ordered(ack) /\ Within(ack, tx - 1 - Slack, tnext - 1)
    <2>1. toClient \in Seq(Nat) /\ Len(toClient) # 0
      BY EmptySeq DEF Typed
    <2>2. Len(ack) # 0
      BY <2>1 DEF Ghost, Numbered
    <2>3. ack # <<>>
      BY <2>2, EmptySeq
    <2> QED BY <2>1, <2>3 DEF Ghost, Window
  <1>2. /\ Len(ack) = Len(toClient) /\ \A j \in 1 .. Len(ack) : toClient[j] = Number(ack[j])
    BY <1>1 DEF Numbered
  <1>3. /\ Tail(ack) \in Seq(Nat) /\ Len(Tail(ack)) = Len(ack) - 1
        /\ \A i \in 1 .. Len(ack) - 1 : Tail(ack)[i] = ack[i + 1] /\ i + 1 \in 1 .. Len(ack)
    BY <1>1, TailFacts
  <1>4. /\ Len(Tail(toClient)) = Len(toClient) - 1
        /\ \A i \in 1 .. Len(toClient) - 1 : Tail(toClient)[i] = toClient[i + 1]
    BY <1>1, TailFacts
  <1>5. Numbered(no, Tail(ack))'
    BY <1>1, <1>2, <1>3, <1>4 DEF Numbered
  <1>6. Ordered(Tail(ack)) /\ Within(Tail(ack), tx - 1 - Slack, tnext - 1)
    <2>1. tx - 1 - Slack \in Int /\ tnext - 1 \in Int
      BY Numbers
    <2> QED BY <1>1, <2>1, OrderedTail, Zenon
  <1>7. Within(no, tnext - 1, Top') /\ Within(Tail(ack), tx - 1 - Slack', tnext - 1)
    BY <1>1, <1>3, <1>6, WindowWider DEF SameBlocks
  <1>8. Window(no, Tail(ack))'
    BY <1>1, <1>3, <1>6, <1>7, WindowKept DEF SameBlocks
  <1>9. Layout(off)'
    BY LayoutKept DEF Ghost
  <1>10. Carries(no, off)'
    BY DEF Ghost, Carries
  <1> QED BY <1>3, <1>5, <1>8, <1>9, <1>10 DEF Ghost

\* The first datagram to the server, by its block.
LEMMA FirstPacket ==
    ASSUME Typed, NEW no \in Seq(Nat), NEW ack \in Seq(Nat), NEW off \in Seq(Nat),
           Ghost(no, ack, off), toServer # <<>>
    PROVE  /\ no # <<>> /\ Head(no) \in Nat /\ Head(toServer) \in Packets
           /\ Head(toServer).block = Number(Head(no))
           /\ Head(no) > 0 => Head(toServer).data = Units(off[Head(no)], off[Head(no) + 1])
           /\ tnext - 1 <= Head(no) /\ Head(no) <= Top
           /\ Tail(no) \in Seq(Nat) /\ Ordered(Tail(no)) /\ Within(Tail(no), Head(no), Top)
           /\ Within(Tail(no), tnext - 1, Top)
           /\ Tail(toServer) \in Seq(Packets) /\ Len(Tail(no)) = Len(Tail(toServer))
           /\ \A j \in 1 .. Len(Tail(no)) : Tail(toServer)[j].block = Number(Tail(no)[j])
           /\ \A j \in 1 .. Len(Tail(no)) :
                 Tail(no)[j] > 0 => Tail(toServer)[j].data = Units(off[Tail(no)[j]], off[Tail(no)[j] + 1])
  <1>1. /\ toServer \in Seq(Packets) /\ Len(no) = Len(toServer)
        /\ \A j \in 1 .. Len(no) : toServer[j].block = Number(no[j])
        /\ \A j \in 1 .. Len(no) : no[j] > 0 => toServer[j].data = Units(off[no[j]], off[no[j] + 1])
        /\ Ordered(no) /\ Within(no, tnext - 1, Top)
    BY DEF Ghost, Numbered, Window, Carries, Typed
  <1>2. no # <<>>
    <2>1. Len(toServer) # 0
      BY <1>1, EmptySeq
    <2>2. Len(no) # 0
      BY <1>1, <2>1
    <2> QED BY <2>2, EmptySeq
  <1>3. /\ Tail(no) \in Seq(Nat) /\ Len(Tail(no)) = Len(no) - 1 /\ Len(no) \in Nat /\ Len(no) >= 1
        /\ \A i \in 1 .. Len(no) - 1 : Tail(no)[i] = no[i + 1] /\ i + 1 \in 1 .. Len(no)
        /\ Head(no) = no[1] /\ Head(no) \in Nat
    BY <1>2, TailFacts
  <1>4. /\ Tail(toServer) \in Seq(Packets) /\ Len(Tail(toServer)) = Len(toServer) - 1
        /\ \A i \in 1 .. Len(toServer) - 1 : Tail(toServer)[i] = toServer[i + 1]
        /\ Head(toServer) = toServer[1] /\ Head(toServer) \in Packets
    BY <1>1, TailFacts
  <1>5. 1 \in 1 .. Len(no)
    BY <1>3
  <1>6. /\ Head(toServer).block = Number(Head(no))
        /\ Head(no) > 0 => Head(toServer).data = Units(off[Head(no)], off[Head(no) + 1])
    BY <1>1, <1>3, <1>4, <1>5
  <1>7. tnext - 1 \in Int /\ Top \in Int
    BY Numbers
  <1>8. /\ tnext - 1 <= Head(no) /\ Head(no) <= Top
        /\ Ordered(Tail(no)) /\ Within(Tail(no), Head(no), Top) /\ Within(Tail(no), tnext - 1, Top)
    BY <1>1, <1>2, <1>7, OrderedTail, Zenon
  <1>9. Len(Tail(no)) = Len(Tail(toServer))
    BY <1>1, <1>3, <1>4
  <1>10. ASSUME NEW j \in 1 .. Len(Tail(no))
         PROVE  /\ Tail(toServer)[j].block = Number(Tail(no)[j])
                /\ Tail(no)[j] > 0 => Tail(toServer)[j].data = Units(off[Tail(no)[j]], off[Tail(no)[j] + 1])
    <2>1. j \in 1 .. Len(no) - 1 /\ j \in 1 .. Len(toServer) - 1 /\ j + 1 \in 1 .. Len(no)
      BY <1>1, <1>3
    <2>2. Tail(toServer)[j] = toServer[j + 1] /\ Tail(no)[j] = no[j + 1]
      BY <1>3, <1>4, <2>1
    <2> QED BY <1>1, <2>1, <2>2
  <1> QED BY <1>2, <1>3, <1>4, <1>6, <1>8, <1>9, <1>10

\* A datagram to the server is dropped.
LEMMA PacketDropped ==
    ASSUME Typed, Typed', NEW no \in Seq(Nat), NEW ack \in Seq(Nat), NEW off \in Seq(Nat),
           Ghost(no, ack, off), Grows, SameBlocks, UNCHANGED toClient,
           toServer # <<>>, toServer' = Tail(toServer)
    PROVE  Tail(no) \in Seq(Nat) /\ Ghost(Tail(no), ack, off)'
  <1>1. /\ Tail(no) \in Seq(Nat) /\ Ordered(Tail(no)) /\ Within(Tail(no), tnext - 1, Top)
        /\ Len(Tail(no)) = Len(Tail(toServer))
        /\ \A j \in 1 .. Len(Tail(no)) : Tail(toServer)[j].block = Number(Tail(no)[j])
        /\ \A j \in 1 .. Len(Tail(no)) :
              Tail(no)[j] > 0 => Tail(toServer)[j].data = Units(off[Tail(no)[j]], off[Tail(no)[j] + 1])
    BY FirstPacket
  <1>2. Numbered(Tail(no), ack)' /\ Carries(Tail(no), off)'
    BY <1>1 DEF Ghost, Numbered, Carries
  <1>3. Ordered(ack) /\ Within(ack, tx - 1 - Slack, tnext - 1) /\ Window(no, ack)
    BY DEF Ghost, Window
  <1>4. Within(Tail(no), tnext - 1, Top') /\ Within(ack, tx - 1 - Slack', tnext - 1)
    BY <1>1, <1>3, WindowWider DEF SameBlocks
  <1>5. Window(Tail(no), ack)'
    BY <1>1, <1>3, <1>4, WindowKept DEF SameBlocks
  <1>6. Layout(off)'
    BY LayoutKept DEF Ghost
  <1> QED BY <1>1, <1>2, <1>5, <1>6 DEF Ghost

\* A datagram is sent to the server.
LEMMA PacketSent ==
    ASSUME Typed, Typed', NEW no \in Seq(Nat), NEW ack \in Seq(Nat), NEW off \in Seq(Nat),
           Ghost(no, ack, off), Grows, SameBlocks, UNCHANGED toClient,
           NEW a \in Nat, Top <= a, a <= Top', tnext - 1 <= a,
           NEW p \in Packets, toServer' = Append(toServer, p), p.block = Number(a),
           a > 0 => p.data = Units(off[a], off[a + 1])
    PROVE  Append(no, a) \in Seq(Nat) /\ Ghost(Append(no, a), ack, off)'
  <1>1. /\ toServer \in Seq(Packets) /\ Len(no) = Len(toServer)
        /\ \A j \in 1 .. Len(no) : toServer[j].block = Number(no[j])
        /\ \A j \in 1 .. Len(no) : no[j] > 0 => toServer[j].data = Units(off[no[j]], off[no[j] + 1])
        /\ Ordered(no) /\ Within(no, tnext - 1, Top)
        /\ Ordered(ack) /\ Within(ack, tx - 1 - Slack, tnext - 1) /\ Window(no, ack)
    BY DEF Ghost, Numbered, Window, Carries, Typed
  <1>2. /\ Append(no, a) \in Seq(Nat) /\ Len(Append(no, a)) = Len(no) + 1 /\ Len(no) \in Nat
        /\ \A i \in 1 .. Len(no) : Append(no, a)[i] = no[i]
        /\ Append(no, a)[Len(no) + 1] = a
    BY AppendFacts
  <1>3. /\ Len(toServer') = Len(toServer) + 1
        /\ \A i \in 1 .. Len(toServer) : toServer'[i] = toServer[i]
        /\ toServer'[Len(toServer) + 1] = p
    BY <1>1, AppendFacts
  <1>4. \A j \in 1 .. Len(Append(no, a)) : j \in 1 .. Len(no) \/ j = Len(no) + 1
    BY <1>2
  <1>5. ASSUME NEW j \in 1 .. Len(Append(no, a))
        PROVE  /\ toServer'[j].block = Number(Append(no, a)[j])
               /\ Append(no, a)[j] > 0
                    => toServer'[j].data = Units(off[Append(no, a)[j]], off[Append(no, a)[j] + 1])
    <2>1. CASE j \in 1 .. Len(no)
      BY <1>1, <1>2, <1>3, <2>1
    <2>2. CASE j = Len(no) + 1
      <3>1. toServer'[j] = p /\ Append(no, a)[j] = a
        BY <1>1, <1>2, <1>3, <2>2
      <3> QED BY <3>1
    <2> QED BY <1>4, <2>1, <2>2
  <1>6. Len(Append(no, a)) = Len(toServer')
    BY <1>1, <1>2, <1>3
  <1>7. Numbered(Append(no, a), ack)'
    BY <1>5, <1>6 DEF Ghost, Numbered
  <1>8. Carries(Append(no, a), off)'
    BY <1>5 DEF Carries
  <1>9. Ordered(Append(no, a)) /\ Within(Append(no, a), tnext - 1, Top')
    <2>1. Top \in Int /\ Top' \in Int /\ tnext - 1 \in Int
      BY Numbers, NumbersNext
    <2> QED BY <1>1, <2>1, OrderedAppend, Zenon
  <1>10. Within(ack, tx - 1 - Slack', tnext - 1)
    BY <1>1, WindowWider DEF SameBlocks
  <1>11. Window(Append(no, a), ack)'
    BY <1>1, <1>2, <1>9, <1>10, WindowKept DEF SameBlocks
  <1>12. Layout(off)'
    BY LayoutKept DEF Ghost
  <1> QED BY <1>2, <1>7, <1>8, <1>11, <1>12 DEF Ghost

\* The datagrams to the client, with one more at the end.
LEMMA AckAdded ==
    ASSUME NEW ack \in Seq(Nat), NEW line \in Seq(Nat), NEW a \in Nat,
           Len(ack) = Len(line), \A j \in 1 .. Len(ack) : line[j] = Number(ack[j])
    PROVE  /\ Append(ack, a) \in Seq(Nat) /\ Len(Append(ack, a)) = Len(Append(line, Number(a)))
           /\ \A j \in 1 .. Len(Append(ack, a)) : Append(line, Number(a))[j] = Number(Append(ack, a)[j])
  <1>1. Number(a) \in Nat
    BY NumberFacts
  <1>2. PICK n \in Nat : n = Number(a)
    BY <1>1
  <1>3. /\ Append(ack, a) \in Seq(Nat) /\ Len(Append(ack, a)) = Len(ack) + 1 /\ Len(ack) \in Nat
        /\ \A i \in 1 .. Len(ack) : Append(ack, a)[i] = ack[i]
        /\ Append(ack, a)[Len(ack) + 1] = a
    BY AppendFacts
  <1>4. /\ Len(Append(line, n)) = Len(line) + 1
        /\ \A i \in 1 .. Len(line) : Append(line, n)[i] = line[i]
        /\ Append(line, n)[Len(line) + 1] = n
    BY AppendFacts
  <1>5. ASSUME NEW j \in 1 .. Len(Append(ack, a)) PROVE Append(line, n)[j] = Number(Append(ack, a)[j])
    <2>1. j \in 1 .. Len(ack) \/ j = Len(ack) + 1
      BY <1>3
    <2>2. CASE j \in 1 .. Len(ack)
      BY <1>3, <1>4, <2>2
    <2>3. CASE j = Len(ack) + 1
      <3>1. Append(line, n)[j] = n /\ Append(ack, a)[j] = a
        BY <1>3, <1>4, <2>3
      <3> QED BY <1>2, <3>1
    <2> QED BY <2>1, <2>2, <2>3
  <1>6. Len(Append(ack, a)) = Len(Append(line, n))
    BY <1>3, <1>4
  <1> QED BY <1>2, <1>3, <1>5, <1>6

\* Offsets are in order, up to the end of the log.
LEMMA Offsets ==
    ASSUME Typed, NEW off \in Seq(Nat), Layout(off), NEW a \in 1 .. tx + 1, NEW b \in 1 .. tx + 1, a <= b
    PROVE  off[a] \in Nat /\ off[b] \in Nat /\ off[a] <= off[b] /\ off[b] <= tlog
  <1>1. tx \in Nat /\ tlog \in Nat /\ tx >= 1
    BY Numbers
  <1>2. tx + 1 \in 1 .. tx + 1 /\ b <= tx + 1 /\ Len(off) = tx + 1
    BY <1>1 DEF Layout
  <1>3. off[a] \in Nat /\ off[b] \in Nat /\ off[tx + 1] \in Nat
    BY <1>2
  <1>4. off[a] <= off[b] /\ off[b] <= off[tx + 1] /\ off[tx + 1] <= tlog
    BY <1>2 DEF Layout, Ordered
  <1> QED BY <1>1, <1>3, <1>4

\* A block and the next one.
LEMMA BlockRange ==
    ASSUME NEW k \in Nat, k > 0, NEW t \in Nat, k <= t
    PROVE  k \in 1 .. t + 1 /\ k + 1 \in 1 .. t + 1 /\ k \in 1 .. t
  OBVIOUS

\* The same, before the last one.
LEMMA BlockBefore ==
    ASSUME NEW k \in Nat, k > 0, NEW t \in Nat, k <= t - 1
    PROVE  k \in 1 .. t /\ k + 1 \in 1 .. t
  OBVIOUS

\* The server takes the block it expects.
LEMMA BlockAccepted ==
    ASSUME Typed, Typed', NEW no \in Seq(Nat), NEW ack \in Seq(Nat), NEW off \in Seq(Nat),
           Ghost(no, ack, off), UNCHANGED <<tpc, cut, tftpFaults, tx, rx, buf, pipe, tlog>>,
           toServer # <<>>, toServer' = Tail(toServer), NEW a \in Nat, a = Head(no), a = tnext,
           tserver' = tserver \o Head(toServer).data, tnext' = tnext + 1,
           toClient' = Append(toClient, Number(a))
    PROVE  /\ Tail(no) \in Seq(Nat) /\ Append(ack, a) \in Seq(Nat)
           /\ Ghost(Tail(no), Append(ack, a), off)'
  <1>1. /\ Tail(no) \in Seq(Nat) /\ Ordered(Tail(no)) /\ Within(Tail(no), a, Top)
        /\ Len(Tail(no)) = Len(Tail(toServer)) /\ a <= Top
        /\ \A j \in 1 .. Len(Tail(no)) : Tail(toServer)[j].block = Number(Tail(no)[j])
        /\ \A j \in 1 .. Len(Tail(no)) :
              Tail(no)[j] > 0 => Tail(toServer)[j].data = Units(off[Tail(no)[j]], off[Tail(no)[j] + 1])
        /\ Head(no) > 0 => Head(toServer).data = Units(off[Head(no)], off[Head(no) + 1])
    BY FirstPacket
  <1>2. /\ Slack \in Nat /\ Top \in Nat /\ Top <= tx /\ tx \in Nat /\ tx >= 1 /\ tnext \in Nat /\ tnext >= 1
    BY Numbers
  <1>3. Slack' = Slack /\ Top' = Top
    BY DEF Slack, Top, Sent
  <1>4. /\ toClient \in Seq(Nat) /\ Len(ack) = Len(toClient) /\ \A j \in 1 .. Len(ack) : toClient[j] = Number(ack[j])
        /\ Ordered(ack) /\ Within(ack, tx - 1 - Slack, tnext - 1) /\ Window(no, ack) /\ Layout(off)
    BY DEF Ghost, Numbered, Window, Typed
  <1>5. /\ Append(ack, a) \in Seq(Nat) /\ Len(Append(ack, a)) = Len(toClient')
        /\ \A j \in 1 .. Len(Append(ack, a)) : toClient'[j] = Number(Append(ack, a)[j])
    <2>1. /\ Append(ack, a) \in Seq(Nat) /\ Len(Append(ack, a)) = Len(Append(toClient, Number(a)))
          /\ \A j \in 1 .. Len(Append(ack, a)) : Append(toClient, Number(a))[j] = Number(Append(ack, a)[j])
      BY <1>4, AckAdded, Zenon
    <2> QED BY <2>1, Zenon
  <1>6. Numbered(Tail(no), Append(ack, a))' /\ Carries(Tail(no), off)'
    BY <1>1, <1>5 DEF Numbered, Carries
  <1>7. tx <= tnext + Slack /\ tnext <= Top + 1 /\ rx = (tx - 1) % BlockNumbers
    BY <1>4 DEF Window
  <1>8. Ordered(Append(ack, a)) /\ Within(Append(ack, a), tx - 1 - Slack, a)
    <2>1. /\ tx - 1 - Slack \in Int /\ tnext - 1 \in Int /\ a \in Int /\ a <= a
          /\ tnext - 1 <= a /\ tx - 1 - Slack <= a
      BY <1>2, <1>7
    <2> QED BY <1>4, <2>1, OrderedAppend, Zenon
  <1>9. Window(Tail(no), Append(ack, a))'
    <2>1. tnext' - 1 = a
      BY <1>2
    <2>2. tx' <= tnext' + Slack' /\ tnext' <= Top' + 1
      BY <1>1, <1>2, <1>3, <1>7
    <2>3. Within(Tail(no), tnext' - 1, Top') /\ Within(Append(ack, a), tx' - 1 - Slack', tnext' - 1)
      BY <1>1, <1>3, <1>8, <2>1
    <2>4. rx' = (tx' - 1) % BlockNumbers
      BY <1>7
    <2> QED BY <1>1, <1>8, <2>2, <2>3, <2>4 DEF Window
  <1>10. tserver' = Units(0, off[tnext'])
    <2>1. a \in 1 .. tx + 1 /\ a + 1 \in 1 .. tx + 1 /\ a <= a + 1
      <3>1. a > 0 /\ a <= tx /\ a <= a + 1
        BY <1>1, <1>2, SMTT(30)
      <3> QED BY <1>2, <3>1, BlockRange, Zenon
    <2>2. off[a] \in Nat /\ off[a + 1] \in Nat /\ off[a] <= off[a + 1]
      BY <1>4, <2>1, Offsets
    <2>3. 0 \in Nat /\ 0 <= off[a]
      BY <2>2, SMTT(30)
    <2>4. tserver = Units(0, off[a]) /\ Head(toServer).data = Units(off[a], off[a + 1])
      <3>1. Head(no) > 0
        BY <1>2
      <3>2. Head(toServer).data = Units(off[Head(no)], off[Head(no) + 1])
        BY <1>1, <3>1, Zenon
      <3>3. Layout(off) => tserver = Units(0, off[tnext])
        BY Zenon DEF Layout
      <3>4. tserver = Units(0, off[tnext])
        BY <1>4, <3>3, Zenon
      <3> QED BY <3>2, <3>4, Zenon
    <2>5. Units(0, off[a]) \o Units(off[a], off[a + 1]) = Units(0, off[a + 1])
      BY <2>2, <2>3, UnitsConcat, Zenon
    <2> QED BY <2>4, <2>5
  <1>11. Layout(off)'
    BY <1>4, <1>10 DEF Layout
  <1> QED BY <1>1, <1>5, <1>6, <1>9, <1>11 DEF Ghost

\* The server acknowledges a block, or the request, once more.
LEMMA BlockRepeated ==
    ASSUME Typed, Typed', NEW no \in Seq(Nat), NEW ack \in Seq(Nat), NEW off \in Seq(Nat),
           Ghost(no, ack, off), SameBlocks, UNCHANGED <<tpc, cut, tftpFaults>>,
           toServer # <<>>, toServer' = Tail(toServer), NEW a \in Nat, a = Head(no), a = tnext - 1,
           toClient' = Append(toClient, Number(a))
    PROVE  /\ Tail(no) \in Seq(Nat) /\ Append(ack, a) \in Seq(Nat)
           /\ Ghost(Tail(no), Append(ack, a), off)'
  <1>1. /\ Tail(no) \in Seq(Nat) /\ Ordered(Tail(no)) /\ Within(Tail(no), tnext - 1, Top)
        /\ Len(Tail(no)) = Len(Tail(toServer))
        /\ \A j \in 1 .. Len(Tail(no)) : Tail(toServer)[j].block = Number(Tail(no)[j])
        /\ \A j \in 1 .. Len(Tail(no)) :
              Tail(no)[j] > 0 => Tail(toServer)[j].data = Units(off[Tail(no)[j]], off[Tail(no)[j] + 1])
    BY FirstPacket
  <1>2. /\ Slack \in Nat /\ Top \in Nat /\ tx \in Nat /\ tnext \in Nat /\ tnext >= 1
    BY Numbers
  <1>3. Slack' = Slack /\ Top' = Top
    BY DEF Slack, Top, Sent, SameBlocks
  <1>4. /\ toClient \in Seq(Nat) /\ Len(ack) = Len(toClient) /\ \A j \in 1 .. Len(ack) : toClient[j] = Number(ack[j])
        /\ Ordered(ack) /\ Within(ack, tx - 1 - Slack, tnext - 1) /\ Window(no, ack) /\ Layout(off)
    BY DEF Ghost, Numbered, Window, Typed
  <1>5. /\ Append(ack, a) \in Seq(Nat) /\ Len(Append(ack, a)) = Len(toClient')
        /\ \A j \in 1 .. Len(Append(ack, a)) : toClient'[j] = Number(Append(ack, a)[j])
    <2>1. /\ Append(ack, a) \in Seq(Nat) /\ Len(Append(ack, a)) = Len(Append(toClient, Number(a)))
          /\ \A j \in 1 .. Len(Append(ack, a)) : Append(toClient, Number(a))[j] = Number(Append(ack, a)[j])
      BY <1>4, AckAdded, Zenon
    <2> QED BY <2>1, Zenon
  <1>6. Numbered(Tail(no), Append(ack, a))' /\ Carries(Tail(no), off)'
    BY <1>1, <1>5 DEF Numbered, Carries
  <1>7. tx <= tnext + Slack
    BY <1>4 DEF Window
  <1>8. Ordered(Append(ack, a)) /\ Within(Append(ack, a), tx - 1 - Slack, tnext - 1)
    <2>1. /\ tx - 1 - Slack \in Int /\ tnext - 1 \in Int /\ a <= tnext - 1
          /\ tnext - 1 <= a /\ tx - 1 - Slack <= a
      BY <1>2, <1>7
    <2> QED BY <1>4, <2>1, OrderedAppend, Zenon
  <1>9. Within(Tail(no), tnext - 1, Top') /\ Within(Append(ack, a), tx - 1 - Slack', tnext - 1)
    BY <1>1, <1>3, <1>8
  <1>10. Grows
    BY <1>2, <1>3 DEF Grows
  <1>11. Window(Tail(no), Append(ack, a))'
    BY <1>1, <1>4, <1>5, <1>8, <1>9, <1>10, WindowKept DEF SameBlocks
  <1>12. Layout(off)'
    BY <1>4, LayoutKept
  <1> QED BY <1>1, <1>5, <1>6, <1>11, <1>12 DEF Ghost

\* The places of the blocks, and of one more block that is empty so far.
LEMMA OffsetAdded ==
    ASSUME NEW s \in Seq(Nat), NEW n \in Nat, n >= 1, Len(s) = n, Ordered(s), NEW e \in Nat, e = s[n]
    PROVE  /\ Append(s, e) \in Seq(Nat) /\ Len(Append(s, e)) = n + 1 /\ Append(s, e)[n + 1] = e
           /\ \A i \in 1 .. n : Append(s, e)[i] = s[i]
           /\ Ordered(Append(s, e))
  <1> DEFINE o == Append(s, e)
  <1>1. /\ o \in Seq(Nat) /\ Len(o) = n + 1 /\ o[n + 1] = e /\ \A i \in 1 .. n : o[i] = s[i]
    BY AppendFacts
  <1> HIDE DEF o
  <1>2. \A i \in 1 .. n : s[i] <= e
    BY DEF Ordered
  <1>3. ASSUME NEW i \in 1 .. n + 1, NEW j \in 1 .. n + 1, i <= j PROVE o[i] <= o[j]
    <2>1. (i \in 1 .. n \/ i = n + 1) /\ (j \in 1 .. n \/ j = n + 1)
      OBVIOUS
    <2>2. CASE j = n + 1
      BY <1>1, <1>2, <2>1, <2>2
    <2>3. CASE j \in 1 .. n
      <3>1. i \in 1 .. n
        BY <1>3, <2>3
      <3>2. s[i] <= s[j]
        BY <1>3, <2>3, <3>1 DEF Ordered
      <3> QED BY <1>1, <2>3, <3>1, <3>2
    <2> QED BY <2>1, <2>2, <2>3
  <1>4. Ordered(o)
    BY <1>1, <1>3 DEF Ordered
  <1> QED BY <1>1, <1>4 DEF o

\* The client goes on to the next block: the buffer is empty, what was in it is a block of the log.
LEMMA NextBlock ==
    ASSUME Typed, Typed', NEW no \in Seq(Nat), NEW ack \in Seq(Nat), NEW off \in Seq(Nat),
           Ghost(no, ack, off), Sent, ~Sent', tx' = tx + 1, rx' = tx % BlockNumbers, buf' = <<>>,
           UNCHANGED <<pipe, tlog, tserver, tnext, toServer>>, tx + 1 <= tnext + Slack',
           NEW ack2 \in Seq(Nat), Ordered(ack2), Within(ack2, tx - Slack', tnext - 1),
           Len(ack2) = Len(toClient'), \A j \in 1 .. Len(ack2) : toClient'[j] = Number(ack2[j]),
           NEW e \in Nat, e = off[tx + 1]
    PROVE  Append(off, e) \in Seq(Nat) /\ Ghost(no, ack2, Append(off, e))'
  <1> DEFINE o2 == Append(off, e)
  <1>1. Numbered(no, ack) /\ Window(no, ack) /\ Layout(off) /\ Carries(no, off)
    BY DEF Ghost
  <1>2. tx \in Nat /\ tx >= 1 /\ tnext \in Nat /\ tnext >= 1 /\ tlog \in Nat /\ Slack' \in Nat
    BY Numbers, NumbersNext
  <1>3. Top = tx /\ Top' = tx
    <2>1. Top = tx
      BY DEF Top
    <2>2. Top' = tx' - 1
      BY DEF Top
    <2> QED BY <1>2, <2>1, <2>2
  <1>4. Len(off) = tx + 1 /\ off[1] = 0 /\ Ordered(off) /\ off[tx + 1] <= tlog
    BY <1>1 DEF Layout
  <1>5. /\ o2 \in Seq(Nat) /\ Len(o2) = (tx + 1) + 1 /\ o2[(tx + 1) + 1] = e
        /\ \A i \in 1 .. tx + 1 : o2[i] = off[i]
        /\ Ordered(o2)
    <2>1. tx + 1 \in Nat /\ tx + 1 >= 1
      BY <1>2
    <2> QED BY <1>4, <2>1, OffsetAdded, Zenon
  <1> HIDE DEF o2
  <1>6. /\ \A i \in 1 .. tx + 1 : o2[i] = off[i]
        /\ Len(o2) = tx + 2 /\ o2[tx + 2] = e
    <2>1. (tx + 1) + 1 = tx + 2
      BY <1>2
    <2> QED BY <1>5, <2>1
  <1>7. Window(no, ack2)'
    <2>1. /\ Ordered(no) /\ Within(no, tnext - 1, Top) /\ tnext <= Top + 1
      BY <1>1 DEF Window
    <2>2. tx' - 1 = tx /\ tx' - 1 - Slack' = tx - Slack'
      BY <1>2
    <2>3. tnext' <= Top' + 1 /\ tx' <= tnext' + Slack'
      BY <1>3, <2>1
    <2>4. Within(no, tnext' - 1, Top') /\ Within(ack2, tx' - 1 - Slack', tnext' - 1)
      BY <1>3, <2>1, <2>2
    <2>5. rx' = (tx' - 1) % BlockNumbers
      BY <2>2
    <2> QED BY <2>1, <2>3, <2>4, <2>5 DEF Window
  <1>8. Numbered(no, ack2)'
    BY <1>1 DEF Numbered
  <1>9. Layout(o2)'
    <2>1. tx' + 1 = tx + 2 /\ 1 \in 1 .. tx + 1 /\ tx + 1 \in 1 .. tx + 1 /\ tx + 2 = tx' + 1
      BY <1>2
    <2>2. tnext \in 1 .. tx + 1
      BY <1>1, <1>2, <1>3 DEF Window
    <2>3. Len(o2) = tx' + 1 /\ o2[1] = 0 /\ o2[tx'] = e /\ o2[tx' + 1] = e /\ o2[tnext] = off[tnext]
      BY <1>4, <1>6, <2>1, <2>2
    <2>4. Units(e, e) = <<>>
      <3>1. e <= e
        OBVIOUS
      <3> QED BY <3>1, UnitsFacts, Zenon
    <2>5. buf' = Units(o2[tx'], o2[tx' + 1])
      BY <2>3, <2>4
    <2>6. pipe' = Units(o2[tx' + 1], tlog') /\ o2[tx' + 1] <= tlog'
      BY <1>1, <1>4, <2>3 DEF Layout
    <2>7. tserver' = Units(0, o2[tnext'])
      BY <1>1, <2>3 DEF Layout
    <2> QED BY <1>5, <2>3, <2>5, <2>6, <2>7 DEF Layout
  <1>10. Carries(no, o2)'
    <2> SUFFICES ASSUME NEW j \in 1 .. Len(no), no[j] > 0
                 PROVE  toServer[j].data = Units(o2[no[j]], o2[no[j] + 1])
      BY DEF Carries
    <2>1. no[j] \in Nat /\ no[j] <= tx
      <3>1. Within(no, tnext - 1, tx)
        BY <1>1, <1>3, Zenon DEF Window
      <3> QED BY <3>1, SMTT(30) DEF Within
    <2>2. no[j] \in 1 .. tx + 1 /\ no[j] + 1 \in 1 .. tx + 1
      BY <1>2, <2>1, BlockRange, Zenon
    <2>3. o2[no[j]] = off[no[j]] /\ o2[no[j] + 1] = off[no[j] + 1]
      BY <1>6, <2>2
    <2> QED BY <1>1, <2>3 DEF Carries
  <1>11. Ghost(no, ack2, o2)'
    BY <1>7, <1>8, <1>9, <1>10 DEF Ghost
  <1> QED BY <1>4, <1>11 DEF o2

\* The main thread writes to the log.
LEMMA LogWritten ==
    ASSUME Typed, Typed', NEW no \in Seq(Nat), NEW ack \in Seq(Nat), NEW off \in Seq(Nat),
           Ghost(no, ack, off), tlog' = tlog + 1, pipe' = Append(pipe, tlog + 1),
           UNCHANGED <<tpc, cut, tftpFaults, tx, rx, buf, tserver, tnext, toServer, toClient>>
    PROVE  Ghost(no, ack, off)'
  <1>1. Slack' = Slack /\ Top' = Top
    BY DEF Slack, Top, Sent
  <1>2. Window(no, ack)'
    BY <1>1 DEF Ghost, Window
  <1>3. Numbered(no, ack)' /\ Carries(no, off)'
    BY DEF Ghost, Numbered, Carries
  <1>4. tx \in Nat /\ tlog \in Nat /\ tx + 1 \in 1 .. tx + 1
    BY Numbers
  <1>5. off[tx + 1] \in Nat /\ off[tx + 1] <= tlog
    BY <1>4, Offsets DEF Ghost
  <1>6. Append(Units(off[tx + 1], tlog), tlog + 1) = Units(off[tx + 1], tlog + 1)
    BY <1>4, <1>5, UnitsAppend
  <1>7. pipe' = Units(off[tx' + 1], tlog') /\ off[tx' + 1] <= tlog'
    BY <1>4, <1>5, <1>6 DEF Ghost, Layout
  <1>8. Layout(off)'
    BY <1>7 DEF Ghost, Layout
  <1> QED BY <1>2, <1>3, <1>8 DEF Ghost

\* Units go from the socket pair to the buffer, before the block is sent.
LEMMA BufferFills ==
    ASSUME Typed, Typed', NEW no \in Seq(Nat), NEW ack \in Seq(Nat), NEW off \in Seq(Nat),
           Ghost(no, ack, off), tpc = "loop", NEW n \in Nat, n <= Len(pipe),
           buf' = buf \o SubSeq(pipe, 1, n), pipe' = SubSeq(pipe, n + 1, Len(pipe)),
           UNCHANGED <<cut, tftpFaults, tx, rx, tlog, tserver, tnext, toServer, toClient>>,
           NEW o2 \in Seq(Nat), Len(o2) = Len(off), \A i \in 1 .. tx : o2[i] = off[i],
           o2[tx + 1] = off[tx + 1] + n
    PROVE  Ghost(no, ack, o2)'
  <1>1. Numbered(no, ack) /\ Window(no, ack) /\ Layout(off) /\ Carries(no, off)
    BY DEF Ghost
  <1>2. tx \in Nat /\ tx >= 1 /\ tnext \in Nat /\ tnext >= 1 /\ tlog \in Nat
    BY Numbers
  <1>3. Slack' = Slack /\ Top = tx - 1 /\ Top <= Top'
    <2>1. Top = tx - 1
      BY DEF Top, Sent
    <2>2. Slack' = Slack
      BY DEF Slack
    <2>3. Top' = tx \/ Top' = tx - 1
      BY Zenon DEF Top
    <2> QED BY <1>2, <2>1, <2>2, <2>3
  <1>4. /\ Len(off) = tx + 1 /\ off[1] = 0 /\ Ordered(off) /\ off[tx + 1] <= tlog
        /\ buf = Units(off[tx], off[tx + 1]) /\ pipe = Units(off[tx + 1], tlog)
        /\ tserver = Units(0, off[tnext])
    BY <1>1 DEF Layout
  <1>5. tx \in 1 .. tx + 1 /\ tx + 1 \in 1 .. tx + 1 /\ tx <= tx + 1
    BY <1>2
  <1>6. off[tx] \in Nat /\ off[tx + 1] \in Nat /\ off[tx] <= off[tx + 1]
    BY <1>1, <1>5, Offsets
  <1>7. off[tx + 1] + n <= tlog /\ off[tx + 1] + n \in Nat /\ off[tx + 1] <= off[tx + 1] + n
    <2>1. Len(pipe) = tlog - off[tx + 1]
      BY <1>2, <1>4, <1>6, UnitsFacts
    <2>2. PICK o \in Nat : o = off[tx + 1]
      BY <1>6
    <2>3. n <= tlog - o
      BY <2>1, <2>2
    <2>4. o + n <= tlog /\ o + n \in Nat /\ o <= o + n
      BY <1>2, <2>3
    <2> QED BY <2>2, <2>4
  <1>8. /\ SubSeq(pipe, 1, n) = Units(off[tx + 1], off[tx + 1] + n)
        /\ pipe' = Units(off[tx + 1] + n, tlog)
    <2>1. PICK o \in Nat : o = off[tx + 1]
      BY <1>6
    <2>2. o + n <= tlog
      BY <1>7, <2>1
    <2>3. /\ SubSeq(Units(o, tlog), 1, n) = Units(o, o + n)
          /\ SubSeq(Units(o, tlog), n + 1, Len(Units(o, tlog))) = Units(o + n, tlog)
      BY <1>2, <2>2, UnitsSplit
    <2>4. pipe = Units(o, tlog)
      BY <1>4, <2>1
    <2> QED BY <2>1, <2>3, <2>4
  <1>9. buf' = Units(off[tx], off[tx + 1] + n)
    <2>1. Units(off[tx], off[tx + 1]) \o Units(off[tx + 1], off[tx + 1] + n) = Units(off[tx], off[tx + 1] + n)
      BY <1>6, <1>7, UnitsConcat, Zenon
    <2> QED BY <1>4, <1>8, <2>1
  <1>10. tnext \in 1 .. tx
    BY <1>1, <1>2, <1>3 DEF Window
  <1>11. Ordered(o2)
    <2> SUFFICES ASSUME NEW i \in 1 .. tx + 1, NEW j \in 1 .. tx + 1, i <= j PROVE o2[i] <= o2[j]
      BY <1>4 DEF Ordered
    <2>1. (i \in 1 .. tx \/ i = tx + 1) /\ (j \in 1 .. tx \/ j = tx + 1)
      BY <1>2, SMTT(30)
    <2>2. off[i] \in Nat /\ off[j] \in Nat /\ off[i] <= off[j]
      BY <1>1, Offsets
    <2>3. CASE j \in 1 .. tx
      <3>1. i \in 1 .. tx
        BY <1>2, <2>1, <2>3
      <3> QED BY <2>2, <2>3, <3>1
    <2>4. CASE j = tx + 1
      <3>1. PICK o \in Nat : o = off[tx + 1]
        BY <1>6
      <3>2. o2[j] = o + n /\ off[i] <= o
        BY <2>2, <2>4, <3>1
      <3>3. CASE i = tx + 1
        BY <2>4, <3>2, <3>3
      <3>4. CASE i \in 1 .. tx
        <4>1. o2[i] = off[i]
          BY <1>4, <3>4, Zenon
        <4> QED BY <2>2, <3>2, <4>1, SMTT(30)
      <3> QED BY <2>1, <3>3, <3>4
    <2> QED BY <2>1, <2>3, <2>4
  <1>12. Layout(o2)'
    <2>1. 1 \in 1 .. tx /\ tx \in 1 .. tx
      BY <1>2
    <2>2. o2[1] = 0 /\ o2[tx] = off[tx] /\ o2[tnext] = off[tnext] /\ Len(o2) = tx + 1
      BY <1>4, <1>10, <2>1
    <2> QED BY <1>4, <1>7, <1>8, <1>9, <1>11, <2>2 DEF Layout
  <1>13. Carries(no, o2)'
    <2> SUFFICES ASSUME NEW j \in 1 .. Len(no), no[j] > 0
                 PROVE  toServer[j].data = Units(o2[no[j]], o2[no[j] + 1])
      BY DEF Carries
    <2>1. no[j] \in Nat /\ no[j] <= tx - 1
      BY <1>1, <1>3, SMTT(30) DEF Window, Within
    <2>2. no[j] \in 1 .. tx /\ no[j] + 1 \in 1 .. tx
      BY <1>2, <2>1, BlockBefore, Zenon
    <2>3. o2[no[j]] = off[no[j]] /\ o2[no[j] + 1] = off[no[j] + 1]
      BY <2>2
    <2> QED BY <1>1, <2>3 DEF Carries
  <1>14. Numbered(no, ack)'
    BY <1>1 DEF Numbered
  <1>15. Grows
    <2>1. Slack \in Nat
      BY Numbers
    <2> QED BY <1>3, <2>1 DEF Grows
  <1>16. Window(no, ack)'
    <2>1. /\ Ordered(no) /\ Within(no, tnext - 1, Top)
          /\ Ordered(ack) /\ Within(ack, tx - 1 - Slack, tnext - 1)
      BY <1>1 DEF Window
    <2>2. Within(no, tnext - 1, Top') /\ Within(ack, tx - 1 - Slack', tnext - 1)
      BY <1>15, <2>1, WindowWider
    <2> QED BY <1>1, <1>15, <2>1, <2>2, WindowKept
  <1> QED BY <1>12, <1>13, <1>14, <1>16 DEF Ghost

-----------------------------------------------------------------------------
(* The steps of the thread.                                                *)

\* A step that leaves the block as it is.
LEMMA GrowsIf ==
    ASSUME Typed, Typed', cut => cut', tftpFaults' <= tftpFaults, tx' = tx, Sent => Sent'
    PROVE  Grows
  <1>1. Slack <= Slack'
    BY SlackGrows
  <1>2. Top <= Top'
    <2>1. tx \in Nat
      BY Numbers
    <2>2. CASE Sent
      <3>1. Top = tx /\ Top' = tx
        BY <2>2 DEF Top
      <3> QED BY <2>1, <3>1
    <2>3. CASE ~Sent
      <3>1. Top = tx - 1 /\ (Top' = tx \/ Top' = tx - 1)
        BY <2>3 DEF Top
      <3> QED BY <2>1, <3>1
    <2> QED BY <2>2, <2>3
  <1> QED BY <1>1, <1>2 DEF Grows

\* A step that sends and receives nothing.
LEMMA QuietStep ==
    ASSUME IInv, Typed', Progress', cut => cut', tftpFaults' <= tftpFaults, Sent => Sent',
           SameBlocks, UNCHANGED <<toServer, toClient>>
    PROVE  IInv'
  <1>1. PICK no \in Seq(Nat), ack \in Seq(Nat), off \in Seq(Nat) : Ghost(no, ack, off)
    BY DEF IInv
  <1>2. Grows
    BY GrowsIf DEF IInv, SameBlocks
  <1>3. Ghost(no, ack, off)'
    BY <1>1, <1>2, NothingMoves DEF IInv
  <1> QED BY <1>3 DEF IInv

\* A step that takes a datagram from the server and keeps the block.
LEMMA TakingStep ==
    ASSUME IInv, Typed', Progress', cut => cut', tftpFaults' <= tftpFaults, Sent => Sent',
           SameBlocks, UNCHANGED toServer, toClient # <<>>, toClient' = Tail(toClient)
    PROVE  IInv'
  <1>1. PICK no \in Seq(Nat), ack \in Seq(Nat), off \in Seq(Nat) : Ghost(no, ack, off)
    BY DEF IInv
  <1>2. Grows
    BY GrowsIf DEF IInv, SameBlocks
  <1>3. Tail(ack) \in Seq(Nat) /\ Ghost(no, Tail(ack), off)'
    BY <1>1, <1>2, AckTaken DEF IInv
  <1> QED BY <1>3 DEF IInv

\* The first datagram to the client, by its block.
LEMMA FirstAck ==
    ASSUME Typed, NEW no \in Seq(Nat), NEW ack \in Seq(Nat), NEW off \in Seq(Nat),
           Ghost(no, ack, off), toClient # <<>>
    PROVE  /\ Head(ack) \in Nat /\ Head(toClient) = Number(Head(ack))
           /\ tx - 1 - Slack <= Head(ack) /\ Head(ack) <= tnext - 1
           /\ Tail(ack) \in Seq(Nat) /\ Ordered(Tail(ack)) /\ Within(Tail(ack), Head(ack), tnext - 1)
           /\ Len(Tail(ack)) = Len(Tail(toClient))
           /\ \A j \in 1 .. Len(Tail(ack)) : Tail(toClient)[j] = Number(Tail(ack)[j])
  <1>1. /\ toClient \in Seq(Nat) /\ Len(ack) = Len(toClient)
        /\ \A j \in 1 .. Len(ack) : toClient[j] = Number(ack[j])
        /\ Ordered(ack) /\ Within(ack, tx - 1 - Slack, tnext - 1)
    BY DEF Ghost, Numbered, Window, Typed
  <1>2. ack # <<>>
    <2>1. Len(toClient) # 0
      BY <1>1, EmptySeq
    <2>2. Len(ack) # 0
      BY <1>1, <2>1
    <2> QED BY <2>2, EmptySeq
  <1>3. /\ Tail(ack) \in Seq(Nat) /\ Len(Tail(ack)) = Len(ack) - 1 /\ Len(ack) \in Nat /\ Len(ack) >= 1
        /\ \A i \in 1 .. Len(ack) - 1 : Tail(ack)[i] = ack[i + 1] /\ i + 1 \in 1 .. Len(ack)
        /\ Head(ack) = ack[1] /\ Head(ack) \in Nat
    BY <1>2, TailFacts
  <1>4. /\ Len(Tail(toClient)) = Len(toClient) - 1
        /\ \A i \in 1 .. Len(toClient) - 1 : Tail(toClient)[i] = toClient[i + 1]
        /\ Head(toClient) = toClient[1]
    BY <1>1, TailFacts
  <1>5. 1 \in 1 .. Len(ack)
    BY <1>3
  <1>6. Head(toClient) = Number(Head(ack))
    BY <1>1, <1>3, <1>4, <1>5
  <1>7. /\ tx - 1 - Slack <= Head(ack) /\ Head(ack) <= tnext - 1
        /\ Ordered(Tail(ack)) /\ Within(Tail(ack), Head(ack), tnext - 1)
    <2>1. tx - 1 - Slack \in Int /\ tnext - 1 \in Int
      BY Numbers
    <2> QED BY <1>1, <1>2, <2>1, OrderedTail, Zenon
  <1>8. Len(Tail(ack)) = Len(Tail(toClient))
    BY <1>1, <1>3, <1>4
  <1>9. ASSUME NEW j \in 1 .. Len(Tail(ack)) PROVE Tail(toClient)[j] = Number(Tail(ack)[j])
    <2>1. j \in 1 .. Len(ack) - 1 /\ j \in 1 .. Len(toClient) - 1 /\ j + 1 \in 1 .. Len(ack)
      BY <1>1, <1>3
    <2> QED BY <1>1, <1>3, <1>4, <2>1
  <1> QED BY <1>3, <1>6, <1>7, <1>8, <1>9

\* The request is sent.
LEMMA WriteRequestStep ==
    ASSUME IInv, WriteRequest
    PROVE  IInv'
  <1> DEFINE p == [block |-> Oack, data |-> <<>>]
  <1>1. p \in Packets /\ p.block = Number(0)
    <2>1. Oack \in Nat /\ Number(0) = Oack /\ <<>> \in Seq(Nat)
      BY TftpAssumption, EmptySeq DEF Oack, Number
    <2> QED BY <2>1 DEF Packets
  <1>2. toServer' = Append(toServer, p)
    BY DEF WriteRequest
  <1> HIDE DEF p
  <1>3. toServer' \in Seq(Packets)
    BY <1>1, <1>2, AppendFacts DEF IInv, Typed
  <1>4. Typed'
    BY <1>3 DEF IInv, Typed, TftpTypeOK, WriteRequest
  <1>5. Progress'
    BY DEF IInv, Progress, WriteRequest
  <1>6. Grows
    BY <1>4, GrowsIf DEF IInv, WriteRequest, Sent, Typed
  <1>7. PICK no \in Seq(Nat), ack \in Seq(Nat), off \in Seq(Nat) : Ghost(no, ack, off)
    BY DEF IInv
  <1>8. Top = 0 /\ Top' = 0 /\ tnext - 1 <= 0
    <2>1. tx = 1 /\ Top = tx - 1 /\ Top' = tx' - 1 /\ tx' = tx
      BY DEF IInv, Progress, Top, Sent, WriteRequest
    <2>2. tnext <= Top + 1 /\ tnext \in Nat
      BY <1>7, Numbers DEF Ghost, Window, IInv
    <2> QED BY <2>1, <2>2
  <1>9. /\ SameBlocks /\ UNCHANGED toClient
    BY DEF SameBlocks, WriteRequest
  <1>10. 0 \in Nat /\ Top <= 0 /\ 0 <= Top' /\ ~(0 > 0)
    BY <1>8
  <1>11. Append(no, 0) \in Seq(Nat) /\ Ghost(Append(no, 0), ack, off)'
    BY <1>1, <1>2, <1>4, <1>6, <1>7, <1>8, <1>9, <1>10, PacketSent, Zenon DEF IInv
  <1> QED BY <1>4, <1>5, <1>11 DEF IInv

\* The request cannot be sent.
LEMMA RequestFailsStep ==
    ASSUME IInv, RequestFails
    PROVE  IInv'
  <1>1. Typed'
    BY TftpAssumption DEF IInv, Typed, TftpTypeOK, Progress, Requesting, TftpFault, RequestFails
  <1>2. Progress'
    BY TftpAssumption DEF IInv, Typed, TftpTypeOK, Progress, Requesting, TftpFault, RequestFails
  <1>3. /\ (cut => cut') /\ tftpFaults' <= tftpFaults /\ (Sent => Sent')
        /\ SameBlocks /\ UNCHANGED <<toServer, toClient>>
    BY DEF IInv, Typed, Requesting, TftpFault, RequestFails, Sent, SameBlocks
  <1> QED BY <1>1, <1>2, <1>3, QuietStep

\* The server refuses.
LEMMA RequestRefusedStep ==
    ASSUME IInv, RequestRefused
    PROVE  IInv'
  <1>1. Typed'
    BY TftpAssumption DEF IInv, Typed, TftpTypeOK, Progress, Requesting, TftpFault, RequestRefused
  <1>2. Progress'
    BY TftpAssumption DEF IInv, Typed, TftpTypeOK, Progress, Requesting, TftpFault, RequestRefused
  <1>3. /\ (cut => cut') /\ tftpFaults' <= tftpFaults /\ (Sent => Sent')
        /\ SameBlocks /\ UNCHANGED <<toServer, toClient>>
    BY DEF IInv, Typed, Requesting, TftpFault, RequestRefused, Sent, SameBlocks
  <1> QED BY <1>1, <1>2, <1>3, QuietStep

\* A refusal is sent back.
LEMMA SendsBackStep ==
    ASSUME IInv, SendsBack
    PROVE  IInv'
  <1>1. Typed'
    BY TftpAssumption DEF IInv, Typed, TftpTypeOK, Progress, Requesting, SendsBack
  <1>2. Progress'
    BY TftpAssumption DEF IInv, Typed, TftpTypeOK, Progress, Requesting, SendsBack
  <1>3. /\ (cut => cut') /\ tftpFaults' <= tftpFaults /\ (Sent => Sent')
        /\ SameBlocks /\ UNCHANGED <<toServer, toClient>>
    BY DEF IInv, Typed, Requesting, SendsBack, Sent, SameBlocks
  <1> QED BY <1>1, <1>2, <1>3, QuietStep

\* The request is given up, or sent again.
LEMMA RequestTimeoutStep ==
    ASSUME IInv, RequestTimeout
    PROVE  IInv'
  <1>1. Typed'
    BY TftpAssumption DEF IInv, Typed, TftpTypeOK, Progress, Requesting, RequestTimeout
  <1>2. Progress'
    BY TftpAssumption DEF IInv, Typed, TftpTypeOK, Progress, Requesting, RequestTimeout
  <1>3. /\ (cut => cut') /\ tftpFaults' <= tftpFaults /\ (Sent => Sent')
        /\ SameBlocks /\ UNCHANGED <<toServer, toClient>>
    BY DEF IInv, Typed, Requesting, RequestTimeout, Sent, SameBlocks
  <1> QED BY <1>1, <1>2, <1>3, QuietStep

\* The server has agreed.
LEMMA RequestedStep ==
    ASSUME IInv, Requested
    PROVE  IInv'
  <1>1. toClient' \in Seq(Nat)
    BY TailFacts DEF IInv, Typed, Requested
  <1>2. Typed'
    BY <1>1, TftpAssumption DEF IInv, Typed, TftpTypeOK, Requesting, Requested
  <1>3. Progress'
    BY TftpAssumption DEF IInv, Typed, TftpTypeOK, Progress, Requesting, Requested
  <1>4. /\ (cut => cut') /\ tftpFaults' <= tftpFaults /\ (Sent => Sent')
        /\ SameBlocks /\ UNCHANGED toServer /\ toClient # <<>> /\ toClient' = Tail(toClient)
    BY DEF IInv, Typed, Requesting, Requested, Sent, SameBlocks
  <1> QED BY <1>2, <1>3, <1>4, TakingStep

\* The log grows.
LEMMA WriteLogStep ==
    ASSUME IInv, WriteLog
    PROVE  IInv'
  <1>1. pipe' \in Seq(Nat)
    <2>1. tlog + 1 \in Nat
      BY DEF IInv, Typed
    <2> QED BY <2>1, AppendFacts DEF IInv, Typed, WriteLog
  <1>2. Typed'
    BY <1>1, TftpAssumption DEF IInv, Typed, TftpTypeOK, WriteLog
  <1>3. Progress'
    BY DEF IInv, Progress, WriteLog
  <1>4. PICK no \in Seq(Nat), ack \in Seq(Nat), off \in Seq(Nat) : Ghost(no, ack, off)
    BY DEF IInv
  <1>5. Ghost(no, ack, off)'
    BY <1>2, <1>4, LogWritten DEF IInv, WriteLog
  <1> QED BY <1>2, <1>3, <1>5 DEF IInv

\* The log is closed.
LEMMA CloseLogStep ==
    ASSUME IInv, CloseLog
    PROVE  IInv'
  <1>1. Typed'
    BY DEF IInv, Typed, TftpTypeOK, CloseLog
  <1>2. Progress'
    BY DEF IInv, Progress, CloseLog
  <1>3. /\ (cut => cut') /\ tftpFaults' <= tftpFaults /\ (Sent => Sent')
        /\ SameBlocks /\ UNCHANGED <<toServer, toClient>>
    BY DEF IInv, Typed, CloseLog, Sent, SameBlocks
  <1> QED BY <1>1, <1>2, <1>3, QuietStep

\* Part of the log is read.
LEMMA LoopReadsStep ==
    ASSUME IInv, LoopReads
    PROVE  IInv'
  <1>1. PICK n \in 1 .. (IF Len(pipe) < BlockSize - Len(buf) THEN Len(pipe) ELSE BlockSize - Len(buf)) :
             /\ buf' = buf \o SubSeq(pipe, 1, n) /\ pipe' = SubSeq(pipe, n + 1, Len(pipe))
             /\ tpc' = IF Len(buf) + n = BlockSize THEN "send" ELSE "loop"
    BY DEF LoopReads
  <1>2. /\ buf \in Seq(Nat) /\ pipe \in Seq(Nat) /\ Len(buf) \in Nat /\ Len(pipe) \in Nat /\ BlockSize \in Nat
        /\ tx \in Nat /\ tx >= 1
    BY TftpAssumption DEF IInv, Typed
  <1>3. n \in Nat /\ n <= Len(pipe) /\ n <= BlockSize - Len(buf)
    BY <1>2
  <1>4. /\ SubSeq(pipe, 1, n) \in Seq(Nat) /\ Len(SubSeq(pipe, 1, n)) = n
        /\ SubSeq(pipe, n + 1, Len(pipe)) \in Seq(Nat)
    BY <1>2, <1>3
  <1>5. /\ buf \o SubSeq(pipe, 1, n) \in Seq(Nat) /\ Len(buf \o SubSeq(pipe, 1, n)) = Len(buf) + n
    <2>1. /\ buf \o SubSeq(pipe, 1, n) \in Seq(Nat)
          /\ Len(buf \o SubSeq(pipe, 1, n)) = Len(buf) + Len(SubSeq(pipe, 1, n))
      BY <1>2, <1>4, ConcatProperties
    <2> QED BY <1>4, <2>1
  <1>6. buf' \in Seq(Nat) /\ Len(buf') <= BlockSize /\ pipe' \in Seq(Nat)
    <2>1. Len(buf) + n <= BlockSize
      BY <1>2, <1>3
    <2> QED BY <1>1, <1>4, <1>5, <2>1
  <1>7. tpc' \in {"send", "loop"} /\ tpc = "loop"
    BY <1>1 DEF LoopReads
  <1>8. Typed'
    BY <1>6, <1>7 DEF IInv, Typed, TftpTypeOK, LoopReads, KeptByTurn
  <1>9. Progress'
    BY <1>7 DEF IInv, Progress, LoopReads, KeptByTurn
  <1>10. PICK no \in Seq(Nat), ack \in Seq(Nat), off \in Seq(Nat) : Ghost(no, ack, off)
    BY DEF IInv
  <1>11. Len(off) = tx + 1 /\ tx + 1 \in 1 .. tx + 1 /\ off[tx + 1] \in Nat
    <2>1. Len(off) = tx + 1
      BY <1>10 DEF Ghost, Layout
    <2>2. tx + 1 \in 1 .. Len(off)
      BY <1>2, <2>1
    <2> QED BY <2>1, <2>2
  <1>12. PICK t \in Nat, e \in Nat : t = tx /\ e = off[tx + 1] + n
    <2>1. off[tx + 1] + n \in Nat
      BY <1>3, <1>11
    <2> QED BY <1>2, <2>1
  <1> DEFINE o2 == [i \in 1 .. t + 1 |-> IF i = t + 1 THEN e ELSE off[i]]
  <1>13. o2 \in Seq(Nat) /\ Len(o2) = Len(off) /\ (\A i \in 1 .. tx : o2[i] = off[i]) /\ o2[tx + 1] = e
    <2>1. \A i \in 1 .. t + 1 : (IF i = t + 1 THEN e ELSE off[i]) \in Nat
      BY <1>11, <1>12
    <2>2. o2 \in Seq(Nat) /\ Len(o2) = t + 1
      BY <1>12, <2>1
    <2>3. \A i \in 1 .. t : o2[i] = off[i]
      BY <1>12
    <2>4. o2[t + 1] = e
      BY <1>12
    <2> HIDE DEF o2
    <2> QED BY <1>11, <1>12, <2>2, <2>3, <2>4
  <1> HIDE DEF o2
  <1>14. UNCHANGED <<cut, tftpFaults, tx, rx, tlog, tserver, tnext, toServer, toClient>>
    BY DEF LoopReads, KeptByTurn
  <1>15. Ghost(no, ack, o2)'
    BY <1>1, <1>3, <1>7, <1>8, <1>10, <1>12, <1>13, <1>14, BufferFills DEF IInv
  <1> QED BY <1>8, <1>9, <1>13, <1>15 DEF IInv

\* The log has ended.
LEMMA LoopEndsStep ==
    ASSUME IInv, LoopEnds
    PROVE  IInv'
  <1>1. Typed'
    BY DEF IInv, Typed, TftpTypeOK, LoopEnds, KeptByTurn
  <1>2. Progress'
    BY DEF IInv, Progress, LoopEnds, KeptByTurn
  <1>3. /\ (cut => cut') /\ tftpFaults' <= tftpFaults /\ (Sent => Sent')
        /\ SameBlocks /\ UNCHANGED <<toServer, toClient>>
    BY DEF IInv, Typed, LoopEnds, KeptByTurn, Sent, SameBlocks
  <1> QED BY <1>1, <1>2, <1>3, QuietStep

\* The log is silent.
LEMMA LoopIdleStep ==
    ASSUME IInv, LoopIdle
    PROVE  IInv'
  <1>1. cut' \in BOOLEAN /\ (cut => cut')
    BY Zenon DEF IInv, Typed, LoopIdle
  <1>2. Typed'
    BY <1>1, TftpAssumption DEF IInv, Typed, TftpTypeOK, Progress, LoopIdle, KeptByTurn
  <1>3. Progress'
    BY <1>1, TftpAssumption DEF IInv, Typed, TftpTypeOK, Progress, LoopIdle, KeptByTurn
  <1>4. /\ tftpFaults' <= tftpFaults /\ (Sent => Sent')
        /\ SameBlocks /\ UNCHANGED <<toServer, toClient>>
    BY DEF IInv, Typed, LoopIdle, KeptByTurn, Sent, SameBlocks
  <1> QED BY <1>1, <1>2, <1>3, <1>4, QuietStep

\* An acknowledgement while none is awaited.
LEMMA LoopAckStep ==
    ASSUME IInv, LoopAck
    PROVE  IInv'
  <1>1. toClient' \in Seq(Nat)
    BY TailFacts DEF IInv, Typed, LoopAck
  <1>2. Typed'
    BY <1>1 DEF IInv, Typed, TftpTypeOK, LoopAck, Asserts, KeptByTurn
  <1>3. PICK no \in Seq(Nat), ack \in Seq(Nat), off \in Seq(Nat) : Ghost(no, ack, off)
    BY DEF IInv
  <1>4. ~cut => Head(toClient) \in {rx, Oack}
    <2> SUFFICES ASSUME ~cut PROVE Head(toClient) \in {rx, Oack}
      OBVIOUS
    <2>1. /\ Head(ack) \in Nat /\ Head(toClient) = Number(Head(ack))
          /\ tx - 1 - Slack <= Head(ack) /\ Head(ack) <= tnext - 1
      BY <1>3, FirstAck DEF IInv, LoopAck
    <2>2. Slack = 0 /\ Top = tx - 1
      BY DEF Slack, Top, Sent, LoopAck
    <2>3. tx \in Nat /\ tnext \in Nat /\ tnext <= Top + 1 /\ rx = (tx - 1) % BlockNumbers
      BY <1>3, Numbers DEF IInv, Ghost, Window
    <2>4. Head(ack) = tx - 1
      BY <2>1, <2>2, <2>3
    <2> QED BY <2>1, <2>3, <2>4 DEF Number
  <1>5. Progress'
    <2>1. why' = "order" => cut'
      BY <1>4, Zenon DEF IInv, Progress, LoopAck, Asserts, KeptByTurn
    <2> QED BY <2>1 DEF IInv, Progress, LoopAck, Asserts, KeptByTurn
  <1>6. /\ (cut => cut') /\ tftpFaults' <= tftpFaults /\ (Sent => Sent')
        /\ SameBlocks /\ UNCHANGED toServer /\ toClient # <<>> /\ toClient' = Tail(toClient)
    BY DEF IInv, Typed, LoopAck, KeptByTurn, Sent, SameBlocks
  <1> QED BY <1>2, <1>5, <1>6, TakingStep

\* The block is sent.
LEMMA SendBlockStep ==
    ASSUME IInv, SendBlock
    PROVE  IInv'
  <1> DEFINE p == [block |-> Block, data |-> buf]
  <1>1. tx \in Nat /\ tx >= 1 /\ tnext \in Nat /\ buf \in Seq(Nat)
    BY Numbers DEF IInv, Typed
  <1>2. p \in Packets /\ p.block = Number(tx) /\ p.data = buf
    <2>1. tx # 0
      BY <1>1
    <2>2. Number(tx) \in Nat /\ Number(tx) = tx % BlockNumbers
      BY <1>1, <2>1, NumberFacts, Zenon DEF Number
    <2> QED BY <1>1, <2>2 DEF Packets, Block
  <1>3. toServer' = Append(toServer, p)
    BY DEF SendBlock
  <1> HIDE DEF p
  <1>4. toServer' \in Seq(Packets)
    BY <1>2, <1>3, AppendFacts DEF IInv, Typed
  <1>5. Typed'
    BY <1>4 DEF IInv, Typed, TftpTypeOK, SendBlock, KeptBySend
  <1>6. Progress'
    BY DEF IInv, Progress, SendBlock, KeptBySend
  <1>7. /\ (cut => cut') /\ tftpFaults' <= tftpFaults /\ (Sent => Sent')
        /\ SameBlocks /\ UNCHANGED toClient /\ tx' = tx /\ Sent /\ Sent'
    BY DEF IInv, Typed, SendBlock, KeptBySend, Sending, Sent, SameBlocks
  <1>8. Grows
    BY <1>5, <1>7, GrowsIf DEF IInv
  <1>9. PICK no \in Seq(Nat), ack \in Seq(Nat), off \in Seq(Nat) : Ghost(no, ack, off)
    BY DEF IInv
  <1>10. PICK a \in Nat : a = tx
    BY <1>1
  <1>11. Top = a /\ Top' = a /\ Top <= a /\ a <= Top' /\ tnext - 1 <= a
    <2>1. Top = a /\ Top' = a
      BY <1>7, <1>10 DEF Top
    <2>2. tnext <= Top + 1
      BY <1>9 DEF Ghost, Window
    <2> QED BY <1>1, <2>1, <2>2
  <1>12. p.data = Units(off[a], off[a + 1])
    BY <1>2, <1>9, <1>10 DEF Ghost, Layout
  <1>13. Append(no, a) \in Seq(Nat) /\ Ghost(Append(no, a), ack, off)'
    BY <1>2, <1>3, <1>5, <1>7, <1>8, <1>9, <1>10, <1>11, <1>12, PacketSent, Zenon DEF IInv
  <1> QED BY <1>5, <1>6, <1>13 DEF IInv

\* What a return from tftp_send_data_pkt leaves.
LEMMA ReturnedFacts ==
    ASSUME IInv, Sending, Returned
    PROVE  /\ Sent /\ ~Sent' /\ tx' = tx + 1 /\ rx' = tx % BlockNumbers /\ buf' = <<>>
           /\ tx' \in Nat \ {0} /\ rx' \in 0 .. BlockNumbers - 1 /\ Len(buf') <= BlockSize /\ buf' \in Seq(Nat)
           /\ tries' \in 0 .. TftpRetry /\ tries' < TftpRetry /\ needSend' \in BOOLEAN
           /\ tpc' \in {"loop", "done"} /\ (tpc' = "done" => tpc = "final") /\ (tpc' = "loop" => tpc = "send")
  <1>1. tx \in Nat /\ BlockSize \in Nat /\ TftpRetry \in Nat /\ TftpRetry >= 1
    BY TftpAssumption DEF IInv, Typed
  <1>2. tx % BlockNumbers \in 0 .. BlockNumbers - 1
    BY <1>1, NumberFacts
  <1>3. <<>> \in Seq(Nat) /\ Len(<<>>) = 0
    BY EmptySeq
  <1>4. tpc \in {"send", "final"} /\ tpc' \in {"loop", "done"} /\ (tpc' = "done" => tpc = "final")
        /\ (tpc' = "loop" => tpc = "send")
    BY DEF Sending, Returned
  <1>5. needSend' \in BOOLEAN
    BY DEF Returned
  <1>6. Sent /\ ~Sent'
    BY <1>4 DEF Sent
  <1> QED BY <1>1, <1>2, <1>3, <1>4, <1>5, <1>6 DEF Returned, Block

\* sendto fails: the block is skipped.
LEMMA SendFailsStep ==
    ASSUME IInv, SendFails
    PROVE  IInv'
  <1>1. /\ Sent /\ ~Sent' /\ tx' = tx + 1 /\ rx' = tx % BlockNumbers /\ buf' = <<>>
        /\ tx' \in Nat \ {0} /\ rx' \in 0 .. BlockNumbers - 1 /\ Len(buf') <= BlockSize /\ buf' \in Seq(Nat)
        /\ tries' \in 0 .. TftpRetry /\ tries' < TftpRetry /\ needSend' \in BOOLEAN
        /\ tpc' \in {"loop", "done"} /\ (tpc' = "done" => tpc = "final") /\ (tpc' = "loop" => tpc = "send")
    BY ReturnedFacts DEF SendFails
  <1>2. cut' /\ cut' \in BOOLEAN
    BY DEF SendFails
  <1>3. tftpFaults' \in 0 .. TftpFaults /\ tftpFaults' = tftpFaults - 1
    BY TftpAssumption DEF IInv, Typed, SendFails, TftpFault
  <1>4. Typed'
    BY <1>1, <1>2, <1>3 DEF IInv, Typed, TftpTypeOK, SendFails, KeptBySend
  <1>5. Progress'
    BY <1>1, <1>2 DEF IInv, Progress, SendFails, KeptBySend
  <1>6. PICK no \in Seq(Nat), ack \in Seq(Nat), off \in Seq(Nat) : Ghost(no, ack, off)
    BY DEF IInv
  <1>7. tx \in Nat /\ tnext \in Nat /\ Slack \in Nat /\ Slack' \in Nat /\ Slack + 1 <= Slack'
    <2>1. tx \in Nat /\ tnext \in Nat /\ Slack \in Nat /\ Slack' \in Nat
      BY <1>4, Numbers, NumbersNext DEF IInv
    <2>2. TftpFaults \in Nat /\ tftpFaults \in 0 .. TftpFaults
      BY TftpAssumption DEF IInv, Typed
    <2>3. Slack' = TftpFaults - tftpFaults'
      BY <1>2, Zenon DEF Slack
    <2>4. Slack = 0 \/ Slack = TftpFaults - tftpFaults
      BY Zenon DEF Slack
    <2>5. PICK f \in Int : f = tftpFaults'
      BY <1>3
    <2>6. Slack + 1 <= TftpFaults - f
      BY <1>3, <2>2, <2>4, <2>5
    <2> QED BY <2>1, <2>3, <2>5, <2>6
  <1>8. PICK s \in Nat : s = Slack' /\ Slack + 1 <= s
    BY <1>7
  <1>9. UNCHANGED <<pipe, tlog, tserver, tnext, toServer, toClient>>
    BY DEF SendFails, KeptBySend
  <1>10. /\ Ordered(ack) /\ Within(ack, tx - 1 - Slack, tnext - 1) /\ tx <= tnext + Slack
         /\ Len(ack) = Len(toClient) /\ \A j \in 1 .. Len(ack) : toClient[j] = Number(ack[j])
    BY <1>6 DEF Ghost, Window, Numbered
  <1>11. tx + 1 <= tnext + s /\ Within(ack, tx - s, tnext - 1)
    BY <1>7, <1>8, <1>10, BoundsSkip, Zenon
  <1>12. tx + 1 <= tnext + Slack' /\ Within(ack, tx - Slack', tnext - 1)
    BY <1>8, <1>11
  <1>13. PICK e \in Nat : e = off[tx + 1]
    <2>1. tx + 1 \in 1 .. Len(off)
      BY <1>6, <1>7 DEF Ghost, Layout
    <2> QED BY <2>1
  <1>14. Append(off, e) \in Seq(Nat) /\ Ghost(no, ack, Append(off, e))'
    BY <1>1, <1>4, <1>6, <1>9, <1>10, <1>12, <1>13, NextBlock DEF IInv
  <1> QED BY <1>4, <1>5, <1>14 DEF IInv

\* No answer came in time.
LEMMA AckTimeoutStep ==
    ASSUME IInv, AckTimeout
    PROVE  IInv'
  <1>1. Typed'
    BY TftpAssumption DEF IInv, Typed, TftpTypeOK, Progress, AckTimeout, Sending, Asserts, KeptBySend
  <1>2. Progress'
    BY TftpAssumption DEF IInv, Typed, TftpTypeOK, Progress, AckTimeout, Sending, Asserts, KeptBySend
  <1>3. /\ (cut => cut') /\ tftpFaults' <= tftpFaults /\ (Sent => Sent')
        /\ SameBlocks /\ UNCHANGED <<toServer, toClient>>
    BY DEF IInv, Typed, AckTimeout, Sending, Asserts, KeptBySend, Sent, SameBlocks
  <1> QED BY <1>1, <1>2, <1>3, QuietStep

\* The server reports an error.
LEMMA ServerErrorStep ==
    ASSUME IInv, ServerError
    PROVE  IInv'
  <1>1. tftpFaults' \in 0 .. TftpFaults /\ tftpFaults' <= tftpFaults
    BY TftpAssumption DEF IInv, Typed, ServerError, TftpFault
  <1>2. Typed'
    BY <1>1 DEF IInv, Typed, TftpTypeOK, ServerError, Asserts, KeptBySend
  <1>3. Progress'
    BY DEF IInv, Progress, ServerError, Asserts, KeptBySend
  <1>4. /\ (cut => cut') /\ (Sent => Sent') /\ SameBlocks /\ UNCHANGED <<toServer, toClient>>
    BY DEF ServerError, Asserts, KeptBySend, Sent, SameBlocks
  <1> QED BY <1>1, <1>2, <1>3, <1>4, QuietStep

\* Fewer failures than it takes for the block numbers to go round.
FewFaults == TftpFaults <= BlockNumbers - 2

\* The acknowledgement with the number of the block is that of the block.
LEMMA RightAck ==
    ASSUME FewFaults, Typed, NEW no \in Seq(Nat), NEW ack \in Seq(Nat), NEW off \in Seq(Nat),
           Ghost(no, ack, off), toClient # <<>>, Head(toClient) = Block
    PROVE  Head(ack) = tx /\ tnext >= tx + 1
  <1>1. /\ Head(ack) \in Nat /\ Head(toClient) = Number(Head(ack))
        /\ tx - 1 - Slack <= Head(ack) /\ Head(ack) <= tnext - 1
    BY FirstAck
  <1>2. tx \in Nat /\ tx >= 1 /\ tnext \in Nat /\ Slack \in 0 .. TftpFaults /\ Top \in Nat /\ Top <= tx
    BY Numbers
  <1>3. tnext <= Top + 1
    BY DEF Ghost, Window
  <1>4. TftpFaults \in Nat /\ BlockNumbers \in Nat /\ BlockNumbers > 2 /\ TftpFaults <= BlockNumbers - 2
    BY TftpAssumption DEF FewFaults
  <1>5. Head(ack) # 0 /\ Number(Head(ack)) = Head(ack) % BlockNumbers
    <2>1. Number(Head(ack)) = tx % BlockNumbers
      BY <1>1 DEF Block
    <2>2. tx % BlockNumbers \in 0 .. BlockNumbers - 1
      BY <1>2, NumberFacts
    <2>3. Number(Head(ack)) # Oack
      BY <1>4, <2>1, <2>2 DEF Oack
    <2> QED BY <2>3 DEF Number
  <1>6. Head(ack) % BlockNumbers = tx % BlockNumbers
    BY <1>1, <1>5 DEF Block
  <1>7. Head(ack) - tx < BlockNumbers /\ tx - Head(ack) < BlockNumbers
    BY <1>1, <1>2, <1>3, <1>4
  <1>8. Head(ack) = tx
    BY <1>1, <1>2, <1>6, <1>7, SameNumber
  <1> QED BY <1>1, <1>2, <1>8

\* An acknowledgement that is awaited.
LEMMA SendAckStep ==
    ASSUME FewFaults, IInv, SendAck
    PROVE  IInv'
  <1>1. toClient # <<>> /\ toClient' = Tail(toClient) /\ toClient' \in Seq(Nat)
    BY TailFacts DEF IInv, Typed, SendAck
  <1>2. CASE Head(toClient) = Block
    <2>1. Returned /\ why' = why /\ Sending
      BY <1>2 DEF SendAck
    <2>2. /\ Sent /\ ~Sent' /\ tx' = tx + 1 /\ rx' = tx % BlockNumbers /\ buf' = <<>>
          /\ tx' \in Nat \ {0} /\ rx' \in 0 .. BlockNumbers - 1 /\ Len(buf') <= BlockSize /\ buf' \in Seq(Nat)
          /\ tries' \in 0 .. TftpRetry /\ tries' < TftpRetry /\ needSend' \in BOOLEAN
          /\ tpc' \in {"loop", "done"} /\ (tpc' = "done" => tpc = "final") /\ (tpc' = "loop" => tpc = "send")
      BY <2>1, ReturnedFacts
    <2>3. Typed'
      BY <1>1, <2>1, <2>2 DEF IInv, Typed, TftpTypeOK, SendAck, KeptBySend
    <2>4. Progress'
      BY <2>1, <2>2 DEF IInv, Progress, SendAck, KeptBySend
    <2>5. PICK no \in Seq(Nat), ack \in Seq(Nat), off \in Seq(Nat) : Ghost(no, ack, off)
      BY DEF IInv
    <2>6. Head(ack) = tx /\ tnext >= tx + 1
      BY <1>1, <1>2, <2>5, RightAck DEF IInv
    <2>7. /\ Tail(ack) \in Seq(Nat) /\ Ordered(Tail(ack)) /\ Within(Tail(ack), Head(ack), tnext - 1)
          /\ Len(Tail(ack)) = Len(Tail(toClient))
          /\ \A j \in 1 .. Len(Tail(ack)) : Tail(toClient)[j] = Number(Tail(ack)[j])
      BY <1>1, <2>5, FirstAck DEF IInv
    <2>8. tx \in Nat /\ tnext \in Nat
      BY Numbers DEF IInv
    <2>9. PICK s \in Nat : s = Slack'
      BY <2>3, NumbersNext
    <2>10. tx + 1 <= tnext + s /\ Within(Tail(ack), tx - s, tnext - 1)
      <3>1. tx + 1 <= tnext
        BY <2>6, <2>8
      <3>2. Within(Tail(ack), tx, tnext - 1)
        BY <2>6, <2>7
      <3> QED BY <2>7, <2>8, <3>1, <3>2, BoundsNext, Zenon
    <2>11. tx + 1 <= tnext + Slack' /\ Within(Tail(ack), tx - Slack', tnext - 1)
      BY <2>9, <2>10
    <2>12. PICK e \in Nat : e = off[tx + 1]
      <3>1. tx + 1 \in 1 .. Len(off)
        BY <2>5, <2>8 DEF Ghost, Layout
      <3> QED BY <3>1
    <2>13. UNCHANGED <<pipe, tlog, tserver, tnext, toServer>>
      BY DEF SendAck, KeptBySend
    <2>14. /\ Len(Tail(ack)) = Len(toClient')
           /\ \A j \in 1 .. Len(Tail(ack)) : toClient'[j] = Number(Tail(ack)[j])
      BY <1>1, <2>7
    <2>15. Append(off, e) \in Seq(Nat) /\ Ghost(no, Tail(ack), Append(off, e))'
      BY <2>2, <2>3, <2>5, <2>7, <2>11, <2>12, <2>13, <2>14, NextBlock DEF IInv
    <2> QED BY <2>3, <2>4, <2>7, <2>15 DEF IInv
  <1>3. CASE Head(toClient) # Block
    <2>1. /\ needSend' \in BOOLEAN /\ tries' = tries + 1 /\ Sending
          /\ (IF tries + 1 = TftpRetry THEN Asserts("retry") ELSE UNCHANGED <<tpc, why>>)
          /\ UNCHANGED <<tx, rx, buf>>
      BY <1>3 DEF SendAck
    <2>2. Typed'
      <3>1. tries \in 0 .. TftpRetry /\ tries < TftpRetry /\ TftpRetry \in Nat
        BY <2>1, TftpAssumption DEF IInv, Typed, TftpTypeOK, Progress, Sending
      <3>2. PICK r \in 0 .. TftpRetry : r = tries + 1
        BY <3>1
      <3>3. /\ tpc' \in {"wrq", "refused", "loop", "send", "final", "done", "fail", "abort"}
            /\ why' \in {"none", "order", "retry", "error"}
        BY <2>1, Zenon DEF IInv, Typed, TftpTypeOK, Asserts
      <3> QED BY <1>1, <2>1, <3>2, <3>3, Zenon DEF IInv, Typed, TftpTypeOK, SendAck, KeptBySend
    <2>3. Progress'
      BY <2>1, TftpAssumption, SMTT(30) DEF IInv, Typed, TftpTypeOK, Progress, SendAck, Sending, Asserts, KeptBySend
    <2>4. /\ (cut => cut') /\ tftpFaults' <= tftpFaults /\ (Sent => Sent') /\ SameBlocks /\ UNCHANGED toServer
      BY <2>1 DEF IInv, Typed, SendAck, Sending, Asserts, KeptBySend, Sent, SameBlocks
    <2> QED BY <1>1, <2>2, <2>3, <2>4, TakingStep
  <1> QED BY <1>2, <1>3

\* The server takes a datagram.
LEMMA TftpServerStep ==
    ASSUME FewFaults, IInv, TftpServer
    PROVE  IInv'
  <1> DEFINE d == Head(toServer)
  <1>1. PICK no \in Seq(Nat), ack \in Seq(Nat), off \in Seq(Nat) : Ghost(no, ack, off)
    BY DEF IInv
  <1>2. toServer # <<>> /\ toServer' = Tail(toServer)
    BY DEF TftpServer
  <1>3. /\ Head(no) \in Nat /\ d \in Packets /\ d.block = Number(Head(no))
        /\ tnext - 1 <= Head(no) /\ Head(no) <= Top /\ Tail(toServer) \in Seq(Packets)
    BY <1>1, <1>2, FirstPacket DEF IInv
  <1> HIDE DEF d
  <1>4. PICK a \in Nat : a = Head(no)
    BY <1>3
  <1>5. /\ UNCHANGED <<tpc, tries, needSend, tx, rx, buf, reSend, why, pipe, tlog, cut, tftpFaults>>
        /\ (cut => cut') /\ tftpFaults' <= tftpFaults /\ (Sent => Sent')
    BY DEF TftpServer, IInv, Typed, Sent
  <1>6. Progress'
    BY <1>5 DEF IInv, Progress
  <1>7. ASSUME tserver' \in Seq(Nat), tnext' \in Nat \ {0}, toClient' \in Seq(Nat) PROVE Typed'
    BY <1>2, <1>3, <1>5, <1>7 DEF IInv, Typed, TftpTypeOK
  <1>8. toClient \in Seq(Nat) /\ tserver \in Seq(Nat) /\ tnext \in Nat \ {0} /\ d.data \in Seq(Nat) /\ d.block \in Nat
    BY <1>3 DEF IInv, Typed, Packets
  <1>9. /\ tx \in Nat /\ tnext \in Nat /\ tnext >= 1 /\ Slack \in 0 .. TftpFaults /\ Top \in Nat /\ Top <= tx
        /\ tx <= tnext + Slack
    <2>1. tx <= tnext + Slack
      BY <1>1 DEF Ghost, Window
    <2> QED BY <2>1, Numbers DEF IInv
  <1>10. TftpFaults \in Nat /\ BlockNumbers \in Nat /\ BlockNumbers > 2 /\ TftpFaults <= BlockNumbers - 2
    BY TftpAssumption DEF FewFaults
  <1>11. a - (tnext - 1) < BlockNumbers /\ a >= tnext - 1 /\ tnext - 1 \in Nat
    BY <1>3, <1>4, <1>9, <1>10
  <1>12. d.block = Number(a) /\ (d.block = Oack <=> a = 0) /\ (a # 0 => d.block = a % BlockNumbers)
    BY <1>3, <1>4, NumberFacts, Zenon DEF Number
  <1>13. ASSUME SameBlocks, toClient' = Append(toClient, Number(a)), a = tnext - 1 PROVE IInv'
    <2>1. Typed'
      <3>1. toClient' \in Seq(Nat)
        BY <1>8, <1>12, <1>13, AppendFacts
      <3> QED BY <1>7, <1>8, <1>13, <3>1 DEF SameBlocks
    <2>2. Tail(no) \in Seq(Nat) /\ Append(ack, a) \in Seq(Nat) /\ Ghost(Tail(no), Append(ack, a), off)'
      BY <1>1, <1>2, <1>4, <1>5, <1>13, <2>1, BlockRepeated DEF IInv
    <2> QED BY <1>6, <2>1, <2>2 DEF IInv
  <1>14. ASSUME SameBlocks, UNCHANGED toClient PROVE IInv'
    <2>1. Typed'
      BY <1>7, <1>8, <1>14 DEF SameBlocks
    <2>2. Grows
      BY <1>5, <2>1, GrowsIf DEF IInv
    <2>3. Tail(no) \in Seq(Nat) /\ Ghost(Tail(no), ack, off)'
      BY <1>1, <1>2, <1>14, <2>1, <2>2, PacketDropped DEF IInv
    <2> QED BY <1>6, <2>1, <2>3 DEF IInv
  <1>15. CASE d.block = Oack /\ tnext = 1 /\ toClient' = Append(toClient, Oack) /\ UNCHANGED <<tserver, tnext>>
    <2>1. a = 0 /\ Number(a) = Oack
      BY <1>12, <1>15
    <2>2. a = tnext - 1
      BY <1>15, <2>1
    <2>3. SameBlocks /\ toClient' = Append(toClient, Number(a))
      BY <1>5, <1>15, <2>1 DEF SameBlocks
    <2> QED BY <1>13, <2>2, <2>3
  <1>16. CASE /\ d.block # Oack /\ d.block = tnext % BlockNumbers
              /\ tserver' = tserver \o d.data /\ tnext' = tnext + 1 /\ toClient' = Append(toClient, d.block)
    <2>1. a % BlockNumbers = tnext % BlockNumbers
      BY <1>12, <1>16
    <2>2. a - tnext < BlockNumbers /\ tnext - a < BlockNumbers
      BY <1>9, <1>10, <1>11
    <2>3. a = tnext
      BY <1>9, <2>1, <2>2, SameNumber
    <2>4. Typed'
      <3>1. toClient' \in Seq(Nat)
        BY <1>8, <1>16, AppendFacts
      <3>2. tserver' \in Seq(Nat)
        BY <1>8, <1>16, ConcatProperties
      <3>3. tnext' \in Nat \ {0}
        BY <1>9, <1>16
      <3> QED BY <1>7, <3>1, <3>2, <3>3
    <2>5. tserver' = tserver \o Head(toServer).data /\ toClient' = Append(toClient, Number(a)) /\ tnext' = tnext + 1
      BY <1>12, <1>16 DEF d
    <2>6. Tail(no) \in Seq(Nat) /\ Append(ack, a) \in Seq(Nat) /\ Ghost(Tail(no), Append(ack, a), off)'
      BY <1>1, <1>2, <1>4, <1>5, <2>3, <2>4, <2>5, BlockAccepted DEF IInv
    <2> QED BY <1>6, <2>4, <2>6 DEF IInv
  <1>17. CASE /\ d.block # Oack /\ tnext > 1 /\ d.block = (tnext - 1) % BlockNumbers
              /\ toClient' = Append(toClient, d.block) /\ UNCHANGED <<tserver, tnext>>
    <2>1. PICK b \in Nat : b = tnext - 1
      BY <1>11
    <2>2. a % BlockNumbers = b % BlockNumbers
      BY <1>12, <1>17, <2>1
    <2>3. a - b < BlockNumbers /\ b - a < BlockNumbers
      BY <1>10, <1>11, <2>1
    <2>4. a = b
      BY <2>2, <2>3, SameNumber
    <2>5. SameBlocks /\ toClient' = Append(toClient, Number(a))
      BY <1>5, <1>12, <1>17 DEF SameBlocks
    <2> QED BY <1>13, <2>1, <2>4, <2>5
  <1>18. CASE UNCHANGED <<tserver, tnext, toClient>>
    <2>1. SameBlocks
      BY <1>5, <1>18 DEF SameBlocks
    <2> QED BY <1>14, <1>18, <2>1
  <1> QED BY <1>15, <1>16, <1>17, <1>18, Zenon DEF TftpServer, d

\* A datagram is lost.
LEMMA TftpLosesStep ==
    ASSUME IInv, TftpLoses
    PROVE  IInv'
  <1>1. tftpFaults' \in 0 .. TftpFaults /\ tftpFaults' <= tftpFaults
    BY TftpAssumption DEF IInv, Typed, TftpLoses, TftpFault
  <1>2. /\ UNCHANGED <<tpc, tries, needSend, reSend, why, cut>> /\ SameBlocks
        /\ (cut => cut') /\ (Sent => Sent') /\ tx' = tx
    BY DEF TftpLoses, SameBlocks, Sent
  <1>3. Progress'
    BY <1>2 DEF IInv, Progress, SameBlocks
  <1>4. CASE toServer # <<>> /\ toServer' = Tail(toServer) /\ UNCHANGED toClient
    <2>1. toServer' \in Seq(Packets)
      BY <1>4, TailFacts DEF IInv, Typed
    <2>2. Typed'
      BY <1>1, <1>2, <1>4, <2>1 DEF IInv, Typed, TftpTypeOK, SameBlocks
    <2>3. PICK no \in Seq(Nat), ack \in Seq(Nat), off \in Seq(Nat) : Ghost(no, ack, off)
      BY DEF IInv
    <2>4. Grows
      BY <1>1, <1>2, <2>2, GrowsIf DEF IInv
    <2>5. Tail(no) \in Seq(Nat) /\ Ghost(Tail(no), ack, off)'
      BY <1>2, <1>4, <2>2, <2>3, <2>4, PacketDropped DEF IInv
    <2> QED BY <1>3, <2>2, <2>5 DEF IInv
  <1>5. CASE toClient # <<>> /\ toClient' = Tail(toClient) /\ UNCHANGED toServer
    <2>1. toClient' \in Seq(Nat)
      BY <1>5, TailFacts DEF IInv, Typed
    <2>2. Typed'
      BY <1>1, <1>2, <1>5, <2>1 DEF IInv, Typed, TftpTypeOK, SameBlocks
    <2> QED BY <1>1, <1>2, <1>3, <1>5, <2>2, TakingStep
  <1> QED BY <1>4, <1>5 DEF TftpLoses

\* Nothing happens.
LEMMA StutterStep ==
    ASSUME IInv, UNCHANGED tftpVars
    PROVE  IInv'
  <1>1. /\ UNCHANGED <<tpc, tries, needSend, tx, rx, buf, reSend, why>>
        /\ UNCHANGED <<pipe, tlog, tclosed, cut, toServer, toClient, tserver, tnext, tftpFaults>>
    BY DEF tftpVars
  <1>2. Typed'
    BY <1>1 DEF IInv, Typed, TftpTypeOK
  <1>3. Progress'
    BY <1>1 DEF IInv, Progress
  <1>4. /\ (cut => cut') /\ tftpFaults' <= tftpFaults /\ (Sent => Sent')
        /\ SameBlocks /\ UNCHANGED <<toServer, toClient>>
    BY <1>1 DEF IInv, Typed, Sent, SameBlocks
  <1> QED BY <1>2, <1>3, <1>4, QuietStep

\* The upload begins in order.
LEMMA InitIInv ==
    ASSUME TftpInit
    PROVE  IInv
  <1>1. /\ tpc = "wrq" /\ tries = 0 /\ needSend = TRUE /\ tx = 1 /\ rx = 0 /\ buf = <<>> /\ reSend = 0
        /\ why = "none" /\ pipe = <<>> /\ tlog = 0 /\ cut = FALSE
        /\ toServer = <<>> /\ toClient = <<>> /\ tserver = <<>> /\ tnext = 1 /\ tftpFaults = TftpFaults
    BY DEF TftpInit, TftpFresh
  <1>2. <<>> \in Seq(Nat) /\ <<>> \in Seq(Packets) /\ Len(<<>>) = 0
    BY EmptySeq
  <1>3. needSend \in BOOLEAN /\ cut \in BOOLEAN
    BY <1>1, Zenon
  <1>4. Typed
    BY <1>1, <1>2, <1>3, TftpAssumption DEF Typed, TftpTypeOK
  <1>5. Progress
    BY <1>1, TftpAssumption DEF Progress
  <1> DEFINE o == <<0, 0>>
  <1>6. o \in Seq(Nat) /\ Len(o) = 2 /\ o[1] = 0 /\ o[2] = 0
    OBVIOUS
  <1>7. Ordered(o)
    BY <1>6 DEF Ordered
  <1> HIDE DEF o
  <1>8. Top = 0 /\ Slack = 0
    BY <1>1 DEF Top, Sent, Slack
  <1>9. Numbered(<<>>, <<>>) /\ Carries(<<>>, o)
    BY <1>1, <1>2 DEF Numbered, Carries
  <1>10. Window(<<>>, <<>>)
    <2>1. rx = (tx - 1) % BlockNumbers
      BY <1>1, TftpAssumption
    <2>2. Ordered(<<>>) /\ Within(<<>>, tnext - 1, Top) /\ Within(<<>>, tx - 1 - Slack, tnext - 1)
      BY <1>2 DEF Ordered, Within
    <2> QED BY <1>1, <1>8, <2>1, <2>2 DEF Window
  <1>11. Layout(o)
    <2>1. Units(0, 0) = <<>>
      BY UnitsFacts
    <2> QED BY <1>1, <1>6, <1>7, <2>1 DEF Layout
  <1> QED BY <1>2, <1>4, <1>5, <1>6, <1>9, <1>10, <1>11 DEF IInv, Ghost

\* Every step keeps the invariant.
LEMMA NextIInv ==
    ASSUME FewFaults, IInv, [TftpNext]_tftpVars
    PROVE  IInv'
  <1>1. CASE WriteRequest
    BY <1>1, WriteRequestStep
  <1>2. CASE RequestTimeout
    BY <1>2, RequestTimeoutStep
  <1>3. CASE Requested
    BY <1>3, RequestedStep
  <1>4. CASE LoopReads
    BY <1>4, LoopReadsStep
  <1>5. CASE LoopEnds
    BY <1>5, LoopEndsStep
  <1>6. CASE LoopIdle
    BY <1>6, LoopIdleStep
  <1>7. CASE LoopAck
    BY <1>7, LoopAckStep
  <1>8. CASE SendBlock
    BY <1>8, SendBlockStep
  <1>9. CASE SendFails
    BY <1>9, SendFailsStep
  <1>10. CASE AckTimeout
    BY <1>10, AckTimeoutStep
  <1>11. CASE SendAck
    BY <1>11, SendAckStep
  <1>12. CASE ServerError
    BY <1>12, ServerErrorStep
  <1>13. CASE WriteLog
    BY <1>13, WriteLogStep
  <1>14. CASE CloseLog
    BY <1>14, CloseLogStep
  <1>15. CASE TftpServer
    BY <1>15, TftpServerStep
  <1>16. CASE TftpLoses
    BY <1>16, TftpLosesStep
  <1>17. CASE UNCHANGED tftpVars
    BY <1>17, StutterStep
  <1>18. CASE RequestFails
    BY <1>18, RequestFailsStep
  <1>19. CASE RequestRefused
    BY <1>19, RequestRefusedStep
  <1>20. CASE SendsBack
    BY <1>20, SendsBackStep
  <1> QED BY <1>1, <1>2, <1>3, <1>4, <1>5, <1>6, <1>7, <1>8, <1>9, <1>10, <1>11, <1>12, <1>13, <1>14,
             <1>15, <1>16, <1>17, <1>18, <1>19, <1>20 DEF TftpNext, ThreadStep

\* What the invariant says of the server's file.
LEMMA IInvDelivers ==
    ASSUME IInv
    PROVE  TftpDelivers
  <1>1. PICK no \in Seq(Nat), ack \in Seq(Nat), off \in Seq(Nat) : Ghost(no, ack, off)
    BY DEF IInv
  <1>2. Window(no, ack) /\ Layout(off) /\ Typed /\ Progress
    BY <1>1 DEF Ghost, IInv
  <1>3. /\ tx \in Nat /\ tx >= 1 /\ tnext \in Nat /\ tnext >= 1 /\ Top \in Nat /\ Top <= tx /\ tlog \in Nat
        /\ tnext <= Top + 1 /\ tx <= tnext + Slack
    <2>1. tnext <= Top + 1 /\ tx <= tnext + Slack
      BY <1>2 DEF Window
    <2> QED BY <1>2, <2>1, Numbers
  <1>4. tnext \in 1 .. tx + 1 /\ tx \in 1 .. tx + 1 /\ tx + 1 \in 1 .. tx + 1 /\ tnext <= tnext
    BY <1>3
  <1>5. off[tnext] \in Nat /\ off[tnext] <= tlog /\ tserver = Units(0, off[tnext])
    BY <1>2, <1>4, Offsets DEF Layout
  <1>6. PICK n \in Nat : n = off[tnext]
    BY <1>5
  <1>7. tserver = [i \in 1 .. n |-> i] /\ Len(tserver) = n
    <2>1. n - 0 = n /\ \A i \in 1 .. n : 0 + i = i
      OBVIOUS
    <2>2. Units(0, n) = [i \in 1 .. n |-> i]
      BY <2>1 DEF Units
    <2>3. Len([i \in 1 .. n |-> i]) = n
      OBVIOUS
    <2> QED BY <1>5, <1>6, <2>2, <2>3
  <1>8. TftpPrefix
    BY <1>5, <1>6, <1>7 DEF TftpPrefix
  <1>9. TftpComplete
    <2> SUFFICES ASSUME tpc = "done", ~cut PROVE Len(tserver) = tlog
      BY DEF TftpComplete
    <2>1. Slack = 0 /\ Top = tx - 1
      BY DEF Slack, Top, Sent
    <2>2. tnext = tx
      BY <1>3, <2>1
    <2>3. buf = <<>> /\ pipe = <<>>
      BY <1>2 DEF Progress
    <2>4. /\ off[tx] \in Nat /\ off[tx + 1] \in Nat /\ off[tx] <= off[tx + 1] /\ off[tx + 1] <= tlog
          /\ buf = Units(off[tx], off[tx + 1]) /\ pipe = Units(off[tx + 1], tlog)
      <3>1. tx <= tx + 1
        BY <1>3
      <3> QED BY <1>2, <1>4, <3>1, Offsets DEF Layout
    <2>5. off[tx] = off[tx + 1] /\ off[tx + 1] = tlog
      <3>1. Units(off[tx], off[tx + 1]) = <<>> <=> off[tx] = off[tx + 1]
        BY <2>4, UnitsFacts
      <3>2. Units(off[tx + 1], tlog) = <<>> <=> off[tx + 1] = tlog
        BY <1>3, <2>4, UnitsFacts
      <3> QED BY <2>3, <2>4, <3>1, <3>2
    <2> QED BY <1>6, <1>7, <2>2, <2>5
  <1>10. TftpInOrder /\ TftpTypeOK
    BY <1>2 DEF Typed, Progress, TftpInOrder
  <1> QED BY <1>8, <1>9, <1>10 DEF TftpDelivers

(***************************************************************************)
(* The file of the server is the beginning of the log whatever datagrams   *)
(* are lost, sent twice or acknowledged twice, and all of it when the      *)
(* thread ends without a failing sendto (tftp_send_data_pkt), although a   *)
(* block is known by its number modulo 2^16 only; and no acknowledgement   *)
(* is out of order for the assertion of tftp_write_thread.  FewFaults: a   *)
(* failing sendto skips a block, BlockNumbers - 1 of them in a row would   *)
(* let the number of a later block pass for the one the server expects.    *)
(***************************************************************************)
THEOREM LogDelivered ==
    ASSUME FewFaults
    PROVE  TftpSpec => []TftpDelivers
  <1>1. TftpInit => IInv
    BY InitIInv
  <1>2. IInv /\ [TftpNext]_tftpVars => IInv'
    BY NextIInv
  <1>3. IInv => TftpDelivers
    BY IInvDelivers
  <1> QED BY <1>1, <1>2, <1>3, PTL DEF TftpSpec
==============================================================================
