----------------------------- MODULE KfifoProof -----------------------------
(***************************************************************************)
(* Proofs about Kfifo, for every cache size, growth step and chunk size,   *)
(* and about CaptureLoop, for every disk and every limit of a log.         *)
(***************************************************************************)
EXTENDS CaptureLoop, SequenceTheorems, TLAPS

-----------------------------------------------------------------------------
(* The steps of __kfifo_write on the structure.                            *)

\* The i-th pending byte, counted from 0.
Pend(f, i) == f.data[f.out + i]

SamePending(f, g) ==
    /\ Used(g) = Used(f)
    /\ \A i \in 0 .. Used(f) - 1 : Pend(g, i) = Pend(f, i)

\* An empty cache has both indices at 0, so no compaction is ever due on it.
Normal(f) == f.out = f.in => f.in = 0

\* kfifo_alloc and kfifo_free leave a well-formed, empty cache.
LEMMA ResetLemma ==
    ASSUME NEW f, FifoOK(f)
    PROVE  FifoOK(Reset(f)) /\ Normal(Reset(f)) /\ Used(Reset(f)) = 0
  BY KfifoAssumption DEF FifoOK, Reset, Normal, Used

\* Moving the pending bytes to the front (memmove) changes none of them.
LEMMA CompactLemma ==
    ASSUME NEW f, FifoOK(f), Normal(f), NEW n \in Nat
    PROVE  LET g == Compact(f, n)
           IN  FifoOK(g) /\ Normal(g) /\ SamePending(f, g)
  <1> DEFINE g == Compact(f, n)
  <1>a. PICK in \in Nat, out \in Nat, size \in Nat :
            f.in = in /\ f.out = out /\ f.size = size
    BY DEF FifoOK
  <1>b. PICK data \in [0 .. size - 1 -> Nat] : f.data = data
    BY <1>a DEF FifoOK
  <1>c. out <= in /\ in <= size /\ size < CacheSize + CacheStep
    BY <1>a DEF FifoOK
  <1>1. CASE Unused(f) < n /\ n < Unused(f) + f.out
    <2> DEFINE d == [i \in 0 .. size - 1 |->
                        IF i < in - out THEN data[out + i] ELSE data[i]]
    <2>1. g = [in |-> in - out, out |-> 0, size |-> size, data |-> d]
      BY <1>1, <1>a, <1>b DEF Compact, Used, Unused
    <2>2. d \in [0 .. size - 1 -> Nat]
      BY <1>c
    <2>3. \A i \in 0 .. in - out - 1 : d[i] = data[out + i]
      BY <1>c
    <2> HIDE DEF d, g
    <2>4. FifoOK(g)
      BY <2>1, <2>2, <1>c DEF FifoOK
    <2>5. SamePending(f, g)
      BY <2>1, <2>3, <1>a, <1>b, <1>c DEF SamePending, Pend, Used
    <2>6. Normal(g)
      BY <2>1, <1>c DEF Normal
    <2> QED BY <2>4, <2>5, <2>6 DEF g
  <1>2. CASE ~(Unused(f) < n /\ n < Unused(f) + f.out)
    BY <1>2 DEF Compact, SamePending
  <1> QED BY <1>1, <1>2

\* Reallocating the cache changes no pending byte.
LEMMA GrowLemma ==
    ASSUME NEW f, FifoOK(f), Normal(f), NEW n \in Nat, NEW m \in BOOLEAN
    PROVE  LET g == Grow(f, n, m)
           IN  FifoOK(g) /\ Normal(g) /\ SamePending(f, g)
  <1> DEFINE g == Grow(f, n, m)
  <1>a. PICK in \in Nat, out \in Nat, size \in Nat :
            f.in = in /\ f.out = out /\ f.size = size
    BY DEF FifoOK
  <1>b. PICK data \in [0 .. size - 1 -> Nat] : f.data = data
    BY <1>a DEF FifoOK
  <1>c. out <= in /\ in <= size /\ size < CacheSize + CacheStep
    BY <1>a DEF FifoOK
  <1>1. CASE Unused(f) < n /\ f.size < CacheSize /\ m
    <2> DEFINE d == [i \in 0 .. size + CacheStep - 1 |->
                        IF i < in - out THEN data[out + i] ELSE Garbage]
    <2>1. g = [in |-> in - out, out |-> 0, size |-> size + CacheStep, data |-> d]
      BY <1>1, <1>a, <1>b DEF Grow, Used, Unused
    <2>2. d \in [0 .. size + CacheStep - 1 -> Nat]
      BY <1>c, KfifoAssumption DEF Garbage
    <2>3. \A i \in 0 .. in - out - 1 : d[i] = data[out + i]
      BY <1>c, KfifoAssumption
    <2> HIDE DEF d, g
    <2>4. FifoOK(g)
      BY <1>1, <1>a, <2>1, <2>2, <1>c, KfifoAssumption DEF FifoOK
    <2>5. SamePending(f, g)
      BY <2>1, <2>3, <1>a, <1>b, <1>c DEF SamePending, Pend, Used
    <2>6. Normal(g)
      BY <2>1, <1>c DEF Normal
    <2> QED BY <2>4, <2>5, <2>6 DEF g
  <1>2. CASE ~(Unused(f) < n /\ f.size < CacheSize /\ m)
    BY <1>2 DEF Grow, SamePending
  <1> QED BY <1>1, <1>2

\* g is f with the n bytes first, first+1, ... behind its pending bytes.
Appended(f, g, first, n) ==
    /\ Used(g) = Used(f) + n
    /\ \A i \in 0 .. Used(f) - 1 : Pend(g, i) = Pend(f, i)
    /\ \A i \in 0 .. n - 1 : Pend(g, Used(f) + i) = first + i

\* The chunk is copied whole behind the pending bytes or dropped whole.
LEMMA AppendLemma ==
    ASSUME NEW f, FifoOK(f), Normal(f), NEW n \in Nat, NEW first \in Nat
    PROVE  LET g == Append_(f, first, n)
           IN  /\ FifoOK(g) /\ Normal(g)
               /\ Unused(f) < n => SamePending(f, g)
               /\ ~(Unused(f) < n) => Appended(f, g, first, n)
  <1> DEFINE g == Append_(f, first, n)
  <1>a. PICK in \in Nat, out \in Nat, size \in Nat :
            f.in = in /\ f.out = out /\ f.size = size
    BY DEF FifoOK
  <1>b. PICK data \in [0 .. size - 1 -> Nat] : f.data = data
    BY <1>a DEF FifoOK
  <1>c. out <= in /\ in <= size /\ size < CacheSize + CacheStep
    BY <1>a DEF FifoOK
  <1>1. CASE Unused(f) < n
    BY <1>1 DEF Append_, SamePending
  <1>2. CASE ~(Unused(f) < n)
    <2> DEFINE d == [i \in 0 .. size - 1 |->
                        IF i \in in .. in + n - 1 THEN first + (i - in) ELSE data[i]]
    <2>0. in + n <= size
      BY <1>2, <1>a, <1>c DEF Unused
    <2>1. g = [in |-> in + n, out |-> out, size |-> size, data |-> d]
      BY <1>2, <1>a, <1>b DEF Append_
    <2>2. d \in [0 .. size - 1 -> Nat]
      BY <1>c
    <2>3. \A i \in 0 .. in - out - 1 : d[out + i] = data[out + i]
      BY <1>c
    <2>4. \A i \in 0 .. n - 1 : d[in + i] = first + i
      BY <1>c, <2>0
    <2> HIDE DEF d, g
    <2>5. FifoOK(g)
      BY <2>0, <2>1, <2>2, <1>c DEF FifoOK
    <2>6. Normal(g)
      BY <2>1, <1>a, <1>c DEF Normal
    <2>7. \A i \in 0 .. n - 1 : out + (in - out + i) = in + i
      OBVIOUS
    <2>8. Appended(f, g, first, n)
      <3>1. g.in = in + n /\ g.out = out /\ g.data = d
        BY <2>1
      <3>2. Used(g) = Used(f) + n /\ Used(f) = in - out
        BY <3>1, <1>a, <1>c DEF Used
      <3>3. ASSUME NEW i \in 0 .. Used(f) - 1 PROVE Pend(g, i) = Pend(f, i)
        <4>1. Pend(g, i) = d[out + i] /\ Pend(f, i) = data[out + i]
          BY <3>1, <1>a, <1>b DEF Pend
        <4> QED BY <2>3, <3>2, <4>1
      <3>4. ASSUME NEW i \in 0 .. n - 1 PROVE Pend(g, Used(f) + i) = first + i
        <4>1. Pend(g, Used(f) + i) = d[out + (in - out + i)]
          BY <3>1, <3>2 DEF Pend
        <4> QED BY <2>4, <2>7, <4>1
      <3> QED BY <3>2, <3>3, <3>4 DEF Appended
    <2> QED BY <1>2, <2>5, <2>6, <2>8 DEF g
  <1> QED BY <1>1, <1>2

\* write(2) took k > 0 pending bytes: the others follow unchanged.
LEMMA DrainedLemma ==
    ASSUME NEW f, FifoOK(f), NEW k \in 1 .. Used(f)
    PROVE  LET g == Drained(f, k)
           IN  /\ FifoOK(g) /\ Normal(g)
               /\ Used(g) = Used(f) - k
               /\ \A i \in 0 .. Used(g) - 1 : Pend(g, i) = Pend(f, k + i)
  <1> DEFINE g == Drained(f, k)
  <1>a. PICK in \in Nat, out \in Nat, size \in Nat :
            f.in = in /\ f.out = out /\ f.size = size
    BY DEF FifoOK
  <1>b. PICK data \in [0 .. size - 1 -> Nat] : f.data = data
    BY <1>a DEF FifoOK
  <1>c. out <= in /\ in <= size /\ size < CacheSize + CacheStep
    BY <1>a DEF FifoOK
  <1>1. CASE out + k = in
    <2>1. g = [in |-> 0, out |-> 0, size |-> size, data |-> data]
      BY <1>1, <1>a, <1>b DEF Drained, Reset
    <2> HIDE DEF g
    <2> QED BY <1>1, <2>1, <1>a, <1>b, <1>c DEF FifoOK, Normal, Used, g
  <1>2. CASE out + k # in
    <2>1. g = [in |-> in, out |-> out + k, size |-> size, data |-> data]
      BY <1>2, <1>a, <1>b DEF Drained
    <2>2. k \in 1 .. in - out
      BY <1>a DEF Used
    <2> HIDE DEF g
    <2>3. FifoOK(g) /\ Normal(g)
      BY <1>2, <2>1, <2>2, <1>a, <1>b, <1>c DEF FifoOK, Normal
    <2>4. Used(g) = Used(f) - k
      BY <2>1, <2>2, <1>a DEF Used
    <2>5. \A i \in 0 .. in - out : (out + k) + i = out + (k + i)
      BY <2>2
    <2>6. \A i \in 0 .. Used(g) - 1 : Pend(g, i) = Pend(f, k + i)
      BY <2>1, <2>2, <2>5, <1>a, <1>b DEF Pend, Used
    <2> QED BY <2>3, <2>4, <2>6 DEF g
  <1> QED BY <1>1, <1>2

\* One call's worth of caching: the chunk ends up whole behind the pending
\* bytes, or nothing changes that can be seen from outside.
LEMMA BufferedLemma ==
    ASSUME NEW f, FifoOK(f), Normal(f), NEW n \in Nat, NEW first \in Nat, NEW m \in BOOLEAN
    PROVE  LET g == Buffered(f, first, n, m)
           IN  /\ FifoOK(g) /\ Normal(g)
               /\ SamePending(f, g) \/ Appended(f, g, first, n)
  <1> DEFINE c == Compact(f, n)
             r == Grow(c, n, m)
             g == Append_(r, first, n)
  <1>1. FifoOK(c) /\ Normal(c) /\ SamePending(f, c)
    BY CompactLemma
  <1> HIDE DEF c
  <1>2. FifoOK(r) /\ Normal(r) /\ SamePending(c, r)
    BY <1>1, GrowLemma
  <1> HIDE DEF r
  <1>3. FifoOK(g) /\ Normal(g) /\ (SamePending(r, g) \/ Appended(r, g, first, n))
    BY <1>2, AppendLemma
  <1>4. g = Buffered(f, first, n, m)
    BY DEF Buffered, c, r
  <1> HIDE DEF g
  <1>5. SamePending(f, r)
    BY <1>1, <1>2 DEF SamePending
  <1>6. SamePending(f, g) \/ Appended(f, g, first, n)
    BY <1>3, <1>5 DEF SamePending, Appended
  <1> QED BY <1>3, <1>4, <1>6

\* An empty cache takes any chunk of at most cache_step bytes when malloc works.
LEMMA RoomLemma ==
    ASSUME NEW f, FifoOK(f), Normal(f), f.out = f.in,
           NEW n \in Nat, n <= CacheStep, NEW first \in Nat
    PROVE  Appended(f, Buffered(f, first, n, TRUE), first, n)
  <1> DEFINE r == Grow(f, n, TRUE)
  <1>1. f.in = 0 /\ f.out = 0 /\ f.size \in Nat
    BY DEF Normal, FifoOK
  <1>2. Compact(f, n) = f
    BY <1>1 DEF Compact, Unused
  <1>3. FifoOK(r) /\ Normal(r) /\ SamePending(f, r)
    BY GrowLemma
  <1>4. r.in = 0 /\ r.size >= n /\ r.size \in Nat
    BY <1>1, KfifoAssumption DEF Grow, Unused, Used
  <1> HIDE DEF r
  <1>5. ~(Unused(r) < n)
    BY <1>4 DEF Unused
  <1>6. Appended(r, Append_(r, first, n), first, n)
    BY <1>3, <1>5, AppendLemma
  <1>7. Append_(r, first, n) = Buffered(f, first, n, TRUE)
    BY <1>2 DEF Buffered, r
  <1> QED BY <1>3, <1>6, <1>7 DEF SamePending, Appended

-----------------------------------------------------------------------------
(* The same facts about sequences of bytes.                                *)

Pending(f) == PendingRun(f, Used(f))

\* A chunk is a sequence of consecutive byte numbers.
LEMMA RunLemma ==
    ASSUME NEW a \in Nat, NEW n \in Nat
    PROVE  /\ Run(a, n) \in Seq(Nat)
           /\ Len(Run(a, n)) = n
           /\ \A i \in 1 .. n : Run(a, n)[i] = a + i - 1
  BY DEF Run

\* The first k pending bytes as a sequence.
LEMMA PendingRunLemma ==
    ASSUME NEW f, FifoOK(f), NEW k \in 0 .. Used(f)
    PROVE  /\ PendingRun(f, k) \in Seq(Nat)
           /\ Len(PendingRun(f, k)) = k
           /\ \A i \in 1 .. k : PendingRun(f, k)[i] = Pend(f, i - 1)
           /\ Used(f) \in Nat
  <1>a. PICK in \in Nat, out \in Nat, size \in Nat :
            f.in = in /\ f.out = out /\ f.size = size
    BY DEF FifoOK
  <1>b. PICK data \in [0 .. size - 1 -> Nat] : f.data = data
    BY <1>a DEF FifoOK
  <1>c. out <= in /\ in <= size /\ size < CacheSize + CacheStep
    BY <1>a DEF FifoOK
  <1>d. k \in Nat /\ k <= in - out
    BY <1>a DEF Used
  <1>1. PendingRun(f, k) = [i \in 1 .. k |-> data[out + i - 1]]
    BY <1>a, <1>b DEF PendingRun
  <1>2. \A i \in 1 .. k : data[out + i - 1] \in Nat
    BY <1>c, <1>d
  <1>3. \A i \in 1 .. k : out + i - 1 = out + (i - 1)
    BY <1>d
  <1> QED BY <1>1, <1>2, <1>3, <1>a, <1>b, <1>c, <1>d DEF Pend, Used

\* All pending bytes as a sequence.
LEMMA PendingLemma ==
    ASSUME NEW f, FifoOK(f)
    PROVE  /\ Used(f) \in Nat
           /\ Pending(f) \in Seq(Nat)
           /\ Len(Pending(f)) = Used(f)
           /\ \A i \in 1 .. Used(f) : Pending(f)[i] = Pend(f, i - 1)
  <1>1. Used(f) \in Nat
    BY DEF Used, FifoOK
  <1>2. Used(f) \in 0 .. Used(f)
    BY <1>1
  <1> QED BY <1>1, <1>2, PendingRunLemma DEF Pending

\* Concatenation of byte sequences, element by element.
LEMMA Concat ==
    ASSUME NEW s \in Seq(Nat), NEW t \in Seq(Nat)
    PROVE  /\ s \o t \in Seq(Nat)
           /\ Len(s \o t) = Len(s) + Len(t)
           /\ \A i \in 1 .. Len(s) + Len(t) :
                 (s \o t)[i] = IF i <= Len(s) THEN s[i] ELSE t[i - Len(s)]
  OBVIOUS

\* Byte sequences of equal length and elements are equal.
LEMMA SameSeq ==
    ASSUME NEW s \in Seq(Nat), NEW t \in Seq(Nat), Len(s) = Len(t),
           \A i \in 1 .. Len(s) : s[i] = t[i]
    PROVE  s = t
  OBVIOUS

\* Concatenation of byte sequences is associative.
LEMMA Assoc ==
    ASSUME NEW s \in Seq(Nat), NEW t \in Seq(Nat), NEW u \in Seq(Nat)
    PROVE  (s \o t) \o u = s \o (t \o u)
  BY ConcatAssociative, SMTT(30)

\* What write(2) took and what is left make up what was pending.
LEMMA DrainedRun ==
    ASSUME NEW f, FifoOK(f), NEW k \in 1 .. Used(f)
    PROVE  PendingRun(f, k) \o Pending(Drained(f, k)) = Pending(f)
  <1> DEFINE g == Drained(f, k)
             u == Used(f)
  <1>1. FifoOK(g) /\ Used(g) = u - k /\ \A i \in 0 .. Used(g) - 1 : Pend(g, i) = Pend(f, k + i)
    BY DrainedLemma
  <1> HIDE DEF g
  <1>2. u \in Nat
    BY PendingLemma
  <1> HIDE DEF u
  <1>3. k \in 1 .. u
    BY DEF u
  <1>4. /\ PendingRun(f, k) \in Seq(Nat) /\ Len(PendingRun(f, k)) = k
        /\ \A i \in 1 .. k : PendingRun(f, k)[i] = Pend(f, i - 1)
    BY PendingRunLemma, <1>2, <1>3 DEF u
  <1>5. /\ Pending(f) \in Seq(Nat) /\ Len(Pending(f)) = u
        /\ \A i \in 1 .. u : Pending(f)[i] = Pend(f, i - 1)
    BY PendingLemma DEF u
  <1>7. /\ Pending(g) \in Seq(Nat) /\ Len(Pending(g)) = u - k
        /\ \A i \in 1 .. u - k : Pending(g)[i] = Pend(g, i - 1)
    BY PendingLemma, <1>1
  <1>8. \A i \in 1 .. u - k : Pending(g)[i] = Pend(f, k + i - 1)
    <2>1. \A i \in 1 .. u - k : k + (i - 1) = k + i - 1
      BY <1>2, <1>3
    <2> QED BY <1>1, <1>2, <1>3, <1>7, <2>1
  <1> DEFINE s == PendingRun(f, k) \o Pending(g)
  <1>9. /\ s \in Seq(Nat) /\ Len(s) = u
        /\ \A i \in 1 .. u : s[i] = IF i <= k THEN PendingRun(f, k)[i] ELSE Pending(g)[i - k]
    <2> DEFINE p == PendingRun(f, k)
               q == Pending(g)
    <2>1. p \in Seq(Nat) /\ q \in Seq(Nat) /\ Len(p) = k /\ Len(q) = u - k
      BY <1>4, <1>7
    <2> HIDE DEF p, q
    <2>2. /\ p \o q \in Seq(Nat) /\ Len(p \o q) = Len(p) + Len(q)
          /\ \A i \in 1 .. Len(p) + Len(q) :
                (p \o q)[i] = IF i <= Len(p) THEN p[i] ELSE q[i - Len(p)]
      BY <2>1, Concat, Zenon
    <2>3. Len(p) + Len(q) = u
      BY <2>1, <1>2, <1>3
    <2>4. /\ p \o q \in Seq(Nat) /\ Len(p \o q) = u
          /\ \A i \in 1 .. u : (p \o q)[i] = IF i <= k THEN p[i] ELSE q[i - k]
      BY <2>1, <2>2, <2>3, Zenon
    <2> QED BY <2>4 DEF p, q
  <1> HIDE DEF s
  <1>10. ASSUME NEW i \in 1 .. u PROVE s[i] = Pending(f)[i]
    <2>1. CASE i <= k
      BY <2>1, <1>2, <1>3, <1>4, <1>5, <1>9
    <2>2. CASE ~(i <= k)
      <3>1. i - k \in 1 .. u - k /\ k + (i - k) - 1 = i - 1
        BY <2>2, <1>2, <1>3
      <3> QED BY <2>2, <3>1, <1>5, <1>8, <1>9
    <2> QED BY <2>1, <2>2
  <1>11. s = Pending(f)
    BY <1>5, <1>9, <1>10, SameSeq
  <1> QED BY <1>11 DEF s, g

\* Compaction and growth alone leave the pending sequence as it is.
LEMMA SamePendingRun ==
    ASSUME NEW f, NEW g, FifoOK(f), FifoOK(g), SamePending(f, g)
    PROVE  Pending(g) = Pending(f)
  <1>1. Used(f) = Used(g) /\ \A i \in 0 .. Used(f) - 1 : Pend(g, i) = Pend(f, i)
    BY DEF SamePending
  <1>2. Used(f) \in Nat
    BY DEF Used, FifoOK
  <1> DEFINE u == Used(f)
  <1>3. /\ Pending(f) \in Seq(Nat) /\ Len(Pending(f)) = u
        /\ \A i \in 1 .. u : Pending(f)[i] = Pend(f, i - 1)
    BY PendingLemma
  <1>4. /\ Pending(g) \in Seq(Nat) /\ Len(Pending(g)) = u
        /\ \A i \in 1 .. u : Pending(g)[i] = Pend(g, i - 1)
    BY PendingLemma, <1>1
  <1> HIDE DEF u
  <1>5. \A i \in 1 .. u : Pending(g)[i] = Pending(f)[i]
    BY <1>1, <1>2, <1>3, <1>4 DEF u
  <1> QED BY <1>3, <1>4, <1>5, SameSeq

\* The accepted chunk continues the pending sequence.
LEMMA AppendedRun ==
    ASSUME NEW f, NEW g, FifoOK(f), FifoOK(g), NEW first \in Nat, NEW n \in Nat,
           Appended(f, g, first, n)
    PROVE  Pending(g) = Pending(f) \o Run(first, n)
  <1> DEFINE u == Used(f)
  <1>1. /\ Used(g) = u + n
        /\ \A i \in 0 .. u - 1 : Pend(g, i) = Pend(f, i)
        /\ \A i \in 0 .. n - 1 : Pend(g, u + i) = first + i
    BY DEF Appended
  <1>2. u \in Nat
    BY DEF Used, FifoOK
  <1>3. /\ Pending(f) \in Seq(Nat) /\ Len(Pending(f)) = u
        /\ \A i \in 1 .. u : Pending(f)[i] = Pend(f, i - 1)
    BY PendingLemma
  <1> HIDE DEF u
  <1>4. /\ Pending(g) \in Seq(Nat) /\ Len(Pending(g)) = u + n
        /\ \A i \in 1 .. u + n : Pending(g)[i] = Pend(g, i - 1)
    BY PendingLemma, <1>1
  <1>5. /\ Run(first, n) \in Seq(Nat) /\ Len(Run(first, n)) = n
        /\ \A i \in 1 .. n : Run(first, n)[i] = first + i - 1
    BY RunLemma
  <1> DEFINE s == Pending(f) \o Run(first, n)
  <1>6. /\ s \in Seq(Nat) /\ Len(s) = u + n
        /\ \A i \in 1 .. u + n : s[i] = IF i <= u THEN Pending(f)[i] ELSE Run(first, n)[i - u]
    <2> DEFINE p == Pending(f)
               r == Run(first, n)
    <2>1. p \in Seq(Nat) /\ Len(p) = u /\ r \in Seq(Nat) /\ Len(r) = n
      BY <1>3, <1>5
    <2> HIDE DEF p, r
    <2>2. /\ p \o r \in Seq(Nat) /\ Len(p \o r) = u + n
          /\ \A i \in 1 .. u + n : (p \o r)[i] = IF i <= u THEN p[i] ELSE r[i - u]
      BY <2>1, Concat
    <2> QED BY <2>2 DEF p, r
  <1> HIDE DEF s
  <1>7. ASSUME NEW i \in 1 .. u + n PROVE s[i] = Pending(g)[i]
    <2>1. CASE i <= u
      BY <2>1, <1>1, <1>2, <1>3, <1>4, <1>6
    <2>2. CASE ~(i <= u)
      <3>1. i - u \in 1 .. n /\ i - u - 1 \in 0 .. n - 1 /\ u + (i - u - 1) = i - 1
        BY <2>2, <1>2
      <3>2. Pend(g, i - 1) = first + (i - u - 1)
        BY <3>1, <1>1
      <3>3. s[i] = first + (i - u) - 1
        BY <2>2, <3>1, <1>5, <1>6
      <3> QED BY <3>1, <3>2, <3>3, <1>2, <1>4
    <2> QED BY <2>1, <2>2
  <1>8. s = Pending(g)
    BY <1>4, <1>6, <1>7, SameSeq
  <1> QED BY <1>8 DEF s

\* Two adjacent chunks make one.
LEMMA RunConcat ==
    ASSUME NEW a \in Nat, NEW k \in Nat, NEW m \in Nat
    PROVE  Run(a, k) \o Run(a + k, m) = Run(a, k + m)
  <1> DEFINE p == Run(a, k)
             r == Run(a + k, m)
             q == Run(a, k + m)
  <1>1. /\ p \in Seq(Nat) /\ Len(p) = k /\ \A i \in 1 .. k : p[i] = a + i - 1
        /\ r \in Seq(Nat) /\ Len(r) = m /\ \A i \in 1 .. m : r[i] = a + k + i - 1
        /\ q \in Seq(Nat) /\ Len(q) = k + m /\ \A i \in 1 .. k + m : q[i] = a + i - 1
    <2>1. a + k \in Nat /\ k + m \in Nat
      OBVIOUS
    <2> QED BY <2>1, RunLemma
  <1> HIDE DEF p, r, q
  <1>2. /\ p \o r \in Seq(Nat) /\ Len(p \o r) = k + m
        /\ \A i \in 1 .. k + m : (p \o r)[i] = IF i <= k THEN p[i] ELSE r[i - k]
    BY <1>1, Concat
  <1>3. ASSUME NEW i \in 1 .. k + m PROVE (p \o r)[i] = q[i]
    <2>1. CASE i <= k
      BY <2>1, <1>1, <1>2
    <2>2. CASE ~(i <= k)
      <3>1. i - k \in 1 .. m
        BY <2>2, SMTT(20)
      <3> QED BY <2>2, <3>1, <1>1, <1>2, SMTT(30)
    <2> QED BY <2>1, <2>2
  <1>4. p \o r = q
    BY <1>1, <1>2, <1>3, SameSeq
  <1> QED BY <1>4 DEF p, q, r

\* The empty sequence is neutral, and an empty cache or chunk is empty.
LEMMA Neutral ==
    /\ <<>> \in Seq(Nat)
    /\ \A s \in Seq(Nat) : s \o <<>> = s /\ <<>> \o s = s
    /\ \A a \in Nat : Run(a, 0) = <<>>
    /\ \A f : FifoOK(f) /\ f.out = f.in => Pending(f) = <<>>
    /\ \A f : PendingRun(f, 0) = <<>>
  <1>1. <<>> \in Seq(Nat)
    OBVIOUS
  <1>2. \A s \in Seq(Nat) : s \o <<>> = s /\ <<>> \o s = s
    BY ConcatEmptySeq, Zenon
  <1>3. \A s \in Seq(Nat) : Len(s) = 0 => s = <<>>
    OBVIOUS
  <1>4. \A a \in Nat : Run(a, 0) = <<>>
    BY <1>3, RunLemma
  <1>5. ASSUME NEW f, FifoOK(f), f.out = f.in PROVE Pending(f) = <<>>
    <2>1. Used(f) = 0
      BY <1>5 DEF Used, FifoOK
    <2> QED BY <2>1, <1>3, <1>5, PendingLemma
  <1>6. ASSUME NEW f PROVE PendingRun(f, 0) = <<>>
    BY DEF PendingRun
  <1> QED BY <1>1, <1>2, <1>4, <1>5, <1>6

-----------------------------------------------------------------------------
(* The bytes the descriptor owes: in the file or pending.                  *)

Owed == file \o Pending(fifo)

WellFormed == TypeOK /\ Normal(fifo)

\* The assumption under which chunks stay whole.
RoomForChunks == MaxChunk <= CacheStep /\ ~MallocMayFail

\* The effect of one write on what is owed: a prefix of the chunk is added,
\* and with room for chunks it is the empty or the whole one.
OwedStep(n) ==
    /\ FifoOK(fifo') /\ Normal(fifo')
    /\ \E t \in Seq(Nat) : file' = file \o t
    /\ \E k \in 0 .. n : /\ Owed' = Owed \o Run(seen + 1, k)
                         /\ RoomForChunks => k \in {0, n}

\* The effect of the cached branch of __kfifo_write on what is owed.
LEMMA CachedOwed ==
    ASSUME WellFormed, NEW n \in 1 .. MaxChunk, NEW k \in 0 .. n - 1,
           NEW m \in {TRUE, ~MallocMayFail}, NEW reset \in BOOLEAN,
           WriteCached(n, k, m, reset)
    PROVE  OwedStep(n)
  <1> DEFINE f == Buffered(fifo, seen + k + 1, n - k, m)
             P == Pending(fifo)
             R == Run(seen + 1, k)
  <1>a. /\ FifoOK(fifo) /\ Normal(fifo) /\ file \in Seq(Nat) /\ seen \in Nat
        /\ n \in Nat /\ k \in Nat /\ n - k \in Nat /\ seen + 1 \in Nat
        /\ seen + k + 1 \in Nat /\ m \in BOOLEAN
    <2>1. FifoOK(fifo) /\ Normal(fifo) /\ file \in Seq(Nat) /\ seen \in Nat
      BY DEF WellFormed, TypeOK
    <2>2. n \in Nat /\ k \in Nat /\ n - k \in Nat
      BY KfifoAssumption
    <2>3. m \in BOOLEAN
      BY KfifoAssumption, Zenon
    <2> QED BY <2>1, <2>2, <2>3
  <1>b. PICK d \in 0 .. Used(f) :
            /\ file' = file \o R \o PendingRun(f, d)
            /\ fifo' = IF d > 0 THEN Drained(f, d) ELSE f
    BY DEF WriteCached
  <1>c. k > 0 => fifo.out = fifo.in
    BY DEF WriteCached
  <1>1. /\ FifoOK(f) /\ Normal(f)
        /\ SamePending(fifo, f) \/ Appended(fifo, f, seen + k + 1, n - k)
    BY <1>a, BufferedLemma
  <1>2. ASSUME RoomForChunks, k > 0 PROVE Appended(fifo, f, seen + k + 1, n - k)
    <2>1. n - k <= CacheStep
      BY <1>2, <1>a, KfifoAssumption DEF RoomForChunks
    <2>2. m = TRUE
      BY <1>2, KfifoAssumption, Zenon DEF RoomForChunks
    <2> QED BY <1>2, <1>a, <1>c, <2>1, <2>2, RoomLemma
  <1>3. /\ SamePending(fifo, f) => Pending(f) = P
        /\ Appended(fifo, f, seen + k + 1, n - k) => Pending(f) = P \o Run(seen + k + 1, n - k)
    BY <1>1, <1>a, SamePendingRun, AppendedRun
  <1>4. P \in Seq(Nat) /\ Pending(f) \in Seq(Nat)
    BY <1>a, <1>1, PendingLemma
  <1>5. R \in Seq(Nat)
    BY <1>a, RunLemma
  <1> HIDE DEF f, P
  <1>6. /\ FifoOK(fifo') /\ Normal(fifo')
        /\ PendingRun(f, d) \in Seq(Nat)
        /\ Pending(fifo') \in Seq(Nat)
        /\ PendingRun(f, d) \o Pending(fifo') = Pending(f)
    <2>0. Used(f) \in Nat
      BY <1>1, PendingLemma
    <2>1. CASE d = 0
      <3>1. fifo' = f
        BY <1>b, <2>1
      <3> QED BY <1>1, <1>4, <2>1, <3>1, Neutral
    <2>2. CASE d > 0
      <3>1. d \in 1 .. Used(f) /\ fifo' = Drained(f, d)
        BY <1>b, <2>0, <2>2
      <3>2. PendingRun(f, d) \o Pending(fifo') = Pending(f)
        BY <1>1, <3>1, DrainedRun
      <3>3. FifoOK(fifo') /\ Normal(fifo')
        BY <1>1, <3>1, DrainedLemma
      <3> QED BY <1>1, <3>2, <3>3, PendingLemma, PendingRunLemma
    <2> QED BY <2>0, <2>1, <2>2
  <1> DEFINE FR == file \o R
  <1>7. FR \in Seq(Nat)
    BY <1>a, <1>5, Concat
  <1>8. Owed' = FR \o Pending(f)
    <2>1. Owed' = (FR \o PendingRun(f, d)) \o Pending(fifo')
      BY <1>b DEF Owed, Pending
    <2> HIDE DEF FR
    <2>2. (FR \o PendingRun(f, d)) \o Pending(fifo') = FR \o (PendingRun(f, d) \o Pending(fifo'))
      BY <1>6, <1>7, Assoc
    <2> QED BY <2>1, <2>2, <1>6
  <1>9. \E t \in Seq(Nat) : file' = file \o t
    <2>1. file' = file \o (R \o PendingRun(f, d))
      BY <1>a, <1>b, <1>5, <1>6, Assoc
    <2> QED BY <2>1, <1>5, <1>6, Concat
  <1>10. \E j \in 0 .. n : /\ Owed' = Owed \o Run(seen + 1, j)
                           /\ RoomForChunks => j \in {0, n}
    <2>1. CASE k = 0
      <3>1. R = <<>> /\ FR = file
        BY <2>1, <1>a, Neutral
      <3>2. CASE SamePending(fifo, f)
        <4>1. Owed' = Owed
          BY <1>3, <1>8, <3>1, <3>2 DEF Owed, P
        <4>2. Owed \in Seq(Nat)
          BY <1>a, <1>4, Concat DEF Owed, P
        <4>3. Owed \o Run(seen + 1, 0) = Owed
          BY <1>a, <4>2, Neutral
        <4> QED BY <4>1, <4>3, <1>a
      <3>3. CASE Appended(fifo, f, seen + k + 1, n - k)
        <4>1. seen + k + 1 = seen + 1 /\ n - k = n
          BY <2>1, <1>a
        <4>2. Pending(f) = P \o Run(seen + 1, n)
          BY <1>3, <3>3, <4>1
        <4>3. Run(seen + 1, n) \in Seq(Nat)
          BY <1>a, RunLemma
        <4>4. Owed' = (file \o P) \o Run(seen + 1, n)
          <5>1. (file \o P) \o Run(seen + 1, n) = file \o (P \o Run(seen + 1, n))
            BY <1>a, <1>4, <4>3, Assoc
          <5> QED BY <1>8, <3>1, <4>2, <5>1
        <4>5. n \in 0 .. n /\ n \in {0, n}
          BY <1>a
        <4> QED BY <4>4, <4>5 DEF Owed, P
      <3> QED BY <1>1, <3>2, <3>3
    <2>2. CASE k > 0
      <3>1. P = <<>> /\ Owed = file
        BY <2>2, <1>a, <1>c, Neutral DEF Owed, P
      <3>2. CASE Appended(fifo, f, seen + k + 1, n - k)
        <4>1. seen + k + 1 = (seen + 1) + k /\ k + (n - k) = n
          BY <1>a
        <4>2. Run(seen + k + 1, n - k) \in Seq(Nat)
          BY <1>a, RunLemma
        <4>3. Pending(f) = Run(seen + k + 1, n - k)
          BY <1>3, <3>1, <3>2, <4>2, Neutral
        <4>4. R \o Run(seen + k + 1, n - k) = Run(seen + 1, n)
          <5>1. Run(seen + 1, k) \o Run((seen + 1) + k, n - k) = Run(seen + 1, k + (n - k))
            BY <1>a, RunConcat
          <5> QED BY <5>1, <4>1
        <4>5. Owed' = Owed \o Run(seen + 1, n)
          <5>1. FR \o Run(seen + k + 1, n - k) = file \o (R \o Run(seen + k + 1, n - k))
            BY <1>a, <1>5, <4>2, Assoc
          <5> QED BY <1>8, <3>1, <4>3, <4>4, <5>1
        <4>6. n \in 0 .. n /\ n \in {0, n}
          BY <1>a
        <4> QED BY <4>5, <4>6
      <3>3. CASE SamePending(fifo, f) /\ ~Appended(fifo, f, seen + k + 1, n - k)
        <4>1. Owed' = Owed \o Run(seen + 1, k)
          BY <1>3, <1>7, <1>8, <3>1, <3>3, Neutral
        <4>2. ~RoomForChunks
          BY <1>2, <2>2, <3>3
        <4>3. k \in 0 .. n
          BY <1>a
        <4> QED BY <4>1, <4>2, <4>3
      <3> QED BY <1>1, <3>2, <3>3
    <2>3. k = 0 \/ k > 0
      BY <1>a
    <2> QED BY <2>1, <2>2, <2>3
  <1> QED BY <1>6, <1>9, <1>10 DEF OwedStep

\* The effect of any call of __kfifo_write on what is owed.
LEMMA WriteOwed ==
    ASSUME WellFormed, NEW n \in 1 .. MaxChunk, KfifoWrite(n)
    PROVE  OwedStep(n)
  <1>a. FifoOK(fifo) /\ Normal(fifo) /\ file \in Seq(Nat) /\ seen \in Nat
    BY DEF WellFormed, TypeOK
  <1>b. n \in Nat /\ n \in 0 .. n /\ 0 \in 0 .. n /\ seen + 1 \in Nat
    BY <1>a, KfifoAssumption
  <1>1. CASE WriteThrough(n)
    <2>1. fifo' = fifo /\ file' = file \o Run(seen + 1, n) /\ fifo.out = fifo.in
      BY <1>1 DEF WriteThrough
    <2>2. Pending(fifo) = <<>>
      BY <1>a, <2>1, Neutral
    <2>3. Run(seen + 1, n) \in Seq(Nat) /\ file \o Run(seen + 1, n) \in Seq(Nat)
      BY <1>a, <1>b, RunLemma, Concat
    <2>4. Owed = file
      BY <2>2, <1>a, Neutral DEF Owed
    <2>5. Owed' = file \o Run(seen + 1, n)
      <3>1. Owed' = (file \o Run(seen + 1, n)) \o <<>>
        BY <2>1, <2>2 DEF Owed, Pending
      <3> QED BY <3>1, <2>3, Neutral
    <2> QED BY <1>a, <1>b, <2>1, <2>3, <2>4, <2>5 DEF OwedStep
  <1>2. CASE WriteReset(n)
    <2>1. fifo' = fifo /\ file' = file
      BY <1>2 DEF WriteReset
    <2>2. Owed' = Owed
      BY <2>1 DEF Owed, Pending
    <2>3. Owed \in Seq(Nat)
      BY <1>a, PendingLemma, Concat DEF Owed
    <2>4. Owed' = Owed \o Run(seen + 1, 0)
      BY <1>b, <2>2, <2>3, Neutral
    <2>5. file' = file \o <<>>
      BY <1>a, <2>1, Neutral
    <2> QED BY <1>a, <1>b, <2>1, <2>4, <2>5, Neutral DEF OwedStep
  <1>3. CASE \E k \in 0 .. n - 1, m \in {TRUE, ~MallocMayFail}, reset \in BOOLEAN :
                WriteCached(n, k, m, reset)
    BY <1>3, CachedOwed
  <1> QED BY <1>1, <1>2, <1>3 DEF KfifoWrite

-----------------------------------------------------------------------------
(* The inductive invariant.                                                *)

Increasing(s, lo, hi) ==
    /\ \A i \in 1 .. Len(s) : s[i] \in lo .. hi
    /\ \A i, j \in 1 .. Len(s) : i < j => s[i] < s[j]

\* What is owed is increasing; chunks lie between base and seen.
IInv ==
    /\ WellFormed
    /\ base <= seen
    /\ Increasing(Owed, base + 1, seen)
    /\ \A c \in chunks : c[1] > base /\ c[2] <= seen

Bytes(s) == {s[i] : i \in 1 .. Len(s)}

\* Adding a prefix of the next chunk keeps what is owed increasing.
LEMMA IncreasingStep ==
    ASSUME NEW s \in Seq(Nat), NEW lo \in Nat, NEW hi \in Nat, Increasing(s, lo, hi),
           NEW n \in Nat, NEW k \in 0 .. n, lo <= hi + 1
    PROVE  Increasing(s \o Run(hi + 1, k), lo, hi + n)
  <1> DEFINE r == Run(hi + 1, k)
             t == s \o r
  <1>0. k \in Nat /\ hi + 1 \in Nat /\ k <= n
    OBVIOUS
  <1>1. /\ r \in Seq(Nat) /\ Len(r) = k
        /\ \A i \in 1 .. k : r[i] = hi + 1 + i - 1
    BY <1>0, RunLemma
  <1> HIDE DEF r
  <1>2. /\ t \in Seq(Nat) /\ Len(t) = Len(s) + k
        /\ \A i \in 1 .. Len(s) + k : t[i] = IF i <= Len(s) THEN s[i] ELSE r[i - Len(s)]
    BY <1>1, Concat
  <1> HIDE DEF t
  <1> DEFINE l == Len(s)
  <1>l. l \in Nat
    OBVIOUS
  <1>s. /\ \A i \in 1 .. l : s[i] \in lo .. hi
        /\ \A i, j \in 1 .. l : i < j => s[i] < s[j]
    BY DEF Increasing
  <1> HIDE DEF l
  <1>3. \A i \in 1 .. l + k : i <= l => t[i] = s[i] /\ i \in 1 .. l
    BY <1>2, <1>0, <1>l DEF l
  <1>4. \A i \in 1 .. l + k : ~(i <= l) => t[i] = hi + (i - l)
    <2> SUFFICES ASSUME NEW i \in 1 .. l + k, ~(i <= l) PROVE t[i] = hi + (i - l)
      OBVIOUS
    <2>1. i - l \in 1 .. k
      BY <1>0, <1>l
    <2>2. t[i] = r[i - l]
      BY <1>2 DEF l
    <2> QED BY <1>1, <2>1, <2>2, <1>l
  <1>5. \A i \in 1 .. l + k : t[i] \in lo .. hi + n
    BY <1>0, <1>3, <1>4, <1>s, <1>l
  <1>6. \A i, j \in 1 .. l + k : i < j => t[i] < t[j]
    BY <1>0, <1>3, <1>4, <1>s, <1>l
  <1>7. Len(t) = l + k
    BY <1>2 DEF l
  <1> QED BY <1>5, <1>6, <1>7 DEF Increasing, t, r

\* Right after kfifo_alloc and kfifo_free nothing is pending.
LEMMA ResetOwed ==
    ASSUME WellFormed, fifo' = Reset(fifo), file' \in Seq(Nat)
    PROVE  FifoOK(fifo') /\ Normal(fifo') /\ Owed' = file'
  <1>1. FifoOK(fifo') /\ Normal(fifo')
    BY ResetLemma DEF WellFormed, TypeOK
  <1>2. fifo'.out = fifo'.in
    BY DEF Reset
  <1>3. Pending(fifo') = <<>>
    BY <1>1, <1>2, Neutral
  <1>4. Owed' = file' \o <<>>
    BY <1>3 DEF Owed, Pending
  <1> QED BY <1>1, <1>4, Neutral

\* The initial state satisfies the invariant.
LEMMA InitIInv == Init => IInv
  <1> SUFFICES ASSUME Init PROVE IInv
    OBVIOUS
  <1>a. /\ isOpen = FALSE /\ file = <<>> /\ seen = 0 /\ base = 0 /\ chunks = {} /\ ret = 0
    BY DEF Init
  <1>1. FifoOK(fifo) /\ Normal(fifo) /\ fifo.out = fifo.in
    BY KfifoAssumption DEF Init, EmptyFifo, FifoOK, Normal
  <1>2. TypeOK
    BY <1>a, <1>1, Neutral DEF TypeOK
  <1>3. Owed = <<>>
    BY <1>a, <1>1, Neutral DEF Owed
  <1>4. Increasing(Owed, base + 1, seen)
    <2>1. Len(<<>>) = 0
      OBVIOUS
    <2> QED BY <1>3, <2>1 DEF Increasing
  <1> QED BY <1>a, <1>1, <1>2, <1>4 DEF IInv, WellFormed

\* Every step preserves the invariant.
LEMMA NextIInv == IInv /\ [Next]_vars => IInv'
  <1> SUFFICES ASSUME IInv, [Next]_vars PROVE IInv'
    OBVIOUS
  <1>a. /\ FifoOK(fifo) /\ Normal(fifo) /\ isOpen \in BOOLEAN /\ file \in Seq(Nat)
        /\ seen \in Nat /\ base \in Nat /\ chunks \subseteq Nat \X Nat /\ ret \in Nat
        /\ base <= seen /\ Increasing(Owed, base + 1, seen) /\ WellFormed
        /\ \A c \in chunks : c[1] > base /\ c[2] <= seen
    BY DEF IInv, WellFormed, TypeOK
  <1>b. Owed \in Seq(Nat) /\ Pending(fifo) \in Seq(Nat)
    BY <1>a, PendingLemma, Concat DEF Owed
  <1>1. CASE KfifoAlloc
    <2>1. /\ fifo' = Reset(fifo) /\ file' = <<>> /\ base' = seen /\ chunks' = {}
          /\ seen' = seen /\ ret' = ret /\ isOpen' = TRUE
      BY <1>1 DEF KfifoAlloc
    <2>2. FifoOK(fifo') /\ Normal(fifo') /\ Owed' = <<>>
      BY <1>a, <2>1, ResetOwed, Neutral
    <2>3. Increasing(Owed, base + 1, seen)'
      BY <2>2 DEF Increasing
    <2>4. TypeOK'
      BY <1>a, <2>1, <2>2, Neutral DEF TypeOK
    <2> QED BY <1>a, <2>1, <2>2, <2>3, <2>4 DEF IInv, WellFormed
  <1>2. CASE KfifoFree
    <2>1. fifo' = Reset(fifo) /\ UNCHANGED <<file, seen, base, chunks, ret>> /\ isOpen' = FALSE
      BY <1>2 DEF KfifoFree
    <2>2. FifoOK(fifo') /\ Normal(fifo') /\ Owed' = file
      BY <1>a, <2>1, ResetOwed
    <2>3. Increasing(file, base + 1, seen)
      <3> DEFINE p == Pending(fifo)
      <3>1. p \in Seq(Nat) /\ Increasing(file \o p, base + 1, seen)
        BY <1>a, <1>b DEF Owed
      <3> HIDE DEF p
      <3>2. /\ Len(file \o p) = Len(file) + Len(p) /\ Len(file) \in Nat /\ Len(p) \in Nat
            /\ \A i \in 1 .. Len(file) : (file \o p)[i] = file[i] /\ i \in 1 .. Len(file \o p)
        BY <1>a, <3>1, Concat
      <3> QED BY <1>a, <3>1, <3>2 DEF Increasing
    <2>4. TypeOK'
      BY <1>a, <2>1, <2>2 DEF TypeOK
    <2>5. Increasing(Owed, base + 1, seen)'
      BY <2>1, <2>2, <2>3 DEF Increasing
    <2> QED BY <1>a, <2>1, <2>2, <2>4, <2>5 DEF IInv, WellFormed
  <1>3. ASSUME NEW n \in 1 .. MaxChunk, KfifoWrite(n) PROVE IInv'
    <2>1. Offered(n) /\ ret' \in Nat
      <3>1. Offered(n) /\ ret' \in {0, n}
        BY <1>3 DEF KfifoWrite, WriteThrough, WriteReset, WriteCached
      <3> QED BY <3>1, KfifoAssumption
    <2>2. /\ seen' = seen + n /\ base' = base /\ isOpen' = isOpen
          /\ chunks' = chunks \cup {<<seen + 1, seen + n>>} /\ n \in Nat
      BY <2>1, KfifoAssumption DEF Offered
    <2>3. OwedStep(n)
      BY <1>a, <1>3, WriteOwed
    <2>4. FifoOK(fifo') /\ Normal(fifo') /\ file' \in Seq(Nat)
      BY <1>a, <2>3, Concat DEF OwedStep
    <2>5. PICK k \in 0 .. n : Owed' = Owed \o Run(seen + 1, k)
      BY <2>3 DEF OwedStep
    <2>6. Increasing(Owed \o Run(seen + 1, k), base + 1, seen + n)
      <3>1. base + 1 \in Nat /\ base + 1 <= seen + 1
        BY <1>a
      <3> QED BY <1>a, <1>b, <2>2, <3>1, IncreasingStep
    <2>7. TypeOK'
      BY <1>a, <2>1, <2>2, <2>4 DEF TypeOK
    <2>8. Increasing(Owed, base + 1, seen)'
      BY <2>2, <2>5, <2>6 DEF Increasing
    <2>9. (\A c \in chunks : c[1] > base /\ c[2] <= seen)'
      BY <1>a, <2>2
    <2> QED BY <1>a, <2>2, <2>4, <2>7, <2>8, <2>9 DEF IInv, WellFormed
  <1>4. CASE UNCHANGED vars
    <2>1. UNCHANGED <<fifo, isOpen, file, seen, base, chunks, ret>>
      BY <1>4 DEF vars
    <2>2. Owed' = Owed
      BY <2>1 DEF Owed, Pending
    <2> QED BY <1>a, <2>1, <2>2 DEF IInv, WellFormed, TypeOK, Increasing
  <1> QED BY <1>1, <1>2, <1>3, <1>4 DEF Next

\* The order of what is owed gives the order of the file and of the cache.
LEMMA IInvInOrder == IInv => InOrder
  <1> SUFFICES ASSUME IInv PROVE InOrder
    OBVIOUS
  <1> DEFINE p == Pending(fifo)
             u == Used(fifo)
             l == Len(file)
  <1>a. /\ FifoOK(fifo) /\ file \in Seq(Nat) /\ seen \in Nat /\ base \in Nat
        /\ Increasing(Owed, base + 1, seen)
    BY DEF IInv, WellFormed, TypeOK
  <1>b. /\ u \in Nat /\ l \in Nat /\ p \in Seq(Nat) /\ Len(p) = u
        /\ \A i \in 1 .. u : p[i] = Pend(fifo, i - 1)
    BY <1>a, PendingLemma
  <1>c. PICK in \in Nat, out \in Nat :
            fifo.in = in /\ fifo.out = out /\ out <= in /\ u = in - out
    BY <1>a DEF FifoOK, Used
  <1>d. \A i \in out .. in - 1 : i - out + 1 \in 1 .. u /\ p[i - out + 1] = fifo.data[i]
    <2> SUFFICES ASSUME NEW i \in out .. in - 1
                 PROVE  i - out + 1 \in 1 .. u /\ p[i - out + 1] = fifo.data[i]
      OBVIOUS
    <2> HIDE DEF p, u
    <2>1. i - out + 1 \in 1 .. u /\ out + (i - out + 1 - 1) = i
      BY <1>c
    <2> QED BY <1>b, <1>c, <2>1 DEF Pend
  <1> HIDE DEF p, u, l
  <1>1. /\ Len(Owed) = l + u
        /\ \A i \in 1 .. l + u : Owed[i] = IF i <= l THEN file[i] ELSE p[i - l]
    BY <1>a, <1>b, Concat DEF Owed, p, l
  <1>2. /\ \A i \in 1 .. l + u : Owed[i] \in base + 1 .. seen
        /\ \A i, j \in 1 .. l + u : i < j => Owed[i] < Owed[j]
    BY <1>a, <1>1 DEF Increasing
  <1>3. \A i \in 1 .. l : i \in 1 .. l + u /\ Owed[i] = file[i]
    BY <1>1, <1>b
  <1>4. \A i \in out .. in - 1 : /\ l + (i - out + 1) \in 1 .. l + u
                                 /\ Owed[l + (i - out + 1)] = fifo.data[i]
    <2> SUFFICES ASSUME NEW i \in out .. in - 1
                 PROVE  /\ l + (i - out + 1) \in 1 .. l + u
                        /\ Owed[l + (i - out + 1)] = fifo.data[i]
      OBVIOUS
    <2>1. PICK k \in 1 .. l + u : k = l + (i - out + 1) /\ ~(k <= l) /\ k - l = i - out + 1
      BY <1>b, <1>c
    <2>2. Owed[k] = p[k - l]
      BY <1>1, <2>1
    <2>3. Owed[k] = fifo.data[i]
      BY <1>d, <2>1, <2>2
    <2> QED BY <2>1, <2>3
  <1>5. \A i \in 1 .. l : file[i] \in base + 1 .. seen
    BY <1>2, <1>3
  <1>6. \A i, j \in 1 .. l : i < j => file[i] < file[j]
    BY <1>2, <1>3
  <1>7. \A i \in out .. in - 1 : fifo.data[i] \in base + 1 .. seen
    BY <1>2, <1>4
  <1>8. \A i, j \in out .. in - 1 : i < j => fifo.data[i] < fifo.data[j]
    <2> SUFFICES ASSUME NEW i \in out .. in - 1, NEW j \in out .. in - 1, i < j
                 PROVE  fifo.data[i] < fifo.data[j]
      OBVIOUS
    <2>1. l + (i - out + 1) < l + (j - out + 1)
      BY <1>b, <1>c
    <2> QED BY <1>2, <1>4, <2>1
  <1>9. \A i \in 1 .. l, j \in out .. in - 1 : file[i] < fifo.data[j]
    <2> SUFFICES ASSUME NEW i \in 1 .. l, NEW j \in out .. in - 1
                 PROVE  file[i] < fifo.data[j]
      OBVIOUS
    <2>1. i < l + (j - out + 1)
      BY <1>b, <1>c
    <2> QED BY <1>2, <1>3, <1>4, <2>1
  <1> QED BY <1>5, <1>6, <1>7, <1>8, <1>9, <1>c DEF InOrder, l

\* The invariant holds in every reachable state.
THEOREM Invariance == Spec => []IInv
  <1>1. Init => IInv
    BY InitIInv
  <1>2. IInv /\ [Next]_vars => IInv'
    BY NextIInv
  <1> QED BY <1>1, <1>2, PTL DEF Spec

\* struct __kfifo stays well formed, for every cache size, step and chunk size.
THEOREM TypeCorrect == Spec => []TypeOK
  <1>1. IInv => TypeOK
    BY DEF IInv, WellFormed
  <1> QED BY <1>1, Invariance, PTL

\* Bytes reach the descriptor in order, at most once and only those offered to
\* it, even when malloc fails or chunks exceed cache_step.
THEOREM OrderPreserved == Spec => []InOrder
  BY IInvInOrder, Invariance, PTL

-----------------------------------------------------------------------------
(* Chunks stay whole.                                                      *)

Whole(s) ==
    \A c \in chunks : \/ c[1] .. c[2] \subseteq Bytes(s)
                      \/ (c[1] .. c[2]) \cap Bytes(s) = {}

\* The bytes of a concatenation.
LEMMA BytesConcat ==
    ASSUME NEW s \in Seq(Nat), NEW r \in Seq(Nat)
    PROVE  Bytes(s \o r) = Bytes(s) \cup Bytes(r)
  <1> DEFINE t == s \o r
  <1>1. PICK l \in Nat : l = Len(s)
    OBVIOUS
  <1>2. PICK m \in Nat : m = Len(r)
    OBVIOUS
  <1>3. Len(t) = l + m
    BY <1>1, <1>2, Concat
  <1>4. \A i \in 1 .. l : t[i] = s[i]
    BY <1>1, Concat
  <1>5. \A i \in 1 .. l + m : i > l => t[i] = r[i - l]
    BY <1>1, <1>2, Concat
  <1> HIDE DEF t
  <1>6. ASSUME NEW x \in Bytes(t) PROVE x \in Bytes(s) \cup Bytes(r)
    <2>1. PICK i \in 1 .. l + m : x = t[i]
      BY <1>3, <1>6 DEF Bytes
    <2>2. CASE i <= l
      <3>1. i \in 1 .. l
        BY <2>2
      <3> QED BY <1>1, <1>4, <2>1, <3>1 DEF Bytes
    <2>3. CASE i > l
      <3>1. PICK j \in 1 .. m : j = i - l
        BY <2>3
      <3> QED BY <1>2, <1>5, <2>1, <2>3, <3>1 DEF Bytes
    <2> QED BY <2>2, <2>3
  <1>7. ASSUME NEW x \in Bytes(s) PROVE x \in Bytes(t)
    <2>1. PICK i \in 1 .. l : x = s[i]
      BY <1>1, <1>7 DEF Bytes
    <2>2. i \in 1 .. l + m
      OBVIOUS
    <2> QED BY <1>3, <1>4, <2>1, <2>2 DEF Bytes
  <1>8. ASSUME NEW x \in Bytes(r) PROVE x \in Bytes(t)
    <2>1. PICK j \in 1 .. m : x = r[j]
      BY <1>2, <1>8 DEF Bytes
    <2>2. PICK i \in 1 .. l + m : i > l /\ i - l = j
      <3>1. PICK i \in 1 .. l + m : i = l + j
        OBVIOUS
      <3> QED BY <3>1
    <2> QED BY <1>3, <1>5, <2>1, <2>2 DEF Bytes
  <1>9. Bytes(t) \subseteq Bytes(s) \cup Bytes(r)
    BY <1>6, Zenon
  <1>10. Bytes(s) \cup Bytes(r) \subseteq Bytes(t)
    BY <1>7, <1>8, Zenon
  <1> QED BY <1>9, <1>10, Zenon DEF t

\* The bytes of a chunk.
LEMMA BytesRun ==
    ASSUME NEW a \in Nat, NEW k \in Nat
    PROVE  Bytes(Run(a, k)) = a .. a + k - 1
  <1> DEFINE r == Run(a, k)
  <1>1. Len(r) = k /\ \A i \in 1 .. k : r[i] = a + i - 1
    BY RunLemma
  <1> HIDE DEF r
  <1>2. ASSUME NEW x \in Bytes(r) PROVE x \in a .. a + k - 1
    <2>1. PICK i \in 1 .. k : x = r[i]
      BY <1>1, <1>2 DEF Bytes
    <2> QED BY <1>1, <2>1
  <1>3. ASSUME NEW x \in a .. a + k - 1 PROVE x \in Bytes(r)
    <2>1. PICK j \in 1 .. k : j = x - a + 1
      OBVIOUS
    <2>2. r[j] = x
      BY <1>1, <2>1
    <2> QED BY <1>1, <2>2 DEF Bytes
  <1>4. Bytes(r) = a .. a + k - 1
    <2>1. Bytes(r) \subseteq a .. a + k - 1
      BY <1>2, Zenon
    <2>2. a .. a + k - 1 \subseteq Bytes(r)
      BY <1>3, Zenon
    <2> QED BY <2>1, <2>2, Zenon
  <1> QED BY <1>4 DEF r

\* What is kept is what is owed.
LEMMA KeptOwed == IInv => Kept = Bytes(Owed)
  <1> SUFFICES ASSUME IInv PROVE Kept = Bytes(Owed)
    OBVIOUS
  <1> DEFINE p == Pending(fifo)
             u == Used(fifo)
  <1>a. FifoOK(fifo) /\ file \in Seq(Nat)
    BY DEF IInv, WellFormed, TypeOK
  <1>b. /\ u \in Nat /\ p \in Seq(Nat) /\ Len(p) = u
        /\ \A i \in 1 .. u : p[i] = Pend(fifo, i - 1)
    BY <1>a, PendingLemma
  <1>c. PICK in \in Nat, out \in Nat :
            fifo.in = in /\ fifo.out = out /\ out <= in /\ u = in - out
    BY <1>a DEF FifoOK, Used
  <1> HIDE DEF p, u
  <1>2. Bytes(Owed) = Bytes(file) \cup Bytes(p)
    BY <1>a, <1>b, BytesConcat DEF Owed, p
  <1>3. Bytes(p) = PendingBytes
    <2>1. ASSUME NEW x \in Bytes(p) PROVE x \in PendingBytes
      <3>1. PICK i \in 1 .. u : x = p[i]
        BY <2>1, <1>b DEF Bytes
      <3>2. PICK j \in out .. in - 1 : j = out + (i - 1)
        BY <1>c
      <3>3. x = fifo.data[j]
        BY <3>1, <3>2, <1>b, <1>c DEF Pend
      <3> QED BY <3>3, <1>c DEF PendingBytes
    <2>2. ASSUME NEW x \in PendingBytes PROVE x \in Bytes(p)
      <3>1. PICK j \in out .. in - 1 : x = fifo.data[j]
        BY <2>2, <1>c DEF PendingBytes
      <3>2. PICK i \in 1 .. u : i = j - out + 1
        BY <1>c
      <3>3. out + (i - 1) = j
        BY <3>2, <1>c
      <3>4. p[i] = fifo.data[j]
        BY <3>3, <1>b, <1>c DEF Pend
      <3> QED BY <3>1, <3>4, <1>b DEF Bytes
    <2>3. Bytes(p) \subseteq PendingBytes
      BY <2>1, Zenon
    <2>4. PendingBytes \subseteq Bytes(p)
      BY <2>2, Zenon
    <2> QED BY <2>3, <2>4, Zenon
  <1>4. Bytes(file) = FileBytes
    BY DEF Bytes, FileBytes
  <1> QED BY <1>2, <1>3, <1>4 DEF Kept

\* Chunks that are whole stay whole when the next one is kept or lost.
LEMMA WholeStep ==
    ASSUME RoomForChunks, IInv, isOpen => Whole(Owed), [Next]_vars
    PROVE  (isOpen => Whole(Owed))'
  <1>a. /\ FifoOK(fifo) /\ file \in Seq(Nat) /\ seen \in Nat /\ WellFormed /\ base \in Nat
        /\ Increasing(Owed, base + 1, seen) /\ chunks \subseteq Nat \X Nat
        /\ \A c \in chunks : c[1] > base /\ c[2] <= seen
    BY DEF IInv, WellFormed, TypeOK
  <1>b. Owed \in Seq(Nat)
    BY <1>a, PendingLemma, Concat DEF Owed
  <1>1. CASE KfifoAlloc
    BY <1>1 DEF KfifoAlloc, Whole
  <1>2. CASE KfifoFree
    BY <1>2 DEF KfifoFree
  <1>3. ASSUME NEW n \in 1 .. MaxChunk, KfifoWrite(n) PROVE Whole(Owed)'
    <2>1. Offered(n)
      BY <1>3 DEF KfifoWrite, WriteThrough, WriteReset, WriteCached
    <2>2. chunks' = chunks \cup {<<seen + 1, seen + n>>} /\ Whole(Owed) /\ n \in Nat
      BY <2>1, KfifoAssumption DEF Offered
    <2>3. PICK k \in {0, n} : Owed' = Owed \o Run(seen + 1, k)
      BY <1>a, <1>3, WriteOwed DEF OwedStep
    <2>4. k \in Nat /\ seen + 1 \in Nat /\ seen + 1 + k - 1 = seen + k
      BY <1>a, <2>2
    <2>5. Bytes(Owed') = Bytes(Owed) \cup (seen + 1 .. seen + k)
      <3>1. Bytes(Run(seen + 1, k)) = seen + 1 .. seen + k
        BY <2>4, BytesRun
      <3>2. Run(seen + 1, k) \in Seq(Nat)
        BY <2>4, RunLemma
      <3> QED BY <1>b, <2>3, <3>1, <3>2, BytesConcat
    <2>6. Bytes(Owed) \subseteq base + 1 .. seen
      BY <1>a DEF Increasing, Bytes
    <2> DEFINE B == Bytes(Owed)
    <2> HIDE DEF B
    <2>7. ASSUME NEW c \in chunks
          PROVE  \/ c[1] .. c[2] \subseteq B \cup (seen + 1 .. seen + k)
                 \/ (c[1] .. c[2]) \cap (B \cup (seen + 1 .. seen + k)) = {}
      <3>1. c[1] .. c[2] \subseteq B \/ (c[1] .. c[2]) \cap B = {}
        BY <2>2 DEF Whole, B
      <3>2. c[1] \in Nat /\ c[2] \in Nat /\ c[2] <= seen
        BY <1>a
      <3>3. \A x \in c[1] .. c[2] : x \notin seen + 1 .. seen + k
        BY <3>2, <1>a, <2>4
      <3> QED BY <3>1, <3>3
    <2>8. \/ seen + 1 .. seen + n \subseteq B \cup (seen + 1 .. seen + k)
          \/ (seen + 1 .. seen + n) \cap (B \cup (seen + 1 .. seen + k)) = {}
      <3>1. CASE k = n
        BY <3>1
      <3>2. CASE k = 0
        <4>1. seen + 1 .. seen + k = {}
          BY <3>2, <1>a
        <4>2. \A x \in seen + 1 .. seen + n : x \notin base + 1 .. seen
          BY <1>a, <2>2
        <4> QED BY <4>1, <4>2, <2>6 DEF B
      <3> QED BY <3>1, <3>2
    <2>9. \A c \in chunks' : \/ c[1] .. c[2] \subseteq Bytes(Owed')
                             \/ (c[1] .. c[2]) \cap Bytes(Owed') = {}
      BY <2>2, <2>5, <2>7, <2>8 DEF B
    <2> QED BY <2>9 DEF Whole, Bytes
  <1>4. CASE UNCHANGED vars
    <2>1. Owed' = Owed /\ chunks' = chunks /\ isOpen' = isOpen
      BY <1>4 DEF vars, Owed, Pending
    <2> QED BY <2>1 DEF Whole, Bytes
  <1> QED BY <1>1, <1>2, <1>3, <1>4 DEF Next

\* No chunk of at most cache_step bytes is ever torn while malloc succeeds.
THEOREM ChunksStayWhole ==
    ASSUME RoomForChunks
    PROVE  Spec => []NoTornChunk
  <1> DEFINE Inv == IInv /\ (isOpen => Whole(Owed))
  <1>1. Init => Inv
    BY InitIInv DEF Init
  <1>2. Inv /\ [Next]_vars => Inv'
    BY NextIInv, WholeStep
  <1>3. Inv => NoTornChunk
    BY KeptOwed DEF NoTornChunk, Whole
  <1> QED BY <1>1, <1>2, <1>3, PTL DEF Spec

-----------------------------------------------------------------------------
(* The cache implements the lossy stream.                                  *)

\* Every step of the cache is a step of the stream or leaves it unchanged.
LEMMA StreamStep ==
    ASSUME RoomForChunks, IInv, [Next]_vars
    PROVE  [Stream!Next]_(Stream!vars)
  <1> USE DEF Stream!vars
  <1>a. /\ FifoOK(fifo) /\ file \in Seq(Nat) /\ seen \in Nat /\ WellFormed
    BY DEF IInv, WellFormed, TypeOK
  <1>1. CASE KfifoAlloc
    <2>1. fifo' = Reset(fifo) /\ file' = <<>> /\ seen' = seen /\ isOpen' = TRUE /\ ~isOpen
      BY <1>1 DEF KfifoAlloc
    <2>2. FifoOK(fifo') /\ fifo'.out = fifo'.in
      BY <1>a, <2>1, ResetLemma DEF Reset
    <2>3. Pending(fifo') = <<>>
      BY <2>2, Neutral
    <2>4. Stream!Open
      BY <2>1, <2>3 DEF Stream!Open, Pending
    <2> QED BY <2>4 DEF Stream!Next
  <1>2. CASE KfifoFree
    <2>1. fifo' = Reset(fifo) /\ file' = file /\ seen' = seen /\ isOpen' = FALSE /\ isOpen
      BY <1>2 DEF KfifoFree
    <2>2. FifoOK(fifo') /\ fifo'.out = fifo'.in
      BY <1>a, <2>1, ResetLemma DEF Reset
    <2>3. Pending(fifo') = <<>>
      BY <2>2, Neutral
    <2>4. Stream!Close
      BY <2>1, <2>3 DEF Stream!Close, Pending
    <2> QED BY <2>4 DEF Stream!Next
  <1>3. ASSUME NEW n \in 1 .. MaxChunk, KfifoWrite(n) PROVE Stream!Offer(n)
    <2>1. Offered(n)
      BY <1>3 DEF KfifoWrite, WriteThrough, WriteReset, WriteCached
    <2>2. OwedStep(n)
      BY <1>a, <1>3, WriteOwed
    <2>3. Stream!Extends(file, file')
      <3>1. PICK t \in Seq(Nat) : file' = file \o t
        BY <2>2 DEF OwedStep
      <3>2. /\ Len(file') = Len(file) + Len(t) /\ Len(file) \in Nat /\ Len(t) \in Nat
            /\ \A j \in 1 .. Len(file) : file'[j] = file[j]
        BY <1>a, <3>1, Concat
      <3> QED BY <3>2 DEF Stream!Extends
    <2>4. n \in Nat /\ seen + 1 \in Nat
      BY <1>a, KfifoAssumption
    <2>5. PICK k \in {0, n} : Owed' = Owed \o Run(seen + 1, k)
      BY <2>2 DEF OwedStep
    <2>6. Owed \in Seq(Nat)
      BY <1>a, PendingLemma, Concat DEF Owed
    <2>7. Owed' = Owed \o Run(seen + 1, n) \/ Owed' = Owed
      BY <2>4, <2>5, <2>6, Neutral
    <2>8. Run(seen + 1, n) = Stream!Run(seen + 1, n)
      BY DEF Run, Stream!Run
    <2> QED BY <2>1, <2>3, <2>7, <2>8 DEF Stream!Offer, Offered, Owed, Pending
  <1>4. CASE UNCHANGED vars
    BY <1>4 DEF vars
  <1> QED BY <1>1, <1>2, <1>3, <1>4 DEF Next, Stream!Next

\* With room for chunks the cache implements the lossy stream: each chunk is
\* kept or lost whole, order is kept, closing forgets what is pending.
THEOREM Refinement ==
    ASSUME RoomForChunks
    PROVE  Spec => ImplementsLossyStream
  <1>1. Init => Stream!Init
    <2> SUFFICES ASSUME Init PROVE Stream!Init
      OBVIOUS
    <2>1. Pending(fifo) = <<>>
      <3>1. FifoOK(fifo) /\ fifo.out = fifo.in
        BY KfifoAssumption DEF Init, EmptyFifo, FifoOK
      <3> QED BY <3>1, Neutral
    <2> QED BY <2>1 DEF Init, Stream!Init, Pending
  <1>2. IInv /\ [Next]_vars => [Stream!Next]_(Stream!vars)
    BY StreamStep
  <1> QED BY <1>1, <1>2, Invariance, PTL DEF Spec, ImplementsLossyStream, Stream!Spec

-----------------------------------------------------------------------------
(* A chunk is dropped only by a full cache.                                *)

\* A cache that did not take a chunk has its full size, and the chunk would fill it.
LEMMA DroppedLemma ==
    ASSUME NEW f, FifoOK(f), Normal(f), NEW n \in Nat, n <= CacheStep, NEW first \in Nat,
           ~Appended(f, Buffered(f, first, n, TRUE), first, n)
    PROVE  LET g == Buffered(f, first, n, TRUE)
           IN  g.size >= CacheSize /\ Used(f) + n >= g.size
  <1> DEFINE c == Compact(f, n)
             r == Grow(c, n, TRUE)
             g == Append_(r, first, n)
  <1>1. g = Buffered(f, first, n, TRUE)
    BY DEF Buffered
  <1>2. FifoOK(c) /\ Normal(c) /\ SamePending(f, c)
    BY CompactLemma
  <1>3. FifoOK(r) /\ Normal(r) /\ SamePending(c, r)
    BY <1>2, GrowLemma
  <1>4. SamePending(f, r)
    BY <1>2, <1>3 DEF SamePending
  <1>5. Unused(r) < n
    <2> SUFFICES ASSUME ~(Unused(r) < n) PROVE FALSE
      OBVIOUS
    <2> HIDE DEF r
    <2>1. Appended(r, g, first, n)
      BY <1>3, AppendLemma
    <2>2. Appended(f, g, first, n)
      BY <1>4, <2>1 DEF Appended, SamePending
    <2> QED BY <1>1, <2>2
  <1>6. g = r
    BY <1>5 DEF Append_
  <1>7. PICK in \in Nat, out \in Nat, size \in Nat :
            f.in = in /\ f.out = out /\ f.size = size /\ out <= in /\ in <= size
    BY DEF FifoOK
  <1>8. PICK cin \in Nat, cout \in Nat, csize \in Nat :
            c.in = cin /\ c.out = cout /\ c.size = csize /\ cout <= cin /\ cin <= csize
    BY <1>2 DEF FifoOK
  <1>9. CacheStep \in Nat /\ CacheSize \in Nat
    BY KfifoAssumption
  <1> HIDE DEF c
  <1>10. r = c /\ Unused(c) < n /\ csize >= CacheSize
    <2>1. CASE Unused(c) < n /\ c.size < CacheSize
      <3>1. r.in = cin - cout /\ r.size = csize + CacheStep
        BY <1>8, <2>1 DEF Grow, Used
      <3> HIDE DEF r
      <3>2. Unused(r) = (csize + CacheStep) - (cin - cout)
        BY <3>1 DEF Unused
      <3>3. ~(Unused(r) < n)
        BY <1>8, <1>9, <3>2
      <3> QED BY <1>5, <3>3
    <2>2. CASE ~(Unused(c) < n /\ c.size < CacheSize)
      <3>1. r = c
        BY <2>2 DEF Grow
      <3>2. Unused(c) < n
        BY <1>5, <3>1
      <3>3. csize >= CacheSize
        BY <1>8, <1>9, <2>2, <3>2
      <3> QED BY <3>1, <3>2, <3>3
    <2> QED BY <2>1, <2>2
  <1>11. c = f /\ Unused(f) < n /\ ~(n < Unused(f) + f.out)
    <2>1. CASE Unused(f) < n /\ n < Unused(f) + f.out
      <3>1. c.in = in - out /\ c.size = size
        BY <1>7, <2>1 DEF Compact, Used, c
      <3>2. Unused(c) = size - (in - out)
        BY <3>1 DEF Unused
      <3>3. n < (size - in) + out
        BY <1>7, <2>1 DEF Unused
      <3> QED BY <1>7, <1>10, <3>2, <3>3
    <2>2. CASE ~(Unused(f) < n /\ n < Unused(f) + f.out)
      <3>1. c = f
        BY <2>2 DEF Compact, c
      <3> QED BY <1>10, <2>2, <3>1
    <2> QED BY <2>1, <2>2
  <1>12. g.size = size /\ size >= CacheSize
    BY <1>6, <1>7, <1>8, <1>10, <1>11
  <1>13. Used(f) + n >= size
    <2>1. ~(n < (size - in) + out)
      BY <1>7, <1>11 DEF Unused
    <2>2. Used(f) = in - out
      BY <1>7 DEF Used
    <2> QED BY <1>7, <2>1, <2>2
  <1> QED BY <1>1, <1>12, <1>13

\* What is kept after a step.
LEMMA KeptOwedNext == (IInv => Kept = Bytes(Owed))'
  BY KeptOwed, PTL

\* A write whose chunk is not kept found the cache full.
LEMMA DropStep ==
    ASSUME RoomForChunks, IInv, [Next]_vars, seen' > seen, ret' # 0, seen' \notin Kept'
    PROVE  fifo'.size >= CacheSize /\ Used(fifo) + (seen' - seen) >= fifo'.size
  <1>1. /\ WellFormed /\ FifoOK(fifo) /\ Normal(fifo) /\ file \in Seq(Nat) /\ seen \in Nat
    BY DEF IInv, WellFormed, TypeOK
  <1>2. IInv'
    BY NextIInv
  <1>3. PICK n \in 1 .. MaxChunk : KfifoWrite(n)
    <2>1. CASE KfifoAlloc \/ KfifoFree \/ UNCHANGED vars
      BY <1>1, <2>1 DEF KfifoAlloc, KfifoFree, vars
    <2> QED BY <2>1 DEF Next
  <1>4. n \in Nat /\ n > 0 /\ n <= CacheStep
    BY KfifoAssumption DEF RoomForChunks
  <1>5. seen' = seen + n
    BY <1>3 DEF KfifoWrite, WriteThrough, WriteReset, WriteCached, Offered
  <1>6. /\ FifoOK(fifo') /\ Owed \in Seq(Nat) /\ Len(Owed) = Len(file) + Used(fifo) /\ Used(fifo) \in Nat
        /\ file' \in Seq(Nat) /\ Len(Owed') = Len(file') + Used(fifo') /\ Used(fifo') \in Nat
        /\ Len(file) \in Nat /\ Len(file') \in Nat
    <2>1. FifoOK(fifo') /\ file' \in Seq(Nat)
      BY <1>2 DEF IInv, WellFormed, TypeOK
    <2>2. /\ Pending(fifo) \in Seq(Nat) /\ Len(Pending(fifo)) = Used(fifo) /\ Used(fifo) \in Nat
      BY <1>1, PendingLemma
    <2>3. /\ Pending(fifo') \in Seq(Nat) /\ Len(Pending(fifo')) = Used(fifo') /\ Used(fifo') \in Nat
      BY <2>1, PendingLemma
    <2>4. Owed \in Seq(Nat) /\ Len(Owed) = Len(file) + Used(fifo)
      BY <1>1, <2>2, Concat DEF Owed
    <2>5. Len(Owed') = Len(file') + Used(fifo')
      BY <2>1, <2>3, Concat DEF Owed
    <2> QED BY <1>1, <2>1, <2>2, <2>3, <2>4, <2>5
  <1>7. PICK kk \in {0, n} : Owed' = Owed \o Run(seen + 1, kk)
    BY <1>1, <1>3, WriteOwed DEF OwedStep
  <1>8. kk = 0
    <2> SUFFICES ASSUME kk = n PROVE FALSE
      BY <1>7
    <2>1. seen + 1 \in Nat
      BY <1>1
    <2>2. Bytes(Run(seen + 1, n)) = seen + 1 .. (seen + 1) + n - 1 /\ Run(seen + 1, n) \in Seq(Nat)
      BY <1>4, <2>1, BytesRun, RunLemma
    <2>3. seen' \in Bytes(Run(seen + 1, n))
      BY <1>1, <1>4, <1>5, <2>2
    <2>4. Bytes(Owed') = Bytes(Owed) \cup Bytes(Run(seen + 1, n))
      BY <1>6, <1>7, <2>2, BytesConcat
    <2>5. Kept' = Bytes(Owed')
      BY <1>2, KeptOwedNext
    <2> QED BY <2>3, <2>4, <2>5
  <1>9. Len(Owed') = Len(Owed)
    BY <1>6, <1>7, <1>8, <1>1, Neutral
  <1>10. CASE WriteThrough(n)
    <2>1. file' = file \o Run(seen + 1, n) /\ fifo' = fifo
      BY <1>10 DEF WriteThrough
    <2>2. seen + 1 \in Nat
      BY <1>1
    <2>3. Run(seen + 1, n) \in Seq(Nat) /\ Len(Run(seen + 1, n)) = n
      BY <1>4, <2>2, RunLemma
    <2>4. Len(file') = Len(file) + n
      BY <1>1, <2>1, <2>3, Concat
    <2>5. Used(fifo') = Used(fifo)
      BY <2>1
    <2>6. Len(file') + Used(fifo') = Len(file) + Used(fifo)
      BY <1>6, <1>9
    <2> QED BY <1>4, <1>6, <2>4, <2>5, <2>6
  <1>11. CASE WriteReset(n)
    BY <1>11 DEF WriteReset
  <1>12. ASSUME NEW k \in 0 .. n - 1, NEW m \in {TRUE, ~MallocMayFail}, NEW reset \in BOOLEAN,
                WriteCached(n, k, m, reset)
         PROVE  fifo'.size >= CacheSize /\ Used(fifo) + (seen' - seen) >= fifo'.size
    <2> DEFINE f == Buffered(fifo, seen + k + 1, n - k, TRUE)
               R == Run(seen + 1, k)
    <2>1. m = TRUE
      BY KfifoAssumption, Zenon DEF RoomForChunks
    <2>2. PICK d \in 0 .. Used(f) :
              /\ file' = file \o R \o PendingRun(f, d)
              /\ fifo' = IF d > 0 THEN Drained(f, d) ELSE f
      BY <1>12, <2>1 DEF WriteCached
    <2>3. /\ k \in Nat /\ n - k \in Nat /\ n - k <= CacheStep /\ seen + 1 \in Nat /\ seen + k + 1 \in Nat
      BY <1>1, <1>4, KfifoAssumption
    <2>4. FifoOK(f) /\ Used(f) \in Nat
      <3>1. FifoOK(f)
        BY <1>1, <2>3, BufferedLemma
      <3> QED BY <3>1, PendingLemma
    <2>5. f.size \in Nat /\ f.in \in Nat
      BY <2>4 DEF FifoOK
    <2>6. ~Appended(fifo, f, seen + k + 1, n - k)
      <3> SUFFICES ASSUME Appended(fifo, f, seen + k + 1, n - k) PROVE FALSE
        OBVIOUS
      <3> HIDE DEF f
      <3>1. PICK q \in Nat : q = n - k
        BY <2>3
      <3>2. Used(f) = Used(fifo) + q
        BY <3>1 DEF Appended
      <3>3. PendingRun(f, d) \in Seq(Nat) /\ Len(PendingRun(f, d)) = d
        BY <2>4, PendingRunLemma
      <3>4. R \in Seq(Nat) /\ Len(R) = k
        BY <2>3, RunLemma
      <3> HIDE DEF R
      <3>5. file \o R \in Seq(Nat) /\ Len(file \o R) = Len(file) + k
        BY <1>1, <3>4, Concat
      <3>6. Len(file') = (Len(file) + k) + d
        BY <2>2, <3>3, <3>5, Concat
      <3>7. Used(fifo') = Used(f) - d
        <4>1. CASE d > 0
          <5>1. d \in 1 .. Used(f) /\ fifo' = Drained(f, d)
            BY <2>2, <2>4, <4>1
          <5> QED BY <2>4, <5>1, DrainedLemma
        <4>2. CASE ~(d > 0)
          <5>1. d = 0 /\ fifo' = f
            BY <2>2, <2>4, <4>2
          <5> QED BY <2>4, <5>1
        <4> QED BY <4>1, <4>2
      <3>8. PICK l \in Nat, u \in Nat, l0 \in Nat, u0 \in Nat :
                l = Len(file') /\ u = Used(fifo') /\ l0 = Len(file) /\ u0 = Used(fifo)
        BY <1>6
      <3>9. l + u = l0 + u0
        BY <1>6, <1>9, <3>8
      <3>10. l = (l0 + k) + d /\ u = (u0 + q) - d
        BY <3>2, <3>6, <3>7, <3>8
      <3>11. k + q = n /\ d \in Nat
        <4>1. d \in Nat
          BY <2>4
        <4> QED BY <1>4, <2>3, <3>1, <4>1
      <3>12. l + u = l0 + u0 + n
        BY <2>3, <3>10, <3>11
      <3> QED BY <1>4, <3>9, <3>12
    <2>7. k = 0
      <3> SUFFICES ASSUME k > 0 PROVE FALSE
        BY <2>3
      <3>1. fifo.out = fifo.in
        BY <1>12 DEF WriteCached
      <3>2. Appended(fifo, f, seen + k + 1, n - k)
        BY <1>1, <2>3, <3>1, RoomLemma
      <3> QED BY <2>6, <3>2
    <2>8. f.size >= CacheSize /\ Used(fifo) + (n - k) >= f.size
      BY <1>1, <2>3, <2>6, DroppedLemma
    <2> HIDE DEF f
    <2>9. fifo'.size = f.size
      BY <2>2 DEF Drained, Reset
    <2>10. n - k = n /\ seen' - seen = n
      BY <1>1, <1>4, <1>5, <2>7
    <2> QED BY <2>8, <2>9, <2>10
  <1> QED BY <1>3, <1>10, <1>11, <1>12 DEF KfifoWrite

\* With room for chunks, a chunk that is reported as written is lost only when the
\* cache has reached CACHE_SIZE and the chunk would fill it (__kfifo_write).
THEOREM LossOnlyWhenFull ==
    ASSUME RoomForChunks
    PROVE  Spec => DropOnlyWhenFull
  <1>1. IInv /\ [Next]_vars =>
            [(seen' > seen /\ ret' # 0 /\ seen' \notin Kept') =>
                /\ fifo'.size >= CacheSize
                /\ Used(fifo) + (seen' - seen) >= fifo'.size]_vars
    BY DropStep
  <1> QED BY <1>1, Invariance, PTL DEF Spec, DropOnlyWhenFull

-----------------------------------------------------------------------------
(* The capture loop.                                                       *)

\* A cache that is empty before and after a write has passed on the whole chunk.
LEMMA ChunkPassed ==
    ASSUME WellFormed, MaxChunk <= CacheStep, NEW n \in 1 .. MaxChunk, NEW k \in 0 .. n - 1,
           WriteCached(n, k, TRUE, FALSE), Used(fifo) = 0, Used(fifo') = 0
    PROVE  Len(file') = Len(file) + n
  <1> DEFINE f == Buffered(fifo, seen + k + 1, n - k, TRUE)
             R == Run(seen + 1, k)
  <1>1. /\ FifoOK(fifo) /\ Normal(fifo) /\ file \in Seq(Nat) /\ seen \in Nat
        /\ n \in Nat /\ k \in Nat /\ n - k \in Nat /\ n - k <= CacheStep
        /\ seen + 1 \in Nat /\ seen + k + 1 \in Nat
    <2>1. FifoOK(fifo) /\ Normal(fifo) /\ file \in Seq(Nat) /\ seen \in Nat
      BY DEF WellFormed, TypeOK
    <2> QED BY <2>1, KfifoAssumption
  <1>2. PICK d \in 0 .. Used(f) :
            /\ file' = file \o R \o PendingRun(f, d)
            /\ fifo' = IF d > 0 THEN Drained(f, d) ELSE f
    BY DEF WriteCached
  <1>3. fifo.out = fifo.in
    <2>1. fifo.in \in Nat /\ fifo.out \in Nat
      BY <1>1 DEF FifoOK
    <2>2. fifo.in - fifo.out = 0
      BY DEF Used
    <2> QED BY <2>1, <2>2
  <1>4. FifoOK(f)
    BY <1>1, BufferedLemma
  <1>5. Used(f) = n - k
    <2>1. Appended(fifo, f, seen + k + 1, n - k)
      BY <1>1, <1>3, RoomLemma
    <2> HIDE DEF f
    <2>2. PICK m \in Nat : m = n - k
      BY <1>1
    <2>3. Used(f) = Used(fifo) + m
      BY <2>1, <2>2 DEF Appended
    <2> QED BY <2>2, <2>3
  <1> HIDE DEF f
  <1>6. d = n - k
    <2>1. CASE d > 0
      <3>1. d \in 1 .. Used(f)
        BY <1>1, <1>5, <2>1
      <3>2. Used(Drained(f, d)) = Used(f) - d
        BY <1>4, <3>1, DrainedLemma
      <3>3. fifo' = Drained(f, d)
        BY <1>2, <2>1
      <3> QED BY <1>1, <1>5, <3>1, <3>2, <3>3
    <2>2. CASE ~(d > 0)
      <3>1. fifo' = f
        BY <1>2, <2>2
      <3> QED BY <1>1, <1>5, <2>2, <3>1
    <2> QED BY <2>1, <2>2
  <1>7. PendingRun(f, d) \in Seq(Nat) /\ Len(PendingRun(f, d)) = n - k
    BY <1>4, <1>6, PendingRunLemma
  <1>8. R \in Seq(Nat) /\ Len(R) = k
    BY <1>1, RunLemma
  <1> HIDE DEF R
  <1>9. file \o R \in Seq(Nat) /\ Len(file \o R) = Len(file) + k
    BY <1>1, <1>8, Concat
  <1>10. Len((file \o R) \o PendingRun(f, d)) = (Len(file) + k) + (n - k)
    BY <1>7, <1>9, Concat
  <1>11. Len(file) \in Nat
    BY <1>1
  <1> QED BY <1>1, <1>2, <1>10, <1>11

\* An opened or closed log begins with an empty cache.
LEMMA ResetEmpty ==
    ASSUME IInv, fifo' = Reset(fifo)
    PROVE  Used(fifo') = 0
  BY ResetLemma DEF IInv, WellFormed, TypeOK

\* Something is written to the log.
LEMMA WrittenStep ==
    ASSUME IInv, used \in Nat, NEW n \in 1 .. MaxChunk, Written(n)
    PROVE  /\ IInv' /\ used' \in Nat /\ seen' = seen + n
           /\ isOpen /\ isOpen' = isOpen /\ ret' \in {0, n}
           /\ target = "disk" => ret' = n
  <1>1. KfifoWrite(n)
    BY Zenon DEF Written, KfifoWrite
  <1>2. IInv'
    BY <1>1, NextIInv DEF Next
  <1>3. /\ WellFormed /\ file \in Seq(Nat) /\ seen \in Nat /\ n \in Nat
    <2>1. WellFormed /\ file \in Seq(Nat) /\ seen \in Nat
      BY DEF IInv, WellFormed, TypeOK
    <2> QED BY <2>1, KfifoAssumption
  <1>4. seen' = seen + n /\ isOpen /\ isOpen' = isOpen /\ ret' \in {0, n}
    BY <1>1 DEF KfifoWrite, WriteThrough, WriteReset, WriteCached, Offered
  <1>5. PICK t \in Seq(Nat) : file' = file \o t
    BY <1>1, <1>3, WriteOwed DEF OwedStep
  <1>6. Len(file') = Len(file) + Len(t) /\ Len(t) \in Nat /\ Len(file) \in Nat
    BY <1>3, <1>5, Concat
  <1>7. used' = used + Len(file') - Len(file)
    BY DEF Written
  <1>8. used' \in Nat
    BY <1>6, <1>7
  <1>9. ASSUME target = "disk" PROVE ret' = n
    BY <1>9 DEF Written, WriteThrough, WriteCached
  <1> QED BY <1>2, <1>4, <1>8, <1>9

\* On a disk that still has room after the write, all of it was written.
LEMMA WrittenDisk ==
    ASSUME MaxChunk <= CacheStep, IInv, used \in Nat, NEW n \in 1 .. MaxChunk, Written(n),
           target = "disk", used' < DiskSize, used < DiskSize => Used(fifo) = 0
    PROVE  used < DiskSize /\ used' = used + n /\ Used(fifo') = 0
  <1>1. WriteThrough(n) \/ \E k \in 0 .. n - 1 : WriteCached(n, k, TRUE, FALSE)
    BY DEF Written
  <1>2. KfifoWrite(n)
    BY <1>1, Zenon DEF KfifoWrite
  <1>4. /\ WellFormed /\ file \in Seq(Nat) /\ seen \in Nat /\ used \in Nat /\ DiskSize \in Nat
        /\ n \in Nat /\ Len(file) \in Nat
    <2>1. WellFormed /\ file \in Seq(Nat) /\ seen \in Nat
      BY DEF IInv, WellFormed, TypeOK
    <2> QED BY <2>1, CaptureAssumption, KfifoAssumption
  <1>6. PICK t \in Seq(Nat) : file' = file \o t
    BY <1>2, <1>4, WriteOwed DEF OwedStep
  <1>7. Len(file') = Len(file) + Len(t) /\ Len(t) \in Nat
    BY <1>4, <1>6, Concat
  <1>8. used' = used + Len(file') - Len(file) /\ (used' = DiskSize \/ Used(fifo') = 0)
    BY DEF Written, OnDisk
  <1>9. used' = used + Len(t)
    BY <1>4, <1>7, <1>8
  <1>10. used' \in Nat
    BY <1>4, <1>7, <1>9
  <1>11. Used(fifo') = 0
    BY <1>4, <1>8, <1>10
  <1>12. used < DiskSize
    <2>1. used + Len(t) < DiskSize
      BY <1>9
    <2> QED BY <1>4, <1>7, <2>1
  <1>13. Used(fifo) = 0
    BY <1>12
  <1>14. Len(file') = Len(file) + n
    <2>1. CASE WriteThrough(n)
      <3>1. file' = file \o Run(seen + 1, n)
        BY <2>1 DEF WriteThrough
      <3>2. Run(seen + 1, n) \in Seq(Nat) /\ Len(Run(seen + 1, n)) = n
        <4>1. seen + 1 \in Nat
          BY <1>4, SMTT(20)
        <4> QED BY <1>4, <4>1, RunLemma
      <3>3. Len(file \o Run(seen + 1, n)) = Len(file) + Len(Run(seen + 1, n))
        BY <1>4, <3>2, Concat, Zenon
      <3> QED BY <3>1, <3>2, <3>3
    <2>2. CASE \E k \in 0 .. n - 1 : WriteCached(n, k, TRUE, FALSE)
      BY <1>4, <1>11, <1>13, <2>2, ChunkPassed
    <2> QED BY <1>1, <2>1, <2>2
  <1>15. Len(t) = n
    BY <1>4, <1>7, <1>14
  <1> QED BY <1>9, <1>11, <1>12, <1>15

\* What a session has read and not written, or thrown away, is accounted for.
LoopInv ==
    /\ IInv /\ CaptureTypeOK
    /\ early > 0 => qmdl2
    /\ unsaved > 0 => pc \in {"left", "ended"} /\ ~isOpen

\* Until the disk is full nothing waits in the cache.
DiskInv ==
    target = "disk" /\ used < DiskSize =>
        used = hdr + rx - pkt - early - unsaved /\ Used(fifo) = 0

\* A log without a header holds nothing, and waits for it.
HeaderInv ==
    /\ qmdl2 /\ isOpen /\ ~headed => miss
    /\ qmdl2 /\ isOpen /\ miss => file = <<>>
    /\ pc = "packet" => headed /\ ~miss

LEMMA LoopInvInit ==
    ASSUME CaptureInit
    PROVE  LoopInv /\ DiskInv /\ HeaderInv
  <1>1. IInv
    BY InitIInv DEF CaptureInit
  <1>2. CaptureTypeOK
    <2>1. header \in BOOLEAN /\ qmdl2 \in BOOLEAN
      BY Zenon DEF CaptureInit
    <2>2. /\ pc = "loop" /\ exitReq \in BOOLEAN /\ cleaned \in BOOLEAN /\ miss \in BOOLEAN
          /\ headed \in BOOLEAN /\ target \in {"disk", "ftp", "tcp"}
      BY Zenon DEF CaptureInit
    <2>3. used = 0 /\ saved = 0 /\ pkt = 0 /\ rx = 0 /\ hdr = 0 /\ early = 0 /\ unsaved = 0
      BY Zenon DEF CaptureInit
    <2> QED BY <2>1, <2>2, <2>3, KfifoAssumption DEF CaptureTypeOK
  <1>3. Used(fifo) = 0
    BY DEF CaptureInit, Init, EmptyFifo, Used
  <1> QED BY <1>1, <1>2, <1>3 DEF CaptureInit, Init, LoopInv, DiskInv, HeaderInv

\* Every step of the loop keeps the account.
LEMMA LoopInvStep ==
    ASSUME LoopInv, [CaptureNext]_captureVars
    PROVE  LoopInv'
  <1>1. IInv /\ CaptureTypeOK /\ (early > 0 => qmdl2)
        /\ (unsaved > 0 => pc \in {"left", "ended"} /\ ~isOpen)
    BY DEF LoopInv
  <1>2. HeaderSize \in Nat /\ HeaderSize \in 1 .. MaxChunk /\ MaxChunk \in Nat \ {0}
    BY CaptureAssumption, KfifoAssumption
  <1>3. ASSUME UNCHANGED vars PROVE IInv' /\ isOpen' = isOpen
    BY <1>1, <1>3, NextIInv DEF vars
  <1>4. ASSUME KfifoAlloc \/ KfifoFree PROVE IInv'
    BY <1>1, <1>4, NextIInv DEF Next
  <1>5. CASE Iterate
    BY <1>1, <1>2, <1>3, <1>5 DEF Iterate, LoopInv, CaptureTypeOK, optVars, packetVars
  <1>6. ASSUME NEW n \in 1 .. MaxChunk, ReadPacket(n) PROVE LoopInv'
    <2>1. n \in Nat /\ n > 0 /\ n \in 0 .. MaxChunk
      BY <1>2
    <2> QED BY <1>1, <1>2, <1>3, <1>6, <2>1 DEF ReadPacket, LoopInv, CaptureTypeOK, optVars
  <1>7. CASE ReadFails
    BY <1>1, <1>2, <1>3, <1>7 DEF ReadFails, LoopInv, CaptureTypeOK, optVars, packetVars
  <1>8. CASE CreateLog
    <2>1. IInv' /\ isOpen' = TRUE /\ ~isOpen
      BY <1>4, <1>8 DEF CreateLog, KfifoAlloc
    <2>2. used' \in Nat /\ hdr' \in Nat
      BY <1>1, <1>2, <1>8 DEF CreateLog, RawHeader, CaptureTypeOK
    <2> QED BY <1>1, <1>2, <1>8, <2>1, <2>2 DEF CreateLog, LoopInv, CaptureTypeOK, optVars
  <1>9. CASE CreateFails
    BY <1>1, <1>2, <1>3, <1>9 DEF CreateFails, LoopInv, CaptureTypeOK, optVars
  <1>10. CASE SaveEarly
    BY <1>1, <1>2, <1>3, <1>10 DEF SaveEarly, LoopInv, CaptureTypeOK, optVars
  <1>11. CASE SaveHeader
    <2>1. IInv' /\ used' \in Nat /\ isOpen' = isOpen /\ isOpen
      BY <1>1, <1>2, <1>11, WrittenStep DEF SaveHeader, CaptureTypeOK
    <2>2. headed' \in BOOLEAN
      BY <1>11, Zenon DEF SaveHeader
    <2>3. /\ pc = "save" /\ pc' = "packet" /\ miss' = FALSE /\ hdr' = hdr + HeaderSize
          /\ UNCHANGED <<saved, exitReq, cleaned, header, target, qmdl2, pkt, rx, early, unsaved>>
      BY <1>11 DEF SaveHeader, optVars
    <2>4. hdr' \in Nat
      BY <1>1, <1>2, <2>3 DEF CaptureTypeOK
    <2> QED BY <1>1, <2>1, <2>2, <2>3, <2>4 DEF LoopInv, CaptureTypeOK
  <1>12. CASE SavePacket
    <2>1. pkt \in 1 .. MaxChunk
      BY <1>1, <1>2, <1>12 DEF SavePacket, CaptureTypeOK
    <2>2. IInv' /\ used' \in Nat /\ isOpen' = isOpen /\ isOpen /\ ret' \in {0, pkt}
      BY <1>1, <1>12, <2>1, WrittenStep DEF SavePacket, CaptureTypeOK
    <2>3. saved' \in Nat /\ pc' \in {"left", "loop"} /\ exitReq' \in BOOLEAN
      <3>1. saved' \in Nat
        <4>1. saved' = saved + ret' /\ saved \in Nat
          BY <1>1, <1>12, Zenon DEF SavePacket, CheckSaved, CaptureTypeOK
        <4>2. ret' \in Nat
          <5>1. pkt \in Nat
            BY <1>2, <2>1
          <5>2. ret' = 0 \/ ret' = pkt
            BY <2>2
          <5> QED BY <5>1, <5>2
        <4>3. \A a, b \in Nat : a + b \in Nat
          OBVIOUS
        <4> QED BY <4>1, <4>2, <4>3, Zenon
      <3>2. exitReq' \in BOOLEAN
        BY <1>1, <1>12, Zenon DEF SavePacket, CheckSaved, CaptureTypeOK
      <3> QED BY <1>12, <3>1, <3>2 DEF SavePacket, CheckSaved
    <2>4. ~(unsaved > 0)
      BY <1>1, <1>12 DEF SavePacket
    <2> QED BY <1>1, <1>2, <1>12, <2>2, <2>3, <2>4 DEF SavePacket, LoopInv, CaptureTypeOK, optVars
  <1>13. CASE Rotate
    <2>1. IInv' /\ isOpen' = FALSE
      BY <1>4, <1>13 DEF Rotate, KfifoFree
    <2> QED BY <1>1, <1>2, <1>13, <2>1 DEF Rotate, LoopInv, CaptureTypeOK, optVars, packetVars
  <1>14. CASE EndSession
    <2>1. IInv' /\ (isOpen' = FALSE \/ isOpen' = isOpen)
      BY <1>3, <1>4, <1>14 DEF EndSession, KfifoFree
    <2>2. cleaned' \in BOOLEAN
      BY <1>1, <1>14 DEF EndSession, CaptureTypeOK
    <2>3. unsaved' > 0 => ~isOpen'
      BY <1>1, <1>14, <2>1 DEF EndSession, packetVars
    <2> QED BY <1>1, <1>2, <1>14, <2>1, <2>2, <2>3 DEF EndSession, LoopInv, CaptureTypeOK, optVars, packetVars
  <1>15. CASE Interrupt
    BY <1>1, <1>2, <1>3, <1>15 DEF Interrupt, LoopInv, CaptureTypeOK, optVars, packetVars
  <1>16. CASE HeaderKnown
    BY <1>1, <1>2, <1>3, <1>16 DEF HeaderKnown, LoopInv, CaptureTypeOK, optVars, packetVars
  <1>17. CASE Over \/ UNCHANGED captureVars
    <2>1. UNCHANGED vars /\ UNCHANGED loopVars /\ UNCHANGED optVars /\ UNCHANGED packetVars
      BY <1>17 DEF Over, captureVars
    <2> QED BY <1>1, <1>2, <1>3, <2>1 DEF LoopInv, CaptureTypeOK, loopVars, optVars, packetVars
  <1> QED BY <1>5, <1>6, <1>7, <1>8, <1>9, <1>10, <1>11, <1>12, <1>13, <1>14, <1>15, <1>16, <1>17
          DEF CaptureNext

\* Every step keeps the cache empty while the disk has room.
LEMMA DiskInvStep ==
    ASSUME MaxChunk <= CacheStep, LoopInv, DiskInv, [CaptureNext]_captureVars
    PROVE  DiskInv'
  <1>1. /\ IInv /\ CaptureTypeOK /\ used \in Nat /\ hdr \in Nat /\ rx \in Nat /\ pkt \in Nat
        /\ early \in Nat /\ unsaved \in Nat /\ DiskSize \in Nat
        /\ HeaderSize \in Nat /\ HeaderSize \in 1 .. MaxChunk
    BY CaptureAssumption, KfifoAssumption DEF LoopInv, CaptureTypeOK
  <1>2. ASSUME UNCHANGED vars PROVE Used(fifo') = Used(fifo)
    BY <1>2 DEF vars
  <1>3. ASSUME KfifoAlloc \/ KfifoFree PROVE Used(fifo') = 0
    BY <1>1, <1>3, ResetEmpty DEF KfifoAlloc, KfifoFree
  <1>4. ASSUME UNCHANGED <<target, used, hdr, rx, pkt, early, unsaved>>,
               UNCHANGED vars \/ KfifoAlloc \/ KfifoFree
        PROVE  DiskInv'
    BY <1>2, <1>3, <1>4 DEF DiskInv
  <1>5. CASE Iterate \/ ReadFails \/ Interrupt \/ HeaderKnown \/ Rotate
    BY <1>4, <1>5 DEF Iterate, ReadFails, Interrupt, HeaderKnown, Rotate, optVars, packetVars
  <1>6. ASSUME NEW n \in 1 .. MaxChunk, ReadPacket(n) PROVE DiskInv'
    <2>1. n \in Nat /\ pkt = 0
      BY <1>1, <1>6, KfifoAssumption DEF ReadPacket, CaptureTypeOK
    <2> QED BY <1>1, <1>2, <1>6, <2>1 DEF ReadPacket, DiskInv, optVars
  <1>7. CASE CreateLog
    <2>1. Used(fifo') = 0
      BY <1>3, <1>7 DEF CreateLog
    <2>2. CASE qmdl2 /\ header
      <3>1. PICK k \in 0 .. HeaderSize : RawHeader(k)
        BY <1>7, <2>2 DEF CreateLog
      <3>2. k \in Nat
        BY <1>1
      <3>3. hdr' = hdr + HeaderSize
        BY <1>7, <2>2 DEF CreateLog
      <3> QED BY <1>1, <1>7, <2>1, <3>1, <3>2, <3>3 DEF CreateLog, RawHeader, DiskInv, optVars
    <2>3. CASE ~(qmdl2 /\ header)
      BY <1>4, <1>7, <2>3 DEF CreateLog, optVars
    <2> QED BY <2>2, <2>3
  <1>8. CASE CreateFails
    <2>1. unsaved = 0
      BY <1>1, <1>8 DEF CreateFails, LoopInv
    <2> QED BY <1>1, <1>2, <1>8, <2>1 DEF CreateFails, DiskInv, optVars
  <1>9. CASE SaveEarly
    BY <1>1, <1>2, <1>9 DEF SaveEarly, DiskInv, optVars
  <1>10. CASE SaveHeader
    <2> SUFFICES ASSUME target' = "disk", used' < DiskSize
                 PROVE  used' = hdr' + rx' - pkt' - early' - unsaved' /\ Used(fifo') = 0
      BY DEF DiskInv
    <2>1. target = "disk"
      BY <1>10 DEF SaveHeader, optVars
    <2>2. used < DiskSize /\ used' = used + HeaderSize /\ Used(fifo') = 0
      BY <1>1, <1>10, <2>1, WrittenDisk DEF SaveHeader, DiskInv
    <2>3. used = hdr + rx - pkt - early - unsaved
      BY <2>1, <2>2 DEF DiskInv
    <2> QED BY <1>1, <1>10, <2>2, <2>3 DEF SaveHeader
  <1>11. CASE SavePacket
    <2> SUFFICES ASSUME target' = "disk", used' < DiskSize
                 PROVE  used' = hdr' + rx' - pkt' - early' - unsaved' /\ Used(fifo') = 0
      BY DEF DiskInv
    <2>1. target = "disk"
      BY <1>11 DEF SavePacket, optVars
    <2>2. pkt \in 1 .. MaxChunk
      BY <1>1, <1>11, KfifoAssumption DEF SavePacket, CaptureTypeOK
    <2>3. used < DiskSize /\ used' = used + pkt /\ Used(fifo') = 0
      BY <1>1, <1>11, <2>1, <2>2, WrittenDisk DEF SavePacket, DiskInv
    <2>4. used = hdr + rx - pkt - early - unsaved
      BY <2>1, <2>3 DEF DiskInv
    <2> QED BY <1>1, <1>11, <2>3, <2>4 DEF SavePacket
  <1>12. CASE EndSession
    BY <1>4, <1>12 DEF EndSession, optVars, packetVars
  <1>13. CASE Over \/ UNCHANGED captureVars
    <2>1. UNCHANGED vars /\ UNCHANGED loopVars /\ UNCHANGED optVars /\ UNCHANGED packetVars
      BY <1>13 DEF Over, captureVars
    <2> QED BY <1>4, <2>1 DEF loopVars, optVars, packetVars
  <1> QED BY <1>5, <1>6, <1>7, <1>8, <1>9, <1>10, <1>11, <1>12, <1>13 DEF CaptureNext

\* Every step keeps the header first.
LEMMA HeaderInvStep ==
    ASSUME LoopInv, HeaderInv, [CaptureNext]_captureVars
    PROVE  HeaderInv'
  <1>1. CaptureTypeOK
    BY DEF LoopInv
  <1>2. ASSUME UNCHANGED <<qmdl2, headed, miss, file>>, isOpen' => isOpen, pc' = "packet" => pc = "packet"
        PROVE  HeaderInv'
    BY <1>2 DEF HeaderInv
  <1>3. CASE Iterate \/ ReadFails \/ CreateFails \/ SaveEarly \/ Interrupt \/ HeaderKnown
             \/ \E n \in 1 .. MaxChunk : ReadPacket(n)
    BY <1>2, <1>3 DEF Iterate, ReadFails, CreateFails, SaveEarly, Interrupt, HeaderKnown,
                      ReadPacket, optVars, packetVars, vars
  <1>4. CASE CreateLog
    BY <1>1, <1>4 DEF CreateLog, KfifoAlloc, HeaderInv, optVars, CaptureTypeOK
  <1>5. CASE SaveHeader
    <2>1. file = <<>>
      BY <1>1, <1>5 DEF SaveHeader, HeaderInv, CaptureTypeOK
    <2>2. headed' = TRUE /\ miss' = FALSE
      BY <1>5, <2>1, Zenon DEF SaveHeader
    <2> QED BY <2>2 DEF HeaderInv
  <1>6. CASE SavePacket
    <2>1. qmdl2 => headed /\ ~miss
      BY <1>1, <1>6 DEF SavePacket, HeaderInv, CaptureTypeOK
    <2> QED BY <1>6, <2>1 DEF SavePacket, CheckSaved, HeaderInv, optVars
  <1>7. CASE Rotate
    BY <1>2, <1>7 DEF Rotate, KfifoFree, optVars, packetVars
  <1>8. CASE EndSession
    BY <1>2, <1>8 DEF EndSession, KfifoFree, optVars, packetVars, vars
  <1>9. CASE Over \/ UNCHANGED captureVars
    <2>1. UNCHANGED vars /\ UNCHANGED loopVars /\ UNCHANGED optVars /\ UNCHANGED packetVars
      BY <1>9 DEF Over, captureVars
    <2> QED BY <1>2, <2>1 DEF vars, loopVars, optVars, packetVars
  <1> QED BY <1>3, <1>4, <1>5, <1>6, <1>7, <1>8, <1>9 DEF CaptureNext

(***************************************************************************)
(* On a disk with room every byte that was read is in some log, however    *)
(* writes are split and logs rotated (message_handle_mdm, __kfifo_write):  *)
(* closing a log forgets what the cache holds, but then it holds nothing.  *)
(* The packet whose log could not be created and the packets before a      *)
(* qmdl2 header are what is missing.  A packet must fit one growth of the  *)
(* cache, as QLOG_BUF_SIZE does.                                           *)
(***************************************************************************)
THEOREM NothingLost ==
    ASSUME MaxChunk <= CacheStep
    PROVE  CaptureSpec => []AllOnDisk
  <1>1. CaptureInit => LoopInv /\ DiskInv
    BY LoopInvInit
  <1>2. LoopInv /\ DiskInv /\ [CaptureNext]_captureVars => LoopInv' /\ DiskInv'
    BY LoopInvStep, DiskInvStep
  <1>3. LoopInv /\ DiskInv => AllOnDisk
    BY DEF LoopInv, DiskInv, AllOnDisk
  <1> QED BY <1>1, <1>2, <1>3, PTL DEF CaptureSpec

\* A qmdl2 log that holds something begins with the header, whenever the filter
\* thread completes it, on a disk or a connection (mdm_logfile_init and _save).
THEOREM HeadersFirst == CaptureSpec => []HeaderFirst
  <1>1. CaptureInit => LoopInv /\ HeaderInv
    BY LoopInvInit
  <1>2. LoopInv /\ HeaderInv /\ [CaptureNext]_captureVars => LoopInv' /\ HeaderInv'
    BY LoopInvStep, HeaderInvStep
  <1>3. HeaderInv => HeaderFirst
    BY DEF HeaderInv, HeaderFirst
  <1> QED BY <1>1, <1>2, <1>3, PTL DEF CaptureSpec
=============================================================================
