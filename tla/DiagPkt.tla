------------------------------- MODULE DiagPkt -------------------------------
(***************************************************************************)
(* The HDLC deframer of diag_pkt.c: diag_pkt_input is given the chunks in  *)
(* which read(2) happens to return the byte stream of the module, removes  *)
(* the 0x7d escapes and calls handle_pkt for every frame ended by 0x7e.    *)
(* It is used with start_7e = 0 for Qualcomm modules (mdm.c) and with      *)
(* start_7e = 1, frames that also begin with 0x7e, for Unisoc ones.        *)
(*                                                                         *)
(* Bytes are named; Xor20 is what ^ 0x20 does to them.                     *)
(***************************************************************************)
EXTENDS Integers, Sequences

CONSTANTS MinLen,       \* min_pkt_len
          MaxLen,       \* max_pkt_len
          Inputs,       \* [start7e, bytes]: the byte streams a module may send
          MaxChunk      \* bound: largest chunk read(2) returns

Esc == "7d"
Flag == "7e"
Bytes == {Esc, Flag, "5d", "5e", "a", "b"}

Xor20 == [b \in Bytes |-> CASE b = "5d" -> Esc  [] b = Esc  -> "5d"
                            [] b = "5e" -> Flag [] b = Flag -> "5e"
                            [] b = "a"  -> "b"  [] b = "b"  -> "a"]

ASSUME DiagPktAssumption ==
    /\ MinLen \in Nat /\ MaxLen \in Nat /\ MinLen <= MaxLen
    /\ Inputs \subseteq [start7e : BOOLEAN, bytes : Seq(Bytes)]
    /\ MaxChunk \in Nat \ {0}

VARIABLES stream,   \* everything the module sends
          pos,      \* number of bytes read so far
          st        \* struct diag_pkt, and the packets handed to handle_pkt

vars == <<stream, pos, st>>

\* start_7e, buf[0 .. pkt_len-1], last_7d, errors, and the packets handled.
Fresh(start) ==
    [start7e |-> start, buf |-> <<>>, last7d |-> FALSE, errors |-> 0, out |-> <<>>]

-----------------------------------------------------------------------------
(* One iteration of the loop.  s is the structure, i the loop counter and  *)
(* p the number of bytes pSrc has advanced: the two differ once an escape  *)
(* outside a frame has been skipped.                                       *)

Outside(s) == s.start7e /\ s.buf = <<>>

Error(s) == [s EXCEPT !.errors = @ + 1]

Put(s, b) == [s EXCEPT !.buf = Append(@, b)]

Escaped(s, b) == IF Outside(s) THEN Error(s) ELSE Put(s, Xor20[b])

\* The flag is missing from the packet.
EndDropsFlag(s) ==
    IF Len(s.buf) + 1 >= MinLen
    THEN [s EXCEPT !.out = Append(@, s.buf), !.buf = <<>>]
    ELSE [s EXCEPT !.buf = <<>>]

\* A 0x7e: the packet is handled, begins, or is too short.
End(s) ==
    LET t == Put(s, Flag)
    IN  IF Len(t.buf) >= MinLen
        THEN [t EXCEPT !.out = Append(@, t.buf), !.buf = <<>>]
        ELSE CASE t.start7e /\ Len(t.buf) = 1 -> t
               [] t.start7e /\ Len(t.buf) = 2 -> [Error(t) EXCEPT !.buf = <<Flag>>]
               [] OTHER                     -> [Error(t) EXCEPT !.buf = <<>>]

Plain(s, b) ==
    LET t == Put(s, b)
    IN  IF Len(t.buf) > MaxLen THEN [Error(t) EXCEPT !.buf = <<>>] ELSE t

\* [s, i, p] after one iteration on chunk c.
Iteration(r, c) ==
    LET b == c[r.p + 1]
    IN  CASE r.i >= Len(c) -> r
          [] r.i < Len(c) /\ b = Esc ->
                IF r.i + 1 = Len(c)
                THEN [s |-> [r.s EXCEPT !.last7d = TRUE], i |-> r.i + 1, p |-> r.p + 1]
                ELSE [s |-> Escaped(r.s, c[r.p + 2]),
                      i |-> r.i + 2,
                      p |-> IF Outside(r.s) THEN r.p + 1 ELSE r.p + 2]
          [] r.i < Len(c) /\ b = Flag ->
                [s |-> End(r.s), i |-> r.i + 1, p |-> r.p + 1]
          [] OTHER ->
                [s |-> IF Outside(r.s) THEN Error(r.s) ELSE Plain(r.s, b),
                 i |-> r.i + 1, p |-> r.p + 1]

Loop(s, c) ==
    LET run[n \in 0 .. Len(c)] ==
            IF n = 0 THEN [s |-> s, i |-> 0, p |-> 0] ELSE Iteration(run[n - 1], c)
    IN  run[Len(c)].s

\* The pending escape of the previous chunk is forgotten.
InputForgets7d(s, c) == Loop([s EXCEPT !.last7d = FALSE], c)

\* The pending escape is applied but stays pending.
InputKeeps7d(s, c) ==
    IF s.last7d THEN Loop(Escaped(s, Head(c)), Tail(c)) ELSE Loop(s, c)

\* diag_pkt_input; no caller passes an empty chunk.
Input(s, c) ==
    IF s.last7d
    THEN Loop([Escaped(s, Head(c)) EXCEPT !.last7d = FALSE], Tail(c))
    ELSE Loop(s, c)

-----------------------------------------------------------------------------
Init ==
    /\ \E input \in Inputs : stream = input.bytes /\ st = Fresh(input.start7e)
    /\ pos = 0

\* read(2) returns k bytes.
Read(k) ==
    /\ pos + k <= Len(stream)
    /\ pos' = pos + k
    /\ st' = Input(st, SubSeq(stream, pos + 1, pos + k))
    /\ UNCHANGED stream

\* The module has nothing more to send.
Quiet == pos = Len(stream) /\ UNCHANGED vars

Next == Quiet \/ \E k \in 1 .. MaxChunk : Read(k)

Spec == Init /\ [][Next]_vars

-----------------------------------------------------------------------------
(* Properties.                                                             *)

\* The structure: a packet handed on ends with its flag and has at least
\* min_pkt_len bytes.
TypeOK ==
    /\ [start7e |-> st.start7e, bytes |-> stream] \in Inputs /\ pos \in 0 .. Len(stream)
    /\ st.buf \in Seq(Bytes) /\ st.last7d \in BOOLEAN /\ st.errors \in Nat
    /\ \A i \in 1 .. Len(st.out) : /\ Len(st.out[i]) >= MinLen
                                   /\ st.out[i][Len(st.out[i])] = Flag

\* Where read(2) cuts the stream does not matter, whatever the stream: the
\* structure and the packets handled are those of a single diag_pkt_input call.
\* Without start_7e only: with it, an escape outside a frame is not skipped.
SplitIndependent ==
    pos > 0 /\ ~st.start7e => st = Input(Fresh(FALSE), SubSeq(stream, 1, pos))

-----------------------------------------------------------------------------
(* Reference: the frames of a well-formed stream.                          *)

Lead(start) == IF start THEN <<Flag>> ELSE <<>>

\* How the module sends a packet body.
Encode(start, body) ==
    LET enc[n \in 0 .. Len(body)] ==
            IF n = 0 THEN <<>>
            ELSE enc[n - 1] \o (IF body[n] \in {Esc, Flag} THEN <<Esc, Xor20[body[n]]>>
                                                           ELSE <<body[n]>>)
    IN  Lead(start) \o enc[Len(body)] \o <<Flag>>

Packet(start, body) == Lead(start) \o body \o <<Flag>>

\* The stream of several packets.
EncodeAll(start, bodies) ==
    LET cat[n \in 0 .. Len(bodies)] ==
            IF n = 0 THEN <<>> ELSE cat[n - 1] \o Encode(start, bodies[n])
    IN  cat[Len(bodies)]

\* The packets whose last byte has been read.
Complete(start, bodies, n) ==
    LET whole == {k \in 0 .. Len(bodies) : Len(EncodeAll(start, SubSeq(bodies, 1, k))) <= n}
        last  == CHOOSE k \in whole : \A j \in whole : j <= k
    IN  [i \in 1 .. last |-> Packet(start, bodies[i])]

\* Framing is exact: when the module sends the packets of bodies, handle_pkt has
\* been called, however the stream was cut, for precisely the packets whose last
\* byte has been read, in order, unescaped, and no error was counted.
Exact(bodies) ==
    stream = EncodeAll(st.start7e, bodies) =>
        st.out = Complete(st.start7e, bodies, pos) /\ st.errors = 0
==============================================================================
