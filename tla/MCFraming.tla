------------------------------ MODULE MCFraming ------------------------------
(***************************************************************************)
(* TLC instance of the two decoders, diag packets (DiagPkt) and SMP        *)
(* packets (Smp); a module sends the one or the other.  Diag: every stream *)
(* of up to six bytes, and the streams of up to three well-formed packets, *)
(* with and without start_7e.  SMP: every stream of up to seven bytes,     *)
(* packets that overrun the buffer among them.                             *)
(***************************************************************************)
EXTENDS DiagPkt, Smp, SequencesExt

AnyStream == UNION {[1 .. n -> {Esc, Flag, "5e", "a"}] : n \in 0 .. 6}

Bodies == SeqOf({Esc, Flag, "5d", "a"}, 3) \ SeqOf({Esc, Flag, "5d", "a"}, 1)

SomeBodies == {<<Esc, Flag>>, <<"a", Flag, "5d">>, <<"5d", Esc>>, <<"a", "5e", Esc>>}

BodyLists == {<<b>> : b \in Bodies} \cup {<<b, c>> : b \in SomeBodies, c \in SomeBodies}
                \cup {<<b, c, b>> : b \in SomeBodies, c \in SomeBodies}

FrameInputs == {[start7e |-> b, bytes |-> EncodeAll(b, l)] : b \in BOOLEAN, l \in BodyLists}

MCInputs == FrameInputs \cup [start7e : {FALSE}, bytes : AnyStream]

SmpAnyStream == UNION {[1 .. n -> {StartByte, DataByte, h(2), h(6)}] : n \in 1 .. 7}

FramingInit ==
    \/ Init /\ SmpAbsent
    \/ Init /\ stream = <<>> /\ SmpInit

FramingNext ==
    \/ Next /\ UNCHANGED smpVars
    \/ SmpNext /\ UNCHANGED vars

FramingSpec == FramingInit /\ [][FramingNext]_<<vars, smpVars>>

\* diag_pkt_input hands on exactly the packets a module encoded: Exact for each
\* list of packets.
Framing == stream # <<>> => \A l \in BodyLists : Exact(l)

\* The types of both decoders, and what the SMP decoder keeps fits its buffer.
FramingTypeOK == TypeOK /\ SmpFits
==============================================================================
