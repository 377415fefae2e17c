----------------------------- MODULE LossyStream -----------------------------
(***************************************************************************)
(* What a cached log descriptor promises its callers, without any buffer:  *)
(* every chunk handed to it is either kept whole or lost whole, kept bytes *)
(* reach the file in the order they were offered and without duplicates,   *)
(* and closing the descriptor forgets what has not reached the file yet.   *)
(*                                                                         *)
(* Bytes are identified by the position at which they were offered, so a   *)
(* chunk of n bytes is the run seen+1 .. seen+n.                           *)
(***************************************************************************)
EXTENDS Integers, Sequences

CONSTANTS MaxChunk,    \* largest chunk one call may carry
          MaxBytes     \* bound on the bytes ever offered

VARIABLES isOpen,      \* the descriptor is open
          file,        \* bytes that reached the file, in order
          pending,     \* bytes kept but not yet in the file
          seen         \* number of bytes offered so far

vars == <<isOpen, file, pending, seen>>

Run(first, n) == [i \in 1 .. n |-> first + i - 1]

Extends(s, t) == Len(s) <= Len(t) /\ \A i \in 1 .. Len(s) : s[i] = t[i]

Init ==
    /\ isOpen = FALSE
    /\ file = <<>>
    /\ pending = <<>>
    /\ seen = 0

Open ==
    /\ ~isOpen
    /\ isOpen' = TRUE
    /\ file' = <<>>
    /\ pending' = <<>>
    /\ UNCHANGED seen

Close ==
    /\ isOpen
    /\ isOpen' = FALSE
    /\ pending' = <<>>
    /\ UNCHANGED <<file, seen>>

\* Some prefix of what is owed moves on to the file.
Offer(n) ==
    /\ isOpen
    /\ seen + n <= MaxBytes
    /\ seen' = seen + n
    /\ Extends(file, file')
    /\ \/ file' \o pending' = file \o pending \o Run(seen + 1, n)
       \/ file' \o pending' = file \o pending
    /\ UNCHANGED isOpen

Next ==
    \/ Open
    \/ Close
    \/ \E n \in 1 .. MaxChunk : Offer(n)

Spec == Init /\ [][Next]_vars
==============================================================================
