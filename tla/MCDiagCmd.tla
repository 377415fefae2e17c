------------------------------ MODULE MCDiagCmd ------------------------------
(***************************************************************************)
(* TLC instance of DiagCmd: a script with one flagged query and a filter   *)
(* of several commands in one mdm_send_cmd call.                           *)
(***************************************************************************)
EXTENDS DiagCmd

MCCodes == {"75", "7d"}

MCKinds == {"id"}

AllBuilds == BOOLEAN

CancelOnly == {FALSE}

TwoSessions == [b \in CancelOnly |-> 2]

TwoForBoth == [b \in BOOLEAN |-> 2]

ShortScript == << [kind |-> "id", codes |-> <<"75">>],
                  [kind |-> Plain, codes |-> <<"7d", "75">>] >>

\* One command more than the timeouts that end a call (retry_time > 3).
LongScript == << [kind |-> "id", codes |-> <<"75">>],
                 [kind |-> Plain, codes |-> <<"7d", "75", "7d", "75", "7d">>] >>
==============================================================================
