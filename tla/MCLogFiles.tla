------------------------------ MODULE MCLogFiles -----------------------------
(***************************************************************************)
(* TLC instance of LogFiles, each log with a second file: a ring of two    *)
(* (-n) that wraps twice, with dumps between the sessions and creations    *)
(* that fail; compression (-C) into a directory that holds three units, so *)
(* that compress threads run while room is made; and the two cases in      *)
(* which the queue may name what is gone.                                  *)
(***************************************************************************)
EXTENDS LogFiles

TwoParts == {1, 2}

Ring == [num |-> 2, maxDir |-> 0, limit |-> 2, openMayFail |-> TRUE,
         logs |-> 4, threads |-> 4, dumps |-> 2, sessions |-> 3]

Compression == [num |-> 0, maxDir |-> 3, limit |-> 1, openMayFail |-> FALSE,
                logs |-> 3, threads |-> 2, dumps |-> 0, sessions |-> 1]

\* After a restart, with a dump and creations that fail.
Restarted == [num |-> 0, maxDir |-> 2, limit |-> 1, openMayFail |-> TRUE,
              logs |-> 2, threads |-> 2, dumps |-> 1, sessions |-> 2]

RingAndCompression == [num |-> 1, maxDir |-> 3, limit |-> 1, openMayFail |-> FALSE,
                       logs |-> 3, threads |-> 2, dumps |-> 0, sessions |-> 1]

MCOptions == {Ring, Compression, Restarted, RingAndCompression}
==============================================================================
