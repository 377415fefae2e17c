------------------------------- MODULE MCKfifo -------------------------------
(***************************************************************************)
(* TLC instance of Kfifo: a cache of at most two growth steps and chunks   *)
(* up to the size of a step, so that partial writes, compaction, both      *)
(* growths, the full cache and the exact-fit boundary are all reached.     *)
(***************************************************************************)
EXTENDS Kfifo
==============================================================================
