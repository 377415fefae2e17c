----------------------------- MODULE MCQshrink4 ------------------------------
(***************************************************************************)
(* TLC instance of Qshrink4: a hash file with a short last block, and one  *)
(* of exactly one full block.                                              *)
(***************************************************************************)
EXTENDS Qshrink4

HashFiles == <<5, 2>>
==============================================================================
