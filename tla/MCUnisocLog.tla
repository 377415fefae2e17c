----------------------------- MODULE MCUnisocLog -----------------------------
(***************************************************************************)
(* TLC instance of UnisocLog: two AT commands, of which the second turns   *)
(* the log on, a crash, and two sessions.                                  *)
(***************************************************************************)
EXTENDS UnisocLog
==============================================================================
