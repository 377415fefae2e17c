---------------------------- MODULE MCCaptureLoop ----------------------------
(* TLC instance of CaptureLoop: two rotations fit on the disk, and the     *)
(* disk is full before the packets end.                                    *)
EXTENDS CaptureLoop
==============================================================================
