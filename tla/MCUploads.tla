------------------------------ MODULE MCUploads ------------------------------
(***************************************************************************)
(* TLC instance of the uploads: two log files of up to two blocks to a     *)
(* session of qftp_server, or one log of several blocks to a tftp server,  *)
(* long enough for the block numbers to wrap.                              *)
(***************************************************************************)
EXTENDS FtpClient, Tftp

UploadsInit ==
    \/ ClientInit /\ TftpAbsent
    \/ ClientAbsent /\ TftpInit

UploadsNext ==
    \/ ClientNext /\ UNCHANGED tftpVars
    \/ TftpNext /\ UNCHANGED clientVars

UploadsSpec ==
    UploadsInit /\ [][UploadsNext]_<<clientVars, tftpVars>> /\ ClientFair /\ TftpFair

\* Nobody waits for ever: qlog for the answer of the ftp server, one process of a
\* session for the other that has ended, the tftp thread for an acknowledgement.
UploadsEnd == NeverStuck /\ EndTogether /\ TftpEnds
==============================================================================
