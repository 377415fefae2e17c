----------------------------- MODULE MCFtpServer -----------------------------
(***************************************************************************)
(* TLC instance of qftp_server: the listening process with its sessions as *)
(* counts, or one session in detail with a client that sends anything.     *)
(* The listening process does not look into a session, nor a session at    *)
(* the listening process, so that the two are checked side by side.        *)
(***************************************************************************)
EXTENDS FtpSession, FtpListener

FtpServerInit ==
    \/ SessionInit /\ ListenerAbsent
    \/ SessionAbsent /\ ListenerInit

FtpServerNext ==
    \/ SessionNext /\ UNCHANGED listenerVars
    \/ ListenerNext /\ UNCHANGED sessionVars

FtpServerSpec ==
    FtpServerInit /\ [][FtpServerNext]_<<sessionVars, listenerVars>> /\ ServerFair
==============================================================================
