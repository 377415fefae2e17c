-------------------------------- MODULE Dump ---------------------------------
(***************************************************************************)
(* The ram dumps together.  The module qlog finds decides which of the     *)
(* four protocols runs (main.c); the others are absent.                    *)
(***************************************************************************)
EXTENDS Sahara, Ymodem, Eigen, UnisocDump

dumpVars == <<saharaVars, ymodemVars, eigenVars, blueVars>>

DumpInit ==
    \/ SaharaInit /\ YmodemAbsent /\ EigenAbsent /\ BlueAbsent
    \/ SaharaAbsent /\ YmodemInit /\ EigenAbsent /\ BlueAbsent
    \/ SaharaAbsent /\ YmodemAbsent /\ EigenInit /\ BlueAbsent
    \/ SaharaAbsent /\ YmodemAbsent /\ EigenAbsent /\ BlueInit

DumpNext ==
    \/ SaharaNext /\ UNCHANGED <<ymodemVars, eigenVars, blueVars>>
    \/ YmodemNext /\ UNCHANGED <<saharaVars, eigenVars, blueVars>>
    \/ EigenNext /\ UNCHANGED <<saharaVars, ymodemVars, blueVars>>
    \/ BlueNext /\ UNCHANGED <<saharaVars, ymodemVars, eigenVars>>

DumpSpec ==
    /\ DumpInit /\ [][DumpNext]_dumpVars
    /\ SaharaFair /\ YmodemFair /\ EigenFair /\ BlueFair

\* The types of the four dumps, among them the largest request of a Sahara dump,
\* which halving never takes to zero, and the cells an Eigen dump has counted.
DumpTypeOK == SaharaTypeOK /\ YmodemTypeOK /\ EigenTypeOK /\ BlueTypeOK

\* Every dump comes to an end, whatever the module answers, loses or delays,
\* as far as each of the four protocols promises it.
DumpsEnd == SaharaEnds /\ YmodemEnds /\ EigenDumpEnds /\ BlueEnds
==============================================================================
