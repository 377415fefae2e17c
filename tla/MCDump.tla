------------------------------- MODULE MCDump --------------------------------
(***************************************************************************)
(* TLC instance of the ram dumps.                                          *)
(***************************************************************************)
EXTENDS Dump

\* An empty table, one segment, several, empty ones among them, a table too
\* large for the buffer, and a segment whose length is a multiple of 2^32.
MCTables == {<<>>, <<3>>, <<2, 1>>, <<0, 1, 0>>, <<0, 0, 0, 0, 0>>, <<3, 8>>}

MCFiles == <<2, 1>>

MCCells == <<[addr |-> 3, len |-> 3], [addr |-> 8, len |-> 2]>>

Entry(t, n) == [type |-> t, size |-> n]

\* Plain regions, one whose requirement holds, one whose first does not.
MCBlueTable ==
    << Entry("region", 3), Entry("skip", 1),
       Entry("region", 1), Entry("require", 0),
       Entry("region", 1), Entry("require", 0), Entry("require", 0) >>
==============================================================================
