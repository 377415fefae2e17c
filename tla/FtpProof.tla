------------------------------- MODULE FtpProof ------------------------------
(***************************************************************************)
(* Proofs about qftp_server and the upload to it: its listening process,   *)
(* for every set of addresses and of process numbers, every limit and      *)
(* every number of connections; a session with a client that sends         *)
(* anything; and a session with qlog's own client, both for every number   *)
(* of files, commands, blocks and failures.                                *)
(***************************************************************************)
EXTENDS FtpListener, FtpClient, FiniteSetTheorems, SequenceTheorems, TLAPS

-----------------------------------------------------------------------------
(* The listening process *)

\* The processes that handle_sigchld has not taken yet.
Live == {p \in FtpPids : child[p] # "none"}

\* The connection accepted is counted in s_children, its process not forked.
Awaited == lpc \in {"lookup", "store", "fork"}

\* The types of all variables; an address and a process are set while they are
\* used.
ListenerTyped ==
    /\ ListenerTypeOK
    /\ lip \in FtpIps \cup {0} /\ (lpc \in {"inc", "lookup", "store", "fork", "add"} => lip \in FtpIps)
    /\ lpc = "add" => lpid \in FtpPids
    /\ lread \in Nat /\ num_this_ip \in Nat
    /\ limits \in [FtpPids -> Nat \X Nat] /\ accepts \in 0 .. FtpAccepts

\* No count is above the number of connections; one that is under way is in
\* accepts before it is in the counts.
Bounded ==
    /\ s_children <= accepts /\ (lpc = "inc" => s_children < accepts /\ lread < accepts)
    /\ \A i \in FtpIps : ipCount[i] <= accepts
    /\ lpc \in {"inc", "lookup", "store"} => \A i \in FtpIps : ipCount[i] < accepts
    /\ lpc = "store" => lread < accepts

\* s_children is never below the processes there are: the handler's decrement
\* may be lost, an increment may not.
CountedAll ==
    /\ IsFiniteSet(Live) /\ Cardinality(Live) <= s_children
    /\ lpc = "inc" => Cardinality(Live) <= lread
    /\ Awaited => Cardinality(Live) + 1 <= s_children /\ Cardinality(Live) + 1 <= num_clients

\* Of any processes there are, the one forked last has copied a count of at
\* least as many.
LastKnows ==
    \A S \in SUBSET Live : S # {} => \E q \in S : Cardinality(S) <= limits[q][1]

\* check_limits let it pass.
Passed ==
    MaxClients > 0 => \A p \in FtpPids : child[p] = "serving" => limits[p][1] <= MaxClients

ListenerIInv == ListenerTyped /\ Bounded /\ CountedAll /\ LastKnows /\ Passed

-----------------------------------------------------------------------------
(* The processes.                                                          *)

\* Steps that neither fork nor take a process leave the sets of them alone.
LEMMA ChildSame ==
    ASSUME ListenerIInv, UNCHANGED <<child, limits>>
    PROVE  Live' = Live /\ LastKnows' /\ Passed'
  <1>1. Live' = Live
    BY DEF Live
  <1> QED BY <1>1 DEF ListenerIInv, LastKnows, Passed

\* The number of processes is a natural number.
LEMMA LiveCount ==
    ASSUME ListenerIInv
    PROVE  Cardinality(Live) \in Nat
  BY FS_CardinalityType DEF ListenerIInv, CountedAll

-----------------------------------------------------------------------------
(* The loop of the listening process.                                      *)

\* Accept: nothing but the loop's own variables changes.
LEMMA AcceptStep == ListenerIInv /\ Accept => ListenerIInv'
  <1> SUFFICES ASSUME ListenerIInv, Accept PROVE ListenerIInv'
    OBVIOUS
  <1>1. Live' = Live /\ LastKnows' /\ Passed'
    BY ChildSame DEF Accept
  <1>2. ListenerTyped'
    BY ListenerAssumption DEF ListenerIInv, ListenerTyped, ListenerTypeOK, Accept
  <1>3. Bounded'
    BY DEF ListenerIInv, ListenerTyped, ListenerTypeOK, Bounded, Accept
  <1>4. CountedAll'
    BY <1>1, LiveCount DEF ListenerIInv, CountedAll, Awaited, Accept
  <1> QED BY <1>1, <1>2, <1>3, <1>4 DEF ListenerIInv

\* The increment writes back what was read, whatever the handler did meanwhile.
LEMMA CountsStep == ListenerIInv /\ Counts => ListenerIInv'
  <1> SUFFICES ASSUME ListenerIInv, Counts PROVE ListenerIInv'
    OBVIOUS
  <1>1. Live' = Live /\ LastKnows' /\ Passed'
    BY ChildSame DEF Counts
  <1>2. ListenerTyped'
    BY ListenerAssumption DEF ListenerIInv, ListenerTyped, Bounded, ListenerTypeOK, Counts
  <1>3. Bounded'
    BY DEF ListenerIInv, ListenerTyped, ListenerTypeOK, Bounded, Counts
  <1>4. CountedAll'
    BY <1>1, LiveCount DEF ListenerIInv, ListenerTyped, CountedAll, Awaited, Counts
  <1> QED BY <1>1, <1>2, <1>3, <1>4 DEF ListenerIInv

LEMMA LookupStep == ListenerIInv /\ Lookup => ListenerIInv'
  <1> SUFFICES ASSUME ListenerIInv, Lookup PROVE ListenerIInv'
    OBVIOUS
  <1>1. Live' = Live /\ LastKnows' /\ Passed'
    BY ChildSame DEF Lookup
  <1>2. ListenerTyped'
    BY ListenerAssumption DEF ListenerIInv, ListenerTyped, ListenerTypeOK, Lookup
  <1>3. Bounded'
    BY DEF ListenerIInv, ListenerTyped, ListenerTypeOK, Bounded, Lookup
  <1>4. CountedAll'
    BY <1>1, LiveCount DEF ListenerIInv, CountedAll, Awaited, Lookup
  <1> QED BY <1>1, <1>2, <1>3, <1>4 DEF ListenerIInv

\* The count of an address, also when the handler has freed its entry.
LEMMA IpCountStep == ListenerIInv /\ handle_ip_count => ListenerIInv'
  <1> SUFFICES ASSUME ListenerIInv, handle_ip_count PROVE ListenerIInv'
    OBVIOUS
  <1>1. Live' = Live /\ LastKnows' /\ Passed'
    BY ChildSame DEF handle_ip_count
  <1>2. lip \in FtpIps /\ lread + 1 <= accepts /\ lread + 1 \in 0 .. FtpAccepts
    BY ListenerAssumption DEF ListenerIInv, ListenerTyped, Bounded, handle_ip_count
  <1>3. ListenerTyped'
    BY <1>2, ListenerAssumption DEF ListenerIInv, ListenerTyped, ListenerTypeOK, handle_ip_count
  <1>4. Bounded'
    BY <1>2 DEF ListenerIInv, ListenerTyped, ListenerTypeOK, Bounded, handle_ip_count
  <1>5. CountedAll'
    BY <1>1, LiveCount DEF ListenerIInv, CountedAll, Awaited, handle_ip_count
  <1> QED BY <1>1, <1>3, <1>4, <1>5 DEF ListenerIInv

\* The new process copies a count of at least all processes, itself included.
LEMMA ForkStep == ListenerIInv /\ Fork => ListenerIInv'
  <1> SUFFICES ASSUME ListenerIInv, Fork PROVE ListenerIInv'
    OBVIOUS
  <1>1. PICK p \in FtpPids :
            /\ child[p] = "none" /\ lpid' = p /\ child' = [child EXCEPT ![p] = "new"]
            /\ limits' = [limits EXCEPT ![p] = <<num_clients, num_this_ip>>]
    BY DEF Fork
  <1>2. child \in [FtpPids -> {"none", "new", "serving", "zombie"}] /\ limits \in [FtpPids -> Nat \X Nat]
    BY DEF ListenerIInv, ListenerTyped, ListenerTypeOK
  <1>3. Live' = Live \cup {p} /\ p \notin Live
    BY <1>1, <1>2 DEF Live
  <1>4. IsFiniteSet(Live') /\ Cardinality(Live') = Cardinality(Live) + 1
    BY <1>3, FS_AddElement DEF ListenerIInv, CountedAll
  <1>5. limits'[p][1] = num_clients /\ \A q \in FtpPids : q # p => limits'[q] = limits[q] /\ child'[q] = child[q]
    BY <1>1, <1>2
  <1>6. ListenerTyped'
    BY <1>1, <1>2, ListenerAssumption DEF ListenerIInv, ListenerTyped, ListenerTypeOK, Fork
  <1>7. Bounded'
    BY DEF ListenerIInv, ListenerTyped, ListenerTypeOK, Bounded, Fork
  <1>8. Cardinality(Live) + 1 <= s_children /\ Cardinality(Live) + 1 <= num_clients
    BY DEF ListenerIInv, CountedAll, Awaited, Fork
  <1>9. CountedAll'
    BY <1>4, <1>8 DEF CountedAll, Awaited, Fork
  <1>10. LastKnows'
    <2> SUFFICES ASSUME NEW S \in SUBSET Live', S # {}
                 PROVE  \E q \in S : Cardinality(S) <= limits'[q][1]
      BY DEF LastKnows
    <2>1. CASE p \in S
      <3>1. Cardinality(S) <= Cardinality(Live')
        BY <1>4, FS_Subset
      <3>2. Cardinality(S) \in Nat /\ num_clients \in Nat
        BY <1>4, FS_Subset, FS_CardinalityType, ListenerAssumption DEF ListenerIInv, ListenerTyped, ListenerTypeOK
      <3> QED BY <2>1, <3>1, <3>2, <1>4, <1>5, <1>8, LiveCount
    <2>2. CASE p \notin S
      <3>1. S \in SUBSET Live
        BY <2>2, <1>3
      <3>2. PICK q \in S : Cardinality(S) <= limits[q][1]
        BY <3>1 DEF ListenerIInv, LastKnows
      <3>3. q # p /\ q \in FtpPids
        BY <2>2, <3>1 DEF Live
      <3> QED BY <3>2, <3>3, <1>5
    <2> QED BY <2>1, <2>2
  <1>11. Passed'
    BY <1>1, <1>2, <1>5 DEF ListenerIInv, Passed
  <1> QED BY <1>6, <1>7, <1>9, <1>10, <1>11 DEF ListenerIInv

LEMMA FailsStep == ListenerIInv /\ ListenerFails => ListenerIInv'
  <1> SUFFICES ASSUME ListenerIInv, ListenerFails PROVE ListenerIInv'
    OBVIOUS
  <1>1. Live' = Live /\ LastKnows' /\ Passed'
    BY ChildSame DEF ListenerFails
  <1>2. ListenerTyped'
    BY DEF ListenerIInv, ListenerTyped, ListenerTypeOK, ListenerFails
  <1>3. Bounded'
    BY DEF ListenerIInv, Bounded, ListenerFails
  <1>4. CountedAll'
    BY <1>1 DEF ListenerIInv, CountedAll, Awaited, ListenerFails
  <1> QED BY <1>1, <1>2, <1>3, <1>4 DEF ListenerIInv

LEMMA AddStep == ListenerIInv /\ AddEntry => ListenerIInv'
  <1> SUFFICES ASSUME ListenerIInv, AddEntry PROVE ListenerIInv'
    OBVIOUS
  <1>1. Live' = Live /\ LastKnows' /\ Passed'
    BY ChildSame DEF AddEntry
  <1>2. ListenerTyped'
    BY DEF ListenerIInv, ListenerTyped, ListenerTypeOK, AddEntry
  <1>3. Bounded'
    BY DEF ListenerIInv, Bounded, AddEntry
  <1>4. CountedAll'
    BY <1>1 DEF ListenerIInv, CountedAll, Awaited, AddEntry
  <1> QED BY <1>1, <1>2, <1>3, <1>4 DEF ListenerIInv

-----------------------------------------------------------------------------
(* The sessions and the handler.                                           *)

\* A process that only changes its own state, and stays there.
LEMMA ChildMoves ==
    ASSUME ListenerIInv, NEW p \in FtpPids, NEW c \in {"serving", "zombie"},
           child[p] # "none", child' = [child EXCEPT ![p] = c],
           UNCHANGED <<lpc, lip, lpid, lread, s_children, num_clients, num_this_ip, ipCount, pidIp, limits,
                       accepts>>
    PROVE  ListenerTyped' /\ Bounded' /\ CountedAll' /\ LastKnows'
  <1>1. child \in [FtpPids -> {"none", "new", "serving", "zombie"}]
    BY DEF ListenerIInv, ListenerTyped, ListenerTypeOK
  <1>2. Live' = Live
    BY <1>1 DEF Live
  <1>3. ListenerTyped'
    BY <1>1 DEF ListenerIInv, ListenerTyped, ListenerTypeOK
  <1>4. Bounded'
    BY DEF ListenerIInv, Bounded
  <1>5. CountedAll' /\ LastKnows'
    BY <1>2 DEF ListenerIInv, CountedAll, Awaited, LastKnows
  <1> QED BY <1>3, <1>4, <1>5

LEMMA LimitsStep == ASSUME NEW p \in FtpPids PROVE ListenerIInv /\ check_limits(p) => ListenerIInv'
  <1> SUFFICES ASSUME ListenerIInv, check_limits(p) PROVE ListenerIInv'
    OBVIOUS
  <1> DEFINE over == \/ MaxClients > 0 /\ limits[p][1] > MaxClients
                     \/ MaxPerIp > 0 /\ limits[p][2] > MaxPerIp
  <1>1. child \in [FtpPids -> {"none", "new", "serving", "zombie"}] /\ limits \in [FtpPids -> Nat \X Nat]
    BY DEF ListenerIInv, ListenerTyped, ListenerTypeOK
  <1>2. PICK c \in {"serving", "zombie"} : child' = [child EXCEPT ![p] = c] /\ (c = "serving" => ~over)
    <2>1. CASE over
      BY <2>1 DEF check_limits
    <2>2. CASE ~over
      BY <2>2 DEF check_limits
    <2> QED BY <2>1, <2>2
  <1>3. ListenerTyped' /\ Bounded' /\ CountedAll' /\ LastKnows'
    BY <1>2, ChildMoves DEF check_limits
  <1>4. Passed'
    BY <1>1, <1>2, ListenerAssumption DEF ListenerIInv, Passed, check_limits
  <1> QED BY <1>3, <1>4 DEF ListenerIInv

LEMMA EndsStep == ASSUME NEW p \in FtpPids PROVE ListenerIInv /\ SessionEnds(p) => ListenerIInv'
  <1> SUFFICES ASSUME ListenerIInv, SessionEnds(p) PROVE ListenerIInv'
    OBVIOUS
  <1>1. child \in [FtpPids -> {"none", "new", "serving", "zombie"}]
    BY DEF ListenerIInv, ListenerTyped, ListenerTypeOK
  <1>2. ListenerTyped' /\ Bounded' /\ CountedAll' /\ LastKnows'
    BY ChildMoves DEF SessionEnds
  <1>3. Passed'
    BY <1>1 DEF ListenerIInv, Passed, SessionEnds
  <1> QED BY <1>2, <1>3 DEF ListenerIInv

\* Taking back a count never raises one, nor takes one below 0.
LEMMA DropCounts ==
    ASSUME NEW counts \in [FtpIps -> 0 .. FtpAccepts], NEW ip \in FtpIps \cup {0}
    PROVE  LET after == drop_ip_count(counts, ip)
           IN  after \in [FtpIps -> 0 .. FtpAccepts] /\ \A i \in FtpIps : after[i] <= counts[i]
  <1> DEFINE after == drop_ip_count(counts, ip)
  <1>1. \A i \in FtpIps : counts[i] \in Int /\ counts[i] >= 0 /\ counts[i] <= FtpAccepts
    BY ListenerAssumption
  <1>2. CASE ip = 0 \/ counts[ip] = 0
    BY <1>1, <1>2 DEF drop_ip_count
  <1>3. CASE ip # 0 /\ counts[ip] # 0
    <2>1. ip \in FtpIps /\ counts[ip] - 1 \in 0 .. FtpAccepts
      BY <1>1, <1>3, ListenerAssumption
    <2>2. after = [counts EXCEPT ![ip] = counts[ip] - 1]
      BY <1>3 DEF drop_ip_count
    <2>3. after \in [FtpIps -> 0 .. FtpAccepts]
      BY <2>1, <2>2
    <2>4. \A i \in FtpIps : after[i] <= counts[i]
      BY <1>1, <2>1, <2>2
    <2> QED BY <2>3, <2>4
  <1> QED BY <1>2, <1>3

\* A turn of handle_sigchld's loop, between any two steps of the others.
LEMMA SigchldStep == ListenerIInv /\ handle_sigchld => ListenerIInv'
  <1> SUFFICES ASSUME ListenerIInv, handle_sigchld PROVE ListenerIInv'
    OBVIOUS
  <1>1. PICK p \in FtpPids :
            /\ child[p] = "zombie" /\ child' = [child EXCEPT ![p] = "none"]
            /\ limits' = [limits EXCEPT ![p] = <<0, 0>>]
            /\ ipCount' = drop_ip_count(ipCount, pidIp[p]) /\ pidIp' = [pidIp EXCEPT ![p] = 0]
    BY DEF handle_sigchld
  <1>2. child \in [FtpPids -> {"none", "new", "serving", "zombie"}] /\ limits \in [FtpPids -> Nat \X Nat]
    BY DEF ListenerIInv, ListenerTyped, ListenerTypeOK
  <1>3. Live' = Live \ {p} /\ p \in Live
    BY <1>1, <1>2 DEF Live
  <1>4. IsFiniteSet(Live') /\ Cardinality(Live') = Cardinality(Live) - 1
    BY <1>3, FS_RemoveElement DEF ListenerIInv, CountedAll
  <1>5. Cardinality(Live) \in Nat /\ Cardinality(Live') \in Nat
    BY <1>4, LiveCount, FS_CardinalityType
  <1>6. \A q \in FtpPids : q # p => limits'[q] = limits[q] /\ child'[q] = child[q]
    BY <1>1, <1>2
  <1>7. ipCount' \in [FtpIps -> 0 .. FtpAccepts] /\ \A i \in FtpIps : ipCount'[i] <= ipCount[i]
    BY <1>1, DropCounts DEF ListenerIInv, ListenerTyped, ListenerTypeOK
  <1>8. ListenerTyped'
    <2>1. s_children' \in 0 .. FtpAccepts
      BY <1>4, <1>5, ListenerAssumption DEF ListenerIInv, ListenerTyped, ListenerTypeOK, CountedAll, handle_sigchld
    <2> QED BY <2>1, <1>1, <1>2, <1>7 DEF ListenerIInv, ListenerTyped, ListenerTypeOK, handle_sigchld
  <1>9. Bounded'
    <2>1. \A i \in FtpIps : ipCount[i] \in Nat /\ ipCount'[i] \in Nat
      BY <1>7, ListenerAssumption DEF ListenerIInv, ListenerTyped, ListenerTypeOK
    <2> QED BY <2>1, <1>7, ListenerAssumption DEF ListenerIInv, ListenerTyped, ListenerTypeOK, Bounded, handle_sigchld
  <1>10. CountedAll'
    BY <1>4, <1>5, ListenerAssumption DEF ListenerIInv, ListenerTyped, ListenerTypeOK, CountedAll, Awaited, handle_sigchld
  <1>11. LastKnows'
    <2> SUFFICES ASSUME NEW S \in SUBSET Live', S # {}
                 PROVE  \E q \in S : Cardinality(S) <= limits'[q][1]
      BY DEF LastKnows
    <2>1. S \in SUBSET Live /\ p \notin S
      BY <1>3
    <2>2. PICK q \in S : Cardinality(S) <= limits[q][1]
      BY <2>1 DEF ListenerIInv, LastKnows
    <2> QED BY <2>1, <2>2, <1>6 DEF Live
  <1>12. Passed'
    BY <1>1, <1>2, <1>6 DEF ListenerIInv, Passed
  <1> QED BY <1>8, <1>9, <1>10, <1>11, <1>12 DEF ListenerIInv

-----------------------------------------------------------------------------
(* The theorems.                                                           *)

LEMMA ListenerInitially == ListenerInit => ListenerIInv
  <1> SUFFICES ASSUME ListenerInit PROVE ListenerIInv
    OBVIOUS
  <1>1. Live = {}
    BY DEF ListenerInit, ListenerFresh, Live
  <1>2. ListenerTyped /\ Bounded
    BY ListenerAssumption DEF ListenerInit, ListenerFresh, ListenerTyped, ListenerTypeOK, Bounded
  <1>3. CountedAll
    BY <1>1, FS_EmptySet DEF ListenerInit, ListenerFresh, CountedAll, Awaited
  <1>4. LastKnows /\ Passed
    BY <1>1 DEF ListenerInit, ListenerFresh, LastKnows, Passed
  <1> QED BY <1>2, <1>3, <1>4 DEF ListenerIInv

LEMMA ListenerStep == ListenerIInv /\ [ListenerNext]_listenerVars => ListenerIInv'
  <1> SUFFICES ASSUME ListenerIInv, [ListenerNext]_listenerVars PROVE ListenerIInv'
    OBVIOUS
  <1>1. CASE Accept
    BY <1>1, AcceptStep
  <1>2. CASE Counts
    BY <1>2, CountsStep
  <1>3. CASE Lookup
    BY <1>3, LookupStep
  <1>4. CASE handle_ip_count
    BY <1>4, IpCountStep
  <1>5. CASE Fork
    BY <1>5, ForkStep
  <1>6. CASE ListenerFails
    BY <1>6, FailsStep
  <1>7. CASE AddEntry
    BY <1>7, AddStep
  <1>8. CASE handle_sigchld
    BY <1>8, SigchldStep
  <1>9. ASSUME NEW p \in FtpPids, check_limits(p) \/ SessionEnds(p) PROVE ListenerIInv'
    BY <1>9, LimitsStep, EndsStep
  <1>10. CASE UNCHANGED listenerVars
    <2>1. Live' = Live /\ LastKnows' /\ Passed'
      BY <1>10, ChildSame DEF listenerVars
    <2>2. ListenerTyped' /\ Bounded'
      BY <1>10 DEF ListenerIInv, ListenerTyped, ListenerTypeOK, Bounded, listenerVars
    <2>3. CountedAll'
      BY <1>10, <2>1 DEF ListenerIInv, CountedAll, Awaited, listenerVars
    <2> QED BY <2>1, <2>2, <2>3 DEF ListenerIInv
  <1> QED BY <1>1, <1>2, <1>3, <1>4, <1>5, <1>6, <1>7, <1>8, <1>9, <1>10 DEF ListenerNext

\* The processes served are some of those there are; the last one forked of
\* them has copied at least their number and passed check_limits.
LEMMA IInvImplies == ListenerIInv => ListenerInv
  <1> SUFFICES ASSUME ListenerIInv PROVE ListenerInv
    OBVIOUS
  <1> DEFINE S == {p \in FtpPids : child[p] = "serving"}
  <1>1. ASSUME MaxClients > 0 PROVE Cardinality(S) <= MaxClients
    <2>1. CASE S = {}
      BY <2>1, <1>1, FS_EmptySet, ListenerAssumption
    <2>2. CASE S # {}
      <3>1. S \in SUBSET Live
        BY DEF Live
      <3>2. PICK q \in S : Cardinality(S) <= limits[q][1]
        BY <2>2, <3>1 DEF ListenerIInv, LastKnows
      <3>3. limits[q][1] <= MaxClients /\ limits[q][1] \in Nat
        BY <1>1 DEF ListenerIInv, Passed, ListenerTyped
      <3>4. Cardinality(S) \in Nat
        BY <3>1, FS_Subset, FS_CardinalityType DEF ListenerIInv, CountedAll
      <3> QED BY <3>2, <3>3, <3>4, ListenerAssumption
    <2> QED BY <2>1, <2>2
  <1> QED BY <1>1 DEF ListenerIInv, ListenerTyped, ListenerInv, ClientLimit

\* Wherever SIGCHLD interrupts the listening process of qftp_server, the counts
\* stay in their ranges and never more than max_clients sessions are served.
THEOREM ListenerCorrect == ListenerSpec => []ListenerInv
  <1>1. ListenerInit => ListenerIInv
    BY ListenerInitially
  <1>2. ListenerIInv /\ [ListenerNext]_listenerVars => ListenerIInv'
    BY ListenerStep
  <1>3. ListenerIInv => ListenerInv
    BY IInvImplies
  <1> QED BY <1>1, <1>2, <1>3, PTL DEF ListenerSpec

-----------------------------------------------------------------------------
(* A session *)

\* A reply: its code, and the command, or the alarm, it answers.
Replies == Nat \X ({c[1] : c \in AnyCommands} \cup {"greet", "cmd", "data"})

Transfers == {"up", "down", "spin"}

Asking == {"pasv", "query", "connect", "accept"}

Flags ==
    /\ port \in BOOLEAN /\ rnfr \in BOOLEAN /\ armed \in BOOLEAN /\ abor \in BOOLEAN
    /\ urg \in BOOLEAN /\ process \in BOOLEAN /\ moved \in BOOLEAN /\ expired \in BOOLEAN
    /\ copen \in BOOLEAN /\ dfin \in BOOLEAN

\* A command that is handled has come from the client; the line of an urgent
\* one is there when its signal is.
Typed ==
    /\ spc \in {"idle", "pasv", "query", "connect", "accept", "up", "down", "spin", "end"}
    /\ cmd \in AnyCommands \cup {None} /\ (spc \in Transfers \cup Asking => cmd \in AnyCommands)
    /\ restart \in {0, 1} /\ dataFd \in {"none", "open", "stale"} /\ alarm \in {"cmd", "data"}
    /\ npc \in {"serve", "end"} /\ ports \in Nat /\ pasvFd \in 0 .. ports /\ pos \in Nat
    /\ ask \in {"none", "ACTIVE", "LISTEN", "ACCEPT", "GETSOCK"}
    /\ ans \in {"none", "yes", "no", "port", "ok", "bad"}
    /\ dsock \in {"none", "queued", "open", "shut"} /\ ftpFaults \in 0 .. FtpFaults
    /\ disk \in [1 .. FtpNames -> Seq(Nat)]
    /\ cin \in Seq(AnyCommands) /\ (urg => cin # <<>>) /\ cout \in Seq(Replies)

\* Nobody listens while a transfer runs or its connection is being made, so that
\* the client cannot replace the connection.
NotListening ==
    spc # "end" =>
      /\ spc \in Transfers \cup {"connect"} => pasvFd = 0
      /\ spc = "accept" /\ ask = "none" => pasvFd = 0
      /\ spc = "accept" => ask # "GETSOCK"
      /\ spc = "connect" => ask # "ACCEPT"
      /\ spc = "query" /\ ans = "no" => pasvFd = 0

\* What has not been read is the end of what the client sent; all of it, as long
\* as the connection has not been taken into use.
Unread ==
    /\ dq \in Seq(Nat) /\ dsent \in Seq(Nat) /\ Len(dq) <= Len(dsent)
    /\ \A j \in 1 .. Len(dq) : dq[j] = dsent[Len(dsent) - Len(dq) + j]
    /\ dsock = "queued" => dq = dsent
    /\ spc # "end" /\ ans = "ok" => dq = dsent /\ dsock # "queued"
    /\ spc = "up" => dsock # "queued"

\* What has been read is in the file, up to the offset of the transfer.
Written ==
    spc = "up" =>
      LET n == Len(dsent) - Len(dq)
          file == disk[cmd[2]]
      IN  n <= pos /\ \A i \in 1 .. n : pos - n + i <= Len(file) /\ file[pos - n + i] = dsent[i]

IInv == Flags /\ Typed /\ PrivInStep /\ NotListening /\ Unread /\ Written

-----------------------------------------------------------------------------
(* Commands and replies.                                                   *)

\* The commands of the client.
LEMMA CommandFacts ==
    ASSUME NEW c \in AnyCommands
    PROVE  c[2] = 1 /\ c[2] \in 1 .. FtpNames /\ \A n \in Nat : <<n, c[1]>> \in Replies
  <1>1. c[2] = 1
    BY DEF AnyCommands
  <1>2. 1 \in 1 .. FtpNames
    BY FtpAssumption
  <1>3. c[1] \in {d[1] : d \in AnyCommands}
    OBVIOUS
  <1>4. ASSUME NEW n \in Nat PROVE <<n, c[1]>> \in Replies
    BY <1>3 DEF Replies
  <1> QED BY <1>1, <1>2, <1>4

\* Replies to a command stay replies.
LEMMA ReplyFacts ==
    ASSUME NEW out \in Seq(Replies), NEW codes \in Seq(Nat), NEW c \in AnyCommands
    PROVE  out \o [i \in DOMAIN codes |-> <<codes[i], c[1]>>] \in Seq(Replies)
  <1> DEFINE r == [i \in DOMAIN codes |-> <<codes[i], c[1]>>]
  <1>1. Len(codes) \in Nat /\ DOMAIN codes = 1 .. Len(codes) /\ \A i \in DOMAIN codes : codes[i] \in Nat
    OBVIOUS
  <1>2. \A i \in DOMAIN codes : <<codes[i], c[1]>> \in Replies
    BY <1>1, CommandFacts
  <1>3. r \in [1 .. Len(codes) -> Replies]
    BY <1>1, <1>2
  <1> HIDE DEF r
  <1>4. r \in Seq(Replies)
    BY <1>1, <1>3
  <1>5. out \o r \in Seq(Replies)
    BY <1>4
  <1> QED BY <1>5 DEF r

\* Codes that are replied.
LEMMA Codes ==
    /\ <<>> \in Seq(Nat)
    /\ \A a \in Nat : <<a>> \in Seq(Nat)
    /\ \A a, b \in Nat : <<a, b>> \in Seq(Nat)
  <1>1. <<>> \in Seq(Nat)
    BY EmptySeq
  <1>2. ASSUME NEW a \in Nat PROVE <<a>> \in Seq(Nat)
    OBVIOUS
  <1>3. ASSUME NEW a \in Nat, NEW b \in Nat PROVE <<a, b>> \in Seq(Nat)
    OBVIOUS
  <1> QED BY <1>1, <1>2, <1>3

\* The codes of the commands that leave the session as it is.
LEMMA PlainCodes ==
    ASSUME NEW v \in DOMAIN Plain, NEW codes \in Plain[v]
    PROVE  codes \in Seq(Nat)
  <1>1. v \in {"USER", "TYPE", "ABOR", "other"}
    BY DEF Plain
  <1>2. codes \in do_user \cup do_type \cup {<<225>>} \cup do_cwd \cup do_cdup \cup do_pwd \cup do_mkd
                    \cup do_rmd \cup do_dele \cup do_site \cup do_site_chmod \cup do_site_umask
                    \cup do_size \cup do_feat \cup do_stat \cup do_help \cup do_fixed
    <2>1. CASE v = "USER"
      BY <2>1 DEF Plain
    <2>2. CASE v = "TYPE"
      BY <2>2 DEF Plain
    <2>3. CASE v = "ABOR"
      BY <2>3 DEF Plain
    <2>4. CASE v = "other"
      BY <2>4 DEF Plain
    <2> QED BY <1>1, <2>1, <2>2, <2>3, <2>4
  <1>3. \/ codes = <<>>
        \/ \E a \in Nat : codes = <<a>>
        \/ \E a, b \in Nat : codes = <<a, b>>
    BY <1>2 DEF do_user, do_type, do_cwd, do_cdup, do_pwd, do_mkd, do_rmd, do_dele, do_site, do_site_chmod,
       do_site_umask, do_size, do_feat, do_stat, do_help, do_fixed
  <1> QED BY <1>3, Codes

\* Answering the line that is read.
LEMMA AnswersType ==
    ASSUME Typed, Receives, NEW codes \in Seq(Nat), Answers(codes)
    PROVE  cout' \in Seq(Replies)
  <1>1. Head(cin) \in AnyCommands /\ cout \in Seq(Replies)
    BY DEF Typed, Receives
  <1>2. cout \o [i \in DOMAIN codes |-> <<codes[i], Head(cin)[1]>>] \in Seq(Replies)
    BY <1>1, ReplyFacts
  <1> QED BY <1>2 DEF Answers

\* Answering the command that is handled.
LEMMA ReplyType ==
    ASSUME Typed, spc \in Transfers \cup Asking, NEW codes \in Seq(Nat), ftp_relply(codes)
    PROVE  cout' \in Seq(Replies)
  <1>1. cmd \in AnyCommands /\ cout \in Seq(Replies)
    BY DEF Typed
  <1>2. cout \o [i \in DOMAIN codes |-> <<codes[i], cmd[1]>>] \in Seq(Replies)
    BY <1>1, ReplyFacts
  <1> QED BY <1>2 DEF ftp_relply

\* The replies at the end of a transfer.
LEMMA EndsType ==
    ASSUME Flags, Typed, spc \in Transfers, NEW flag \in {0, 1, 2}, TransferEnds(flag)
    PROVE  cout' \in Seq(Replies)
  <1> DEFINE c1 == CASE flag = 0 /\ ~abor -> <<226>> [] flag = 0 /\ abor -> <<>>
                     [] flag = 1 -> <<451>> [] flag = 2 -> <<426>>
             c2 == IF abor THEN <<226>> ELSE <<>>
  <1>1. c1 \in Seq(Nat)
    <2>1. <<226>> \in Seq(Nat) /\ <<451>> \in Seq(Nat) /\ <<426>> \in Seq(Nat) /\ <<>> \in Seq(Nat)
      BY Codes
    <2>2. CASE flag = 0 /\ ~abor
      BY <2>1, <2>2
    <2>3. CASE flag = 0 /\ abor
      BY <2>1, <2>3
    <2>4. CASE flag = 1
      BY <2>1, <2>4
    <2>5. CASE flag = 2
      BY <2>1, <2>5
    <2> QED BY <2>2, <2>3, <2>4, <2>5
  <1>2. c2 \in Seq(Nat)
    BY Codes
  <1>3. ftp_relply(c1 \o c2)
    BY DEF TransferEnds
  <1> HIDE DEF c1, c2
  <1>4. c1 \o c2 \in Seq(Nat)
    BY <1>1, <1>2
  <1> QED BY <1>3, <1>4, ReplyType

-----------------------------------------------------------------------------
(* Blocks.                                                                 *)

\* File w is file s after block b has been written at an offset.
IsWritten(w, s, at, b) ==
    /\ Len(w) = (IF Len(s) > at THEN Len(s) ELSE at + 1) /\ w[at + 1] = b
    /\ \A i \in 1 .. Len(s) : i # at + 1 => w[i] = s[i]

\* Writing a block into a file.
LEMMA WriteAtFacts ==
    ASSUME NEW s \in Seq(Nat), NEW at \in Nat, NEW b \in Nat
    PROVE  WriteAt(s, at, b) \in Seq(Nat) /\ IsWritten(WriteAt(s, at, b), s, at, b)
  <1> DEFINE n == IF Len(s) > at THEN Len(s) ELSE at + 1
             w == [i \in 1 .. n |-> IF i = at + 1 THEN b ELSE IF i <= Len(s) THEN s[i] ELSE 0]
  <1>1. n \in Nat /\ Len(s) \in Nat /\ Len(s) <= n /\ at + 1 \in 1 .. n
    OBVIOUS
  <1> HIDE DEF n
  <1>2. \A i \in 1 .. Len(s) : s[i] \in Nat
    OBVIOUS
  <1>3. w \in [1 .. n -> Nat]
    BY <1>1, <1>2
  <1>4. w \in Seq(Nat) /\ Len(w) = n
    BY <1>1, <1>3
  <1>5. w[at + 1] = b /\ \A i \in 1 .. Len(s) : i # at + 1 => w[i] = s[i]
    BY <1>1
  <1>6. w = WriteAt(s, at, b)
    BY DEF WriteAt, n
  <1> HIDE DEF w
  <1> QED BY <1>4, <1>5, <1>6 DEF n, IsWritten

\* One block is read: the rest is still the end of what was sent.
LEMMA Read ==
    ASSUME NEW s \in Seq(Nat), NEW q \in Seq(Nat), q # <<>>, Len(q) <= Len(s),
           \A j \in 1 .. Len(q) : q[j] = s[Len(s) - Len(q) + j]
    PROVE  /\ Tail(q) \in Seq(Nat) /\ Len(Tail(q)) = Len(q) - 1 /\ Len(Tail(q)) <= Len(s)
           /\ \A j \in 1 .. Len(Tail(q)) : Tail(q)[j] = s[Len(s) - Len(Tail(q)) + j]
           /\ Head(q) \in Nat /\ Head(q) = s[Len(s) - Len(q) + 1]
  <1>1. /\ Len(q) \in Nat /\ Len(q) >= 1 /\ Len(s) \in Nat
        /\ Tail(q) \in Seq(Nat) /\ Len(Tail(q)) = Len(q) - 1
        /\ Head(q) = q[1] /\ Head(q) \in Nat
    OBVIOUS
  <1>2. \A j \in 1 .. Len(q) - 1 : Tail(q)[j] = q[j + 1]
    OBVIOUS
  <1>3. ASSUME NEW j \in 1 .. Len(Tail(q)) PROVE Tail(q)[j] = s[Len(s) - Len(Tail(q)) + j]
    <2>1. /\ j \in 1 .. Len(q) - 1 /\ j + 1 \in 1 .. Len(q)
          /\ Len(s) - Len(q) + (j + 1) = Len(s) - Len(Tail(q)) + j
      BY <1>1
    <2>2. q[j + 1] = s[Len(s) - Len(q) + (j + 1)]
      BY <2>1
    <2> QED BY <1>2, <2>1, <2>2
  <1>4. Head(q) = s[Len(s) - Len(q) + 1]
    <2>1. 1 \in 1 .. Len(q)
      BY <1>1
    <2>2. q[1] = s[Len(s) - Len(q) + 1]
      BY <2>1, Zenon
    <2> QED BY <1>1, <2>2, Zenon
  <1>5. Len(Tail(q)) <= Len(s)
    BY <1>1
  <1> QED BY <1>1, <1>3, <1>4, <1>5, Zenon

\* One block is sent.
LEMMA Sent ==
    ASSUME NEW s \in Seq(Nat), NEW q \in Seq(Nat), NEW b \in Nat, Len(q) <= Len(s),
           \A j \in 1 .. Len(q) : q[j] = s[Len(s) - Len(q) + j]
    PROVE  /\ Append(q, b) \in Seq(Nat) /\ Append(s, b) \in Seq(Nat)
           /\ Len(Append(q, b)) = Len(q) + 1 /\ Len(Append(s, b)) = Len(s) + 1
           /\ \A i \in 1 .. Len(s) : Append(s, b)[i] = s[i]
           /\ \A j \in 1 .. Len(q) + 1 : Append(q, b)[j] = Append(s, b)[Len(s) - Len(q) + j]
  <1>1. /\ Len(q) \in Nat /\ Len(s) \in Nat
        /\ Append(q, b) \in Seq(Nat) /\ Append(s, b) \in Seq(Nat)
        /\ Len(Append(q, b)) = Len(q) + 1 /\ Len(Append(s, b)) = Len(s) + 1
        /\ \A i \in 1 .. Len(s) : Append(s, b)[i] = s[i]
        /\ \A i \in 1 .. Len(q) : Append(q, b)[i] = q[i]
        /\ Append(s, b)[Len(s) + 1] = b /\ Append(q, b)[Len(q) + 1] = b
    OBVIOUS
  <1>2. ASSUME NEW j \in 1 .. Len(q) + 1
        PROVE  Append(q, b)[j] = Append(s, b)[Len(s) - Len(q) + j]
    <2>1. CASE j = Len(q) + 1
      <3>1. Len(s) - Len(q) + j = Len(s) + 1
        BY <1>1, <2>1
      <3> QED BY <1>1, <2>1, <3>1
    <2>2. CASE j \in 1 .. Len(q)
      <3>1. Len(s) - Len(q) + j \in 1 .. Len(s)
        BY <1>1, <2>2
      <3>2. q[j] = s[Len(s) - Len(q) + j]
        BY <2>2, Zenon
      <3> QED BY <1>1, <2>2, <3>1, <3>2, Zenon
    <2>3. j = Len(q) + 1 \/ j \in 1 .. Len(q)
      BY <1>1
    <2> QED BY <2>1, <2>2, <2>3
  <1> QED BY <1>1, <1>2

-----------------------------------------------------------------------------
(* Commands.                                                               *)

\* A command that leaves the session as it is.
LEMMA PlainCommandStep ==
    ASSUME IInv, PlainCommand
    PROVE  IInv'
  <1>1. cout' \in Seq(Replies)
    <2>1. PICK v \in DOMAIN Plain : Receives /\ \E codes \in Plain[v] : Answers(codes)
      BY DEF PlainCommand, Line
    <2>2. \A codes \in Plain[v] : codes \in Seq(Nat)
      BY PlainCodes
    <2> QED BY <2>1, <2>2, AnswersType DEF IInv
  <1>2. Flags'
    BY Zenon DEF IInv, Flags, PlainCommand, Line, Receives, Runs, Answers, KeptByPlain, service,
       nobody, control, data
  <1>3. Typed'
    BY <1>1, FtpAssumption DEF IInv, Typed, Transfers, Asking, PlainCommand, Line, Receives, Runs,
       KeptByPlain, service, nobody, control, data
  <1>4. PrivInStep'
    BY DEF IInv, PrivInStep, Typed, PlainCommand, Line, Receives, Runs, Answers, KeptByPlain,
       service, nobody, control, data
  <1>5. NotListening'
    BY DEF IInv, NotListening, Typed, PrivInStep, Transfers, PlainCommand, Line, Receives, Runs,
       Answers, KeptByPlain, service, nobody, control, data
  <1>6. Unread'
    BY DEF IInv, Unread, Typed, PrivInStep, NotListening, Transfers, PlainCommand, Line, Receives,
       Runs, Answers, KeptByPlain, service, nobody, control, data
  <1>7. Written'
    BY DEF IInv, Written, Typed, PrivInStep, NotListening, Unread, Transfers, PlainCommand, Line,
       Receives, Runs, Answers, KeptByPlain, service, nobody, control, data
  <1> QED BY <1>2, <1>3, <1>4, <1>5, <1>6, <1>7 DEF IInv

\* A login.
LEMMA do_passStep ==
    ASSUME IInv, do_pass
    PROVE  IInv'
  <1>1. cout' \in Seq(Replies)
    <2>1. Receives /\ \E codes \in {<<530>>, <<230>>, <<>>} : Answers(codes)
      BY DEF do_pass, Line
    <2>2. \A codes \in {<<530>>, <<230>>, <<>>} : codes \in Seq(Nat)
      <3> TAKE codes \in {<<530>>, <<230>>, <<>>}
      <3>1. codes = <<>> \/ \E a \in Nat : codes = <<a>>
        OBVIOUS
      <3> QED BY <3>1, Codes, ZenonT(60)
    <2> QED BY <2>1, <2>2, AnswersType DEF IInv
  <1>2. Flags'
    BY Zenon DEF IInv, Flags, do_pass, Line, Receives, Runs, Answers, KeptByPlain, service,
       nobody, control, data
  <1>3. Typed'
    BY <1>1, FtpAssumption DEF IInv, Typed, Transfers, Asking, do_pass, Line, Receives, Runs,
       KeptByPlain, service, nobody, control, data
  <1>4. PrivInStep'
    BY DEF IInv, PrivInStep, Typed, do_pass, Line, Receives, Runs, Answers, KeptByPlain, service,
       nobody, control, data
  <1>5. NotListening'
    BY DEF IInv, NotListening, Typed, PrivInStep, Transfers, do_pass, Line, Receives, Runs,
       Answers, KeptByPlain, service, nobody, control, data
  <1>6. Unread'
    BY DEF IInv, Unread, Typed, PrivInStep, NotListening, Transfers, do_pass, Line, Receives,
       Runs, Answers, KeptByPlain, service, nobody, control, data
  <1>7. Written'
    BY DEF IInv, Written, Typed, PrivInStep, NotListening, Unread, Transfers, do_pass, Line,
       Receives, Runs, Answers, KeptByPlain, service, nobody, control, data
  <1> QED BY <1>2, <1>3, <1>4, <1>5, <1>6, <1>7 DEF IInv

\* The service process cannot become the user.
LEMMA PassFailsStep ==
    ASSUME IInv, PassFails
    PROVE  IInv'
  <1>1. Flags'
    BY Zenon DEF IInv, Flags, PassFails, FtpFault, Line, Receives, Runs, Exits, service, nobody,
       control, data
  <1>2. Typed'
    BY FtpAssumption DEF IInv, Typed, Transfers, Asking, PassFails, FtpFault, Line, Receives,
       Runs, Exits, service, nobody, control, data
  <1>3. PrivInStep'
    BY DEF IInv, PrivInStep, Typed, PassFails, FtpFault, Line, Receives, Runs, Exits, service,
       nobody, control, data
  <1>4. NotListening'
    BY DEF IInv, NotListening, Typed, PrivInStep, Transfers, PassFails, FtpFault, Line, Receives,
       Runs, Exits, service, nobody, control, data
  <1>5. Unread'
    BY DEF IInv, Unread, Typed, PrivInStep, NotListening, Transfers, PassFails, FtpFault, Line,
       Receives, Runs, Exits, service, nobody, control, data
  <1>6. Written'
    BY DEF IInv, Written, Typed, PrivInStep, NotListening, Unread, Transfers, PassFails, FtpFault,
       Line, Receives, Runs, Exits, service, nobody, control, data
  <1> QED BY <1>1, <1>2, <1>3, <1>4, <1>5, <1>6 DEF IInv

\* The client will listen.
LEMMA do_portStep ==
    ASSUME IInv, do_port
    PROVE  IInv'
  <1>1. cout' \in Seq(Replies)
    <2>1. Receives /\ \E codes \in {<<200>>} : Answers(codes)
      BY DEF do_port, Line
    <2>2. \A codes \in {<<200>>} : codes \in Seq(Nat)
      <3>1. 200 \in Nat
        OBVIOUS
      <3>2. <<200>> \in Seq(Nat)
        BY <3>1, Codes, Zenon
      <3> QED BY <3>2, Zenon
    <2> QED BY <2>1, <2>2, AnswersType DEF IInv
  <1>2. Flags'
    BY Zenon DEF IInv, Flags, do_port, Line, Receives, Runs, Answers, KeptByPlain, service,
       nobody, control, data
  <1>3. Typed'
    BY <1>1, FtpAssumption DEF IInv, Typed, Transfers, Asking, do_port, Line, Receives, Runs,
       KeptByPlain, service, nobody, control, data
  <1>4. PrivInStep'
    BY DEF IInv, PrivInStep, Typed, do_port, Line, Receives, Runs, Answers, KeptByPlain, service,
       nobody, control, data
  <1>5. NotListening'
    BY DEF IInv, NotListening, Typed, PrivInStep, Transfers, do_port, Line, Receives, Runs,
       Answers, KeptByPlain, service, nobody, control, data
  <1>6. Unread'
    BY DEF IInv, Unread, Typed, PrivInStep, NotListening, Transfers, do_port, Line, Receives,
       Runs, Answers, KeptByPlain, service, nobody, control, data
  <1>7. Written'
    BY DEF IInv, Written, Typed, PrivInStep, NotListening, Unread, Transfers, do_port, Line,
       Receives, Runs, Answers, KeptByPlain, service, nobody, control, data
  <1> QED BY <1>2, <1>3, <1>4, <1>5, <1>6, <1>7 DEF IInv

\* The next transfer begins further on.
LEMMA do_restStep ==
    ASSUME IInv, do_rest
    PROVE  IInv'
  <1>1. cout' \in Seq(Replies)
    <2>1. Receives /\ \E codes \in {<<350>>} : Answers(codes)
      BY DEF do_rest, Line
    <2>2. \A codes \in {<<350>>} : codes \in Seq(Nat)
      <3>1. 350 \in Nat
        OBVIOUS
      <3>2. <<350>> \in Seq(Nat)
        BY <3>1, Codes, Zenon
      <3> QED BY <3>2, Zenon
    <2> QED BY <2>1, <2>2, AnswersType DEF IInv
  <1>2. Flags'
    BY Zenon DEF IInv, Flags, do_rest, Line, Receives, Runs, Answers, KeptByPlain, service,
       nobody, control, data
  <1>3. Typed'
    BY <1>1, FtpAssumption DEF IInv, Typed, Transfers, Asking, do_rest, Line, Receives, Runs,
       KeptByPlain, service, nobody, control, data
  <1>4. PrivInStep'
    BY DEF IInv, PrivInStep, Typed, do_rest, Line, Receives, Runs, Answers, KeptByPlain, service,
       nobody, control, data
  <1>5. NotListening'
    BY DEF IInv, NotListening, Typed, PrivInStep, Transfers, do_rest, Line, Receives, Runs,
       Answers, KeptByPlain, service, nobody, control, data
  <1>6. Unread'
    BY DEF IInv, Unread, Typed, PrivInStep, NotListening, Transfers, do_rest, Line, Receives,
       Runs, Answers, KeptByPlain, service, nobody, control, data
  <1>7. Written'
    BY DEF IInv, Written, Typed, PrivInStep, NotListening, Unread, Transfers, do_rest, Line,
       Receives, Runs, Answers, KeptByPlain, service, nobody, control, data
  <1> QED BY <1>2, <1>3, <1>4, <1>5, <1>6, <1>7 DEF IInv

\* The old name of a file.
LEMMA do_rnfrStep ==
    ASSUME IInv, do_rnfr
    PROVE  IInv'
  <1>1. cout' \in Seq(Replies)
    <2>1. Receives /\ \E codes \in {<<350>>} : Answers(codes)
      BY DEF do_rnfr, Line
    <2>2. \A codes \in {<<350>>} : codes \in Seq(Nat)
      <3>1. 350 \in Nat
        OBVIOUS
      <3>2. <<350>> \in Seq(Nat)
        BY <3>1, Codes, Zenon
      <3> QED BY <3>2, Zenon
    <2> QED BY <2>1, <2>2, AnswersType DEF IInv
  <1>2. Flags'
    BY Zenon DEF IInv, Flags, do_rnfr, Line, Receives, Runs, Answers, KeptByPlain, service,
       nobody, control, data
  <1>3. Typed'
    BY <1>1, FtpAssumption DEF IInv, Typed, Transfers, Asking, do_rnfr, Line, Receives, Runs,
       KeptByPlain, service, nobody, control, data
  <1>4. PrivInStep'
    BY DEF IInv, PrivInStep, Typed, do_rnfr, Line, Receives, Runs, Answers, KeptByPlain, service,
       nobody, control, data
  <1>5. NotListening'
    BY DEF IInv, NotListening, Typed, PrivInStep, Transfers, do_rnfr, Line, Receives, Runs,
       Answers, KeptByPlain, service, nobody, control, data
  <1>6. Unread'
    BY DEF IInv, Unread, Typed, PrivInStep, NotListening, Transfers, do_rnfr, Line, Receives,
       Runs, Answers, KeptByPlain, service, nobody, control, data
  <1>7. Written'
    BY DEF IInv, Written, Typed, PrivInStep, NotListening, Unread, Transfers, do_rnfr, Line,
       Receives, Runs, Answers, KeptByPlain, service, nobody, control, data
  <1> QED BY <1>2, <1>3, <1>4, <1>5, <1>6, <1>7 DEF IInv

\* Its new name.
LEMMA do_rntoStep ==
    ASSUME IInv, do_rnto
    PROVE  IInv'
  <1>1. cout' \in Seq(Replies)
    <2>1. Receives /\ \E codes \in {<<550>>, <<250>>, <<503>>} : Answers(codes)
      BY DEF do_rnto, Line
    <2>2. \A codes \in {<<550>>, <<250>>, <<503>>} : codes \in Seq(Nat)
      <3> TAKE codes \in {<<550>>, <<250>>, <<503>>}
      <3>1. codes = <<>> \/ \E a \in Nat : codes = <<a>>
        OBVIOUS
      <3> QED BY <3>1, Codes, ZenonT(60)
    <2> QED BY <2>1, <2>2, AnswersType, ZenonT(60) DEF IInv
  <1>2. Flags'
    BY Zenon DEF IInv, Flags, do_rnto, Line, Receives, Runs, Answers, KeptByPlain, service,
       nobody, control, data
  <1>3. Typed'
    BY <1>1, FtpAssumption DEF IInv, Typed, Transfers, Asking, do_rnto, Line, Receives, Runs,
       KeptByPlain, service, nobody, control, data
  <1>4. PrivInStep'
    BY DEF IInv, PrivInStep, Typed, do_rnto, Line, Receives, Runs, Answers, KeptByPlain, service,
       nobody, control, data
  <1>5. NotListening'
    BY DEF IInv, NotListening, Typed, PrivInStep, Transfers, do_rnto, Line, Receives, Runs,
       Answers, KeptByPlain, service, nobody, control, data
  <1>6. Unread'
    BY DEF IInv, Unread, Typed, PrivInStep, NotListening, Transfers, do_rnto, Line, Receives,
       Runs, Answers, KeptByPlain, service, nobody, control, data
  <1>7. Written'
    BY DEF IInv, Written, Typed, PrivInStep, NotListening, Unread, Transfers, do_rnto, Line,
       Receives, Runs, Answers, KeptByPlain, service, nobody, control, data
  <1> QED BY <1>2, <1>3, <1>4, <1>5, <1>6, <1>7 DEF IInv

\* The end of the session.
LEMMA do_quitStep ==
    ASSUME IInv, do_quit
    PROVE  IInv'
  <1>1. cout' \in Seq(Replies)
    <2>1. Receives /\ \E codes \in {<<221>>} : Answers(codes)
      BY DEF do_quit, Line
    <2>2. \A codes \in {<<221>>} : codes \in Seq(Nat)
      <3>1. 221 \in Nat
        OBVIOUS
      <3>2. <<221>> \in Seq(Nat)
        BY <3>1, Codes, Zenon
      <3> QED BY <3>2, Zenon
    <2> QED BY <2>1, <2>2, AnswersType DEF IInv
  <1>2. Flags'
    BY Zenon DEF IInv, Flags, do_quit, Line, Receives, Runs, Answers, Exits, service, nobody,
       control, data
  <1>3. Typed'
    BY <1>1, FtpAssumption DEF IInv, Typed, Transfers, Asking, do_quit, Line, Receives, Runs,
       Exits, service, nobody, control, data
  <1>4. PrivInStep'
    BY DEF IInv, PrivInStep, Typed, do_quit, Line, Receives, Runs, Answers, Exits, service,
       nobody, control, data
  <1>5. NotListening'
    BY DEF IInv, NotListening, Typed, PrivInStep, Transfers, do_quit, Line, Receives, Runs,
       Answers, Exits, service, nobody, control, data
  <1>6. Unread'
    BY DEF IInv, Unread, Typed, PrivInStep, NotListening, Transfers, do_quit, Line, Receives,
       Runs, Answers, Exits, service, nobody, control, data
  <1>7. Written'
    BY DEF IInv, Written, Typed, PrivInStep, NotListening, Unread, Transfers, do_quit, Line,
       Receives, Runs, Answers, Exits, service, nobody, control, data
  <1> QED BY <1>2, <1>3, <1>4, <1>5, <1>6, <1>7 DEF IInv

\* The client has closed the control connection.
LEMMA ClientGoneStep ==
    ASSUME IInv, ClientGone
    PROVE  IInv'
  <1>1. Flags'
    BY Zenon DEF IInv, Flags, ClientGone, Runs, Exits, service, nobody, control, data
  <1>2. Typed'
    BY DEF IInv, Typed, Transfers, Asking, ClientGone, Runs, Exits, service, nobody, control, data
  <1>3. PrivInStep'
    BY DEF IInv, PrivInStep, Typed, ClientGone, Runs, Exits, service, nobody, control, data
  <1>4. NotListening'
    BY DEF IInv, NotListening, Typed, PrivInStep, Transfers, ClientGone, Runs, Exits, service,
       nobody, control, data
  <1>5. Unread'
    BY DEF IInv, Unread, Typed, PrivInStep, NotListening, Transfers, ClientGone, Runs, Exits,
       service, nobody, control, data
  <1>6. Written'
    BY DEF IInv, Written, Typed, PrivInStep, NotListening, Unread, Transfers, ClientGone, Runs,
       Exits, service, nobody, control, data
  <1> QED BY <1>1, <1>2, <1>3, <1>4, <1>5, <1>6 DEF IInv

\* A port is asked for.
LEMMA do_pasvStep ==
    ASSUME IInv, do_pasv
    PROVE  IInv'
  <1>1. Flags'
    BY Zenon DEF IInv, Flags, do_pasv, Line, Receives, Runs, Asks, Exits, KeptByAsk, service,
       nobody, control, data
  <1>2. Typed'
    BY DEF IInv, Typed, Transfers, Asking, do_pasv, Line, Receives, Runs, Asks, Exits, KeptByAsk,
       service, nobody, control, data
  <1>3. PrivInStep'
    BY DEF IInv, PrivInStep, Typed, do_pasv, Line, Receives, Runs, Asks, Exits, KeptByAsk,
       service, nobody, control, data
  <1>4. NotListening'
    BY DEF IInv, NotListening, Typed, PrivInStep, Transfers, do_pasv, Line, Receives, Runs, Asks,
       Exits, KeptByAsk, service, nobody, control, data
  <1>5. Unread'
    BY DEF IInv, Unread, Typed, PrivInStep, NotListening, Transfers, do_pasv, Line, Receives,
       Runs, Asks, Exits, KeptByAsk, service, nobody, control, data
  <1>6. Written'
    BY DEF IInv, Written, Typed, PrivInStep, NotListening, Unread, Transfers, do_pasv, Line,
       Receives, Runs, Asks, Exits, KeptByAsk, service, nobody, control, data
  <1> QED BY <1>1, <1>2, <1>3, <1>4, <1>5, <1>6 DEF IInv

\* A connection is asked for.
LEMMA TransferCommandStep ==
    ASSUME IInv, TransferCommand
    PROVE  IInv'
  <1>1. Flags'
    BY Zenon DEF IInv, Flags, TransferCommand, Line, Receives, Runs, Asks, Exits, KeptByAsk,
       service, nobody, control, data
  <1>2. Typed'
    BY DEF IInv, Typed, Transfers, Asking, TransferCommand, Line, Receives, Runs, Asks, Exits,
       KeptByAsk, service, nobody, control, data
  <1>3. PrivInStep'
    BY DEF IInv, PrivInStep, Typed, TransferCommand, Line, Receives, Runs, Asks, Exits, KeptByAsk,
       service, nobody, control, data
  <1>4. NotListening'
    BY DEF IInv, NotListening, Typed, PrivInStep, Transfers, TransferCommand, Line, Receives,
       Runs, Asks, Exits, KeptByAsk, service, nobody, control, data
  <1>5. Unread'
    BY DEF IInv, Unread, Typed, PrivInStep, NotListening, Transfers, TransferCommand, Line,
       Receives, Runs, Asks, Exits, KeptByAsk, service, nobody, control, data
  <1>6. Written'
    BY DEF IInv, Written, Typed, PrivInStep, NotListening, Unread, Transfers, TransferCommand,
       Line, Receives, Runs, Asks, Exits, KeptByAsk, service, nobody, control, data
  <1> QED BY <1>1, <1>2, <1>3, <1>4, <1>5, <1>6 DEF IInv

-----------------------------------------------------------------------------
(* Answers of the nobody process.                                          *)

\* The port is there.
LEMMA PasvReplyStep ==
    ASSUME IInv, PasvReply
    PROVE  IInv'
  <1>1. cout' \in Seq(Replies)
    <2>1. spc \in Transfers \cup Asking /\ \E codes \in {<<227>>} : ftp_relply(codes)
      BY DEF PasvReply,  Transfers, Asking
    <2>2. \A codes \in {<<227>>} : codes \in Seq(Nat)
      <3>1. 227 \in Nat
        OBVIOUS
      <3>2. <<227>> \in Seq(Nat)
        BY <3>1, Codes, Zenon
      <3> QED BY <3>2, Zenon
    <2> QED BY <2>1, <2>2, ReplyType DEF IInv
  <1>2. Flags'
    BY Zenon DEF IInv, Flags, PasvReply, Takes, Runs, ftp_relply, KeptByAsk, service, nobody,
       control, data
  <1>3. Typed'
    BY <1>1, FtpAssumption DEF IInv, Typed, Transfers, Asking, PasvReply, Takes, Runs, KeptByAsk,
       service, nobody, control, data
  <1>4. PrivInStep'
    BY DEF IInv, PrivInStep, Typed, PasvReply, Takes, Runs, ftp_relply, KeptByAsk, service,
       nobody, control, data
  <1>5. NotListening'
    BY DEF IInv, NotListening, Typed, PrivInStep, Transfers, PasvReply, Takes, Runs, ftp_relply,
       KeptByAsk, service, nobody, control, data
  <1>6. Unread'
    BY DEF IInv, Unread, Typed, PrivInStep, NotListening, Transfers, PasvReply, Takes, Runs,
       ftp_relply, KeptByAsk, service, nobody, control, data
  <1>7. Written'
    BY DEF IInv, Written, Typed, PrivInStep, NotListening, Unread, Transfers, PasvReply, Takes,
       Runs, ftp_relply, KeptByAsk, service, nobody, control, data
  <1> QED BY <1>2, <1>3, <1>4, <1>5, <1>6, <1>7 DEF IInv

\* How to connect is known.
LEMMA QueriedStep ==
    ASSUME IInv, Queried
    PROVE  IInv'
  <1>1. cout' \in Seq(Replies)
    <2>1. spc \in Transfers \cup Asking /\ (cout' = cout \/ ftp_relply(<<425>>))
      BY DEF Queried, Transfers, Asking
    <2>2. <<425>> \in Seq(Nat)
      BY Codes
    <2>3. cout \in Seq(Replies)
      BY DEF IInv, Typed
    <2> QED BY <2>1, <2>2, <2>3, ReplyType DEF IInv
  <1>2. Flags'
    BY Zenon DEF IInv, Flags, Queried, Takes, Runs, Asks, Exits, ftp_relply, KeptByAsk, service,
       nobody, control, data
  <1>3. Typed'
    BY <1>1, FtpAssumption DEF IInv, Typed, Transfers, Asking, Queried, Takes, Runs, Asks, Exits,
       KeptByAsk, service, nobody, control, data
  <1>4. PrivInStep'
    BY DEF IInv, PrivInStep, Typed, Queried, Takes, Runs, Asks, Exits, ftp_relply, KeptByAsk,
       service, nobody, control, data
  <1>5. NotListening'
    BY DEF IInv, NotListening, Typed, PrivInStep, Transfers, Queried, Takes, Runs, Asks, Exits,
       ftp_relply, KeptByAsk, service, nobody, control, data
  <1>6. Unread'
    BY DEF IInv, Unread, Typed, PrivInStep, NotListening, Transfers, Queried, Takes, Runs, Asks,
       Exits, ftp_relply, KeptByAsk, service, nobody, control, data
  <1>7. Written'
    BY DEF IInv, Written, Typed, PrivInStep, NotListening, Unread, Transfers, Queried, Takes,
       Runs, Asks, Exits, ftp_relply, KeptByAsk, service, nobody, control, data
  <1> QED BY <1>2, <1>3, <1>4, <1>5, <1>6, <1>7 DEF IInv

\* There is no connection.
LEMMA NoTransferStep ==
    ASSUME IInv, NoTransfer
    PROVE  IInv'
  <1>1. Flags'
    BY Zenon DEF IInv, Flags, NoTransfer, Takes, Runs, KeptByAsk, service, nobody, control, data
  <1>2. Typed'
    BY DEF IInv, Typed, Transfers, Asking, NoTransfer, Takes, Runs, KeptByAsk, service, nobody,
       control, data
  <1>3. PrivInStep'
    BY DEF IInv, PrivInStep, Typed, NoTransfer, Takes, Runs, KeptByAsk, service, nobody, control,
       data
  <1>4. NotListening'
    BY DEF IInv, NotListening, Typed, PrivInStep, Transfers, NoTransfer, Takes, Runs, KeptByAsk,
       service, nobody, control, data
  <1>5. Unread'
    BY DEF IInv, Unread, Typed, PrivInStep, NotListening, Transfers, NoTransfer, Takes, Runs,
       KeptByAsk, service, nobody, control, data
  <1>6. Written'
    BY DEF IInv, Written, Typed, PrivInStep, NotListening, Unread, Transfers, NoTransfer, Takes,
       Runs, KeptByAsk, service, nobody, control, data
  <1> QED BY <1>1, <1>2, <1>3, <1>4, <1>5, <1>6 DEF IInv

\* The nobody process has ended.
LEMMA NobodyGoneStep ==
    ASSUME IInv, NobodyGone
    PROVE  IInv'
  <1>1. Flags'
    BY Zenon DEF IInv, Flags, NobodyGone, Runs, Exits, KeptByAsk, service, nobody, control, data
  <1>2. Typed'
    BY DEF IInv, Typed, Transfers, Asking, NobodyGone, Runs, Exits, KeptByAsk, service, nobody,
       control, data
  <1>3. PrivInStep'
    BY DEF IInv, PrivInStep, Typed, NobodyGone, Runs, Exits, KeptByAsk, service, nobody, control,
       data
  <1>4. NotListening'
    BY DEF IInv, NotListening, Typed, PrivInStep, Transfers, NobodyGone, Runs, Exits, KeptByAsk,
       service, nobody, control, data
  <1>5. Unread'
    BY DEF IInv, Unread, Typed, PrivInStep, NotListening, Transfers, NobodyGone, Runs, Exits,
       KeptByAsk, service, nobody, control, data
  <1>6. Written'
    BY DEF IInv, Written, Typed, PrivInStep, NotListening, Unread, Transfers, NobodyGone, Runs,
       Exits, KeptByAsk, service, nobody, control, data
  <1> QED BY <1>1, <1>2, <1>3, <1>4, <1>5, <1>6 DEF IInv

-----------------------------------------------------------------------------
(* Transfers.                                                              *)

\* A listing is sent.
LEMMA do_listStep ==
    ASSUME IInv, do_list
    PROVE  IInv'
  <1>1. cout' \in Seq(Replies)
    <2>1. spc \in Transfers \cup Asking /\ \E codes \in {<<150, 226>>} : ftp_relply(codes)
      BY DEF do_list, Connected, Transfers, Asking
    <2>2. \A codes \in {<<150, 226>>} : codes \in Seq(Nat)
      <3>1. 150 \in Nat /\ 226 \in Nat
        OBVIOUS
      <3>2. <<150, 226>> \in Seq(Nat)
        BY <3>1, Codes, Zenon
      <3> QED BY <3>2, Zenon
    <2> QED BY <2>1, <2>2, ReplyType DEF IInv
  <1>2. Flags'
    BY Zenon DEF IInv, Flags, do_list, Connected, Takes, Runs, ftp_relply, KeptByTransfer,
       service, nobody, control, data
  <1>3. Typed'
    BY <1>1, FtpAssumption DEF IInv, Typed, Transfers, Asking, do_list, Connected, Takes, Runs,
       KeptByTransfer, service, nobody, control, data
  <1>4. PrivInStep'
    BY DEF IInv, PrivInStep, Typed, do_list, Connected, Takes, Runs, ftp_relply, KeptByTransfer,
       service, nobody, control, data
  <1>5. NotListening'
    BY DEF IInv, NotListening, Typed, PrivInStep, Transfers, do_list, Connected, Takes, Runs,
       ftp_relply, KeptByTransfer, service, nobody, control, data
  <1>6. Unread'
    BY DEF IInv, Unread, Typed, PrivInStep, NotListening, Transfers, do_list, Connected, Takes,
       Runs, ftp_relply, KeptByTransfer, service, nobody, control, data
  <1>7. Written'
    BY DEF IInv, Written, Typed, PrivInStep, NotListening, Unread, Transfers, do_list, Connected,
       Takes, Runs, ftp_relply, KeptByTransfer, service, nobody, control, data
  <1> QED BY <1>2, <1>3, <1>4, <1>5, <1>6, <1>7 DEF IInv

\* The client of a listing has gone.
LEMMA ListBrokenStep ==
    ASSUME IInv, ListBroken
    PROVE  IInv'
  <1>1. cout' \in Seq(Replies)
    <2>1. spc \in Transfers \cup Asking /\ ftp_relply(<<150>>)
      BY DEF ListBroken, Connected, Transfers, Asking
    <2>2. <<150>> \in Seq(Nat)
      <3>1. 150 \in Nat
        OBVIOUS
      <3> QED BY <3>1, Codes, Zenon
    <2> QED BY <2>1, <2>2, ReplyType DEF IInv
  <1>2. Flags'
    BY Zenon DEF IInv, Flags, ListBroken, FtpFault, Connected, Takes, Runs, Exits,
       ftp_relply, KeptByTransfer, service, nobody, control, data
  <1>3. Typed'
    BY <1>1, FtpAssumption DEF IInv, Typed, Transfers, Asking, ListBroken, FtpFault, Connected,
       Takes, Runs, Exits,
       KeptByTransfer, service, nobody, control, data
  <1>4. PrivInStep'
    BY DEF IInv, PrivInStep, Typed, ListBroken, FtpFault, Connected, Takes, Runs, Exits,
       ftp_relply, KeptByTransfer, service, nobody, control, data
  <1>5. NotListening'
    BY DEF IInv, NotListening, Typed, PrivInStep, Transfers, ListBroken, FtpFault, Connected,
       Takes, Runs, Exits,
       ftp_relply, KeptByTransfer, service, nobody, control, data
  <1>6. Unread'
    BY DEF IInv, Unread, Typed, PrivInStep, NotListening, Transfers, ListBroken, FtpFault,
       Connected, Takes, Runs, Exits,
       ftp_relply, KeptByTransfer, service, nobody, control, data
  <1>7. Written'
    BY DEF IInv, Written, Typed, PrivInStep, NotListening, Unread, Transfers, ListBroken,
       FtpFault, Connected, Takes, Runs, Exits,
       ftp_relply, KeptByTransfer, service, nobody, control, data
  <1> QED BY <1>2, <1>3, <1>4, <1>5, <1>6, <1>7 DEF IInv

\* An upload begins: nothing has been read.
LEMMA UploadStartsStep ==
    ASSUME IInv, UploadStarts
    PROVE  IInv'
  <1>1. cout' \in Seq(Replies)
    <2>1. spc \in Transfers \cup Asking /\ \E codes \in {<<150>>} : ftp_relply(codes)
      BY DEF UploadStarts, Connected, Transfers, Asking
    <2>2. \A codes \in {<<150>>} : codes \in Seq(Nat)
      <3>1. 150 \in Nat
        OBVIOUS
      <3>2. <<150>> \in Seq(Nat)
        BY <3>1, Codes, Zenon
      <3> QED BY <3>2, Zenon
    <2> QED BY <2>1, <2>2, ReplyType DEF IInv
  <1>2. disk' \in [1 .. FtpNames -> Seq(Nat)] /\ pos' \in Nat /\ restart' = 0
    <2>1. spc \in Asking
      BY DEF UploadStarts, Connected, Asking
    <2>2. /\ cmd[2] \in 1 .. FtpNames /\ disk \in [1 .. FtpNames -> Seq(Nat)] /\ restart \in Nat
          /\ Len(disk[cmd[2]]) \in Nat
      BY <2>1, CommandFacts DEF IInv, Typed
    <2>3. disk' \in {disk, [disk EXCEPT ![cmd[2]] = <<>>]} /\ pos' \in {Len(disk[cmd[2]]), restart} /\ restart' = 0
      BY DEF UploadStarts
    <2>4. <<>> \in Seq(Nat)
      BY Codes
    <2> QED BY <2>2, <2>3, <2>4
  <1>3. Flags'
    BY Zenon DEF IInv, Flags, UploadStarts, Connected, Takes, Runs, ftp_relply, KeptByTransfer,
       service, nobody, control, data
  <1>4. Typed'
    BY <1>1, <1>2 DEF IInv, Typed, Transfers, Asking, UploadStarts, Connected, Takes, Runs, KeptByTransfer, nobody
  <1>5. PrivInStep'
    BY DEF IInv, PrivInStep, Typed, UploadStarts, Connected, Takes, Runs, ftp_relply,
       KeptByTransfer, service, nobody, control, data
  <1>6. NotListening'
    BY DEF IInv, NotListening, Typed, PrivInStep, Transfers, UploadStarts, Connected, Takes, Runs,
       ftp_relply, KeptByTransfer, service, nobody, control, data
  <1>7. Unread'
    BY DEF IInv, Unread, Typed, PrivInStep, NotListening, Transfers, UploadStarts, Connected,
       Takes, Runs, ftp_relply, KeptByTransfer, service, nobody, control, data
  <1>8. Written'
    BY DEF IInv, Written, Typed, PrivInStep, NotListening, Unread, Transfers, UploadStarts,
       Connected, Takes, Runs, ftp_relply, KeptByTransfer, service, nobody, control, data
  <1> QED BY <1>3, <1>4, <1>5, <1>6, <1>7, <1>8 DEF IInv

\* A download begins.
LEMMA DownloadStartsStep ==
    ASSUME IInv, DownloadStarts
    PROVE  IInv'
  <1>1. cout' \in Seq(Replies)
    <2>1. spc \in Transfers \cup Asking /\ \E codes \in {<<150>>} : ftp_relply(codes)
      BY DEF DownloadStarts, Connected, Transfers, Asking
    <2>2. \A codes \in {<<150>>} : codes \in Seq(Nat)
      <3>1. 150 \in Nat
        OBVIOUS
      <3>2. <<150>> \in Seq(Nat)
        BY <3>1, Codes, Zenon
      <3> QED BY <3>2, Zenon
    <2> QED BY <2>1, <2>2, ReplyType DEF IInv
  <1>2. Flags'
    BY Zenon DEF IInv, Flags, DownloadStarts, Connected, Takes, Runs, ftp_relply, KeptByTransfer,
       service, nobody, control, data
  <1>3. Typed'
    BY <1>1, FtpAssumption DEF IInv, Typed, Transfers, Asking, DownloadStarts, Connected, Takes,
       Runs, KeptByTransfer, service, nobody, control, data
  <1>4. PrivInStep'
    BY DEF IInv, PrivInStep, Typed, DownloadStarts, Connected, Takes, Runs, ftp_relply,
       KeptByTransfer, service, nobody, control, data
  <1>5. NotListening'
    BY DEF IInv, NotListening, Typed, PrivInStep, Transfers, DownloadStarts, Connected, Takes,
       Runs, ftp_relply, KeptByTransfer, service, nobody, control, data
  <1>6. Unread'
    BY DEF IInv, Unread, Typed, PrivInStep, NotListening, Transfers, DownloadStarts, Connected,
       Takes, Runs, ftp_relply, KeptByTransfer, service, nobody, control, data
  <1>7. Written'
    BY DEF IInv, Written, Typed, PrivInStep, NotListening, Unread, Transfers, DownloadStarts,
       Connected, Takes, Runs, ftp_relply, KeptByTransfer, service, nobody, control, data
  <1> QED BY <1>2, <1>3, <1>4, <1>5, <1>6, <1>7 DEF IInv

\* The file cannot be used.
LEMMA FileFailsStep ==
    ASSUME IInv, FileFails
    PROVE  IInv'
  <1>1. cout' \in Seq(Replies)
    <2>1. spc \in Transfers \cup Asking /\ \E codes \in {<<550>>, <<553>>, <<>>} : ftp_relply(codes)
      BY DEF FileFails, Connected, Transfers, Asking
    <2>2. \A codes \in {<<550>>, <<553>>, <<>>} : codes \in Seq(Nat)
      <3> TAKE codes \in {<<550>>, <<553>>, <<>>}
      <3>1. codes = <<>> \/ \E a \in Nat : codes = <<a>>
        OBVIOUS
      <3> QED BY <3>1, Codes, ZenonT(60)
    <2> QED BY <2>1, <2>2, ReplyType, ZenonT(60) DEF IInv
  <1>2. Flags'
    BY Zenon DEF IInv, Flags, FileFails, Connected, Takes, Runs, ftp_relply, KeptByTransfer,
       FtpFault, service, nobody, control, data
  <1>3. Typed'
    BY <1>1, FtpAssumption DEF IInv, Typed, Transfers, Asking, FileFails, Connected, Takes, Runs,
       KeptByTransfer, FtpFault, service, nobody, control, data
  <1>4. PrivInStep'
    BY DEF IInv, PrivInStep, Typed, FileFails, Connected, Takes, Runs, ftp_relply, KeptByTransfer,
       FtpFault, service, nobody, control, data
  <1>5. NotListening'
    BY DEF IInv, NotListening, Typed, PrivInStep, Transfers, FileFails, Connected, Takes, Runs,
       ftp_relply, KeptByTransfer, FtpFault, service, nobody, control, data
  <1>6. Unread'
    BY DEF IInv, Unread, Typed, PrivInStep, NotListening, Transfers, FileFails, Connected, Takes,
       Runs, ftp_relply, KeptByTransfer, FtpFault, service, nobody, control, data
  <1>7. Written'
    BY DEF IInv, Written, Typed, PrivInStep, NotListening, Unread, Transfers, FileFails,
       Connected, Takes, Runs, ftp_relply, KeptByTransfer, FtpFault, service, nobody, control,
       data
  <1> QED BY <1>2, <1>3, <1>4, <1>5, <1>6, <1>7 DEF IInv

\* A block is written.
LEMMA UploadBlockStep ==
    ASSUME IInv, UploadBlock
    PROVE  IInv'
  <1>1. cout' \in Seq(Replies)
    <2>1. spc \in Transfers /\ (cout' = cout \/ \E flag \in {0, 1, 2} : TransferEnds(flag))
      BY DEF UploadBlock, Transfers
    <2>2. cout \in Seq(Replies)
      BY DEF IInv, Typed
    <2> QED BY <2>1, <2>2, EndsType DEF IInv
  <1>2. /\ dq \in Seq(Nat) /\ dsent \in Seq(Nat) /\ Len(dq) <= Len(dsent)
        /\ \A j \in 1 .. Len(dq) : dq[j] = dsent[Len(dsent) - Len(dq) + j]
        /\ dq # <<>> /\ dq' = Tail(dq) /\ dsent' = dsent /\ spc = "up" /\ dsock # "queued"
        /\ Len(dq) \in Nat /\ Len(dsent) \in Nat
    BY DEF IInv, Unread, UploadBlock, KeptByLoop
  <1>3. /\ dq' \in Seq(Nat) /\ Len(dq') = Len(dq) - 1 /\ Len(dq') <= Len(dsent)
        /\ \A j \in 1 .. Len(dq') : dq'[j] = dsent[Len(dsent) - Len(dq') + j]
        /\ Head(dq) \in Nat /\ Head(dq) = dsent[Len(dsent) - Len(dq) + 1]
    BY <1>2, Read
  <1>4. /\ cmd \in AnyCommands /\ disk \in [1 .. FtpNames -> Seq(Nat)] /\ pos \in Nat
        /\ cmd[2] \in 1 .. FtpNames /\ disk[cmd[2]] \in Seq(Nat)
    BY <1>2, CommandFacts DEF IInv, Typed, Transfers
  <1>5. \/ spc' = "idle" /\ TransferEnds(2) /\ UNCHANGED <<pos, disk>>
        \/ /\ disk' = [disk EXCEPT ![cmd[2]] = WriteAt(disk[cmd[2]], pos, Head(dq))]
           /\ pos' = pos + 1 /\ UNCHANGED <<spc, dataFd, dsock, alarm, cout>>
    BY DEF UploadBlock, TransferEnds
  <1>6. UNCHANGED <<cmd, restart, urg, npc, pasvFd, ports, ask, ans, cin, dsent, ftpFaults>>
    BY DEF UploadBlock, KeptByLoop, nobody
  <1>7. WriteAt(disk[cmd[2]], pos, Head(dq)) \in Seq(Nat)
    BY <1>3, <1>4, WriteAtFacts
  <1>8. Flags'
    BY ZenonT(60) DEF IInv, Flags, UploadBlock, Runs, TransferEnds, ftp_relply, KeptByLoop, service,
       nobody, control, data
  <1>9. Typed'
    <2>1. disk' \in [1 .. FtpNames -> Seq(Nat)] /\ pos' \in Nat
      BY <1>4, <1>5, <1>7, SMTT(30)
    <2>2. CASE spc' = "idle" /\ TransferEnds(2)
      BY <1>1, <1>6, <2>1, <2>2 DEF IInv, Typed, Transfers, Asking, TransferEnds
    <2>3. CASE UNCHANGED <<spc, dataFd, dsock, alarm>>
      BY <1>1, <1>6, <2>1, <2>3 DEF IInv, Typed, Transfers, Asking
    <2> QED BY <1>5, <2>2, <2>3
  <1>10. PrivInStep'
    BY DEF IInv, PrivInStep, Typed, UploadBlock, Runs, TransferEnds, ftp_relply, KeptByLoop,
       service, nobody, control, data
  <1>11. NotListening'
    BY DEF IInv, NotListening, Typed, PrivInStep, Transfers, UploadBlock, Runs, TransferEnds,
       ftp_relply, KeptByLoop, service, nobody, control, data
  <1>12. Unread'
    <2>1. ans' = "none"
      BY <1>2, <1>6 DEF IInv, PrivInStep
    <2>2. dsock' # "queued"
      BY <1>2, <1>5 DEF TransferEnds
    <2> QED BY <1>2, <1>3, <2>1, <2>2 DEF Unread
  <1>13. Written'
    <2> DEFINE n == Len(dsent) - Len(dq)
               file == disk[cmd[2]]
               w == WriteAt(file, pos, Head(dq))
    <2> SUFFICES ASSUME spc' = "up"
                 PROVE  /\ Len(dsent) - Len(dq') <= pos'
                        /\ \A i \in 1 .. Len(dsent) - Len(dq') :
                               /\ pos' - (Len(dsent) - Len(dq')) + i <= Len(disk'[cmd[2]])
                               /\ disk'[cmd[2]][pos' - (Len(dsent) - Len(dq')) + i] = dsent[i]
      BY <1>2, <1>6 DEF Written
    <2>1. disk' = [disk EXCEPT ![cmd[2]] = w] /\ pos' = pos + 1
      BY <1>5 DEF TransferEnds
    <2>2. disk'[cmd[2]] = w
      BY <2>1, <1>4
    <2>3. n \in Nat /\ Len(dsent) - Len(dq') = n + 1 /\ pos' - (n + 1) = pos - n
      BY <1>2, <1>3, <1>4, <2>1
    <2>4. n <= pos /\ \A i \in 1 .. n : pos - n + i <= Len(file) /\ file[pos - n + i] = dsent[i]
      BY <1>2 DEF IInv, Written
    <2>5. /\ Len(w) = IF Len(file) > pos THEN Len(file) ELSE pos + 1
          /\ w[pos + 1] = Head(dq)
          /\ \A i \in 1 .. Len(file) : i # pos + 1 => w[i] = file[i]
      <3>1. IsWritten(w, file, pos, Head(dq))
        BY <1>3, <1>4, WriteAtFacts
      <3> QED BY <3>1 DEF IsWritten
    <2>6. Len(file) \in Nat /\ Len(w) >= Len(file) /\ Len(w) >= pos + 1
      BY <1>4, <2>5
    <2>7. Head(dq) = dsent[n + 1]
      BY <1>3
    <2> HIDE DEF n, w, file
    <2>8. ASSUME NEW i \in 1 .. n + 1
          PROVE  pos - n + i <= Len(w) /\ w[pos - n + i] = dsent[i]
      <3>1. CASE i = n + 1
        <4>1. pos - n + i = pos + 1
          BY <3>1, <2>3, <1>4
        <4> QED BY <3>1, <4>1, <2>5, <2>6, <2>7
      <3>2. CASE i # n + 1
        <4>1. i \in 1 .. n
          BY <3>2, <2>3
        <4>2. pos - n + i <= Len(file) /\ file[pos - n + i] = dsent[i]
          BY <4>1, <2>4
        <4>3. pos - n + i \in 1 .. Len(file) /\ pos - n + i # pos + 1
          BY <4>1, <4>2, <2>3, <2>4, <2>6, <1>4
        <4>4. w[pos - n + i] = file[pos - n + i]
          BY <4>3, <2>5
        <4>5. pos - n + i <= Len(w)
          BY <4>3, <2>5, <2>6, <1>4
        <4> QED BY <4>2, <4>4, <4>5
      <3> QED BY <3>1, <3>2
    <2>9. n + 1 <= pos'
      BY <2>1, <2>3, <2>4, <1>4
    <2> QED BY <2>2, <2>3, <2>8, <2>9
  <1> QED BY <1>8, <1>9, <1>10, <1>11, <1>12, <1>13 DEF IInv

\* All has been read.
LEMMA UploadEofStep ==
    ASSUME IInv, UploadEof
    PROVE  IInv'
  <1>1. cout' \in Seq(Replies)
    <2>1. spc \in Transfers /\ (cout' = cout \/ \E flag \in {0, 1, 2} : TransferEnds(flag))
      BY DEF UploadEof, Transfers
    <2>2. cout \in Seq(Replies)
      BY DEF IInv, Typed
    <2> QED BY <2>1, <2>2, EndsType DEF IInv
  <1>2. Flags'
    BY Zenon DEF IInv, Flags, UploadEof, Runs, TransferEnds, ftp_relply, KeptByLoop, service,
       nobody, control, data
  <1>3. Typed'
    BY <1>1, FtpAssumption DEF IInv, Typed, Transfers, Asking, UploadEof, Runs, TransferEnds,
       KeptByLoop, service, nobody, control, data
  <1>4. PrivInStep'
    BY DEF IInv, PrivInStep, Typed, UploadEof, Runs, TransferEnds, ftp_relply, KeptByLoop,
       service, nobody, control, data
  <1>5. NotListening'
    BY DEF IInv, NotListening, Typed, PrivInStep, Transfers, UploadEof, Runs, TransferEnds,
       ftp_relply, KeptByLoop, service, nobody, control, data
  <1>6. Unread'
    BY DEF IInv, Unread, Typed, PrivInStep, NotListening, Transfers, UploadEof, Runs,
       TransferEnds, ftp_relply, KeptByLoop, service, nobody, control, data
  <1>7. Written'
    BY DEF IInv, Written, Typed, PrivInStep, NotListening, Unread, Transfers, UploadEof, Runs,
       TransferEnds, ftp_relply, KeptByLoop, service, nobody, control, data
  <1> QED BY <1>2, <1>3, <1>4, <1>5, <1>6, <1>7 DEF IInv

\* The connection or the disk fails.
LEMMA UploadFailsStep ==
    ASSUME IInv, UploadFails
    PROVE  IInv'
  <1>1. cout' \in Seq(Replies)
    <2>1. spc \in Transfers /\ (cout' = cout \/ \E flag \in {0, 1, 2} : TransferEnds(flag))
      BY DEF UploadFails, Transfers
    <2>2. cout \in Seq(Replies)
      BY DEF IInv, Typed
    <2> QED BY <2>1, <2>2, EndsType DEF IInv
  <1>2. /\ dq \in Seq(Nat) /\ dsent \in Seq(Nat) /\ Len(dq) <= Len(dsent)
        /\ \A j \in 1 .. Len(dq) : dq[j] = dsent[Len(dsent) - Len(dq) + j]
    BY DEF IInv, Unread
  <1>3. /\ dq' \in Seq(Nat) /\ Len(dq') <= Len(dsent)
        /\ \A j \in 1 .. Len(dq') : dq'[j] = dsent[Len(dsent) - Len(dq') + j]
    <2>1. CASE dq' = <<>>
      <3>1. dq' \in Seq(Nat) /\ Len(dq') = 0 /\ Len(dsent) \in Nat
        BY <1>2, <2>1, EmptySeq
      <3> QED BY <3>1
    <2>2. CASE dq # <<>> /\ dq' = Tail(dq)
      BY <1>2, <2>2, Read
    <2> QED BY <2>1, <2>2 DEF UploadFails
  <1>4. Flags'
    BY Zenon DEF IInv, Flags, UploadFails, Runs, FtpFault, TransferEnds, ftp_relply, KeptByLoop,
       service, nobody, control, data
  <1>5. Typed'
    BY <1>1, FtpAssumption DEF IInv, Typed, Transfers, Asking, UploadFails, Runs, TransferEnds,
       KeptByLoop, FtpFault, service, nobody, control, data
  <1>6. PrivInStep'
    BY DEF IInv, PrivInStep, Typed, UploadFails, Runs, FtpFault, TransferEnds, ftp_relply,
       KeptByLoop, service, nobody, control, data
  <1>7. NotListening'
    BY DEF IInv, NotListening, Typed, PrivInStep, Transfers, UploadFails, Runs, FtpFault,
       TransferEnds, ftp_relply, KeptByLoop, service, nobody, control, data
  <1>8. Unread'
    BY <1>2, <1>3 DEF IInv, PrivInStep, Unread, UploadFails, TransferEnds, KeptByLoop
  <1>9. Written'
    BY DEF IInv, Written, Typed, PrivInStep, NotListening, Unread, Transfers, UploadFails, Runs,
       FtpFault, TransferEnds, ftp_relply, KeptByLoop, service, nobody, control, data
  <1> QED BY <1>4, <1>5, <1>6, <1>7, <1>8, <1>9 DEF IInv

\* A block is sent.
LEMMA DownloadBlockStep ==
    ASSUME IInv, DownloadBlock
    PROVE  IInv'
  <1>1. Flags'
    BY Zenon DEF IInv, Flags, DownloadBlock, Runs, limit_rate, Exits, KeptByLoop, service, nobody,
       control, data
  <1>2. Typed'
    BY DEF IInv, Typed, Transfers, Asking, DownloadBlock, Runs, limit_rate, Exits, KeptByLoop,
       service, nobody, control, data
  <1>3. PrivInStep'
    BY DEF IInv, PrivInStep, Typed, DownloadBlock, Runs, limit_rate, Exits, KeptByLoop, service,
       nobody, control, data
  <1>4. NotListening'
    BY DEF IInv, NotListening, Typed, PrivInStep, Transfers, DownloadBlock, Runs, limit_rate,
       Exits, KeptByLoop, service, nobody, control, data
  <1>5. Unread'
    BY DEF IInv, Unread, Typed, PrivInStep, NotListening, Transfers, DownloadBlock, Runs,
       limit_rate, Exits, KeptByLoop, service, nobody, control, data
  <1>6. Written'
    BY DEF IInv, Written, Typed, PrivInStep, NotListening, Unread, Transfers, DownloadBlock, Runs,
       limit_rate, Exits, KeptByLoop, service, nobody, control, data
  <1> QED BY <1>1, <1>2, <1>3, <1>4, <1>5, <1>6 DEF IInv

\* The file is shorter than it was.
LEMMA DownloadSpinsStep ==
    ASSUME IInv, DownloadSpins
    PROVE  IInv'
  <1>1. Flags'
    BY Zenon DEF IInv, Flags, DownloadSpins, Runs, FtpFault, KeptByLoop, service, nobody, control,
       data
  <1>2. Typed'
    BY FtpAssumption DEF IInv, Typed, Transfers, Asking, DownloadSpins, Runs, FtpFault,
       KeptByLoop, service, nobody, control, data
  <1>3. PrivInStep'
    BY DEF IInv, PrivInStep, Typed, DownloadSpins, Runs, FtpFault, KeptByLoop, service, nobody,
       control, data
  <1>4. NotListening'
    BY DEF IInv, NotListening, Typed, PrivInStep, Transfers, DownloadSpins, Runs, FtpFault,
       KeptByLoop, service, nobody, control, data
  <1>5. Unread'
    BY DEF IInv, Unread, Typed, PrivInStep, NotListening, Transfers, DownloadSpins, Runs,
       FtpFault, KeptByLoop, service, nobody, control, data
  <1>6. Written'
    BY DEF IInv, Written, Typed, PrivInStep, NotListening, Unread, Transfers, DownloadSpins, Runs,
       FtpFault, KeptByLoop, service, nobody, control, data
  <1> QED BY <1>1, <1>2, <1>3, <1>4, <1>5, <1>6 DEF IInv

\* All has been sent.
LEMMA DownloadEndsStep ==
    ASSUME IInv, DownloadEnds
    PROVE  IInv'
  <1>1. cout' \in Seq(Replies)
    <2>1. spc \in Transfers /\ (cout' = cout \/ \E flag \in {0, 1, 2} : TransferEnds(flag))
      BY DEF DownloadEnds, Transfers
    <2>2. cout \in Seq(Replies)
      BY DEF IInv, Typed
    <2> QED BY <2>1, <2>2, EndsType DEF IInv
  <1>2. Flags'
    BY Zenon DEF IInv, Flags, DownloadEnds, Runs, TransferEnds, ftp_relply, KeptByLoop, service,
       nobody, control, data
  <1>3. Typed'
    BY <1>1, FtpAssumption DEF IInv, Typed, Transfers, Asking, DownloadEnds, Runs, TransferEnds,
       KeptByLoop, service, nobody, control, data
  <1>4. PrivInStep'
    BY DEF IInv, PrivInStep, Typed, DownloadEnds, Runs, TransferEnds, ftp_relply, KeptByLoop,
       service, nobody, control, data
  <1>5. NotListening'
    BY DEF IInv, NotListening, Typed, PrivInStep, Transfers, DownloadEnds, Runs, TransferEnds,
       ftp_relply, KeptByLoop, service, nobody, control, data
  <1>6. Unread'
    BY DEF IInv, Unread, Typed, PrivInStep, NotListening, Transfers, DownloadEnds, Runs,
       TransferEnds, ftp_relply, KeptByLoop, service, nobody, control, data
  <1>7. Written'
    BY DEF IInv, Written, Typed, PrivInStep, NotListening, Unread, Transfers, DownloadEnds, Runs,
       TransferEnds, ftp_relply, KeptByLoop, service, nobody, control, data
  <1> QED BY <1>2, <1>3, <1>4, <1>5, <1>6, <1>7 DEF IInv

\* An abort ends a download.
LEMMA DownloadAbortedStep ==
    ASSUME IInv, DownloadAborted
    PROVE  IInv'
  <1>1. cout' \in Seq(Replies)
    <2>1. spc \in Transfers /\ (cout' = cout \/ \E flag \in {0, 1, 2} : TransferEnds(flag))
      BY DEF DownloadAborted, Transfers
    <2>2. cout \in Seq(Replies)
      BY DEF IInv, Typed
    <2> QED BY <2>1, <2>2, EndsType DEF IInv
  <1>2. Flags'
    BY Zenon DEF IInv, Flags, DownloadAborted, Runs, TransferEnds, Exits, ftp_relply, KeptByLoop,
       service, nobody, control, data
  <1>3. Typed'
    <2>1. spc' \in {"idle", "end"} /\ dsock' \in {dsock, "shut"} /\ dataFd' \in {dataFd, "none"} /\ alarm' \in {alarm, "cmd"}
      BY DEF DownloadAborted, TransferEnds, Exits
    <2>2. UNCHANGED <<cmd, restart, urg, npc, pasvFd, ports, ask, ans, cin, dsent, ftpFaults, pos, disk>>
      BY DEF DownloadAborted, KeptByLoop, nobody
    <2> QED BY <1>1, <2>1, <2>2 DEF IInv, Typed, Transfers, Asking
  <1>4. PrivInStep'
    BY DEF IInv, PrivInStep, Typed, DownloadAborted, Runs, TransferEnds, Exits, ftp_relply,
       KeptByLoop, service, nobody, control, data
  <1>5. NotListening'
    BY DEF IInv, NotListening, Typed, PrivInStep, Transfers, DownloadAborted, Runs, TransferEnds,
       Exits, ftp_relply, KeptByLoop, service, nobody, control, data
  <1>6. Unread'
    BY DEF IInv, Unread, Typed, PrivInStep, NotListening, Transfers, DownloadAborted, Runs,
       TransferEnds, Exits, ftp_relply, KeptByLoop, service, nobody, control, data
  <1>7. Written'
    BY DEF IInv, Written, Typed, PrivInStep, NotListening, Unread, Transfers, DownloadAborted,
       Runs, TransferEnds, Exits, ftp_relply, KeptByLoop, service, nobody, control, data
  <1> QED BY <1>2, <1>3, <1>4, <1>5, <1>6, <1>7 DEF IInv

-----------------------------------------------------------------------------
(* Signals.                                                                *)

\* An urgent line is read.
LEMMA handle_sigurgStep ==
    ASSUME IInv, handle_sigurg
    PROVE  IInv'
  <1>1. cout' \in Seq(Replies) /\ cin' \in Seq(AnyCommands)
    <2>1. cin # <<>> /\ cin \in Seq(AnyCommands) /\ cout \in Seq(Replies)
      BY DEF IInv, Typed, handle_sigurg
    <2>2. Head(cin) \in AnyCommands /\ Tail(cin) \in Seq(AnyCommands)
      BY <2>1
    <2>3. 500 \in Nat
      OBVIOUS
    <2>4. <<500, Head(cin)[1]>> \in Replies
      BY <2>2, <2>3, CommandFacts
    <2>5. Append(cout, <<500, Head(cin)[1]>>) \in Seq(Replies)
      BY <2>1, <2>4
    <2> QED BY <2>1, <2>2, <2>5 DEF handle_sigurg
  <1>2. Flags'
    BY Zenon DEF IInv, Flags, handle_sigurg, service, nobody, control, data
  <1>3. Typed'
    <2>1. dsock' \in {dsock, "shut"} /\ ~urg'
      BY DEF handle_sigurg
    <2> QED BY <1>1, <2>1 DEF IInv, Typed, Transfers, Asking, handle_sigurg, nobody
  <1>4. PrivInStep'
    BY DEF IInv, PrivInStep, Typed, handle_sigurg, service, nobody, control, data
  <1>5. NotListening'
    BY DEF IInv, NotListening, Typed, PrivInStep, Transfers, handle_sigurg, service, nobody,
       control, data
  <1>6. Unread'
    BY DEF IInv, Unread, Typed, PrivInStep, NotListening, Transfers, handle_sigurg, service,
       nobody, control, data
  <1>7. Written'
    BY DEF IInv, Written, Typed, PrivInStep, NotListening, Unread, Transfers, handle_sigurg,
       service, nobody, control, data
  <1> QED BY <1>2, <1>3, <1>4, <1>5, <1>6, <1>7 DEF IInv

\* The time is over.
LEMMA AlarmStep ==
    ASSUME IInv, Alarm
    PROVE  IInv'
  <1>1. cout' \in Seq(Replies)
    <2>1. alarm \in {"cmd", "data"} /\ cout \in Seq(Replies)
      BY DEF IInv, Typed
    <2>2. <<421, alarm>> \in Replies
      BY <2>1 DEF Replies
    <2>3. Append(cout, <<421, alarm>>) \in Seq(Replies)
      BY <2>1, <2>2
    <2> QED BY <2>1, <2>3 DEF Alarm
  <1>2. Flags'
    BY ZenonT(60) DEF IInv, Flags, Alarm, Runs, Exits, service, nobody, control, data
  <1>3. Typed'
    <2>1. spc' \in {spc, "end"} /\ dsock' \in {dsock, "shut"}
      BY DEF Alarm, Exits
    <2> QED BY <1>1, <2>1 DEF IInv, Typed, Transfers, Asking, Alarm, nobody
  <1>4. PrivInStep'
    BY DEF IInv, PrivInStep, Typed, Alarm, Runs, Exits, service, nobody, control, data
  <1>5. NotListening'
    BY DEF IInv, NotListening, Typed, PrivInStep, Transfers, Alarm, Runs, Exits, service, nobody,
       control, data
  <1>6. Unread'
    BY DEF IInv, Unread, Typed, PrivInStep, NotListening, Transfers, Alarm, Runs, Exits, service,
       nobody, control, data
  <1>7. Written'
    BY DEF IInv, Written, Typed, PrivInStep, NotListening, Unread, Transfers, Alarm, Runs, Exits,
       service, nobody, control, data
  <1> QED BY <1>2, <1>3, <1>4, <1>5, <1>6, <1>7 DEF IInv

-----------------------------------------------------------------------------
(* The nobody process.                                                     *)

\* Whether it listens.
LEMMA privop_pasv_activeStep ==
    ASSUME IInv, privop_pasv_active
    PROVE  IInv'
  <1>1. Flags'
    BY Zenon DEF IInv, Flags, privop_pasv_active, Request, KeptByNobody, service, nobody, control,
       data
  <1>2. Typed'
    BY DEF IInv, Typed, Transfers, Asking, privop_pasv_active, Request, KeptByNobody, service,
       nobody, control, data
  <1>3. PrivInStep'
    BY DEF IInv, PrivInStep, Typed, privop_pasv_active, Request, KeptByNobody, service, nobody,
       control, data
  <1>4. NotListening'
    BY DEF IInv, NotListening, Typed, PrivInStep, Transfers, privop_pasv_active, Request,
       KeptByNobody, service, nobody, control, data
  <1>5. Unread'
    BY DEF IInv, Unread, Typed, PrivInStep, NotListening, Transfers, privop_pasv_active, Request,
       KeptByNobody, service, nobody, control, data
  <1>6. Written'
    BY DEF IInv, Written, Typed, PrivInStep, NotListening, Unread, Transfers, privop_pasv_active,
       Request, KeptByNobody, service, nobody, control, data
  <1> QED BY <1>1, <1>2, <1>3, <1>4, <1>5, <1>6 DEF IInv

\* It listens.
LEMMA privop_pasv_listenStep ==
    ASSUME IInv, privop_pasv_listen
    PROVE  IInv'
  <1>1. Flags'
    BY Zenon DEF IInv, Flags, privop_pasv_listen, Request, KeptByNobody, service, nobody, control,
       data
  <1>2. Typed'
    BY DEF IInv, Typed, Transfers, Asking, privop_pasv_listen, Request, KeptByNobody, service,
       nobody, control, data
  <1>3. PrivInStep'
    BY DEF IInv, PrivInStep, Typed, privop_pasv_listen, Request, KeptByNobody, service, nobody,
       control, data
  <1>4. NotListening'
    BY DEF IInv, NotListening, Typed, PrivInStep, Transfers, privop_pasv_listen, Request,
       KeptByNobody, service, nobody, control, data
  <1>5. Unread'
    BY DEF IInv, Unread, Typed, PrivInStep, NotListening, Transfers, privop_pasv_listen, Request,
       KeptByNobody, service, nobody, control, data
  <1>6. Written'
    BY DEF IInv, Written, Typed, PrivInStep, NotListening, Unread, Transfers, privop_pasv_listen,
       Request, KeptByNobody, service, nobody, control, data
  <1> QED BY <1>1, <1>2, <1>3, <1>4, <1>5, <1>6 DEF IInv

\* It accepts.
LEMMA privop_pasv_acceptStep ==
    ASSUME IInv, privop_pasv_accept
    PROVE  IInv'
  <1>1. Flags'
    BY Zenon DEF IInv, Flags, privop_pasv_accept, Request, KeptByNobody, accept_timeout, service,
       nobody, control, data
  <1>2. Typed'
    BY DEF IInv, Typed, Transfers, Asking, privop_pasv_accept, Request, KeptByNobody,
       accept_timeout, service, nobody, control, data
  <1>3. PrivInStep'
    BY DEF IInv, PrivInStep, Typed, privop_pasv_accept, Request, KeptByNobody, accept_timeout,
       service, nobody, control, data
  <1>4. NotListening'
    BY DEF IInv, NotListening, Typed, PrivInStep, Transfers, privop_pasv_accept, Request,
       KeptByNobody, accept_timeout, service, nobody, control, data
  <1>5. Unread'
    BY DEF IInv, Unread, Typed, PrivInStep, NotListening, Transfers, privop_pasv_accept, Request,
       KeptByNobody, accept_timeout, service, nobody, control, data
  <1>6. Written'
    BY DEF IInv, Written, Typed, PrivInStep, NotListening, Unread, Transfers, privop_pasv_accept,
       Request, KeptByNobody, accept_timeout, service, nobody, control, data
  <1> QED BY <1>1, <1>2, <1>3, <1>4, <1>5, <1>6 DEF IInv

\* It connects.
LEMMA privop_pasv_get_data_sockStep ==
    ASSUME IInv, privop_pasv_get_data_sock
    PROVE  IInv'
  <1>1. Flags'
    BY Zenon DEF IInv, Flags, privop_pasv_get_data_sock, Request, KeptByNobody, connect_timeout,
       service, nobody, control, data
  <1>2. Typed'
    BY DEF IInv, Typed, Transfers, Asking, privop_pasv_get_data_sock, Request, KeptByNobody,
       connect_timeout, service, nobody, control, data
  <1>3. PrivInStep'
    BY DEF IInv, PrivInStep, Typed, privop_pasv_get_data_sock, Request, KeptByNobody,
       connect_timeout, service, nobody, control, data
  <1>4. NotListening'
    BY DEF IInv, NotListening, Typed, PrivInStep, Transfers, privop_pasv_get_data_sock, Request,
       KeptByNobody, connect_timeout, service, nobody, control, data
  <1>5. Unread'
    <2>1. CASE UNCHANGED <<dsock, dq, dsent>> /\ ans' = "bad" /\ UNCHANGED spc
      BY <2>1 DEF IInv, PrivInStep, Unread, privop_pasv_get_data_sock, Request
    <2>2. CASE dsock' = "open" /\ dq' = <<>> /\ dsent' = <<>>
      <3>1. dq' \in Seq(Nat) /\ dsent' \in Seq(Nat) /\ Len(dq') = 0 /\ Len(dsent') = 0
        BY <2>2, EmptySeq
      <3> QED BY <2>2, <3>1 DEF Unread
    <2> QED BY <2>1, <2>2 DEF privop_pasv_get_data_sock, KeptByNobody, service, data
  <1>6. Written'
    BY DEF IInv, Written, Typed, PrivInStep, NotListening, Unread, Transfers,
       privop_pasv_get_data_sock, Request, KeptByNobody, connect_timeout, service, nobody,
       control, data
  <1> QED BY <1>1, <1>2, <1>3, <1>4, <1>5, <1>6 DEF IInv

\* It fails.
LEMMA NobodyFailsStep ==
    ASSUME IInv, NobodyFails
    PROVE  IInv'
  <1>1. Flags'
    BY Zenon DEF IInv, Flags, NobodyFails, Request, KeptByNobody, FtpFault, service, nobody,
       control, data
  <1>2. Typed'
    BY FtpAssumption DEF IInv, Typed, Transfers, Asking, NobodyFails, Request, KeptByNobody,
       FtpFault, service, nobody, control, data
  <1>3. PrivInStep'
    BY DEF IInv, PrivInStep, Typed, NobodyFails, Request, KeptByNobody, FtpFault, service, nobody,
       control, data
  <1>4. NotListening'
    BY DEF IInv, NotListening, Typed, PrivInStep, Transfers, NobodyFails, Request, KeptByNobody,
       FtpFault, service, nobody, control, data
  <1>5. Unread'
    BY DEF IInv, Unread, Typed, PrivInStep, NotListening, Transfers, NobodyFails, Request,
       KeptByNobody, FtpFault, service, nobody, control, data
  <1>6. Written'
    BY DEF IInv, Written, Typed, PrivInStep, NotListening, Unread, Transfers, NobodyFails,
       Request, KeptByNobody, FtpFault, service, nobody, control, data
  <1> QED BY <1>1, <1>2, <1>3, <1>4, <1>5, <1>6 DEF IInv

\* It ends after the service process.
LEMMA NobodyEndsStep ==
    ASSUME IInv, NobodyEnds
    PROVE  IInv'
  <1>1. Flags'
    BY Zenon DEF IInv, Flags, NobodyEnds, KeptByNobody, service, nobody, control, data
  <1>2. Typed'
    BY DEF IInv, Typed, Transfers, Asking, NobodyEnds, KeptByNobody, service, nobody, control,
       data
  <1>3. PrivInStep'
    BY DEF IInv, PrivInStep, Typed, NobodyEnds, KeptByNobody, service, nobody, control, data
  <1>4. NotListening'
    BY DEF IInv, NotListening, Typed, PrivInStep, Transfers, NobodyEnds, KeptByNobody, service,
       nobody, control, data
  <1>5. Unread'
    BY DEF IInv, Unread, Typed, PrivInStep, NotListening, Transfers, NobodyEnds, KeptByNobody,
       service, nobody, control, data
  <1>6. Written'
    BY DEF IInv, Written, Typed, PrivInStep, NotListening, Unread, Transfers, NobodyEnds,
       KeptByNobody, service, nobody, control, data
  <1> QED BY <1>1, <1>2, <1>3, <1>4, <1>5, <1>6 DEF IInv

-----------------------------------------------------------------------------
(* The client.                                                             *)

\* A command is sent.
LEMMA AnyTypesStep ==
    ASSUME IInv, AnyTypes
    PROVE  IInv'
  <1>1. cout' \in Seq(Replies) /\ cin' \in Seq(AnyCommands) /\ cin' # <<>>
    <2>1. cin \in Seq(AnyCommands)
      BY DEF IInv, Typed
    <2>2. PICK c \in AnyCommands : cin' = Append(cin, c)
      BY DEF AnyTypes, Types
    <2>3. cin' \in Seq(AnyCommands) /\ cin' # <<>>
      BY <2>1, <2>2
    <2>4. cout' \in Seq(Replies)
      BY EmptySeq DEF AnyTypes
    <2> QED BY <2>3, <2>4
  <1>2. Flags'
    BY Zenon DEF IInv, Flags, AnyTypes, Types, service, nobody, control, data
  <1>3. Typed'
    BY <1>1 DEF IInv, Typed, Transfers, Asking, AnyTypes, nobody, data
  <1>4. PrivInStep'
    BY DEF IInv, PrivInStep, Typed, AnyTypes, Types, service, nobody, control, data
  <1>5. NotListening'
    BY DEF IInv, NotListening, Typed, PrivInStep, Transfers, AnyTypes, Types, service, nobody,
       control, data
  <1>6. Unread'
    BY DEF IInv, Unread, Typed, PrivInStep, NotListening, Transfers, AnyTypes, Types, service,
       nobody, control, data
  <1>7. Written'
    BY DEF IInv, Written, Typed, PrivInStep, NotListening, Unread, Transfers, AnyTypes, Types,
       service, nobody, control, data
  <1> QED BY <1>2, <1>3, <1>4, <1>5, <1>6, <1>7 DEF IInv

\* The client goes.
LEMMA AnyLeavesStep ==
    ASSUME IInv, AnyLeaves
    PROVE  IInv'
  <1>1. Flags'
    BY Zenon DEF IInv, Flags, AnyLeaves, service, nobody, control, data
  <1>2. Typed'
    BY DEF IInv, Typed, Transfers, Asking, AnyLeaves, service, nobody, control, data
  <1>3. PrivInStep'
    BY DEF IInv, PrivInStep, Typed, AnyLeaves, service, nobody, control, data
  <1>4. NotListening'
    BY DEF IInv, NotListening, Typed, PrivInStep, Transfers, AnyLeaves, service, nobody, control,
       data
  <1>5. Unread'
    BY DEF IInv, Unread, Typed, PrivInStep, NotListening, Transfers, AnyLeaves, service, nobody,
       control, data
  <1>6. Written'
    BY DEF IInv, Written, Typed, PrivInStep, NotListening, Unread, Transfers, AnyLeaves, service,
       nobody, control, data
  <1> QED BY <1>1, <1>2, <1>3, <1>4, <1>5, <1>6 DEF IInv

\* The client uses its data connection.
LEMMA AnyDataStep ==
    ASSUME IInv, spc # "end", AnyData
    PROVE  IInv'
  <1>1. /\ dq \in Seq(Nat) /\ dsent \in Seq(Nat) /\ Len(dq) <= Len(dsent)
        /\ \A j \in 1 .. Len(dq) : dq[j] = dsent[Len(dsent) - Len(dq) + j]
        /\ Len(dq) \in Nat /\ Len(dsent) \in Nat
    BY DEF IInv, Unread
  <1>2. UNCHANGED <<spc, cmd, pos, ask, ans, pasvFd, ports, disk>>
    BY DEF AnyData, service, nobody
  <1>3. \/ \E p \in 1 .. ports : p = pasvFd /\ Connects(p)
        \/ /\ dq' = Append(dq, Len(dsent) + 1) /\ dsent' = Append(dsent, Len(dsent) + 1)
           /\ UNCHANGED dsock
        \/ UNCHANGED <<dsock, dq, dsent>>
    BY DEF AnyData, SendsBlock
  <1>4. ASSUME dq' = Append(dq, Len(dsent) + 1), dsent' = Append(dsent, Len(dsent) + 1)
        PROVE  /\ dq' \in Seq(Nat) /\ dsent' \in Seq(Nat) /\ Len(dq') = Len(dq) + 1 /\ Len(dsent') = Len(dsent) + 1
               /\ Len(dsent') - Len(dq') = Len(dsent) - Len(dq)
               /\ \A i \in 1 .. Len(dsent) : dsent'[i] = dsent[i]
               /\ \A j \in 1 .. Len(dq) + 1 : dq'[j] = dsent'[Len(dsent) - Len(dq) + j]
    <2>1. Len(dsent) + 1 \in Nat
      BY <1>1
    <2>2. /\ Append(dq, Len(dsent) + 1) \in Seq(Nat) /\ Append(dsent, Len(dsent) + 1) \in Seq(Nat)
          /\ Len(Append(dq, Len(dsent) + 1)) = Len(dq) + 1
          /\ Len(Append(dsent, Len(dsent) + 1)) = Len(dsent) + 1
          /\ \A i \in 1 .. Len(dsent) : Append(dsent, Len(dsent) + 1)[i] = dsent[i]
          /\ \A j \in 1 .. Len(dq) + 1 :
                 Append(dq, Len(dsent) + 1)[j] = Append(dsent, Len(dsent) + 1)[Len(dsent) - Len(dq) + j]
      BY <1>1, <2>1, Sent, ZenonT(60)
    <2>3. (Len(dsent) + 1) - (Len(dq) + 1) = Len(dsent) - Len(dq)
      BY <1>1
    <2> QED BY <1>4, <2>2, <2>3
  <1>5. ASSUME NEW p \in 1 .. ports, p = pasvFd, Connects(p)
        PROVE  /\ spc \notin Transfers /\ (spc # "end" => ans # "ok")
               /\ dq' \in Seq(Nat) /\ dsent' \in Seq(Nat) /\ Len(dq') = 0 /\ Len(dsent') = 0
               /\ dq' = dsent'
    <2>1. pasvFd # 0 /\ spc # "end"
      BY <1>5 DEF IInv, Typed, AnyData
    <2>2. spc \notin Transfers /\ ans # "ok"
      BY <2>1 DEF IInv, Typed, PrivInStep, NotListening, Transfers
    <2> QED BY <1>5, <2>2, EmptySeq DEF Connects
  <1>6. Flags'
    BY Zenon DEF IInv, Flags, AnyData, Connects, SendsBlock, ClosesData, service, nobody, control,
       data
  <1>7. Typed'
    BY DEF IInv, Typed, Transfers, Asking, AnyData, Connects, SendsBlock, ClosesData, service,
       nobody, control, data
  <1>8. PrivInStep'
    BY DEF IInv, PrivInStep, Typed, AnyData, Connects, SendsBlock, ClosesData, service, nobody,
       control, data
  <1>9. NotListening'
    BY DEF IInv, NotListening, Typed, PrivInStep, Transfers, AnyData, Connects, SendsBlock,
       ClosesData, service, nobody, control, data
  <1>10. Unread'
    <2>1. ASSUME NEW p \in 1 .. ports, p = pasvFd, Connects(p) PROVE Unread'
      BY <1>2, <1>5, <2>1 DEF Unread, Transfers
    <2>2. CASE /\ dq' = Append(dq, Len(dsent) + 1) /\ dsent' = Append(dsent, Len(dsent) + 1)
               /\ UNCHANGED dsock
      <3>1. dq = dsent => dq' = dsent'
        BY <2>2
      <3>2. Len(dq') <= Len(dsent')
        BY <1>1, <1>4, <2>2
      <3>3. \A j \in 1 .. Len(dq') : dq'[j] = dsent'[Len(dsent') - Len(dq') + j]
        BY <1>4, <2>2
      <3>4. dq' \in Seq(Nat) /\ dsent' \in Seq(Nat)
        BY <1>4, <2>2
      <3> HIDE <2>2
      <3>5. dsock' = dsock
        BY <2>2
      <3> QED BY <1>2, <3>1, <3>2, <3>3, <3>4, <3>5 DEF IInv, Unread
    <2>3. CASE UNCHANGED <<dsock, dq, dsent>>
      BY <1>2, <2>3 DEF IInv, Unread
    <2> QED BY <1>3, <2>1, <2>2, <2>3
  <1>11. Written'
    <2>1. ASSUME NEW p \in 1 .. ports, p = pasvFd, Connects(p) PROVE Written'
      BY <1>2, <1>5, <2>1 DEF Written, Transfers
    <2>2. CASE dq' = Append(dq, Len(dsent) + 1) /\ dsent' = Append(dsent, Len(dsent) + 1)
      <3> SUFFICES ASSUME spc = "up"
                   PROVE  LET n == Len(dsent') - Len(dq')
                              file == disk[cmd[2]]
                          IN  n <= pos /\ \A i \in 1 .. n : /\ pos - n + i <= Len(file)
                                                             /\ file[pos - n + i] = dsent'[i]
        BY <1>2 DEF Written
      <3> DEFINE n == Len(dsent) - Len(dq)
                 file == disk[cmd[2]]
      <3>1. n <= pos /\ \A i \in 1 .. n : pos - n + i <= Len(file) /\ file[pos - n + i] = dsent[i]
        BY DEF IInv, Written
      <3>2. Len(dsent') - Len(dq') = n /\ \A i \in 1 .. n : dsent'[i] = dsent[i]
        <4>1. \A i \in 1 .. n : i \in 1 .. Len(dsent)
          BY <1>1
        <4> QED BY <1>4, <2>2, <4>1
      <3> HIDE DEF n, file
      <3> QED BY <3>1, <3>2 DEF file
    <2>3. CASE UNCHANGED <<dsock, dq, dsent>>
      BY <1>2, <2>3 DEF IInv, Written
    <2> QED BY <1>3, <2>1, <2>2, <2>3
  <1> QED BY <1>6, <1>7, <1>8, <1>9, <1>10, <1>11 DEF IInv

-----------------------------------------------------------------------------
(* The session.                                                            *)

\* A session begins.
LEMMA InitIInv == SessionInit => IInv
  <1> SUFFICES ASSUME SessionInit PROVE IInv
    OBVIOUS
  <1>1. <<>> \in Seq(Nat) /\ Len(<<>>) = 0 /\ <<>> \in Seq(AnyCommands)
    BY EmptySeq
  <1>2. <<<<220, "greet">>>> \in Seq(Replies)
    <2>1. <<220, "greet">> \in Replies
      BY DEF Replies
    <2> QED BY <2>1
  <1>3. Flags
    BY Zenon DEF Flags, SessionInit, SessionFresh
  <1>4. Typed
    BY <1>1, <1>2, FtpAssumption DEF Typed, SessionInit, SessionFresh, Transfers, Asking
  <1>5. PrivInStep
    BY DEF PrivInStep, SessionInit, SessionFresh
  <1>6. NotListening
    BY DEF NotListening, Transfers, SessionInit, SessionFresh
  <1>7. Unread
    <2>1. dq = <<>> /\ dsent = <<>> /\ Len(dq) = 0 /\ Len(dsent) = 0
      BY <1>1 DEF SessionInit, SessionFresh
    <2> QED BY <1>1, <2>1 DEF Unread, SessionInit, SessionFresh
  <1>8. Written
    BY DEF Written, SessionInit
  <1> QED BY <1>3, <1>4, <1>5, <1>6, <1>7, <1>8 DEF IInv

\* Nothing happens.
LEMMA UnchangedIInv ==
    ASSUME IInv, UNCHANGED sessionVars
    PROVE  IInv'
  <1> USE DEF sessionVars, service, nobody, control, data
  <1>1. Flags'
    BY Zenon DEF IInv, Flags
  <1>2. Typed'
    BY DEF IInv, Typed
  <1>3. PrivInStep'
    BY DEF IInv, PrivInStep
  <1>4. NotListening'
    BY DEF IInv, NotListening
  <1>5. Unread'
    BY DEF IInv, Unread
  <1>6. Written'
    BY DEF IInv, Written
  <1> QED BY <1>1, <1>2, <1>3, <1>4, <1>5, <1>6 DEF IInv

\* A step of a process, of the alarm or of the client.
LEMMA NextIInv ==
    ASSUME IInv, [SessionNext]_sessionVars
    PROVE  IInv'
  <1>1. CASE ServiceStep
    BY <1>1, PlainCommandStep, do_passStep, PassFailsStep, do_portStep, do_restStep, do_rnfrStep, do_rntoStep, do_quitStep,
       do_pasvStep, ClientGoneStep, TransferCommandStep, PasvReplyStep, QueriedStep, NoTransferStep,
       NobodyGoneStep, do_listStep, ListBrokenStep, UploadStartsStep, DownloadStartsStep, FileFailsStep, UploadBlockStep,
       UploadEofStep, UploadFailsStep, DownloadBlockStep, DownloadSpinsStep, DownloadEndsStep,
       DownloadAbortedStep, handle_sigurgStep
       DEF ServiceStep
  <1>2. CASE NobodyStep
    BY <1>2, privop_pasv_activeStep, privop_pasv_listenStep, privop_pasv_acceptStep,
       privop_pasv_get_data_sockStep, NobodyFailsStep, NobodyEndsStep
       DEF NobodyStep
  <1>3. CASE Alarm
    BY <1>3, AlarmStep
  <1>4. CASE AnyClient
    BY <1>4, AnyTypesStep, AnyLeavesStep, AnyDataStep DEF AnyClient
  <1>5. CASE UNCHANGED sessionVars
    BY <1>5, UnchangedIInv
  <1> QED BY <1>1, <1>2, <1>3, <1>4, <1>5 DEF SessionNext

\* IInv is an invariant of a session.
LEMMA Invariance == SessionSpec => []IInv
  <1>1. IInv /\ [SessionNext]_sessionVars => IInv'
    BY NextIInv
  <1> QED BY InitIInv, <1>1, PTL DEF SessionSpec

\* The two processes of a session stay in step (PrivInStep), whatever commands, signals, failures
\* and exits come in between, and each variable keeps its type: handle_child and its callers of
\* priv_sock_*, against the loop of handle_nobody.
THEOREM SessionCorrect == SessionSpec => []SessionInv
  <1>1. IInv => SessionInv
    <2> SUFFICES ASSUME IInv PROVE SessionInv
      OBVIOUS
    <2>1. {port, rnfr, armed, abor, urg, process, moved, expired, copen, dfin} \subseteq BOOLEAN
      BY Zenon DEF IInv, Flags
    <2>2. \A f \in DOMAIN disk : disk[f] \in Seq(Nat)
      BY DEF IInv, Typed
    <2>3. SessionTypeOK
      BY <2>1, <2>2 DEF IInv, Typed, SessionTypeOK
    <2> QED BY <2>3 DEF IInv, SessionInv
  <1> QED BY Invariance, <1>1, PTL

-----------------------------------------------------------------------------
(* Uploads.                                                                *)

\* The last of the replies is the one that was made last.
LEMMA LastReply ==
    ASSUME NEW out \in Seq(Replies), NEW c \in AnyCommands, NEW n \in Nat
    PROVE  Last(out \o [i \in DOMAIN (<<n>> \o <<>>) |-> <<(<<n>> \o <<>>)[i], c[1]>>])[1] = n
  <1> DEFINE codes == <<n>> \o <<>>
             r == [i \in DOMAIN codes |-> <<codes[i], c[1]>>]
  <1>1. codes = <<n>>
    OBVIOUS
  <1>2. DOMAIN codes = 1 .. 1 /\ codes[1] = n /\ codes \in Seq(Nat)
    BY <1>1
  <1> HIDE DEF codes
  <1>3. \A i \in 1 .. 1 : <<codes[i], c[1]>> \in Replies
    BY <1>2, CommandFacts
  <1>4. r \in [1 .. 1 -> Replies] /\ r[1] = <<n, c[1]>>
    BY <1>2, <1>3
  <1> HIDE DEF r
  <1>5. r \in Seq(Replies) /\ Len(r) = 1
    BY <1>4
  <1>6. Len(out \o r) = Len(out) + 1 /\ (out \o r)[Len(out) + 1] = r[1]
    <2>1. Len(out) \in Nat /\ Len(out) + 1 \in 1 .. Len(out) + Len(r) /\ Len(out) + 1 > Len(out)
      BY <1>5
    <2>2. (Len(out) + 1) - Len(out) = 1
      BY <2>1
    <2>3. /\ Len(out \o r) = Len(out) + Len(r)
          /\ \A i \in 1 .. Len(out) + Len(r) :
                (out \o r)[i] = IF i <= Len(out) THEN out[i] ELSE r[i - Len(out)]
      BY <1>5, ConcatProperties
    <2>4. (out \o r)[Len(out) + 1] = r[(Len(out) + 1) - Len(out)]
      BY <2>1, <2>3
    <2> QED BY <1>5, <2>2, <2>3, <2>4
  <1>7. Last(out \o r)[1] = n
    BY <1>4, <1>6 DEF Last
  <1> QED BY <1>7 DEF r, codes

\* An upload that fails is not answered with 226.
LEMMA FailureReply ==
    ASSUME IInv, spc = "up", ~abor, NEW flag \in {1, 2}, TransferEnds(flag)
    PROVE  Last(cout')[1] # 226
  <1>1. cmd \in AnyCommands /\ cout \in Seq(Replies)
    BY DEF IInv, Typed, Transfers
  <1>2. CASE flag = 1
    <2>1. cout' = cout \o [i \in DOMAIN (<<451>> \o <<>>) |-> <<(<<451>> \o <<>>)[i], cmd[1]>>]
      BY <1>2 DEF TransferEnds, ftp_relply
    <2>2. 451 \in Nat
      OBVIOUS
    <2>3. Last(cout')[1] = 451
      BY <1>1, <2>1, <2>2, LastReply
    <2> QED BY <2>3
  <1>3. CASE flag = 2
    <2>1. cout' = cout \o [i \in DOMAIN (<<426>> \o <<>>) |-> <<(<<426>> \o <<>>)[i], cmd[1]>>]
      BY <1>3 DEF TransferEnds, ftp_relply
    <2>2. 426 \in Nat
      OBVIOUS
    <2>3. Last(cout')[1] = 426
      BY <1>1, <2>1, <2>2, LastReply
    <2> QED BY <2>3
  <1> QED BY <1>2, <1>3

\* A step that ends an upload and is answered with 226 is the one that found the end of the stream.
LEMMA EndsAtEof ==
    ASSUME IInv, [SessionNext]_sessionVars, spc = "up", spc' = "idle", ~abor, Last(cout')[1] = 226
    PROVE  UploadEof
  <1>1. ~(UNCHANGED sessionVars) /\ ~NobodyStep /\ ~AnyClient /\ ~Alarm
    <2>1. ~(UNCHANGED sessionVars)
      BY DEF sessionVars, service
    <2>2. ~NobodyStep
      BY DEF NobodyStep, privop_pasv_active, privop_pasv_listen, privop_pasv_accept,
         privop_pasv_get_data_sock, NobodyFails, NobodyEnds, KeptByNobody, service
    <2>3. ~AnyClient
      BY DEF AnyClient, AnyTypes, AnyLeaves, AnyData, service
    <2>4. ~Alarm
      BY DEF Alarm, Exits
    <2> QED BY <2>1, <2>2, <2>3, <2>4
  <1>2. ServiceStep
    BY <1>1 DEF SessionNext
  <1>3. \/ UploadBlock \/ UploadEof \/ UploadFails
    <2>1. ~(PlainCommand \/ do_pass \/ PassFails \/ do_port \/ do_rest \/ do_rnfr \/ do_rnto \/ do_quit \/ do_pasv
              \/ ClientGone \/ TransferCommand)
      BY DEF PlainCommand, do_pass, PassFails, do_port, do_rest, do_rnfr, do_rnto, do_quit, do_pasv, ClientGone,
         TransferCommand, Line, Receives
    <2>2. ~(PasvReply \/ Queried \/ NoTransfer \/ NobodyGone \/ do_list \/ ListBroken \/ UploadStarts
              \/ DownloadStarts \/ FileFails)
      BY DEF PasvReply, Queried, NoTransfer, NobodyGone, do_list, ListBroken, UploadStarts, DownloadStarts, FileFails,
         Connected
    <2>3. ~(DownloadBlock \/ DownloadSpins \/ DownloadEnds \/ DownloadAborted \/ handle_sigurg)
      BY DEF DownloadBlock, DownloadSpins, DownloadEnds, DownloadAborted, handle_sigurg
    <2> QED BY <1>2, <2>1, <2>2, <2>3 DEF ServiceStep
  <1>4. ~UploadBlock
    BY DEF UploadBlock
  <1>5. ~UploadFails
    <2> SUFFICES ASSUME UploadFails PROVE FALSE
      OBVIOUS
    <2>1. TransferEnds(1) \/ TransferEnds(2)
      BY DEF UploadFails
    <2> QED BY <2>1, FailureReply
  <1> QED BY <1>3, <1>4, <1>5

\* All has been read: the file ends with what was sent, where the transfer stands.
LEMMA AllWritten ==
    ASSUME IInv, spc = "up", dq = <<>>
    PROVE  Len(dsent) <= pos /\ SubSeq(disk[cmd[2]], pos - Len(dsent) + 1, pos) = dsent
  <1> DEFINE n == Len(dsent)
             file == disk[cmd[2]]
             part == SubSeq(file, pos - n + 1, pos)
  <1>1. n \in Nat /\ dsent \in Seq(Nat) /\ pos \in Nat /\ file \in Seq(Nat)
    <2>1. cmd[2] \in 1 .. FtpNames
      BY CommandFacts DEF IInv, Typed, Transfers
    <2> QED BY <2>1 DEF IInv, Typed, Unread
  <1>2. n <= pos /\ \A i \in 1 .. n : pos - n + i <= Len(file) /\ file[pos - n + i] = dsent[i]
    <2>1. Len(dq) = 0
      BY EmptySeq
    <2>2. Len(dsent) - Len(dq) = n
      BY <1>1, <2>1
    <2> QED BY <2>2 DEF IInv, Written
  <1> HIDE DEF n, file
  <1>3. part = [i \in 1 .. n |-> file[pos - n + i]]
    <2>1. pos - (pos - n + 1) + 1 = n
      BY <1>1
    <2>2. \A i \in 1 .. n : i + (pos - n + 1) - 1 = pos - n + i
      BY <1>1
    <2> QED BY <1>1, <1>2, <2>1, <2>2
  <1>4. dsent = [i \in 1 .. n |-> dsent[i]]
    BY <1>1 DEF n
  <1>5. part = dsent
    BY <1>2, <1>3, <1>4
  <1> QED BY <1>2, <1>5 DEF n, file

\* "226 Transfer complete" is true (UploadExact): every block the client sent is in the file, in
\* order, where upload_common began to write.
THEOREM UploadComplete == SessionSpec => UploadExact
  <1> DEFINE Exact == spc = "up" /\ spc' = "idle" /\ ~abor /\ Last(cout')[1] = 226
                        => /\ Len(dsent) <= pos /\ SubSeq(disk[cmd[2]], pos - Len(dsent) + 1, pos) = dsent
                           /\ dq = <<>>
  <1>1. IInv /\ [SessionNext]_sessionVars => [Exact]_sessionVars
    <2> SUFFICES ASSUME IInv, [SessionNext]_sessionVars,
                        spc = "up", spc' = "idle", ~abor, Last(cout')[1] = 226
                 PROVE  /\ Len(dsent) <= pos /\ SubSeq(disk[cmd[2]], pos - Len(dsent) + 1, pos) = dsent
                        /\ dq = <<>>
      OBVIOUS
    <2>1. UploadEof
      BY EndsAtEof
    <2>2. dq = <<>>
      BY <2>1 DEF UploadEof
    <2> QED BY <2>2, AllWritten
  <1> QED BY Invariance, <1>1, PTL DEF SessionSpec, UploadExact

-----------------------------------------------------------------------------
(* The upload: the invariant *)

\* The commands of ftp.c.
Verbs == {"USER", "PASS", "TYPE", "PASV", "STOR", "QUIT"}

\* What a reply is to: a command, or an alarm.
Subjects == Verbs \cup {"greet", "cmd", "data"}

QlogReplies == Nat \X Subjects

\* Where ftp.c is.
QlogTyped ==
    /\ qpc \in Verbs \cup {"greet", "final", "last", "connect", "stream", "between", "killed", "gone"}
    /\ qfile \in 0 .. FtpNames /\ qacked \subseteq 1 .. FtpNames
    /\ (qwait => qpc \in Verbs \cup {"greet", "final", "last"}) /\ (~qwait => qpc \notin {"greet", "final", "last"})
    /\ (~qlogin => qpc = "between") /\ (qlogin => qfile >= 1) /\ (qpc = "final" => qfile >= 2)

\* The files, and the data connection.
BlocksTyped ==
    /\ qwrote \in [1 .. FtpNames -> Seq(Nat)] /\ disk \in [1 .. FtpNames -> Seq(Nat)]
    /\ dq \in Seq(Nat) /\ dsent \in Seq(Nat) /\ pos \in Nat

\* The control connection.
WireTyped == cin \in Seq(Verbs \X (1 .. FtpNames)) /\ cout \in Seq(QlogReplies)

\* The session; qlog's commands leave no restart and no port, and send nothing urgent.
ServerTyped ==
    /\ spc \in {"idle", "pasv", "query", "accept", "up", "end"} /\ alarm \in {"cmd", "data"}
    /\ ask \in {"none", "ACTIVE", "LISTEN", "ACCEPT"} /\ ans \in {"none", "yes", "no", "port", "ok", "bad"}
    /\ ~urg /\ ~abor /\ ~port /\ restart = 0

\* The ports, and the one qlog connected to.
PortsTyped ==
    /\ dsock \in {"none", "queued", "open", "shut"}
    /\ ports \in Nat /\ pasvFd \in {0, ports} /\ dport \in 0 .. ports /\ (dsock = "queued" => dport >= 1)

\* The types of all variables.
ClientTyped == QlogTyped /\ BlocksTyped /\ WireTyped /\ ServerTyped /\ PortsTyped

\* The file whose STOR went out last, and the phases in which its answers are due.
Stored == IF qpc = "final" THEN qfile - 1 ELSE qfile

Storing == (qpc = "STOR" /\ qwait) \/ qpc \in {"stream", "final", "last"} \/ (qpc = "between" /\ qlogin)

\* What the service process is doing, as long as there is one, is the command of qlog that is not
\* answered, or the transfer of the last one.
Engaged ==
    spc # "end" =>
        /\ \/ cin = <<>>
           \/ spc = "idle" /\ qwait /\ qpc \in Verbs /\ cout = <<>> /\ cin = <<<<qpc, qfile>>>>
        /\ (spc = "pasv" => qwait /\ qpc = "PASV" /\ cout = <<>> /\ cmd[1] = "PASV")
        /\ (spc \in {"query", "accept"} => qwait /\ qpc = "STOR" /\ cout = <<>> /\ cmd = <<"STOR", qfile>>)
        /\ (spc = "up" => Storing /\ cmd = <<"STOR", Stored>> /\ (qpc = "STOR" \/ cout = <<>>))

\* The socket pair, as far as the client depends on it.
QuestionInStep ==
    spc # "end" =>
        /\ (spc \in {"idle", "up"} => ask = "none" /\ ans = "none")
        /\ (spc = "pasv" => ask \in {"none", "LISTEN"} /\ ans \in {"none", "port"})
        /\ (spc = "query" => ask \in {"none", "ACTIVE"} /\ ans \in {"none", "yes", "no"})
        /\ (spc = "accept" => ask \in {"none", "ACCEPT"} /\ ans \in {"none", "ok", "bad"})
        /\ (ask = "none" \/ ans = "none")

\* The command whose answer comes next.
Expected ==
    IF ~qlogin \/ qpc = "greet" THEN {"greet"}
    ELSE IF qpc \in {"stream", "between", "final", "last"} THEN {"STOR"}
    ELSE IF qwait THEN {qpc} ELSE {}

\* The replies qlog has not read are to what it waits for, or that of an alarm, which is the last.
Awaits == Expected \cup (IF spc = "end" THEN {"cmd", "data"} ELSE {})

RepliesExpected == qpc # "killed" => \A i \in 1 .. Len(cout) : cout[i][2] \in Awaits

\* A 226 stands for a file that is complete.
Complete ==
    \A i \in 1 .. Len(cout) : cout[i][1] = 226 =>
        qlogin /\ qpc \in {"between", "final", "last"} /\ spc # "up" /\ disk[Stored] = qwrote[Stored]

\* A connection that was made for an earlier file is not taken for this one's.
PortFresh ==
    spc # "end" =>
        /\ (spc = "pasv" /\ ans = "port" => dport < ports)
        /\ (qpc = "PASV" /\ qwait /\ cout # <<>> => dport < ports)
        /\ (qpc = "connect" => dport < ports)
        /\ (qpc = "STOR" /\ ~qsock => dport < ports)
        /\ (spc = "accept" /\ ans = "ok" => dsock = "open" /\ qsock)

\* The blocks of the current file: what the server has read is on disk, the rest under way.
FileBlocks ==
    /\ \A f \in 1 .. FtpNames : f > qfile => qwrote[f] = <<>>
    /\ (qpc \in {"greet", "USER", "PASS", "TYPE", "PASV", "connect", "STOR", "final"} => qwrote[qfile] = <<>>)
    /\ (qpc = "STOR" /\ qsock => dq = <<>> /\ dsent = <<>> /\ ~dfin)
    /\ (spc = "up" =>
          /\ qsock /\ dsock = "open" /\ dsent = qwrote[Stored] /\ (dfin => qpc \notin {"STOR", "stream"})
          /\ pos = Len(disk[Stored]) /\ Len(dsent) = pos + Len(dq)
          /\ \A i \in 1 .. pos : disk[Stored][i] = dsent[i]
          /\ \A i \in 1 .. Len(dq) : dq[i] = dsent[pos + i])

\* A file that is acknowledged is complete.
AckedWhole == \A f \in qacked : disk[f] = qwrote[f]

\* No file is acknowledged before its last answer is read.
Acked ==
    /\ AckedWhole /\ \A f \in qacked : f <= qfile
    /\ (qpc \notin {"QUIT", "gone", "killed"} => \A f \in qacked : f < Stored)

ClientInv ==
    ClientTyped /\ Engaged /\ QuestionInStep /\ RepliesExpected /\ Complete /\ PortFresh /\ FileBlocks /\ Acked

-----------------------------------------------------------------------------
(* The upload: what the steps have in common *)

\* The session keeps what it has answered and adds replies for S, none of them a 226.
AddedReplies(S) ==
    /\ cout' \in Seq(QlogReplies)
    /\ \A i \in 1 .. Len(cout') :
          (i \in 1 .. Len(cout) /\ cout'[i] = cout[i]) \/ (cout'[i][1] # 226 /\ cout'[i][2] \in S)

\* Replies after others.
LEMMA Joined ==
    ASSUME NEW S, NEW r \in Seq(S), NEW u \in Seq(S)
    PROVE  /\ r \o u \in Seq(S) /\ Len(r \o u) = Len(r) + Len(u)
           /\ \A i \in 1 .. Len(r) : (r \o u)[i] = r[i]
           /\ \A i \in 1 .. Len(u) : (r \o u)[Len(r) + i] = u[i]
  <1>1. /\ r \o u \in Seq(S) /\ Len(r \o u) = Len(r) + Len(u)
        /\ \A i \in 1 .. Len(r) + Len(u) : (r \o u)[i] = IF i <= Len(r) THEN r[i] ELSE u[i - Len(r)]
    BY ConcatProperties
  <1>2. Len(r) \in Nat /\ Len(u) \in Nat
    OBVIOUS
  <1>3. \A i \in 1 .. Len(r) : (r \o u)[i] = r[i]
    BY <1>1, <1>2
  <1>4. ASSUME NEW i \in 1 .. Len(u) PROVE (r \o u)[Len(r) + i] = u[i]
    <2>1. Len(r) + i \in 1 .. Len(r) + Len(u) /\ ~(Len(r) + i <= Len(r)) /\ (Len(r) + i) - Len(r) = i
      BY <1>2
    <2> QED BY <1>1, <2>1
  <1> QED BY <1>1, <1>3, <1>4

\* A function on 1 .. n is a sequence.
LEMMA FunctionSeq ==
    ASSUME NEW S, NEW n \in Nat, NEW u \in [1 .. n -> S]
    PROVE  u \in Seq(S) /\ Len(u) = n
  OBVIOUS

\* The replies with these codes to a command.
Replied(codes, v) == [i \in DOMAIN codes |-> <<codes[i], v>>]

\* t is r, and then these replies.
Extended(t, r, codes, v) ==
    /\ t \in Seq(QlogReplies) /\ Len(t) = Len(r) + Len(codes)
    /\ \A i \in 1 .. Len(r) : t[i] = r[i]
    /\ \A i \in 1 .. Len(codes) : t[Len(r) + i] = <<codes[i], v>>

\* Replies to one command after others.
LEMMA AnsweredFacts ==
    ASSUME NEW r \in Seq(QlogReplies), NEW codes \in Seq(Nat), NEW v \in Subjects, NEW t,
           t = r \o Replied(codes, v)
    PROVE  Extended(t, r, codes, v)
  <1> DEFINE u == [i \in DOMAIN codes |-> <<codes[i], v>>]
  <1>1. Len(codes) \in Nat /\ DOMAIN codes = 1 .. Len(codes) /\ \A i \in DOMAIN codes : codes[i] \in Nat
    OBVIOUS
  <1>2. \A i \in DOMAIN codes : <<codes[i], v>> \in QlogReplies
    BY <1>1 DEF QlogReplies
  <1>3. u \in [1 .. Len(codes) -> QlogReplies] /\ \A i \in 1 .. Len(codes) : u[i] = <<codes[i], v>>
    BY <1>1, <1>2
  <1> HIDE DEF u
  <1>4. u \in Seq(QlogReplies) /\ Len(u) = Len(codes)
    BY <1>1, <1>3, FunctionSeq, Zenon
  <1>5. PICK w : w = u
    OBVIOUS
  <1>6. t = r \o w /\ w \in Seq(QlogReplies)
    BY <1>4, <1>5 DEF u, Replied
  <1>7. /\ r \o w \in Seq(QlogReplies) /\ Len(r \o w) = Len(r) + Len(w)
        /\ \A i \in 1 .. Len(r) : (r \o w)[i] = r[i]
        /\ \A i \in 1 .. Len(w) : (r \o w)[Len(r) + i] = w[i]
    BY <1>6, Joined
  <1> QED BY <1>3, <1>4, <1>5, <1>6, <1>7 DEF Extended

\* An element of a joined sequence is one of either.
LEMMA JoinedElement ==
    ASSUME NEW n \in Nat, NEW m \in Nat, NEW i \in 1 .. n + m, ~(i <= n)
    PROVE  i - n \in 1 .. m /\ i = n + (i - n)
  OBVIOUS

\* The replies of a command to those there are.
LEMMA AddsReplies ==
    ASSUME cout \in Seq(QlogReplies), NEW codes \in Seq(Nat), NEW v \in Subjects,
           \A i \in 1 .. Len(codes) : codes[i] # 226,
           cout' = cout \o [i \in DOMAIN codes |-> <<codes[i], v>>]
    PROVE  AddedReplies({v})
  <1>1. PICK r \in Seq(QlogReplies) : r = cout
    OBVIOUS
  <1>2. PICK t : t = cout'
    OBVIOUS
  <1>3. t = r \o Replied(codes, v)
    BY <1>1, <1>2 DEF Replied
  <1>4. /\ t \in Seq(QlogReplies) /\ Len(t) = Len(r) + Len(codes)
        /\ \A i \in 1 .. Len(r) : t[i] = r[i]
        /\ \A i \in 1 .. Len(codes) : t[Len(r) + i] = <<codes[i], v>>
    <2>1. Extended(t, r, codes, v)
      BY <1>3, AnsweredFacts, Zenon
    <2> QED BY <2>1 DEF Extended
  <1>5. Len(r) \in Nat /\ Len(codes) \in Nat
    OBVIOUS
  <1>6. ASSUME NEW i \in 1 .. Len(t)
        PROVE  (i \in 1 .. Len(r) /\ t[i] = r[i]) \/ (t[i][1] # 226 /\ t[i][2] = v)
    <2>1. i \in 1 .. Len(r) + Len(codes)
      BY <1>4
    <2>2. CASE i <= Len(r)
      <3>1. i \in 1 .. Len(r)
        BY <1>5, <2>1, <2>2
      <3> QED BY <1>4, <3>1
    <2>3. CASE ~(i <= Len(r))
      <3>1. i - Len(r) \in 1 .. Len(codes) /\ i = Len(r) + (i - Len(r))
        BY <1>5, <2>1, <2>3, JoinedElement
      <3>2. t[i] = <<codes[i - Len(r)], v>> /\ codes[i - Len(r)] # 226
        BY <1>4, <3>1
      <3> QED BY <3>2
    <2> QED BY <2>2, <2>3
  <1>7. /\ t \in Seq(QlogReplies)
        /\ \A i \in 1 .. Len(t) : (i \in 1 .. Len(r) /\ t[i] = r[i]) \/ (t[i][1] # 226 /\ t[i][2] \in {v})
    BY <1>4, <1>6
  <1> QED BY <1>1, <1>2, <1>7 DEF AddedReplies

\* The reply of an alarm.
LEMMA AlarmReplies ==
    ASSUME cout \in Seq(QlogReplies), alarm \in {"cmd", "data"}, cout' = Append(cout, <<421, alarm>>)
    PROVE  AddedReplies({"cmd", "data"})
  <1>1. PICK r \in Seq(QlogReplies) : r = cout
    OBVIOUS
  <1>2. PICK e : e = <<421, alarm>>
    OBVIOUS
  <1>3. e \in QlogReplies /\ e[1] # 226 /\ e[2] \in {"cmd", "data"}
    BY <1>2 DEF QlogReplies, Subjects
  <1>4. /\ Append(r, e) \in Seq(QlogReplies) /\ Len(Append(r, e)) = Len(r) + 1 /\ Append(r, e)[Len(r) + 1] = e
        /\ \A i \in 1 .. Len(r) : Append(r, e)[i] = r[i]
    BY <1>3, AppendProperties
  <1>5. PICK t : t = Append(r, e)
    OBVIOUS
  <1>6. ASSUME NEW i \in 1 .. Len(t) PROVE (i \in 1 .. Len(r) /\ t[i] = r[i]) \/ t[i] = e
    <2>1. Len(r) \in Nat /\ i \in 1 .. Len(r) + 1
      BY <1>4, <1>5
    <2>2. i \in 1 .. Len(r) \/ i = Len(r) + 1
      BY <2>1
    <2> QED BY <1>4, <1>5, <2>2
  <1>7. /\ t \in Seq(QlogReplies)
        /\ \A i \in 1 .. Len(t) : (i \in 1 .. Len(r) /\ t[i] = r[i]) \/ (t[i][1] # 226 /\ t[i][2] \in {"cmd", "data"})
    BY <1>3, <1>4, <1>5, <1>6
  <1>8. t = cout'
    BY <1>1, <1>2, <1>5
  <1> QED BY <1>1, <1>7, <1>8 DEF AddedReplies

\* No reply at all.
LEMMA NoReplies ==
    ASSUME cout \in Seq(QlogReplies), cout' = cout, NEW S
    PROVE  AddedReplies(S)
  BY DEF AddedReplies

\* What a step of the session leaves alone when no file is written.
LEMMA QuietStep ==
    ASSUME ClientInv, UNCHANGED client, UNCHANGED <<disk, dsent, dfin>>, dq = <<>> => dq' = <<>>,
           spc' # "up", spc = "end" => spc' = "end", NEW S, AddedReplies(S), qpc # "killed" => S \subseteq Awaits',
           ClientTyped', Engaged', QuestionInStep', PortFresh'
    PROVE  ClientInv'
  <1>1. UNCHANGED <<qpc, qwait, qfile, qlogin, qcode, qof, qsock, qrst, qwrote, qacked>>
    BY DEF client
  <1>2. Expected' = Expected /\ Stored' = Stored /\ Awaits \subseteq Awaits'
    <2>1. Expected' = Expected /\ Stored' = Stored
      BY <1>1 DEF Expected, Stored
    <2> QED BY <2>1 DEF Awaits
  <1>3. RepliesExpected'
    BY <1>1, <1>2 DEF ClientInv, RepliesExpected, AddedReplies
  <1>4. Complete'
    <2> SUFFICES ASSUME NEW i \in 1 .. Len(cout'), cout'[i][1] = 226
                 PROVE  qlogin /\ qpc \in {"between", "final", "last"} /\ disk[Stored] = qwrote[Stored]
      BY <1>1, <1>2 DEF Complete
    <2>1. i \in 1 .. Len(cout) /\ cout[i][1] = 226
      BY DEF AddedReplies
    <2> QED BY <2>1 DEF ClientInv, Complete
  <1>5. FileBlocks'
    BY <1>1, <1>2 DEF ClientInv, FileBlocks
  <1>6. Acked'
    BY <1>1, <1>2 DEF ClientInv, Acked, AckedWhole
  <1> QED BY <1>3, <1>4, <1>5, <1>6 DEF ClientInv

\* The service process ends.
LEMMA EndedStep ==
    ASSUME ClientInv, UNCHANGED client, UNCHANGED <<disk, dq, dsent, dfin, dport, pasvFd, ports, urg, abor, port, restart, pos>>,
           Exits, NEW S, AddedReplies(S), qpc # "killed" => S \subseteq {"cmd", "data"} \cup Expected,
           cin' \in Seq(Verbs \X (1 .. FtpNames)), alarm' = alarm, ask' = ask, ans' \in {"none", ans}
    PROVE  ClientInv'
  <1>1. UNCHANGED <<qpc, qwait, qfile, qlogin, qcode, qof, qsock, qrst, qwrote, qacked>>
    BY DEF client
  <1>2. spc' = "end" /\ dsock' \in {"shut", dsock}
    BY DEF Exits
  <1>3. ClientTyped'
    <2>1. WireTyped'
      BY DEF AddedReplies, WireTyped
    <2>2. PortsTyped'
      BY <1>2 DEF ClientInv, ClientTyped, PortsTyped
    <2>3. ServerTyped'
      BY <1>2 DEF ClientInv, ClientTyped, ServerTyped
    <2>4. QlogTyped' /\ BlocksTyped'
      BY <1>1 DEF ClientInv, ClientTyped, QlogTyped, BlocksTyped
    <2> QED BY <2>1, <2>2, <2>3, <2>4 DEF ClientTyped
  <1>4. Engaged' /\ QuestionInStep' /\ PortFresh'
    BY <1>2 DEF Engaged, QuestionInStep, PortFresh
  <1>5. qpc # "killed" => S \subseteq Awaits'
    <2>1. Expected' = Expected
      BY <1>1 DEF Expected
    <2> QED BY <1>2, <2>1 DEF Awaits
  <1> QED BY <1>2, <1>3, <1>4, <1>5, QuietStep

\* Nothing happens that concerns the upload.
LEMMA NothingStep ==
    ASSUME ClientInv, UNCHANGED client,
           UNCHANGED <<spc, cmd, restart, port, abor, urg, alarm, pos, pasvFd, ports, ask, ans, cin, cout, data, disk>>
    PROVE  ClientInv'
  <1> USE DEF client, data
  <1>1. UNCHANGED <<Stored, Storing, Expected>>
    BY DEF Stored, Storing, Expected
  <1>2. ClientTyped'
    BY DEF ClientInv, ClientTyped, QlogTyped, BlocksTyped, WireTyped, ServerTyped, PortsTyped
  <1>3. Engaged' /\ QuestionInStep' /\ PortFresh'
    BY <1>1 DEF ClientInv, Engaged, QuestionInStep, PortFresh
  <1>4. RepliesExpected' /\ Complete'
    BY <1>1 DEF ClientInv, RepliesExpected, Complete, Awaits
  <1>5. FileBlocks' /\ Acked'
    BY <1>1 DEF ClientInv, FileBlocks, Acked, AckedWhole
  <1> QED BY <1>2, <1>3, <1>4, <1>5 DEF ClientInv

-----------------------------------------------------------------------------
(* The upload: the service process reads a command *)

\* Codes that do not say a transfer is complete.
Unfinished(codes) == codes \in Seq(Nat) /\ \A i \in 1 .. Len(codes) : codes[i] # 226

\* One code, or none.
LEMMA OneCode ==
    ASSUME NEW n \in Nat, n # 226
    PROVE  Unfinished(<<n>>)
  BY DEF Unfinished

LEMMA NoCode == Unfinished(<<>>)
  <1>1. <<>> \in Seq(Nat) /\ Len(<<>>) = 0
    BY EmptySeq
  <1> QED BY <1>1 DEF Unfinished

\* Verbs are what replies are to.
LEMMA VerbsFacts == Verbs \subseteq Subjects
  BY DEF Subjects

\* The command read is the one qlog waits for.
LEMMA Received ==
    ASSUME ClientInv, Receives
    PROVE  /\ qwait /\ qlogin /\ qpc \in Verbs /\ cout = <<>> /\ spc = "idle" /\ ~urg /\ ask = "none" /\ ans = "none"
           /\ Head(cin) = <<qpc, qfile>> /\ Head(cin)[1] = qpc /\ cin' = <<>> /\ qfile \in 1 .. FtpNames
           /\ Expected = {qpc} /\ qpc # "killed"
  <1>1. spc = "idle" /\ ~urg /\ cin # <<>> /\ cin' = Tail(cin)
    BY DEF Receives, Runs
  <1>2. qwait /\ qpc \in Verbs /\ cout = <<>> /\ cin = <<<<qpc, qfile>>>>
    BY <1>1 DEF ClientInv, Engaged
  <1>3. Head(cin) = <<qpc, qfile>> /\ Head(cin)[1] = qpc /\ Tail(cin) = <<>>
    BY <1>2
  <1>4. qlogin /\ qfile \in 1 .. FtpNames
    BY <1>2, FtpAssumption DEF ClientInv, ClientTyped, QlogTyped, Verbs
  <1>5. Expected = {qpc} /\ qpc # "killed"
    BY <1>2, <1>4 DEF Expected, Verbs
  <1>6. ask = "none" /\ ans = "none"
    BY <1>1 DEF ClientInv, QuestionInStep
  <1> QED BY <1>1, <1>2, <1>3, <1>4, <1>5, <1>6

\* The answer to a command just read.
LEMMA AnswerAdded ==
    ASSUME ClientInv, Receives, NEW codes, Unfinished(codes), Answers(codes)
    PROVE  AddedReplies({qpc})
  <1>1. qpc \in Subjects /\ Head(cin)[1] = qpc
    BY Received, VerbsFacts
  <1>2. cout' = cout \o [i \in DOMAIN codes |-> <<codes[i], qpc>>]
    BY <1>1, Zenon DEF Answers
  <1>3. cout \in Seq(QlogReplies)
    BY DEF ClientInv, ClientTyped, WireTyped
  <1>4. PICK v \in Subjects : v = qpc
    BY <1>1
  <1>5. cout' = cout \o [i \in DOMAIN codes |-> <<codes[i], v>>]
    BY <1>2, <1>4, Zenon
  <1>6. AddedReplies({v})
    BY <1>3, <1>5, AddsReplies DEF Unfinished
  <1> QED BY <1>4, <1>6

\* A command that only answers.
LEMMA AnsweredStep ==
    ASSUME ClientInv, UNCHANGED client, Receives, qpc # "PASV", NEW codes, Unfinished(codes), Answers(codes),
           KeptByPlain, UNCHANGED <<restart, port>>
    PROVE  ClientInv'
  <1>1. UNCHANGED <<qpc, qwait, qfile, qlogin, qcode, qof, qsock, qrst, qwrote, qacked>>
    BY DEF client
  <1>2. UNCHANGED <<spc, cmd, abor, urg, alarm, pos, pasvFd, ports, ask, ans, dsock, dport, dq, dfin, dsent, disk>>
    BY DEF KeptByPlain, nobody, data
  <1>3. AddedReplies({qpc})
    BY AnswerAdded
  <1>4. ClientTyped'
    <2>1. WireTyped'
      <3>1. cin' = <<>>
        BY Received
      <3> QED BY <1>3, <3>1, EmptySeq DEF AddedReplies, WireTyped
    <2>2. ServerTyped' /\ PortsTyped'
      BY <1>2 DEF ClientInv, ClientTyped, ServerTyped, PortsTyped
    <2>3. QlogTyped' /\ BlocksTyped'
      BY <1>1, <1>2 DEF ClientInv, ClientTyped, QlogTyped, BlocksTyped
    <2> QED BY <2>1, <2>2, <2>3 DEF ClientTyped
  <1>5. Engaged' /\ QuestionInStep'
    BY <1>2, Received DEF ClientInv, Engaged, QuestionInStep
  <1>6. PortFresh'
    BY <1>1, <1>2, Received DEF ClientInv, PortFresh
  <1>7. {qpc} \subseteq Awaits'
    <2>1. Expected' = Expected /\ Expected = {qpc}
      BY <1>1, Received DEF Expected
    <2> QED BY <2>1 DEF Awaits
  <1>8. spc' = "idle" /\ spc = "idle"
    BY <1>2, Received
  <1> QED BY <1>2, <1>3, <1>4, <1>5, <1>6, <1>7, <1>8, QuietStep

\* USER, TYPE and PASS.
LEMMA ClientPlainCommand ==
    ASSUME ClientInv, UNCHANGED client, PlainCommand
    PROVE  ClientInv'
  <1>1. PICK v \in DOMAIN Plain : Line(v) /\ \E codes \in Plain[v] : Answers(codes)
    BY DEF PlainCommand
  <1>2. PICK codes \in Plain[v] : Answers(codes)
    BY <1>1
  <1>3. Receives /\ qpc = v
    BY <1>1, Received DEF Line
  <1>4. v \in {"USER", "TYPE"}
    BY <1>1, <1>3, Received DEF Plain, Verbs
  <1>5. codes \in {<<530>>, <<331>>, <<200>>, <<500>>}
    <2>1. CASE v = "USER"
      BY <2>1 DEF Plain, do_user
    <2>2. CASE v = "TYPE"
      BY <2>2 DEF Plain, do_type
    <2> QED BY <1>4, <2>1, <2>2
  <1>6. Unfinished(codes)
    BY <1>5, OneCode
  <1>7. KeptByPlain /\ UNCHANGED <<restart, port>>
    BY DEF PlainCommand
  <1> QED BY <1>2, <1>3, <1>4, <1>6, <1>7, AnsweredStep

LEMMA ClientPass ==
    ASSUME ClientInv, UNCHANGED client, do_pass
    PROVE  ClientInv'
  <1>1. PICK codes \in {<<530>>, <<230>>, <<>>} : Answers(codes)
    BY DEF do_pass
  <1>2. Receives /\ qpc = "PASS"
    BY Received DEF do_pass, Line
  <1>3. Unfinished(codes)
    BY OneCode, NoCode
  <1>4. KeptByPlain /\ UNCHANGED <<restart, port>>
    BY DEF do_pass
  <1> QED BY <1>1, <1>2, <1>3, <1>4, AnsweredStep

\* The commands qlog never sends.
LEMMA ClientNever ==
    ASSUME ClientInv
    PROVE  ~do_port /\ ~do_rest /\ ~do_rnfr /\ ~do_rnto
  <1>1. ASSUME NEW v, Line(v) PROVE v \in Verbs
    BY <1>1, Received DEF Line
  <1>2. ~Line("PORT") /\ ~Line("REST") /\ ~Line("RNFR") /\ ~Line("RNTO")
    BY <1>1 DEF Verbs
  <1> QED BY <1>2 DEF do_port, do_rest, do_rnfr, do_rnto

\* QUIT: the service process answers and ends.
LEMMA ClientQuits ==
    ASSUME ClientInv, UNCHANGED client, do_quit
    PROVE  ClientInv'
  <1>1. Receives /\ Answers(<<221>>) /\ Exits
    BY DEF do_quit, Line
  <1>2. AddedReplies({qpc}) /\ {qpc} \subseteq Expected
    <2>1. Unfinished(<<221>>)
      BY OneCode
    <2>2. AddedReplies({qpc})
      BY <1>1, <2>1, AnswerAdded
    <2> QED BY <1>1, <2>2, Received
  <1>3. cin' \in Seq(Verbs \X (1 .. FtpNames))
    BY <1>1, Received, EmptySeq
  <1>4. /\ UNCHANGED <<disk, dq, dsent, dfin, dport, pasvFd, ports, urg, abor, port, restart, pos>>
        /\ alarm' = alarm /\ ask' = ask /\ ans' \in {"none", ans}
    BY DEF do_quit, nobody
  <1> QED BY <1>1, <1>2, <1>3, <1>4, EndedStep

LEMMA ClientLeft ==
    ASSUME ClientInv, UNCHANGED client, ClientGone
    PROVE  ClientInv'
  <1>1. /\ UNCHANGED <<disk, dq, dsent, dfin, dport, pasvFd, ports, urg, abor, port, restart, pos, cin, cout>>
        /\ alarm' = alarm /\ ask' = ask /\ ans' \in {"none", ans} /\ Exits
    BY DEF ClientGone, nobody, control
  <1>2. cin' \in Seq(Verbs \X (1 .. FtpNames)) /\ cout \in Seq(QlogReplies)
    BY <1>1 DEF ClientInv, ClientTyped, WireTyped
  <1>3. AddedReplies({}) /\ {} \subseteq Expected
    BY <1>1, <1>2, NoReplies
  <1> QED BY <1>1, <1>2, <1>3, EndedStep

LEMMA ClientPassFails ==
    ASSUME ClientInv, UNCHANGED client, PassFails
    PROVE  ClientInv'
  <1>1. /\ UNCHANGED <<disk, dq, dsent, dfin, dport, pasvFd, ports, urg, abor, port, restart, pos, cout>>
        /\ alarm' = alarm /\ ask' = ask /\ ans' \in {"none", ans} /\ Exits /\ cin # <<>> /\ cin' = Tail(cin)
    BY DEF PassFails, Line, Receives, nobody
  <1>2. cin' \in Seq(Verbs \X (1 .. FtpNames)) /\ cout \in Seq(QlogReplies)
    <2>1. cin \in Seq(Verbs \X (1 .. FtpNames)) /\ cout \in Seq(QlogReplies)
      BY DEF ClientInv, ClientTyped, WireTyped
    <2> QED BY <1>1, <2>1
  <1>3. AddedReplies({}) /\ {} \subseteq Expected
    BY <1>1, <1>2, NoReplies
  <1> QED BY <1>1, <1>2, <1>3, EndedStep

LEMMA ClientNobodyGone ==
    ASSUME ClientInv, UNCHANGED client, NobodyGone
    PROVE  ClientInv'
  <1>1. /\ UNCHANGED <<disk, dq, dsent, dfin, dport, pasvFd, ports, urg, abor, port, restart, pos, cin, cout>>
        /\ alarm' = alarm /\ ask' = ask /\ ans' \in {"none", ans} /\ Exits
    BY DEF NobodyGone, KeptByAsk, nobody
  <1>2. cin' \in Seq(Verbs \X (1 .. FtpNames)) /\ cout \in Seq(QlogReplies)
    BY <1>1 DEF ClientInv, ClientTyped, WireTyped
  <1>3. AddedReplies({}) /\ {} \subseteq Expected
    BY <1>1, <1>2, NoReplies
  <1> QED BY <1>1, <1>2, <1>3, EndedStep

LEMMA ClientAlarm ==
    ASSUME ClientInv, UNCHANGED client, Alarm
    PROVE  ClientInv'
  <1>1. /\ UNCHANGED <<disk, dq, dsent, dfin, dport, pasvFd, ports, urg, abor, port, restart, pos, cin, cmd>>
        /\ alarm' = alarm /\ ask' = ask /\ ans' = ans
    BY DEF Alarm, nobody
  <1>2. CASE UNCHANGED <<spc, dsock, cout>>
    BY <1>1, <1>2, NothingStep DEF data
  <1>3. CASE cout' = Append(cout, <<421, alarm>>) /\ Exits
    <2>1. cin' \in Seq(Verbs \X (1 .. FtpNames)) /\ cout \in Seq(QlogReplies) /\ alarm \in {"cmd", "data"}
      BY <1>1 DEF ClientInv, ClientTyped, WireTyped, ServerTyped
    <2>2. AddedReplies({"cmd", "data"})
      BY <1>3, <2>1, AlarmReplies
    <2> QED BY <1>1, <1>3, <2>1, <2>2, EndedStep
  <1> QED BY <1>2, <1>3 DEF Alarm

\* A request to the nobody process.
LEMMA AskedStep ==
    ASSUME ClientInv, UNCHANGED client, Receives, NEW r \in {"LISTEN", "ACTIVE"}, NEW w, Asks(r, w),
           (r = "LISTEN" /\ w = "pasv" /\ qpc = "PASV") \/ (r = "ACTIVE" /\ w = "query" /\ qpc = "STOR"),
           cmd' = Head(cin), KeptByAsk, UNCHANGED <<port, ans, cout>>
    PROVE  ClientInv'
  <1>1. UNCHANGED <<qpc, qwait, qfile, qlogin, qcode, qof, qsock, qrst, qwrote, qacked>>
    BY DEF client
  <1>2. UNCHANGED <<restart, abor, urg, alarm, pos, pasvFd, ports, dport, dq, dfin, dsent, disk, port, ans, cout>>
    BY DEF KeptByAsk, nobody
  <1>3. cin' = <<>> /\ cin' \in Seq(Verbs \X (1 .. FtpNames)) /\ cout \in Seq(QlogReplies)
    BY Received, EmptySeq DEF ClientInv, ClientTyped, WireTyped
  <1>4. AddedReplies({})
    BY <1>2, <1>3, NoReplies
  <1>5. CASE npc = "serve"
    <2>1. ask' = r /\ spc' = w /\ dsock' = dsock
      BY <1>5 DEF Asks
    <2>2. ClientTyped'
      <3>1. WireTyped'
        BY <1>2, <1>3 DEF WireTyped
      <3>2. ServerTyped' /\ PortsTyped'
        BY <1>2, <2>1 DEF ClientInv, ClientTyped, ServerTyped, PortsTyped
      <3>3. QlogTyped' /\ BlocksTyped'
        BY <1>1, <1>2 DEF ClientInv, ClientTyped, QlogTyped, BlocksTyped
      <3> QED BY <3>1, <3>2, <3>3 DEF ClientTyped
    <2>3. Engaged'
      BY <1>1, <1>2, <1>3, <2>1, Received DEF Engaged
    <2>4. QuestionInStep'
      BY <1>2, <2>1, Received DEF QuestionInStep
    <2>5. PortFresh'
      BY <1>1, <1>2, <2>1, Received DEF ClientInv, PortFresh
    <2>6. spc = "idle" /\ spc' \in {"pasv", "query"}
      BY <2>1, Received
    <2> QED BY <1>2, <1>4, <2>2, <2>3, <2>4, <2>5, <2>6, QuietStep
  <1>6. CASE npc # "serve"
    <2>1. Exits /\ ask' = ask
      BY <1>6 DEF Asks
    <2> QED BY <1>2, <1>3, <1>4, <2>1, EndedStep
  <1> QED BY <1>5, <1>6

LEMMA ClientPasv ==
    ASSUME ClientInv, UNCHANGED client, do_pasv
    PROVE  ClientInv'
  <1>1. Receives /\ qpc = "PASV" /\ Asks("LISTEN", "pasv")
    BY Received DEF do_pasv, Line
  <1> QED BY <1>1, AskedStep DEF do_pasv

LEMMA ClientTransfer ==
    ASSUME ClientInv, UNCHANGED client, TransferCommand
    PROVE  ClientInv'
  <1>1. PICK v \in {"STOR", "APPE", "RETR", "LIST"} : Line(v)
    BY DEF TransferCommand
  <1>2. Receives /\ qpc = "STOR" /\ Asks("ACTIVE", "query")
    BY <1>1, Received DEF TransferCommand, Line, Verbs
  <1> QED BY <1>2, AskedStep DEF TransferCommand

-----------------------------------------------------------------------------
(* The upload: the service process goes on *)

\* The reply to the command that is handled.
LEMMA ReplyAdded ==
    ASSUME ClientInv, NEW codes, Unfinished(codes), ftp_relply(codes), cmd[1] \in Verbs
    PROVE  AddedReplies({cmd[1]})
  <1>1. cout \in Seq(QlogReplies)
    BY DEF ClientInv, ClientTyped, WireTyped
  <1>2. PICK v \in Subjects : v = cmd[1]
    BY VerbsFacts
  <1>3. cout' = cout \o [i \in DOMAIN codes |-> <<codes[i], v>>]
    BY <1>2, Zenon DEF ftp_relply
  <1>4. AddedReplies({v})
    BY <1>1, <1>3, AddsReplies DEF Unfinished
  <1> QED BY <1>2, <1>4

\* The command that is handled is the one qlog waits for.
LEMMA Handled ==
    ASSUME ClientInv, spc \in {"pasv", "query", "accept"}
    PROVE  /\ qwait /\ qlogin /\ cmd[1] = qpc /\ qpc \in {"PASV", "STOR"} /\ (spc # "pasv" => qpc = "STOR" /\ cmd = <<"STOR", qfile>>)
           /\ (spc = "pasv" => qpc = "PASV") /\ cout = <<>> /\ cin = <<>> /\ Expected = {qpc} /\ qfile \in 1 .. FtpNames
  <1>1. /\ qwait /\ cmd[1] = qpc /\ (spc # "pasv" => qpc = "STOR" /\ cmd = <<"STOR", qfile>>)
        /\ (spc = "pasv" => qpc = "PASV") /\ cout = <<>> /\ cin = <<>>
    BY DEF ClientInv, Engaged
  <1>2. qlogin /\ qfile \in 1 .. FtpNames
    BY <1>1, FtpAssumption DEF ClientInv, ClientTyped, QlogTyped
  <1> QED BY <1>1, <1>2 DEF Expected

\* The service process goes on without a transfer.
LEMMA HandledStep ==
    ASSUME ClientInv, UNCHANGED client, spc \in {"pasv", "query", "accept"}, ans' = "none",
           UNCHANGED <<cmd, restart, abor, urg, pos, pasvFd, ports, cin, dsock, dport, dq, dfin, dsent, disk>>,
           ~port', alarm' \in {"cmd", "data"}, AddedReplies({qpc}),
           \/ spc' = "idle" /\ ask' = "none"
           \/ spc = "query" /\ spc' = "accept" /\ ask' = "ACCEPT" /\ cout' = cout,
           spc = "pasv" => dport < ports
    PROVE  ClientInv'
  <1>1. UNCHANGED <<qpc, qwait, qfile, qlogin, qcode, qof, qsock, qrst, qwrote, qacked>>
    BY DEF client
  <1>2. ClientTyped'
    <2>1. WireTyped'
      BY DEF ClientInv, ClientTyped, AddedReplies, WireTyped
    <2>2. ServerTyped' /\ PortsTyped'
      BY DEF ClientInv, ClientTyped, ServerTyped, PortsTyped
    <2>3. QlogTyped' /\ BlocksTyped'
      BY <1>1 DEF ClientInv, ClientTyped, QlogTyped, BlocksTyped
    <2> QED BY <2>1, <2>2, <2>3 DEF ClientTyped
  <1>3. Engaged'
    BY <1>1, Handled DEF Engaged
  <1>4. QuestionInStep'
    BY DEF QuestionInStep
  <1>5. PortFresh'
    BY <1>1, Handled DEF ClientInv, PortFresh
  <1>6. {qpc} \subseteq Awaits'
    <2>1. Expected' = Expected /\ Expected = {qpc}
      BY <1>1, Handled DEF Expected
    <2> QED BY <2>1 DEF Awaits
  <1> QED BY <1>2, <1>3, <1>4, <1>5, <1>6, QuietStep

LEMMA ClientPasvReply ==
    ASSUME ClientInv, UNCHANGED client, PasvReply
    PROVE  ClientInv'
  <1>1. spc = "pasv" /\ ans = "port" /\ ans' = "none" /\ spc' = "idle" /\ ftp_relply(<<227>>)
    BY DEF PasvReply, Takes
  <1>2. /\ UNCHANGED <<cmd, restart, abor, urg, pos, pasvFd, ports, cin, dsock, dport, dq, dfin, dsent, disk>>
        /\ UNCHANGED <<port, alarm, ask>>
    BY DEF PasvReply, KeptByAsk, nobody
  <1>3. ~port' /\ alarm' \in {"cmd", "data"}
    BY <1>2 DEF ClientInv, ClientTyped, ServerTyped
  <1>4. ask' = "none"
    BY <1>1, <1>2 DEF ClientInv, QuestionInStep
  <1>5. dport < ports
    BY <1>1 DEF ClientInv, PortFresh
  <1>6. AddedReplies({qpc})
    <2>1. cmd[1] = qpc /\ cmd[1] \in Verbs
      BY <1>1, Handled DEF Verbs
    <2>2. Unfinished(<<227>>)
      BY OneCode
    <2>3. AddedReplies({cmd[1]})
      BY <1>1, <2>1, <2>2, ReplyAdded
    <2> QED BY <2>1, <2>3
  <1> QED BY <1>1, <1>2, <1>3, <1>4, <1>5, <1>6, HandledStep

LEMMA ClientQueried ==
    ASSUME ClientInv, UNCHANGED client, Queried
    PROVE  ClientInv'
  <1>1. spc = "query" /\ ans \in {"yes", "no"} /\ ans' = "none" /\ ~port
    BY DEF Queried, Takes, ClientInv, ClientTyped, ServerTyped
  <1>2. /\ UNCHANGED <<cmd, restart, abor, urg, pos, pasvFd, ports, cin, dport, dq, dfin, dsent, disk>>
        /\ UNCHANGED <<port, alarm>>
    BY DEF Queried, KeptByAsk, nobody
  <1>3. ~port' /\ alarm' \in {"cmd", "data"}
    BY <1>2 DEF ClientInv, ClientTyped, ServerTyped
  <1>4. cin' \in Seq(Verbs \X (1 .. FtpNames)) /\ cout \in Seq(QlogReplies)
    BY <1>2 DEF ClientInv, ClientTyped, WireTyped
  <1>5. CASE Asks("ACCEPT", "accept") /\ cout' = cout
    <2>1. CASE npc = "serve"
      <3>1. ask' = "ACCEPT" /\ spc' = "accept" /\ dsock' = dsock
        BY <1>5, <2>1 DEF Asks
      <3>2. AddedReplies({qpc})
        BY <1>4, <1>5, NoReplies
      <3> QED BY <1>1, <1>2, <1>3, <1>5, <3>1, <3>2, HandledStep
    <2>2. CASE npc # "serve"
      <3>1. Exits /\ ask' = ask
        BY <1>5, <2>2 DEF Asks
      <3>2. AddedReplies({})
        BY <1>4, <1>5, NoReplies
      <3> QED BY <1>1, <1>2, <1>4, <3>1, <3>2, EndedStep
    <2> QED BY <2>1, <2>2
  <1>6. CASE ftp_relply(<<425>>) /\ spc' = "idle" /\ UNCHANGED <<ask, dsock>>
    <2>1. cmd[1] = qpc /\ cmd[1] \in Verbs
      BY <1>1, Handled DEF Verbs
    <2>2. Unfinished(<<425>>)
      BY OneCode
    <2>3. AddedReplies({qpc})
      BY <1>6, <2>1, <2>2, ReplyAdded
    <2>4. ask' = "none"
      BY <1>1, <1>6 DEF ClientInv, QuestionInStep
    <2> QED BY <1>1, <1>2, <1>3, <1>6, <2>3, <2>4, HandledStep
  <1> QED BY <1>1, <1>5, <1>6 DEF Queried

\* No connection has come: nothing is answered.
LEMMA ClientNoTransfer ==
    ASSUME ClientInv, UNCHANGED client, NoTransfer
    PROVE  ClientInv'
  <1>1. spc = "accept" /\ ans = "bad" /\ ans' = "none" /\ spc' = "idle" /\ ~port'
    BY DEF NoTransfer, Takes, ClientInv, ClientTyped, ServerTyped
  <1>2. UNCHANGED <<cmd, restart, abor, urg, pos, pasvFd, ports, cin, dsock, dport, dq, dfin, dsent, disk, alarm, ask, cout>>
    BY DEF NoTransfer, KeptByAsk, nobody
  <1>3. alarm' \in {"cmd", "data"} /\ cout \in Seq(QlogReplies)
    BY <1>2 DEF ClientInv, ClientTyped, ServerTyped, WireTyped
  <1>4. ask' = "none"
    BY <1>1, <1>2 DEF ClientInv, QuestionInStep
  <1>5. AddedReplies({qpc})
    BY <1>2, <1>3, NoReplies
  <1> QED BY <1>1, <1>2, <1>3, <1>4, <1>5, HandledStep

\* The file cannot be opened.
LEMMA ClientFileFails ==
    ASSUME ClientInv, UNCHANGED client, FileFails
    PROVE  ClientInv'
  <1>1. spc = "accept" /\ ans = "ok" /\ ans' = "none" /\ spc' = "idle" /\ ~port' /\ alarm' = "cmd" /\ restart' = 0
    BY DEF FileFails, Connected, Takes, ClientInv, ClientTyped, ServerTyped
  <1>2. UNCHANGED <<cmd, abor, urg, pos, pasvFd, ports, cin, dsock, dport, dq, dfin, dsent, disk, ask>>
    BY DEF FileFails, KeptByTransfer, nobody
  <1>3. restart' = restart
    BY <1>1 DEF ClientInv, ClientTyped, ServerTyped
  <1>4. ask' = "none"
    BY <1>1, <1>2 DEF ClientInv, QuestionInStep
  <1>5. cmd[1] = "STOR" /\ qpc = "STOR"
    BY <1>1, Handled
  <1>6. PICK codes \in {<<553>>, <<>>} : ftp_relply(codes)
    BY <1>5 DEF FileFails
  <1>7. AddedReplies({qpc})
    <2>1. Unfinished(codes)
      BY OneCode, NoCode
    <2>2. AddedReplies({cmd[1]})
      BY <1>5, <1>6, <2>1, ReplyAdded DEF Verbs
    <2> QED BY <1>5, <2>2
  <1> QED BY <1>1, <1>2, <1>3, <1>4, <1>7, HandledStep

\* What only other clients bring about.
LEMMA ClientNeverTransfers ==
    ASSUME ClientInv
    PROVE  /\ ~do_list /\ ~ListBroken /\ ~DownloadStarts /\ ~DownloadBlock /\ ~DownloadSpins /\ ~DownloadEnds
           /\ ~DownloadAborted /\ ~handle_sigurg /\ ~privop_pasv_get_data_sock
  <1>1. spc \notin {"connect", "down", "spin"} /\ ~urg /\ ask # "GETSOCK"
    BY DEF ClientInv, ClientTyped, ServerTyped
  <1>2. spc = "accept" => cmd[1] = "STOR"
    BY Handled
  <1>3. ~do_list /\ ~ListBroken /\ ~DownloadStarts
    BY <1>1, <1>2 DEF do_list, ListBroken, DownloadStarts, Connected
  <1>4. ~DownloadBlock /\ ~DownloadSpins /\ ~DownloadEnds /\ ~DownloadAborted
    BY <1>1 DEF DownloadBlock, DownloadSpins, DownloadEnds, DownloadAborted
  <1>5. ~handle_sigurg /\ ~privop_pasv_get_data_sock
    BY <1>1 DEF handle_sigurg, privop_pasv_get_data_sock, Request
  <1> QED BY <1>3, <1>4, <1>5

-----------------------------------------------------------------------------
(* The upload: the transfer *)

\* The upload starts: the file is empty, and so is what was sent.
LEMMA ClientUploadStarts ==
    ASSUME ClientInv, UNCHANGED client, UploadStarts
    PROVE  ClientInv'
  <1>1. UNCHANGED <<qpc, qwait, qfile, qlogin, qcode, qof, qsock, qrst, qwrote, qacked>>
    BY DEF client
  <1>2. /\ spc = "accept" /\ ans = "ok" /\ ans' = "none" /\ spc' = "up" /\ ~port' /\ alarm' = "data" /\ restart' = 0
        /\ restart = 0 /\ ftp_relply(<<150>>)
    BY DEF UploadStarts, Connected, Takes, ClientInv, ClientTyped, ServerTyped
  <1>3. UNCHANGED <<cmd, abor, urg, pasvFd, ports, cin, dsock, dport, dq, dfin, dsent, ask>>
    BY DEF UploadStarts, KeptByTransfer, nobody
  <1>4. /\ cmd = <<"STOR", qfile>> /\ cmd[1] = "STOR" /\ cmd[2] = qfile /\ qpc = "STOR" /\ qwait /\ qlogin
        /\ qfile \in 1 .. FtpNames /\ Expected = {"STOR"} /\ cin = <<>> /\ cout = <<>>
    BY <1>2, Handled
  <1>5. Stored = qfile /\ Stored' = qfile /\ Storing' /\ Expected' = {"STOR"}
    BY <1>1, <1>4 DEF Stored, Storing, Expected
  <1>6. dsock = "open" /\ qsock
    BY <1>2 DEF ClientInv, PortFresh
  <1>7. disk' = [disk EXCEPT ![qfile] = <<>>] /\ pos' = 0
    BY <1>2, <1>4 DEF UploadStarts
  <1>8. /\ disk \in [1 .. FtpNames -> Seq(Nat)] /\ disk' \in [1 .. FtpNames -> Seq(Nat)] /\ disk'[qfile] = <<>>
        /\ \A f \in 1 .. FtpNames : f # qfile => disk'[f] = disk[f]
    <2>1. disk \in [1 .. FtpNames -> Seq(Nat)] /\ <<>> \in Seq(Nat)
      BY EmptySeq DEF ClientInv, ClientTyped, BlocksTyped
    <2> QED BY <1>4, <1>7, <2>1
  <1>9. AddedReplies({"STOR"})
    <2>1. Unfinished(<<150>>)
      BY OneCode
    <2>2. AddedReplies({cmd[1]})
      BY <1>2, <1>4, <2>1, ReplyAdded DEF Verbs
    <2> QED BY <1>4, <2>2
  <1>10. ClientTyped'
    <2>1. WireTyped'
      BY <1>3, <1>9 DEF ClientInv, ClientTyped, AddedReplies, WireTyped
    <2>2. ServerTyped' /\ PortsTyped'
      BY <1>2, <1>3 DEF ClientInv, ClientTyped, ServerTyped, PortsTyped
    <2>3. QlogTyped' /\ BlocksTyped'
      BY <1>1, <1>3, <1>7, <1>8 DEF ClientInv, ClientTyped, QlogTyped, BlocksTyped
    <2> QED BY <2>1, <2>2, <2>3 DEF ClientTyped
  <1>11. Engaged'
    BY <1>1, <1>2, <1>3, <1>4, <1>5 DEF Engaged
  <1>12. QuestionInStep'
    BY <1>2, <1>3 DEF ClientInv, QuestionInStep
  <1>13. PortFresh'
    BY <1>1, <1>2, <1>3, <1>4, <1>6 DEF PortFresh
  <1>14. RepliesExpected' /\ Complete'
    <2>1. Len(cout) = 0
      BY <1>4
    <2>2. \A i \in 1 .. Len(cout') : cout'[i][1] # 226 /\ cout'[i][2] = "STOR"
      BY <1>9, <2>1 DEF AddedReplies
    <2> QED BY <1>5, <2>2 DEF RepliesExpected, Complete, Awaits
  <1>15. FileBlocks'
    <2>1. dq = <<>> /\ dsent = <<>> /\ ~dfin /\ qwrote[qfile] = <<>>
      BY <1>4, <1>6 DEF ClientInv, FileBlocks
    <2>2. Len(<<>>) = 0
      OBVIOUS
    <2>3. (\A f \in 1 .. FtpNames : f > qfile => qwrote[f] = <<>>)'
      BY <1>1 DEF ClientInv, FileBlocks
    <2> QED BY <1>1, <1>3, <1>4, <1>5, <1>6, <1>7, <1>8, <2>1, <2>2, <2>3 DEF FileBlocks
  <1>16. Acked'
    <2>1. \A f \in qacked : f < qfile /\ f \in 1 .. FtpNames
      BY <1>4, <1>5 DEF ClientInv, Acked, ClientTyped, QlogTyped
    <2>2. \A f \in qacked : f # qfile
      BY <1>4, <2>1
    <2>3. \A f \in qacked : disk'[f] = disk[f]
      BY <1>8, <2>1, <2>2
    <2>4. AckedWhole'
      BY <1>1, <2>3 DEF ClientInv, Acked, AckedWhole
    <2> QED BY <1>1, <1>5, <2>4 DEF ClientInv, Acked, Stored
  <1> QED BY <1>10, <1>11, <1>12, <1>13, <1>14, <1>15, <1>16 DEF ClientInv

\* The file that is written: it is the one stored last, and not acknowledged.
LEMMA Uploading ==
    ASSUME ClientInv, spc = "up"
    PROVE  /\ qlogin /\ Storing /\ Stored \in 1 .. FtpNames /\ cmd[1] = "STOR" /\ cmd[2] = Stored /\ cin = <<>>
           /\ (qpc = "STOR" \/ cout = <<>>) /\ Expected = {"STOR"} /\ qsock /\ dsock = "open" /\ dsent = qwrote[Stored]
           /\ (dfin => qpc \notin {"STOR", "stream"}) /\ ask = "none" /\ ans = "none"
           /\ \A f \in qacked : f \in 1 .. FtpNames /\ f # Stored
           /\ \A i \in 1 .. Len(cout) : cout[i][1] # 226
  <1>1. /\ Storing /\ cmd = <<"STOR", Stored>> /\ cin = <<>> /\ (qpc = "STOR" \/ cout = <<>>)
    BY DEF ClientInv, Engaged
  <1>2. qlogin /\ qpc \in {"STOR", "stream", "final", "last", "between"}
    BY <1>1 DEF ClientInv, ClientTyped, QlogTyped, Storing
  <1>3. Stored \in 1 .. FtpNames
    BY <1>2, FtpAssumption DEF ClientInv, ClientTyped, QlogTyped, Stored
  <1>4. Expected = {"STOR"}
    BY <1>1, <1>2 DEF Expected, Storing
  <1>5. qsock /\ dsock = "open" /\ dsent = qwrote[Stored] /\ (dfin => qpc \notin {"STOR", "stream"})
    BY DEF ClientInv, FileBlocks
  <1>6. ask = "none" /\ ans = "none"
    BY DEF ClientInv, QuestionInStep
  <1>7. \A f \in qacked : f \in 1 .. FtpNames /\ f # Stored
    <2>1. \A f \in qacked : f < Stored /\ f \in 1 .. FtpNames
      BY <1>2 DEF ClientInv, Acked, ClientTyped, QlogTyped
    <2> QED BY <1>3, <2>1
  <1>8. \A i \in 1 .. Len(cout) : cout[i][1] # 226
    BY DEF ClientInv, Complete
  <1>9. cmd[1] = "STOR" /\ cmd[2] = Stored
    BY <1>1
  <1> QED BY <1>1, <1>2, <1>3, <1>4, <1>5, <1>6, <1>7, <1>8, <1>9

\* File d has the first n blocks of s, and q is the rest of them.
Halves(d, q, s, n) ==
    /\ n = Len(d) /\ Len(s) = n + Len(q)
    /\ \A i \in 1 .. n : d[i] = s[i]
    /\ \A i \in 1 .. Len(q) : q[i] = s[n + i]

\* The file after the next block.
LEMMA BlockFacts ==
    ASSUME NEW d \in Seq(Nat), NEW q \in Seq(Nat), NEW s \in Seq(Nat), NEW n \in Nat, q # <<>>, Halves(d, q, s, n)
    PROVE  WriteAt(d, n, Head(q)) \in Seq(Nat) /\ Tail(q) \in Seq(Nat) /\ Halves(WriteAt(d, n, Head(q)), Tail(q), s, n + 1)
  <1>1. /\ Len(q) \in Nat /\ Len(q) >= 1 /\ Tail(q) \in Seq(Nat) /\ Len(Tail(q)) = Len(q) - 1
        /\ Head(q) = q[1] /\ Head(q) \in Nat
        /\ \A i \in 1 .. Len(q) - 1 : Tail(q)[i] = q[i + 1]
    OBVIOUS
  <1>2. PICK b \in Nat : b = Head(q) /\ b = s[n + 1]
    <2>1. 1 \in 1 .. Len(q)
      BY <1>1
    <2> QED BY <1>1, <2>1 DEF Halves
  <1>3. PICK w \in Seq(Nat) : w = WriteAt(d, n, b) /\ IsWritten(w, d, n, b)
    BY WriteAtFacts
  <1>4. Len(d) = n /\ Len(w) = n + 1 /\ w[n + 1] = b /\ \A i \in 1 .. n : w[i] = d[i]
    <2>1. Len(d) = n
      BY DEF Halves
    <2>2. ~(Len(d) > n)
      BY <2>1
    <2>3. Len(w) = n + 1 /\ w[n + 1] = b /\ \A i \in 1 .. Len(d) : i # n + 1 => w[i] = d[i]
      BY <1>3, <2>2 DEF IsWritten
    <2>4. \A i \in 1 .. n : i # n + 1
      OBVIOUS
    <2> QED BY <2>1, <2>3, <2>4
  <1>5. \A i \in 1 .. n + 1 : w[i] = s[i]
    <2>1. \A i \in 1 .. n + 1 : i = n + 1 \/ i \in 1 .. n
      OBVIOUS
    <2> QED BY <1>2, <1>4, <2>1 DEF Halves
  <1>6. ASSUME NEW i \in 1 .. Len(Tail(q)) PROVE Tail(q)[i] = s[(n + 1) + i]
    <2>1. i \in 1 .. Len(q) - 1 /\ i + 1 \in 1 .. Len(q) /\ n + (i + 1) = (n + 1) + i
      BY <1>1
    <2> QED BY <1>1, <2>1 DEF Halves
  <1>7. Len(s) = (n + 1) + Len(Tail(q))
    BY <1>1 DEF Halves
  <1>8. Halves(w, Tail(q), s, n + 1)
    BY <1>4, <1>5, <1>6, <1>7 DEF Halves
  <1> QED BY <1>1, <1>2, <1>3, <1>8, Zenon

\* A block is written.
LEMMA ClientUploadBlock ==
    ASSUME ClientInv, UNCHANGED client, UploadBlock
    PROVE  ClientInv'
  <1>1. UNCHANGED <<qpc, qwait, qfile, qlogin, qcode, qof, qsock, qrst, qwrote, qacked>>
    BY DEF client
  <1>2. spc = "up" /\ ~abor /\ dq # <<>> /\ dq' = Tail(dq) /\ pos' = pos + 1
    BY DEF UploadBlock, ClientInv, ClientTyped, ServerTyped
  <1>3. disk' = [disk EXCEPT ![Stored] = WriteAt(disk[Stored], pos, Head(dq))]
    BY <1>2, Uploading DEF UploadBlock
  <1>4. UNCHANGED <<spc, cmd, restart, port, abor, urg, alarm, pasvFd, ports, ask, ans, cin, cout, dsock, dport, dfin, dsent>>
    BY <1>2 DEF UploadBlock, KeptByLoop, nobody
  <1>5. Stored' = Stored /\ Expected' = Expected /\ (Storing' <=> Storing)
    BY <1>1 DEF Stored, Expected, Storing
  <1>6. /\ disk \in [1 .. FtpNames -> Seq(Nat)] /\ dq \in Seq(Nat) /\ dsent \in Seq(Nat) /\ pos \in Nat
        /\ Stored \in 1 .. FtpNames
    BY <1>2, Uploading DEF ClientInv, ClientTyped, BlocksTyped
  <1>7. PICK d \in Seq(Nat) : d = disk[Stored]
    BY <1>6
  <1>8. PICK q \in Seq(Nat) : q = dq
    BY <1>6
  <1>9. PICK s \in Seq(Nat) : s = dsent
    BY <1>6
  <1>10. PICK n \in Nat : n = pos
    BY <1>6
  <1>11. PICK w : w = WriteAt(d, n, Head(q))
    OBVIOUS
  <1>12. q # <<>> /\ Halves(d, q, s, n)
    BY <1>2, <1>7, <1>8, <1>9, <1>10 DEF ClientInv, FileBlocks, Halves
  <1>13. w \in Seq(Nat) /\ Tail(q) \in Seq(Nat) /\ n + 1 \in Nat /\ Halves(w, Tail(q), s, n + 1)
    BY <1>11, <1>12, BlockFacts
  <1>14. disk' = [disk EXCEPT ![Stored] = w] /\ pos' = n + 1 /\ dq' = Tail(q) /\ dsent' = s
    BY <1>2, <1>3, <1>4, <1>7, <1>8, <1>9, <1>10, <1>11
  <1>15. /\ disk' \in [1 .. FtpNames -> Seq(Nat)] /\ disk'[Stored] = w
         /\ \A f \in 1 .. FtpNames : f # Stored => disk'[f] = disk[f]
    BY <1>6, <1>13, <1>14
  <1>16. ClientTyped'
    <2>1. WireTyped' /\ ServerTyped' /\ PortsTyped'
      BY <1>4 DEF ClientInv, ClientTyped, WireTyped, ServerTyped, PortsTyped
    <2>2. QlogTyped' /\ BlocksTyped'
      BY <1>1, <1>4, <1>13, <1>14, <1>15 DEF ClientInv, ClientTyped, QlogTyped, BlocksTyped
    <2> QED BY <2>1, <2>2 DEF ClientTyped
  <1>17. Engaged' /\ QuestionInStep' /\ PortFresh'
    BY <1>1, <1>4, <1>5 DEF ClientInv, Engaged, QuestionInStep, PortFresh
  <1>18. RepliesExpected' /\ Complete'
    <2>1. \A i \in 1 .. Len(cout') : cout'[i][1] # 226
      BY <1>2, <1>4, Uploading
    <2> QED BY <1>1, <1>4, <1>5, <2>1 DEF ClientInv, RepliesExpected, Complete, Awaits
  <1>19. FileBlocks'
    <2>1. qpc # "STOR"
      BY <1>2, Uploading DEF ClientInv, FileBlocks
    <2>2. /\ pos' = Len(disk'[Stored']) /\ Len(dsent') = pos' + Len(dq')
          /\ (\A i \in 1 .. pos' : disk'[Stored'][i] = dsent'[i])
          /\ \A i \in 1 .. Len(dq') : dq'[i] = dsent'[pos' + i]
      BY <1>5, <1>13, <1>14, <1>15 DEF Halves
    <2>3. qsock' /\ dsock' = "open" /\ dsent' = qwrote'[Stored'] /\ (dfin' => qpc' \notin {"STOR", "stream"})
      BY <1>1, <1>2, <1>4, <1>5, Uploading
    <2> QED BY <1>1, <2>1, <2>2, <2>3 DEF ClientInv, FileBlocks
  <1>20. Acked'
    <2>1. \A f \in qacked : disk'[f] = disk[f]
      BY <1>2, <1>15, Uploading
    <2> QED BY <1>1, <1>5, <2>1 DEF ClientInv, Acked, AckedWhole
  <1> QED BY <1>16, <1>17, <1>18, <1>19, <1>20 DEF ClientInv

\* The two halves, when nothing is left to read.
LEMMA Whole ==
    ASSUME NEW d \in Seq(Nat), NEW s \in Seq(Nat), NEW n \in Nat, Halves(d, <<>>, s, n)
    PROVE  d = s
  <1>1. n = Len(d) /\ Len(s) = n /\ \A i \in 1 .. n : d[i] = s[i]
    BY DEF Halves
  <1> QED BY <1>1, SeqEqual

\* The reply of a transfer that ends, without an abort.
LEMMA EndReply ==
    ASSUME ClientInv, spc = "up", NEW flag \in {0, 1, 2}, TransferEnds(flag)
    PROVE  /\ spc' = "idle" /\ dsock' = "shut" /\ alarm' = "cmd" /\ ~abor'
           /\ \E n \in Nat : ftp_relply(<<n>>) /\ (flag # 0 => n # 226)
  <1>1. spc' = "idle" /\ dsock' = "shut" /\ alarm' = "cmd" /\ ~abor'
    BY DEF TransferEnds
  <1>2. ~abor
    BY DEF ClientInv, ClientTyped, ServerTyped
  <1>3. PICK n \in {226, 451, 426} : ftp_relply(<<n>> \o <<>>) /\ (flag # 0 => n # 226)
    <2>1. CASE flag = 0
      BY <1>2, <2>1 DEF TransferEnds
    <2>2. CASE flag = 1
      BY <1>2, <2>2 DEF TransferEnds
    <2>3. CASE flag = 2
      BY <1>2, <2>3 DEF TransferEnds
    <2> QED BY <2>1, <2>2, <2>3
  <1>4. <<n>> \o <<>> = <<n>>
    <2>1. n \in Nat /\ <<n>> \in Seq(Nat)
      OBVIOUS
    <2> QED BY <2>1, ConcatEmptySeq
  <1>5. n \in Nat /\ ftp_relply(<<n>>)
    BY <1>3, <1>4
  <1> QED BY <1>1, <1>3, <1>5

\* What a transfer that ends leaves.
LEMMA UploadEnds ==
    ASSUME ClientInv, UNCHANGED client, spc = "up", NEW flag \in {0, 1, 2}, TransferEnds(flag), KeptByLoop,
           UNCHANGED <<pos, disk>>, dq' \in Seq(Nat)
    PROVE  ClientTyped' /\ Engaged' /\ QuestionInStep' /\ PortFresh'
  <1>1. UNCHANGED <<qpc, qwait, qfile, qlogin, qcode, qof, qsock, qrst, qwrote, qacked>>
    BY DEF client
  <1>2. UNCHANGED <<cmd, restart, port, urg, pasvFd, ports, ask, ans, cin, dport, dfin, dsent>>
    BY DEF KeptByLoop, nobody
  <1>3. spc' = "idle" /\ dsock' = "shut" /\ alarm' = "cmd" /\ ~abor'
    BY EndReply
  <1>4. cout' \in Seq(QlogReplies)
    <2>1. PICK n \in Nat : ftp_relply(<<n>>)
      BY EndReply
    <2>2. PICK v \in Subjects : v = cmd[1]
      BY Uploading DEF Subjects, Verbs
    <2>3. PICK codes \in Seq(Nat) : codes = <<n>>
      BY Codes
    <2>4. PICK r \in Seq(QlogReplies) : r = cout
      BY DEF ClientInv, ClientTyped, WireTyped
    <2>5. PICK t : t = cout'
      OBVIOUS
    <2>6. t = r \o Replied(codes, v)
      BY <2>1, <2>2, <2>3, <2>4, <2>5, Zenon DEF ftp_relply, Replied
    <2>7. Extended(t, r, codes, v)
      BY <2>6, AnsweredFacts, Zenon
    <2> QED BY <2>5, <2>7 DEF Extended
  <1>5. ClientTyped'
    <2>1. WireTyped'
      BY <1>2, <1>4 DEF ClientInv, ClientTyped, WireTyped
    <2>2. ServerTyped' /\ PortsTyped'
      BY <1>2, <1>3 DEF ClientInv, ClientTyped, ServerTyped, PortsTyped
    <2>3. QlogTyped' /\ BlocksTyped'
      BY <1>1, <1>2 DEF ClientInv, ClientTyped, QlogTyped, BlocksTyped
    <2> QED BY <2>1, <2>2, <2>3 DEF ClientTyped
  <1>6. Engaged' /\ QuestionInStep'
    BY <1>2, <1>3, Uploading DEF Engaged, QuestionInStep
  <1>7. PortFresh'
    <2>1. qpc # "PASV" /\ qpc # "connect" /\ qsock
      BY Uploading DEF Storing
    <2> QED BY <1>1, <1>2, <1>3, <2>1 DEF PortFresh
  <1> QED BY <1>5, <1>6, <1>7

\* The transfer fails.
LEMMA ClientUploadFails ==
    ASSUME ClientInv, UNCHANGED client, UploadFails
    PROVE  ClientInv'
  <1>1. spc = "up" /\ ~abor /\ dq \in Seq(Nat)
    BY DEF UploadFails, ClientInv, ClientTyped, ServerTyped, BlocksTyped
  <1>2. PICK flag \in {1, 2} : TransferEnds(flag) /\ (dq' = <<>> \/ (dq # <<>> /\ dq' = Tail(dq)))
    BY <1>1 DEF UploadFails
  <1>3. dq' \in Seq(Nat) /\ (dq = <<>> => dq' = <<>>)
    <2>1. CASE dq' = <<>>
      BY <2>1, EmptySeq
    <2>2. CASE dq # <<>> /\ dq' = Tail(dq)
      BY <1>1, <2>2
    <2> QED BY <1>2, <2>1, <2>2
  <1>4. KeptByLoop /\ UNCHANGED <<pos, disk>>
    BY DEF UploadFails
  <1>5. ClientTyped' /\ Engaged' /\ QuestionInStep' /\ PortFresh'
    BY <1>1, <1>2, <1>3, <1>4, UploadEnds
  <1>6. spc' = "idle" /\ \E n \in Nat : ftp_relply(<<n>>) /\ n # 226
    BY <1>1, <1>2, EndReply
  <1>7. AddedReplies({"STOR"})
    <2>1. PICK n \in Nat : ftp_relply(<<n>>) /\ n # 226
      BY <1>6
    <2>2. Unfinished(<<n>>)
      BY <2>1, OneCode
    <2>3. cmd[1] = "STOR"
      BY <1>1, Uploading
    <2>4. AddedReplies({cmd[1]})
      BY <2>1, <2>2, <2>3, ReplyAdded DEF Verbs
    <2> QED BY <2>3, <2>4
  <1>8. {"STOR"} \subseteq Awaits'
    <2>1. Expected' = Expected /\ Expected = {"STOR"}
      BY <1>1, Uploading DEF client, Expected
    <2> QED BY <2>1 DEF Awaits
  <1>9. UNCHANGED <<disk, dsent, dfin>>
    BY <1>4 DEF KeptByLoop
  <1> QED BY <1>1, <1>3, <1>5, <1>6, <1>7, <1>8, <1>9, QuietStep

\* The transfer is complete: the file is what qlog wrote.
LEMMA ClientUploadEof ==
    ASSUME ClientInv, UNCHANGED client, UploadEof
    PROVE  ClientInv'
  <1>1. UNCHANGED <<qpc, qwait, qfile, qlogin, qcode, qof, qsock, qrst, qwrote, qacked>>
    BY DEF client
  <1>2. spc = "up" /\ dq = <<>> /\ dfin /\ TransferEnds(0) /\ dq' = dq
    BY Uploading DEF UploadEof
  <1>3. KeptByLoop /\ UNCHANGED <<pos, disk>> /\ dq' \in Seq(Nat)
    BY <1>2, EmptySeq DEF UploadEof
  <1>4. ClientTyped' /\ Engaged' /\ QuestionInStep' /\ PortFresh'
    BY <1>2, <1>3, UploadEnds
  <1>5. Stored' = Stored /\ Expected' = Expected /\ Expected = {"STOR"}
    BY <1>1, <1>2, Uploading DEF Stored, Expected
  <1>6. qpc \in {"between", "final", "last"} /\ qlogin /\ cout = <<>>
    BY <1>2, Uploading DEF Storing
  <1>7. disk[Stored] = qwrote[Stored]
    <2>1. /\ disk[Stored] \in Seq(Nat) /\ dsent \in Seq(Nat) /\ pos \in Nat
      BY <1>2, Uploading DEF ClientInv, ClientTyped, BlocksTyped
    <2>2. Halves(disk[Stored], <<>>, dsent, pos)
      BY <1>2 DEF ClientInv, FileBlocks, Halves
    <2>3. disk[Stored] = dsent
      BY <2>1, <2>2, Whole
    <2> QED BY <1>2, <2>3, Uploading
  <1>8. \A i \in 1 .. Len(cout') : cout'[i][2] = "STOR"
    <2>1. PICK n \in Nat : ftp_relply(<<n>>)
      BY <1>2, EndReply
    <2>2. PICK v \in Subjects : v = cmd[1] /\ v = "STOR"
      BY <1>2, Uploading DEF Subjects, Verbs
    <2>3. PICK codes \in Seq(Nat) : codes = <<n>>
      BY Codes
    <2>4. PICK r \in Seq(QlogReplies) : r = cout
      BY DEF ClientInv, ClientTyped, WireTyped
    <2>5. PICK t : t = cout'
      OBVIOUS
    <2>6. t = r \o Replied(codes, v)
      BY <2>1, <2>2, <2>3, <2>4, <2>5, Zenon DEF ftp_relply, Replied
    <2>7. Extended(t, r, codes, v)
      BY <2>6, AnsweredFacts, Zenon
    <2>8. Len(r) = 0
      BY <1>6, <2>4
    <2>9. Len(t) = Len(codes) /\ \A i \in 1 .. Len(codes) : t[0 + i] = <<codes[i], v>>
      BY <2>7, <2>8 DEF Extended
    <2>10. \A i \in 1 .. Len(t) : t[i] = <<codes[i], v>>
      BY <2>9
    <2>11. \A i \in 1 .. Len(t) : t[i][2] = v
      BY <2>10
    <2> QED BY <2>2, <2>5, <2>11
  <1>9. RepliesExpected' /\ Complete'
    <2>1. spc' = "idle"
      BY <1>2, EndReply
    <2>2. disk' = disk
      BY <1>3
    <2> QED BY <1>1, <1>5, <1>6, <1>7, <1>8, <2>1, <2>2 DEF RepliesExpected, Complete, Awaits
  <1>10. FileBlocks' /\ Acked'
    <2>1. UNCHANGED <<disk, dsent, dfin, dq>> /\ spc' = "idle"
      BY <1>2, <1>3, EndReply DEF KeptByLoop
    <2> QED BY <1>1, <1>5, <2>1 DEF ClientInv, FileBlocks, Acked, AckedWhole
  <1> QED BY <1>4, <1>9, <1>10 DEF ClientInv

-----------------------------------------------------------------------------
(* The upload: the nobody process *)

\* A step of the nobody process: what it touches, and what is left to show.
LEMMA NobodyQuiet ==
    ASSUME ClientInv, UNCHANGED client, KeptByNobody, UNCHANGED <<dq, dfin, dsent>>, spc = "up" => dsock' = dsock,
           ask' = "none", ans' \in {"none", "yes", "no", "port", "ok", "bad"}, PortsTyped', QuestionInStep', PortFresh'
    PROVE  ClientInv'
  <1>1. UNCHANGED <<qpc, qwait, qfile, qlogin, qcode, qof, qsock, qrst, qwrote, qacked>>
    BY DEF client
  <1>2. UNCHANGED <<spc, cmd, restart, port, abor, urg, alarm, pos, cin, cout, disk>>
    BY DEF KeptByNobody, service, control
  <1>3. ClientTyped'
    <2>1. WireTyped' /\ ServerTyped'
      BY <1>2 DEF ClientInv, ClientTyped, WireTyped, ServerTyped
    <2>2. QlogTyped' /\ BlocksTyped'
      BY <1>1, <1>2 DEF ClientInv, ClientTyped, QlogTyped, BlocksTyped
    <2> QED BY <2>1, <2>2 DEF ClientTyped
  <1>4. UNCHANGED <<Stored, Expected>> /\ (Storing' <=> Storing)
    BY <1>1 DEF Stored, Storing, Expected
  <1>5. Engaged'
    BY <1>1, <1>2, <1>4 DEF ClientInv, Engaged
  <1>6. RepliesExpected' /\ Complete'
    BY <1>1, <1>2, <1>4 DEF ClientInv, RepliesExpected, Complete, Awaits
  <1>7. Acked'
    BY <1>1, <1>2, <1>4 DEF ClientInv, Acked, AckedWhole
  <1>8. FileBlocks'
    BY <1>1, <1>2, <1>4 DEF ClientInv, FileBlocks
  <1> QED BY <1>3, <1>5, <1>6, <1>7, <1>8 DEF ClientInv

LEMMA ClientActive ==
    ASSUME ClientInv, UNCHANGED client, privop_pasv_active
    PROVE  ClientInv'
  <1>1. ask = "ACTIVE" /\ ask' = "none" /\ ans' \in {"yes", "no"}
    BY DEF privop_pasv_active, Request
  <1>2. UNCHANGED <<pasvFd, ports, dsock, dport, dq, dfin, dsent, spc, cout>> /\ KeptByNobody
    BY DEF privop_pasv_active, KeptByNobody, nobody, data, service, control
  <1>3. UNCHANGED <<qpc, qwait, qsock>>
    BY DEF client
  <1>4. spc # "end" => spc = "query"
    BY <1>1 DEF ClientInv, QuestionInStep, ClientTyped, ServerTyped
  <1>5. QuestionInStep'
    BY <1>1, <1>2, <1>4 DEF QuestionInStep
  <1>6. PortsTyped' /\ PortFresh'
    BY <1>2, <1>3, <1>4 DEF ClientInv, ClientTyped, PortsTyped, PortFresh
  <1> QED BY <1>1, <1>2, <1>5, <1>6, NobodyQuiet

\* A new port: no connection was made to it yet.
LEMMA ClientListen ==
    ASSUME ClientInv, UNCHANGED client, privop_pasv_listen
    PROVE  ClientInv'
  <1>1. ask = "LISTEN" /\ ask' = "none" /\ ans' = "port" /\ ports' = ports + 1 /\ pasvFd' = ports + 1
    BY DEF privop_pasv_listen, Request
  <1>2. UNCHANGED <<dsock, dport, dq, dfin, dsent, spc, cout>> /\ KeptByNobody
    BY DEF privop_pasv_listen, KeptByNobody, data, service, control
  <1>3. UNCHANGED <<qpc, qwait, qsock>>
    BY DEF client
  <1>4. spc # "end" => spc = "pasv"
    BY <1>1 DEF ClientInv, QuestionInStep, ClientTyped, ServerTyped
  <1>5. QuestionInStep'
    BY <1>1, <1>2, <1>4 DEF QuestionInStep
  <1>6. PortsTyped' /\ dport' < ports'
    BY <1>1, <1>2 DEF ClientInv, ClientTyped, PortsTyped
  <1>7. PortFresh'
    BY <1>2, <1>4, <1>6 DEF PortFresh
  <1> QED BY <1>1, <1>2, <1>5, <1>6, <1>7, NobodyQuiet

\* The connection taken is one qlog made for this file.
LEMMA ClientAccept ==
    ASSUME ClientInv, UNCHANGED client, privop_pasv_accept
    PROVE  ClientInv'
  <1>1. ask = "ACCEPT" /\ ask' = "none" /\ ans' \in {"ok", "bad"} /\ pasvFd' = 0
    BY DEF privop_pasv_accept, Request, accept_timeout
  <1>2. /\ (ans' = "ok" => dsock = "queued" /\ dport = pasvFd /\ dsock' = "open")
        /\ (ans' = "bad" => dsock' = dsock)
    BY DEF privop_pasv_accept, accept_timeout
  <1>3. UNCHANGED <<ports, dport, dq, dfin, dsent, spc, cout>> /\ KeptByNobody
    BY DEF privop_pasv_accept, KeptByNobody, service, control
  <1>4. UNCHANGED <<qpc, qwait, qsock>>
    BY DEF client
  <1>5. spc # "end" => spc = "accept" /\ qpc = "STOR"
    <2>1. spc # "end" => spc = "accept"
      BY <1>1 DEF ClientInv, QuestionInStep, ClientTyped, ServerTyped
    <2> QED BY <2>1, Handled
  <1>6. QuestionInStep'
    BY <1>1, <1>3, <1>5 DEF QuestionInStep
  <1>7. PortsTyped'
    BY <1>1, <1>2, <1>3 DEF ClientInv, ClientTyped, PortsTyped
  <1>8. PortFresh'
    <2>1. ASSUME spc # "end", ans' = "ok" PROVE qsock
      <3>1. dport = pasvFd /\ dport >= 1 /\ dport \in Nat /\ ports \in Nat /\ pasvFd \in {0, ports}
        BY <1>2, <2>1 DEF ClientInv, ClientTyped, PortsTyped
      <3>2. ~(dport < ports)
        BY <3>1
      <3> QED BY <1>5, <2>1, <3>2 DEF ClientInv, PortFresh
    <2>2. spc # "end" /\ qpc = "STOR" /\ ~qsock => dport < ports
      BY DEF ClientInv, PortFresh
    <2> QED BY <1>1, <1>2, <1>3, <1>4, <1>5, <2>1, <2>2 DEF PortFresh
  <1> QED BY <1>1, <1>2, <1>3, <1>5, <1>6, <1>7, <1>8, NobodyQuiet

LEMMA ClientNobodyFails ==
    ASSUME ClientInv, UNCHANGED client, NobodyFails
    PROVE  ClientInv'
  <1>1. ask = "LISTEN" /\ ask' = "none" /\ ans' = ans
    BY DEF NobodyFails, Request, ClientInv, ClientTyped, ServerTyped
  <1>2. UNCHANGED <<pasvFd, ports, dsock, dport, dq, dfin, dsent, spc, cout>> /\ KeptByNobody
    BY DEF NobodyFails, KeptByNobody, data, service, control
  <1>3. UNCHANGED <<qpc, qwait, qsock>>
    BY DEF client
  <1>4. ans' \in {"none", "yes", "no", "port", "ok", "bad"}
    BY <1>1 DEF ClientInv, ClientTyped, ServerTyped
  <1>5. QuestionInStep'
    BY <1>1, <1>2 DEF ClientInv, QuestionInStep
  <1>6. PortsTyped' /\ PortFresh'
    BY <1>1, <1>2, <1>3 DEF ClientInv, ClientTyped, PortsTyped, PortFresh
  <1> QED BY <1>1, <1>2, <1>4, <1>5, <1>6, NobodyQuiet

LEMMA ClientNobodyEnds ==
    ASSUME ClientInv, UNCHANGED client, NobodyEnds
    PROVE  ClientInv'
  BY NothingStep DEF NobodyEnds, service, control

-----------------------------------------------------------------------------
(* The upload: qlog *)

\* Between two files the service process reads a command, or still writes the file.
LEMMA BetweenFiles ==
    ASSUME ClientInv, qpc = "between"
    PROVE  /\ ~qwait /\ (spc # "end" => cin = <<>> /\ spc \in {"idle", "up"}) /\ (spc = "up" => qlogin) /\ Stored = qfile
           /\ (qlogin => qfile \in 1 .. FtpNames) /\ Expected = (IF qlogin THEN {"STOR"} ELSE {"greet"})
  <1>1. ~qwait /\ Stored = qfile /\ (qlogin => qfile \in 1 .. FtpNames)
    BY FtpAssumption DEF ClientInv, ClientTyped, QlogTyped, Stored, Verbs
  <1>2. spc # "end" => cin = <<>> /\ spc \in {"idle", "up"}
    BY <1>1 DEF ClientInv, ClientTyped, ServerTyped, Engaged
  <1>3. spc = "up" => qlogin
    BY DEF ClientInv, Engaged, Storing
  <1>4. Expected = (IF qlogin THEN {"STOR"} ELSE {"greet"})
    BY DEF Expected
  <1> QED BY <1>1, <1>2, <1>3, <1>4

\* The next file is opened.
LEMMA ClientRequest ==
    ASSUME ClientInv, ftp_write_request
    PROVE  ClientInv'
  <1>1. /\ qpc = "between" /\ qfile < FtpNames /\ qfile' = qfile + 1 /\ qwait' /\ qlogin'
        /\ qpc' = (IF qlogin THEN "final" ELSE "greet")
    BY DEF ftp_write_request
  <1>2. /\ UNCHANGED <<spc, cmd, restart, port, abor, urg, alarm, pos, pasvFd, ports, ask, ans, cin, cout, disk>>
        /\ UNCHANGED <<dsock, dport, dq, dfin, dsent, qsock, qwrote, qacked>>
    BY DEF ftp_write_request, sessionVars, service, nobody, control, data
  <1>3. qfile \in Nat /\ qfile + 1 \in 1 .. FtpNames /\ (qlogin => qfile >= 1)
    BY <1>1, FtpAssumption DEF ClientInv, ClientTyped, QlogTyped
  <1>4. /\ (qlogin => Stored' = Stored) /\ (~qlogin => Stored' = qfile + 1)
    <2>1. (qfile + 1) - 1 = qfile
      BY <1>3
    <2> QED BY <1>1, <2>1, BetweenFiles DEF Stored
  <1>5. Expected' = Expected
    BY <1>1, BetweenFiles DEF Expected
  <1>6. ClientTyped'
    <2>1. QlogTyped'
      <3>1. qpc' \in {"final", "greet"} /\ (qpc' = "final" => qfile >= 1)
        BY <1>1, <1>3
      <3>2. qfile + 1 >= 1 /\ (qfile >= 1 => qfile + 1 >= 2) /\ qfile + 1 \in 0 .. FtpNames
        BY <1>3, FtpAssumption
      <3> QED BY <1>1, <1>2, <3>1, <3>2 DEF ClientInv, ClientTyped, QlogTyped, Verbs
    <2>2. WireTyped' /\ ServerTyped' /\ PortsTyped' /\ BlocksTyped'
      BY <1>2 DEF ClientInv, ClientTyped, WireTyped, ServerTyped, PortsTyped, BlocksTyped
    <2> QED BY <2>1, <2>2 DEF ClientTyped
  <1>7. Engaged'
    <2>1. ASSUME spc = "up" PROVE Storing' /\ cmd' = <<"STOR", Stored'>> /\ cout' = <<>>
      <3>1. qlogin /\ cmd = <<"STOR", Stored>> /\ cout = <<>>
        BY <1>1, <2>1, BetweenFiles DEF ClientInv, Engaged
      <3> QED BY <1>1, <1>2, <1>4, <3>1 DEF Storing
    <2> QED BY <1>1, <1>2, <2>1, BetweenFiles DEF Engaged
  <1>8. QuestionInStep' /\ PortFresh'
    BY <1>1, <1>2, BetweenFiles DEF ClientInv, QuestionInStep, PortFresh
  <1>9. RepliesExpected'
    BY <1>1, <1>2, <1>5 DEF ClientInv, RepliesExpected, Awaits
  <1>10. Complete'
    BY <1>1, <1>2, <1>4 DEF ClientInv, Complete
  <1>11. FileBlocks'
    <2>1. \A f \in 1 .. FtpNames : f > qfile + 1 => f > qfile
      BY <1>3
    <2>2. qwrote[qfile + 1] = <<>>
      <3>1. qfile + 1 > qfile
        BY <1>3
      <3> QED BY <1>3, <3>1 DEF ClientInv, FileBlocks
    <2>3. spc = "up" => qlogin
      BY <1>1, BetweenFiles
    <2> QED BY <1>1, <1>2, <1>4, <2>1, <2>2, <2>3 DEF ClientInv, FileBlocks
  <1>12. Acked'
    <2>1. \A f \in qacked : f <= qfile /\ f < Stored /\ f \in Nat
      BY <1>1 DEF ClientInv, Acked, ClientTyped, QlogTyped
    <2>2. \A f \in qacked : f <= qfile + 1 /\ f < qfile + 1
      BY <1>3, <2>1
    <2> QED BY <1>1, <1>2, <1>4, <2>1, <2>2 DEF ClientInv, Acked, AckedWhole
  <1> QED BY <1>6, <1>7, <1>8, <1>9, <1>10, <1>11, <1>12 DEF ClientInv

\* No connection to the server: the file is passed over.
LEMMA ClientLoginFails ==
    ASSUME ClientInv, ftp_login_fails
    PROVE  ClientInv'
  <1>1. qpc = "between" /\ qfile < FtpNames /\ ~qlogin /\ qfile' = qfile + 1
    BY DEF ftp_login_fails
  <1>2. /\ UNCHANGED <<spc, cmd, restart, port, abor, urg, alarm, pos, pasvFd, ports, ask, ans, cin, cout, disk>>
        /\ UNCHANGED <<dsock, dport, dq, dfin, dsent, qpc, qwait, qlogin, qsock, qwrote, qacked>>
    BY DEF ftp_login_fails, service, nobody, control, data
  <1>3. qfile \in Nat /\ qfile + 1 \in 1 .. FtpNames /\ qfile + 1 \in 0 .. FtpNames
    BY <1>1, FtpAssumption DEF ClientInv, ClientTyped, QlogTyped
  <1>4. Stored' = qfile + 1 /\ Stored = qfile /\ Expected' = Expected
    BY <1>1, <1>2 DEF Stored, Expected
  <1>5. ClientTyped'
    <2>1. QlogTyped'
      BY <1>1, <1>2, <1>3 DEF ClientInv, ClientTyped, QlogTyped
    <2>2. WireTyped' /\ ServerTyped' /\ PortsTyped' /\ BlocksTyped'
      BY <1>2 DEF ClientInv, ClientTyped, WireTyped, ServerTyped, PortsTyped, BlocksTyped
    <2> QED BY <2>1, <2>2 DEF ClientTyped
  <1>6. Engaged' /\ QuestionInStep' /\ PortFresh'
    BY <1>1, <1>2, BetweenFiles DEF ClientInv, Engaged, QuestionInStep, PortFresh
  <1>7. RepliesExpected' /\ Complete'
    BY <1>1, <1>2, <1>4 DEF ClientInv, RepliesExpected, Complete, Awaits
  <1>8. FileBlocks'
    <2>1. \A f \in 1 .. FtpNames : f > qfile + 1 => f > qfile
      BY <1>3
    <2> QED BY <1>1, <1>2, <2>1, BetweenFiles DEF ClientInv, FileBlocks
  <1>9. Acked'
    <2>1. \A f \in qacked : f <= qfile /\ f \in Nat
      BY DEF ClientInv, Acked, ClientTyped, QlogTyped
    <2>2. \A f \in qacked : f <= qfile + 1 /\ f < qfile + 1
      BY <1>3, <2>1
    <2> QED BY <1>1, <1>2, <1>4, <2>2 DEF ClientInv, Acked, AckedWhole
  <1> QED BY <1>5, <1>6, <1>7, <1>8, <1>9 DEF ClientInv

\* SIGPIPE ends qlog.
LEMMA KilledStep ==
    ASSUME ClientInv, qpc \in Verbs \cup {"stream"}, ~qwait, qpc' = "killed", spc # "end" => dsock = "shut" /\ qpc = "stream",
           UNCHANGED <<spc, cmd, restart, port, abor, urg, alarm, pos, pasvFd, ports, ask, ans, cin, cout, disk>>,
           UNCHANGED <<dsock, dport, dq, dsent, qwait, qfile, qlogin, qsock, qwrote, qacked>>
    PROVE  ClientInv'
  <1>1. Stored' = qfile /\ Stored = qfile /\ qlogin
    BY DEF Stored, Verbs, ClientInv, ClientTyped, QlogTyped
  <1>2. ClientTyped'
    <2>1. QlogTyped'
      BY <1>1 DEF ClientInv, ClientTyped, QlogTyped
    <2>2. WireTyped' /\ ServerTyped' /\ PortsTyped' /\ BlocksTyped'
      BY DEF ClientInv, ClientTyped, WireTyped, ServerTyped, PortsTyped, BlocksTyped
    <2> QED BY <2>1, <2>2 DEF ClientTyped
  <1>3. spc # "end" => spc = "idle" /\ cin = <<>>
    <2>1. spc # "up"
      BY Uploading DEF Verbs
    <2>2. spc \notin {"pasv", "query", "accept"}
      BY Handled
    <2> QED BY <2>1, <2>2 DEF ClientInv, ClientTyped, ServerTyped, Engaged
  <1>4. Engaged' /\ QuestionInStep' /\ PortFresh'
    BY <1>3 DEF ClientInv, Engaged, QuestionInStep, PortFresh
  <1>5. RepliesExpected' /\ Complete'
    BY DEF ClientInv, RepliesExpected, Complete, Verbs
  <1>6. FileBlocks' /\ Acked'
    BY <1>1, <1>3 DEF ClientInv, FileBlocks, Acked, AckedWhole
  <1> QED BY <1>2, <1>4, <1>5, <1>6 DEF ClientInv

\* A command goes out: nothing is under way then.
LEMMA ClientCommand ==
    ASSUME ClientInv, ftpcmd
    PROVE  ClientInv'
  <1>1. qpc \in Verbs /\ ~qwait
    BY DEF ftpcmd, Verbs
  <1>2. /\ UNCHANGED <<spc, cmd, restart, port, abor, alarm, pos, pasvFd, ports, ask, ans, cout, disk>>
        /\ UNCHANGED <<dsock, dport, dq, dsent, qfile, qlogin, qsock, qwrote, qacked>>
    BY DEF ftpcmd, nobody
  <1>3. CASE Closed /\ "ctrl" \in qrst
    <2>1. qpc' = "killed" /\ spc = "end" /\ UNCHANGED <<qwait, cin, urg>>
      BY <1>3 DEF ftpcmd, Closed
    <2> QED BY <1>1, <1>2, <2>1, KilledStep
  <1>4. CASE ~(Closed /\ "ctrl" \in qrst)
    <2>1. Types(<<qpc, qfile>>, FALSE) /\ qwait' /\ UNCHANGED <<qpc, dfin>>
      BY <1>4 DEF ftpcmd
    <2>2. cin' = Append(cin, <<qpc, qfile>>) /\ ~urg'
      BY <2>1 DEF Types, ClientInv, ClientTyped, ServerTyped
    <2>3. qlogin /\ qfile \in 1 .. FtpNames
      BY <1>1, FtpAssumption DEF ClientInv, ClientTyped, QlogTyped, Verbs
    <2>4. spc # "end" => spc = "idle" /\ cin = <<>> /\ cout = <<>>
      <3> SUFFICES ASSUME spc # "end" PROVE spc = "idle" /\ cin = <<>> /\ cout = <<>>
        OBVIOUS
      <3>1. spc # "up"
        BY <1>1, Uploading DEF Storing, Verbs
      <3>2. spc \notin {"pasv", "query", "accept"}
        BY <1>1, Handled
      <3>3. spc = "idle" /\ cin = <<>>
        BY <1>1, <3>1, <3>2 DEF ClientInv, ClientTyped, ServerTyped, Engaged
      <3>4. Awaits = {}
        BY <1>1, <2>3 DEF Awaits, Expected, Verbs
      <3>5. \A i \in 1 .. Len(cout) : FALSE
        BY <1>1, <3>4 DEF ClientInv, RepliesExpected, Verbs
      <3>6. cout = <<>>
        <4>1. cout \in Seq(QlogReplies) /\ Len(cout) \in Nat
          BY DEF ClientInv, ClientTyped, WireTyped
        <4>2. Len(cout) = 0
          BY <3>5, <4>1
        <4> QED BY <4>1, <4>2
      <3> QED BY <3>3, <3>6
    <2>5. ClientTyped'
      <3>1. WireTyped'
        <4>1. <<qpc, qfile>> \in Verbs \X (1 .. FtpNames)
          BY <1>1, <2>3
        <4> QED BY <1>2, <2>2, <4>1 DEF ClientInv, ClientTyped, WireTyped
      <3>2. QlogTyped'
        BY <1>1, <1>2, <2>1, <2>3 DEF ClientInv, ClientTyped, QlogTyped
      <3>3. ServerTyped'
        BY <1>2, <2>2 DEF ClientInv, ClientTyped, ServerTyped
      <3>4. PortsTyped' /\ BlocksTyped'
        BY <1>2 DEF ClientInv, ClientTyped, PortsTyped, BlocksTyped
      <3> QED BY <3>1, <3>2, <3>3, <3>4 DEF ClientTyped
    <2>6. Engaged'
      <3>1. spc # "end" => cin' = <<<<qpc, qfile>>>>
        BY <2>2, <2>4
      <3> QED BY <1>1, <1>2, <2>1, <2>4, <3>1 DEF Engaged
    <2>7. QuestionInStep' /\ PortFresh'
      BY <1>2, <2>1, <2>4 DEF ClientInv, QuestionInStep, PortFresh
    <2>8. Stored' = Stored
      BY <1>2, <2>1 DEF Stored
    <2>9. RepliesExpected'
      <3>1. Expected = {}
        BY <1>1, <2>3 DEF Expected, Verbs
      <3> QED BY <1>2, <2>1, <3>1 DEF ClientInv, RepliesExpected, Awaits
    <2>10. Complete'
      BY <1>1, <1>2, <2>1, <2>8 DEF ClientInv, Complete
    <2>11. FileBlocks' /\ Acked'
      BY <1>2, <2>1, <2>8 DEF ClientInv, FileBlocks, Acked, AckedWhole
    <2> QED BY <2>5, <2>6, <2>7, <2>9, <2>10, <2>11 DEF ClientInv
  <1> QED BY <1>3, <1>4

\* The data connection, and then STOR.
LEMMA ClientSend ==
    ASSUME ClientInv, ftp_send
    PROVE  ClientInv'
  <1>1. qpc = "connect" /\ qpc' = "STOR" /\ ~qwait /\ qlogin /\ qfile \in 1 .. FtpNames
    BY FtpAssumption DEF ftp_send, ClientInv, ClientTyped, QlogTyped, Verbs
  <1>2. /\ UNCHANGED <<spc, cmd, restart, port, abor, urg, alarm, pos, pasvFd, ports, ask, ans, cin, cout, disk>>
        /\ UNCHANGED <<qwait, qfile, qlogin, qwrote, qacked>>
    BY DEF ftp_send, service, nobody, control
  <1>3. \/ spc # "end" /\ Connects(ports) /\ qsock'
        \/ ~qsock' /\ UNCHANGED <<dsock, dport, dq, dfin, dsent>>
    BY DEF ftp_send, Closed, data
  <1>4. Stored' = Stored /\ Stored = qfile /\ Expected' = Expected
    BY <1>1, <1>2 DEF Stored, Expected
  <1>5. spc # "end" => spc = "idle" /\ cin = <<>> /\ dport < ports
    <2>1. spc # "up"
      BY <1>1, Uploading DEF Storing
    <2>2. spc \notin {"pasv", "query", "accept"}
      BY <1>1, Handled
    <2>3. spc # "end" => cin = <<>> /\ dport < ports
      BY <1>1 DEF ClientInv, Engaged, PortFresh
    <2> QED BY <2>1, <2>2, <2>3 DEF ClientInv, ClientTyped, ServerTyped
  <1>6. PortsTyped' /\ BlocksTyped' /\ PortFresh' /\ (qsock' => dq' = <<>> /\ dsent' = <<>> /\ ~dfin')
    <2>1. CASE spc # "end" /\ Connects(ports) /\ qsock'
      <3>1. dsock' = "queued" /\ dport' = ports /\ dq' = <<>> /\ ~dfin' /\ dsent' = <<>>
        BY <2>1 DEF Connects
      <3>2. dport \in Nat /\ ports \in Nat /\ dport < ports
        BY <1>5, <2>1 DEF ClientInv, ClientTyped, PortsTyped
      <3>3. PortsTyped'
        BY <1>2, <3>1, <3>2 DEF ClientInv, ClientTyped, PortsTyped
      <3>4. BlocksTyped'
        BY <1>2, <3>1, EmptySeq DEF ClientInv, ClientTyped, BlocksTyped
      <3>5. PortFresh'
        BY <1>1, <1>2, <1>5, <2>1 DEF PortFresh
      <3> QED BY <3>1, <3>3, <3>4, <3>5
    <2>2. CASE ~qsock' /\ UNCHANGED <<dsock, dport, dq, dfin, dsent>>
      BY <1>1, <1>2, <1>5, <2>2 DEF ClientInv, ClientTyped, PortsTyped, BlocksTyped, PortFresh
    <2> QED BY <1>3, <2>1, <2>2
  <1>7. ClientTyped'
    <2>1. QlogTyped'
      BY <1>1, <1>2 DEF ClientInv, ClientTyped, QlogTyped, Verbs
    <2>2. WireTyped' /\ ServerTyped'
      BY <1>2 DEF ClientInv, ClientTyped, WireTyped, ServerTyped
    <2> QED BY <1>6, <2>1, <2>2 DEF ClientTyped
  <1>8. Engaged' /\ QuestionInStep'
    BY <1>1, <1>2, <1>5 DEF ClientInv, Engaged, QuestionInStep
  <1>9. RepliesExpected' /\ Complete'
    BY <1>1, <1>2, <1>4 DEF ClientInv, RepliesExpected, Complete, Awaits
  <1>10. FileBlocks'
    BY <1>1, <1>2, <1>4, <1>5, <1>6 DEF ClientInv, FileBlocks
  <1>11. Acked'
    BY <1>1, <1>2, <1>4 DEF ClientInv, Acked, AckedWhole
  <1> QED BY <1>6, <1>7, <1>8, <1>9, <1>10, <1>11 DEF ClientInv

\* The file is closed.
LEMMA ClientEndFile ==
    ASSUME ClientInv, EndFile
    PROVE  ClientInv'
  <1>1. qpc = "stream" /\ qpc' = "between" /\ ~qwait /\ qlogin
    BY DEF EndFile, ClientInv, ClientTyped, QlogTyped, Verbs
  <1>2. /\ UNCHANGED <<spc, cmd, restart, port, abor, urg, alarm, pos, pasvFd, ports, ask, ans, cin, cout, disk>>
        /\ UNCHANGED <<dsock, dport, dq, dsent, qwait, qfile, qlogin, qsock, qwrote, qacked>>
    BY DEF EndFile, service, nobody, control
  <1>3. Stored' = Stored /\ Expected' = Expected /\ Storing'
    BY <1>1, <1>2 DEF Stored, Expected, Storing
  <1>4. ClientTyped'
    <2>1. QlogTyped'
      BY <1>1, <1>2 DEF ClientInv, ClientTyped, QlogTyped
    <2>2. WireTyped' /\ ServerTyped' /\ PortsTyped' /\ BlocksTyped'
      BY <1>2 DEF ClientInv, ClientTyped, WireTyped, ServerTyped, PortsTyped, BlocksTyped
    <2> QED BY <2>1, <2>2 DEF ClientTyped
  <1>5. Engaged' /\ QuestionInStep' /\ PortFresh'
    BY <1>1, <1>2, <1>3 DEF ClientInv, Engaged, QuestionInStep, PortFresh
  <1>6. RepliesExpected' /\ Complete'
    BY <1>1, <1>2, <1>3 DEF ClientInv, RepliesExpected, Complete, Awaits
  <1>7. FileBlocks' /\ Acked'
    BY <1>1, <1>2, <1>3 DEF ClientInv, FileBlocks, Acked, AckedWhole
  <1> QED BY <1>4, <1>5, <1>6, <1>7 DEF ClientInv

\* There is no other file: the last answer is waited for.
LEMMA ClientQuit ==
    ASSUME ClientInv, ftp_quit
    PROVE  ClientInv'
  <1>1. qpc = "between" /\ qpc' = "last" /\ qwait' /\ qlogin
    BY DEF ftp_quit
  <1>2. /\ UNCHANGED <<spc, cmd, restart, port, abor, urg, alarm, pos, pasvFd, ports, ask, ans, cin, cout, disk>>
        /\ UNCHANGED <<dsock, dport, dq, dfin, dsent, qfile, qlogin, qsock, qwrote, qacked>>
    BY DEF ftp_quit, sessionVars, service, nobody, control, data
  <1>3. Stored' = Stored /\ Expected' = Expected /\ Storing'
    BY <1>1, <1>2 DEF Stored, Expected, Storing
  <1>4. ClientTyped'
    <2>1. QlogTyped'
      BY <1>1, <1>2 DEF ClientInv, ClientTyped, QlogTyped
    <2>2. WireTyped' /\ ServerTyped' /\ PortsTyped' /\ BlocksTyped'
      BY <1>2 DEF ClientInv, ClientTyped, WireTyped, ServerTyped, PortsTyped, BlocksTyped
    <2> QED BY <2>1, <2>2 DEF ClientTyped
  <1>5. Engaged' /\ QuestionInStep' /\ PortFresh'
    BY <1>1, <1>2, <1>3, BetweenFiles DEF ClientInv, Engaged, QuestionInStep, PortFresh
  <1>6. RepliesExpected' /\ Complete'
    BY <1>1, <1>2, <1>3 DEF ClientInv, RepliesExpected, Complete, Awaits
  <1>7. FileBlocks' /\ Acked'
    BY <1>1, <1>2, <1>3 DEF ClientInv, FileBlocks, Acked, AckedWhole
  <1> QED BY <1>4, <1>5, <1>6, <1>7 DEF ClientInv

\* Another block is sent.
LEMMA SentBlock ==
    ASSUME NEW d \in Seq(Nat), NEW q \in Seq(Nat), NEW s \in Seq(Nat), NEW n \in Nat, NEW b \in Nat, Halves(d, q, s, n)
    PROVE  Halves(d, Append(q, b), Append(s, b), n)
  <1>1. PICK l \in Nat : l = Len(q) /\ Len(s) = n + l /\ n = Len(d)
    BY DEF Halves
  <1>2. /\ Len(Append(q, b)) = l + 1 /\ Append(q, b)[l + 1] = b
        /\ \A i \in 1 .. l : Append(q, b)[i] = q[i]
    BY <1>1, AppendProperties
  <1>3. /\ Len(Append(s, b)) = (n + l) + 1 /\ Append(s, b)[(n + l) + 1] = b
        /\ \A i \in 1 .. n + l : Append(s, b)[i] = s[i]
    <2>1. /\ Len(Append(s, b)) = Len(s) + 1 /\ Append(s, b)[Len(s) + 1] = b
          /\ \A i \in 1 .. Len(s) : Append(s, b)[i] = s[i]
      BY AppendProperties
    <2> QED BY <1>1, <2>1, Zenon
  <1>4. (n + l) + 1 = n + (l + 1)
    BY <1>1
  <1>5. ASSUME NEW i \in 1 .. n PROVE d[i] = Append(s, b)[i]
    <2>1. i \in 1 .. n + l
      BY <1>1
    <2> QED BY <1>3, <2>1 DEF Halves
  <1>6. ASSUME NEW i \in 1 .. l + 1 PROVE Append(q, b)[i] = Append(s, b)[n + i]
    <2>1. CASE i = l + 1
      BY <1>2, <1>3, <1>4, <2>1
    <2>2. CASE i \in 1 .. l
      <3>1. n + i \in 1 .. n + l
        BY <2>2
      <3>2. q[i] = s[n + i]
        <4>1. i \in 1 .. Len(q)
          BY <1>1, <2>2, Zenon
        <4> QED BY <4>1, Zenon DEF Halves
      <3> QED BY <1>2, <1>3, <2>2, <3>1, <3>2
    <2>3. i = l + 1 \/ i \in 1 .. l
      OBVIOUS
    <2> QED BY <2>1, <2>2, <2>3, Zenon
  <1> QED BY <1>1, <1>2, <1>3, <1>4, <1>5, <1>6 DEF Halves

\* A block of the log.
LEMMA ClientStream ==
    ASSUME ClientInv, Stream
    PROVE  ClientInv'
  <1>1. qpc = "stream" /\ ~qwait /\ qlogin /\ qfile \in 1 .. FtpNames
    BY FtpAssumption DEF Stream, ClientInv, ClientTyped, QlogTyped, Verbs
  <1>2. /\ UNCHANGED <<spc, cmd, restart, port, abor, urg, alarm, pos, pasvFd, ports, ask, ans, cin, cout, disk>>
        /\ UNCHANGED <<dsock, dport, qwait, qfile, qlogin, qsock, qacked>>
    BY DEF Stream, service, nobody
  <1>3. CASE dsock = "shut" /\ "data" \in qrst
    <2>1. qpc' = "killed" /\ UNCHANGED <<qwrote, dq, dsent>>
      BY <1>3 DEF Stream
    <2> QED BY <1>1, <1>2, <1>3, <2>1, KilledStep
  <1>4. CASE ~(dsock = "shut" /\ "data" \in qrst)
    <2>1. UNCHANGED <<qpc, dfin>> /\ qwrote' = [qwrote EXCEPT ![qfile] = Append(qwrote[qfile], Len(qwrote[qfile]) + 1)]
      BY <1>4 DEF Stream
    <2>2. qwrote \in [1 .. FtpNames -> Seq(Nat)] /\ dq \in Seq(Nat) /\ dsent \in Seq(Nat) /\ qwrote[qfile] \in Seq(Nat)
      BY <1>1 DEF ClientInv, ClientTyped, BlocksTyped
    <2>3. PICK b \in Nat : b = Len(qwrote[qfile]) + 1
      BY <2>2
    <2>4. \/ dsock = "shut" /\ UNCHANGED <<dq, dsent>>
          \/ dsock # "shut" /\ ~dfin /\ dq' = Append(dq, b) /\ dsent' = Append(dsent, b)
      BY <1>4, <2>3 DEF Stream, SendsBlock
    <2>5. PICK o \in Seq(Nat) : o = Append(qwrote[qfile], b)
      <3>1. PICK s \in Seq(Nat) : s = qwrote[qfile]
        BY <2>2
      <3>2. Append(s, b) \in Seq(Nat)
        BY AppendProperties
      <3> QED BY <3>1, <3>2, Zenon
    <2>6. /\ qwrote' \in [1 .. FtpNames -> Seq(Nat)] /\ qwrote'[qfile] = o
          /\ \A f \in 1 .. FtpNames : f # qfile => qwrote'[f] = qwrote[f]
      <3>1. qwrote' = [qwrote EXCEPT ![qfile] = o]
        BY <2>1, <2>3, <2>5
      <3> QED BY <1>1, <2>2, <3>1
    <2>7. dq' \in Seq(Nat) /\ dsent' \in Seq(Nat)
      <3>1. Append(dq, b) \in Seq(Nat) /\ Append(dsent, b) \in Seq(Nat)
        BY <2>2, AppendProperties
      <3> QED BY <2>2, <2>4, <3>1, Zenon
    <2>8. Stored' = qfile /\ Stored = qfile /\ Expected' = Expected /\ (Storing' <=> Storing)
      BY <1>1, <1>2, <2>1 DEF Stored, Expected, Storing
    <2>9. ClientTyped'
      <3>1. QlogTyped'
        BY <1>1, <1>2, <2>1 DEF ClientInv, ClientTyped, QlogTyped
      <3>2. BlocksTyped'
        BY <1>2, <2>6, <2>7 DEF ClientInv, ClientTyped, BlocksTyped
      <3>3. WireTyped' /\ ServerTyped' /\ PortsTyped'
        BY <1>2 DEF ClientInv, ClientTyped, WireTyped, ServerTyped, PortsTyped
      <3> QED BY <3>1, <3>2, <3>3 DEF ClientTyped
    <2>10. Engaged' /\ QuestionInStep' /\ PortFresh'
      <3>1. Stored' = Stored
        BY <2>8
      <3> QED BY <1>2, <2>1, <2>8, <3>1 DEF ClientInv, Engaged, QuestionInStep, PortFresh
    <2>11. RepliesExpected' /\ Complete'
      BY <1>1, <1>2, <2>1, <2>8 DEF ClientInv, RepliesExpected, Complete, Awaits
    <2>12. FileBlocks'
      <3>1. \A f \in 1 .. FtpNames : f > qfile => qwrote'[f] = <<>>
        <4>1. \A f \in 1 .. FtpNames : f > qfile => f # qfile
          BY <1>1
        <4> QED BY <2>6, <4>1 DEF ClientInv, FileBlocks
      <3>2. ASSUME spc = "up"
            PROVE  /\ qsock /\ dsock = "open" /\ dsent' = o /\ ~dfin
                   /\ pos = Len(disk[qfile]) /\ Len(dsent') = pos + Len(dq')
                   /\ (\A i \in 1 .. pos : disk[qfile][i] = dsent'[i])
                   /\ \A i \in 1 .. Len(dq') : dq'[i] = dsent'[pos + i]
        <4>1. qsock /\ dsock = "open" /\ dsent = qwrote[qfile]
          BY <2>8, <3>2, Uploading
        <4>2. ~dfin /\ dq' = Append(dq, b) /\ dsent' = Append(dsent, b) /\ dsent' = o
          BY <2>4, <2>5, <4>1
        <4>3. PICK d \in Seq(Nat) : d = disk[qfile]
          BY <1>1 DEF ClientInv, ClientTyped, BlocksTyped
        <4>4. PICK n \in Nat : n = pos
          BY DEF ClientInv, ClientTyped, BlocksTyped
        <4>5. PICK q \in Seq(Nat) : q = dq
          BY <2>2
        <4>6. PICK s \in Seq(Nat) : s = dsent
          BY <2>2
        <4>7. Halves(d, q, s, n)
          BY <2>8, <3>2, <4>3, <4>4, <4>5, <4>6 DEF ClientInv, FileBlocks, Halves
        <4>8. Halves(d, Append(q, b), Append(s, b), n)
          BY <4>7, SentBlock
        <4>9. Halves(disk[qfile], dq', dsent', pos)
          BY <4>2, <4>3, <4>4, <4>5, <4>6, <4>8
        <4> QED BY <4>1, <4>2, <4>9 DEF Halves
      <3> QED BY <1>1, <1>2, <2>1, <2>6, <2>8, <3>1, <3>2 DEF FileBlocks
    <2>13. Acked'
      <3>1. \A f \in qacked : f < qfile /\ f <= qfile /\ f \in 1 .. FtpNames
        BY <1>1, <2>8 DEF ClientInv, Acked, ClientTyped, QlogTyped
      <3>2. \A f \in qacked : f # qfile
        BY <1>1, <3>1
      <3>3. \A f \in qacked : qwrote'[f] = qwrote[f]
        BY <2>6, <3>1, <3>2
      <3> QED BY <1>2, <2>8, <3>1, <3>3 DEF ClientInv, Acked, AckedWhole
    <2> QED BY <2>9, <2>10, <2>11, <2>12, <2>13 DEF ClientInv
  <1> QED BY <1>3, <1>4

\* A reply is read.
LEMMA ClientReply ==
    ASSUME ClientInv, Reply
    PROVE  ClientInv'
  <1>1. /\ qwait /\ ~qwait' /\ cout' = <<>> /\ (cout # <<>> \/ spc = "end")
    BY DEF Reply, Evaluates, Closed
  <1>2. /\ UNCHANGED <<spc, cmd, restart, port, abor, urg, alarm, pos, pasvFd, ports, ask, ans, cin, disk>>
        /\ UNCHANGED <<dsock, dport, dq, dfin, dsent, qfile, qlogin, qsock, qwrote>>
    BY DEF Reply, service, nobody, data
  <1>3. qlogin /\ qfile \in 1 .. FtpNames /\ qpc \in Verbs \cup {"greet", "final", "last"}
    BY <1>1, FtpAssumption DEF ClientInv, ClientTyped, QlogTyped, Verbs
  <1>4. \/ qpc = "greet" /\ qpc' = "USER"
        \/ qpc = "USER" /\ qpc' \in {"PASS", "TYPE"}
        \/ qpc = "PASS" /\ qpc' = "TYPE"
        \/ qpc \in {"TYPE", "final"} /\ qpc' = "PASV"
        \/ qpc = "PASV" /\ qpc' = "connect"
        \/ qpc = "STOR" /\ qpc' = (IF qsock THEN "stream" ELSE "between")
        \/ qpc = "last" /\ qpc' = "QUIT"
        \/ qpc = "QUIT" /\ qpc' = "gone"
    BY <1>3 DEF Reply, Evaluates, After, Verbs
  <1>5. Stored' = qfile /\ (qpc # "final" => Stored = qfile) /\ (qpc = "final" => Stored = qfile - 1 /\ qfile >= 2)
    <2>1. qpc' # "final"
      BY <1>4
    <2> QED BY <1>2, <2>1 DEF Stored, ClientInv, ClientTyped, QlogTyped
  <1>6. spc # "end" => cin = <<>> /\ spc \in {"idle", "up"} /\ (spc = "up" => qpc = "STOR" /\ qsock)
    <2> SUFFICES ASSUME spc # "end" PROVE cin = <<>> /\ spc \in {"idle", "up"} /\ (spc = "up" => qpc = "STOR" /\ qsock)
      OBVIOUS
    <2>1. cout # <<>>
      BY <1>1
    <2>2. spc \notin {"pasv", "query", "accept"}
      BY <2>1, Handled
    <2>3. cin = <<>>
      BY <2>1 DEF ClientInv, Engaged
    <2>4. spc = "up" => qpc = "STOR" /\ qsock
      BY <2>1, Uploading
    <2> QED BY <2>2, <2>3, <2>4 DEF ClientInv, ClientTyped, ServerTyped
  <1>7. qacked' = qacked \/ (qacked' = qacked \cup {Stored} /\ qpc \in {"final", "last"} /\ disk[Stored] = qwrote[Stored])
    <2>1. CASE cout # <<>> /\ Head(cout)[1] = 226
      <3>1. 1 \in 1 .. Len(cout) /\ cout[1] = Head(cout)
        BY <2>1 DEF ClientInv, ClientTyped, WireTyped
      <3>2. qpc \in {"between", "final", "last"} /\ disk[Stored] = qwrote[Stored]
        BY <2>1, <3>1 DEF ClientInv, Complete
      <3>3. qpc \in {"final", "last"}
        BY <1>3, <3>2 DEF Verbs
      <3> QED BY <1>5, <2>1, <3>2, <3>3 DEF Reply, Evaluates
    <2>2. CASE ~(cout # <<>> /\ Head(cout)[1] = 226)
      BY <2>2 DEF Reply, Evaluates
    <2> QED BY <2>1, <2>2
  <1>8. Stored \in 1 .. FtpNames
    <2>1. FtpNames \in Nat
      BY FtpAssumption
    <2>2. CASE qpc = "final"
      BY <1>3, <1>5, <2>1, <2>2
    <2>3. CASE qpc # "final"
      BY <1>3, <1>5, <2>3
    <2> QED BY <2>2, <2>3
  <1>9. ClientTyped'
    <2>1. QlogTyped'
      <3>1. qacked' \subseteq 1 .. FtpNames
        BY <1>7, <1>8 DEF ClientInv, ClientTyped, QlogTyped
      <3>2. qpc' \in Verbs \cup {"greet", "final", "last", "connect", "stream", "between", "killed", "gone"}
            /\ qpc' \notin {"greet", "final", "last"}
        BY <1>4 DEF Verbs
      <3> QED BY <1>1, <1>2, <1>3, <3>1, <3>2 DEF ClientInv, ClientTyped, QlogTyped
    <2>2. WireTyped'
      BY <1>1, <1>2, EmptySeq DEF ClientInv, ClientTyped, WireTyped
    <2>3. ServerTyped' /\ PortsTyped' /\ BlocksTyped'
      BY <1>2 DEF ClientInv, ClientTyped, ServerTyped, PortsTyped, BlocksTyped
    <2> QED BY <2>1, <2>2, <2>3 DEF ClientTyped
  <1>10. Engaged'
    <2>1. ASSUME spc = "up" PROVE Storing' /\ cmd' = <<"STOR", Stored'>> /\ cout' = <<>>
      <3>1. qpc = "STOR" /\ qsock
        BY <1>6, <2>1
      <3>2. qpc' = "stream" /\ Stored' = Stored
        BY <1>4, <1>5, <3>1
      <3>3. cmd = <<"STOR", Stored>>
        BY <2>1 DEF ClientInv, Engaged
      <3> QED BY <1>1, <1>2, <3>2, <3>3 DEF Storing
    <2> QED BY <1>2, <1>6, <2>1 DEF Engaged
  <1>11. QuestionInStep'
    BY <1>2 DEF ClientInv, QuestionInStep
  <1>12. PortFresh'
    BY <1>1, <1>2, <1>4, <1>6 DEF ClientInv, PortFresh
  <1>13. RepliesExpected' /\ Complete'
    <2>1. \A i \in 1 .. Len(cout') : FALSE
      BY <1>1
    <2> QED BY <2>1 DEF RepliesExpected, Complete
  <1>14. FileBlocks'
    <2>1. qpc' \in {"greet", "USER", "PASS", "TYPE", "PASV", "connect", "STOR", "final"} => qwrote[qfile] = <<>>
      BY <1>4 DEF ClientInv, FileBlocks
    <2>2. spc = "up" => qpc = "STOR" /\ qsock /\ Stored' = Stored /\ ~dfin
      BY <1>5, <1>6, Uploading
    <2>3. qpc' # "STOR"
      BY <1>4
    <2> QED BY <1>2, <2>1, <2>2, <2>3 DEF ClientInv, FileBlocks
  <1>15. Acked'
    <2>1. AckedWhole'
      BY <1>2, <1>7 DEF ClientInv, Acked, AckedWhole
    <2>2. \A f \in qacked' : f <= qfile
      <3>1. Stored <= qfile
        BY <1>3, <1>5
      <3> QED BY <1>7, <3>1 DEF ClientInv, Acked
    <2>3. ASSUME qpc' \notin {"QUIT", "gone", "killed"}, NEW f \in qacked' PROVE f < qfile
      <3>1. qpc \notin {"last", "QUIT"} /\ qpc \notin {"QUIT", "gone", "killed"}
        BY <1>3, <1>4, <2>3 DEF Verbs
      <3>2. f \in qacked => f < Stored /\ f \in Nat
        BY <3>1 DEF ClientInv, Acked, ClientTyped, QlogTyped
      <3>3. Stored \in Nat /\ Stored <= qfile /\ (qpc = "final" => Stored < qfile)
        BY <1>3, <1>5, <1>8
      <3>4. f \in qacked \/ (f = Stored /\ qpc = "final")
        BY <1>7, <3>1
      <3> QED BY <1>3, <3>2, <3>3, <3>4
    <2> QED BY <1>2, <1>5, <2>1, <2>2, <2>3 DEF Acked
  <1> QED BY <1>9, <1>10, <1>11, <1>12, <1>13, <1>14, <1>15 DEF ClientInv

-----------------------------------------------------------------------------
(* The upload: the theorems *)

LEMMA ClientInitially == ClientInit => ClientInv
  <1> SUFFICES ASSUME ClientInit PROVE ClientInv
    OBVIOUS
  <1> USE DEF ClientInit, ClientFresh, SessionInit, SessionFresh
  <1>1. <<>> \in Seq(Nat) /\ <<>> \in Seq(Verbs \X (1 .. FtpNames))
    BY EmptySeq
  <1>2. cout \in Seq(QlogReplies) /\ Len(cout) = 1 /\ cout[1] = <<220, "greet">>
    <2>1. <<220, "greet">> \in QlogReplies
      BY DEF QlogReplies, Subjects
    <2> QED BY <2>1
  <1>3. ClientTyped
    <2>1. QlogTyped
      BY FtpAssumption DEF QlogTyped
    <2>2. WireTyped
      BY <1>1, <1>2 DEF WireTyped
    <2>3. BlocksTyped
      BY <1>1 DEF BlocksTyped
    <2>4. ServerTyped /\ PortsTyped
      BY DEF ServerTyped, PortsTyped
    <2> QED BY <2>1, <2>2, <2>3, <2>4 DEF ClientTyped
  <1>4. Engaged /\ QuestionInStep /\ PortFresh
    BY DEF Engaged, QuestionInStep, PortFresh
  <1>5. RepliesExpected /\ Complete
    <2>1. \A i \in 1 .. Len(cout) : cout[i][1] # 226 /\ cout[i][2] = "greet"
      BY <1>2
    <2> QED BY <2>1 DEF RepliesExpected, Complete, Awaits, Expected
  <1>6. FileBlocks
    BY DEF FileBlocks
  <1>7. Acked
    BY DEF Acked, AckedWhole
  <1> QED BY <1>3, <1>4, <1>5, <1>6, <1>7 DEF ClientInv

\* A step of the server, or of qlog with its own text in buf, keeps the invariant.
LEMMA ClientStep ==
    ASSUME ClientInv, ServerStep \/ QlogAlone \/ UNCHANGED clientVars
    PROVE  ClientInv'
  <1>1. CASE ServiceStep /\ UNCHANGED client
    BY <1>1, ClientPlainCommand, ClientPass, ClientPassFails, ClientNever, ClientQuits, ClientPasv, ClientLeft, ClientTransfer,
       ClientPasvReply, ClientQueried, ClientNoTransfer, ClientNobodyGone, ClientNeverTransfers, ClientUploadStarts,
       ClientFileFails, ClientUploadBlock, ClientUploadEof, ClientUploadFails
       DEF ServiceStep
  <1>2. CASE NobodyStep /\ UNCHANGED client
    BY <1>2, ClientActive, ClientListen, ClientAccept, ClientNeverTransfers, ClientNobodyFails, ClientNobodyEnds
       DEF NobodyStep
  <1>3. CASE Alarm /\ UNCHANGED client
    BY <1>3, ClientAlarm
  <1>4. CASE QlogAlone
    BY <1>4, ClientRequest, ClientLoginFails, ClientCommand, ClientReply, ClientSend, ClientStream, ClientEndFile,
       ClientQuit
       DEF QlogAlone
  <1>5. CASE UNCHANGED clientVars
    BY <1>5, NothingStep DEF clientVars, sessionVars, service, nobody, control
  <1> QED BY <1>1, <1>2, <1>3, <1>4, <1>5 DEF ServerStep

\* The invariant with the buffer: it holds until the texts of the two threads are mixed up, and
\* until then no code and no port are the other thread's.
BufferInv == qmixed \in Nat /\ (qmixed = 0 => ClientInv /\ ~qaway /\ qof # "other")

\* Only another's text is counted, and the count is never taken back.
LEMMA AloneStep ==
    ASSUME BufferInv, ServerStep \/ QlogAlone \/ UNCHANGED clientVars
    PROVE  BufferInv'
  <1>1. qmixed' = qmixed
    BY DEF ServerStep, QlogAlone, ftp_write_request, ftp_login_fails, ftpcmd, Reply, ftp_send, Stream, EndFile,
           ftp_quit, client, clientVars
  <1>2. ASSUME qmixed = 0 PROVE ClientInv'
    BY <1>2, ClientStep DEF BufferInv
  <1>3. ASSUME qmixed = 0 PROVE ~qaway'
    <2>1. qaway' = qaway \/ qaway' = FALSE
      BY DEF ServerStep, QlogAlone, ftp_write_request, ftp_login_fails, ftpcmd, Reply, ftp_send, Stream, EndFile,
             ftp_quit, client, clientVars
    <2> QED BY <1>3, <2>1 DEF BufferInv
  <1>4. ASSUME qmixed = 0 PROVE qof' # "other"
    <2>1. CASE Reply
      <3>1. CASE cout = <<>>
        BY <2>1, <3>1 DEF Reply, Evaluates
      <3>2. CASE cout # <<>>
        <4>1. Head(cout) = cout[1] /\ 1 \in 1 .. Len(cout) /\ cout \in Seq(QlogReplies)
          BY <1>4, <3>2 DEF BufferInv, ClientInv, ClientTyped, WireTyped
        <4>2. cout[1][2] \in Subjects
          BY <4>1 DEF QlogReplies
        <4>3. qof' = Head(cout)[2]
          BY <2>1, <3>2 DEF Reply, Evaluates
        <4> QED BY <4>1, <4>2, <4>3 DEF Subjects, Verbs
      <3> QED BY <3>1, <3>2
    <2>2. CASE ~Reply
      <3>1. qof' = qof
        BY <2>2 DEF ServerStep, QlogAlone, ftp_write_request, ftp_login_fails, ftpcmd, ftp_send, Stream, EndFile,
                    ftp_quit, client, clientVars
      <3> QED BY <1>4, <3>1 DEF BufferInv
    <2> QED BY <2>1, <2>2
  <1> QED BY <1>1, <1>2, <1>3, <1>4 DEF BufferInv

\* A step with the other thread's text in buf.
LEMMA MixedStep ==
    ASSUME BufferInv, QlogMixed
    PROVE  BufferInv' /\ qmixed' > 0
  <1>1. qmixed \in Nat
    BY DEF BufferInv
  <1>2. CASE ftpcmdMixed \/ ReplyMixed
    <2>1. qmixed' = qmixed + 1
      BY <1>2, Zenon DEF ftpcmdMixed, ReplyMixed, Mixed
    <2> QED BY <1>1, <2>1 DEF BufferInv
  <1>3. CASE ftp_sendMixed
    BY <1>1, <1>3 DEF ftp_sendMixed, Mixed, BufferInv
  <1>4. CASE StreamAway
    BY <1>1, <1>4 DEF StreamAway, BufferInv
  <1> QED BY <1>2, <1>3, <1>4 DEF QlogMixed

\* It holds in every state.
LEMMA ClientInvariance == ClientSpec => []BufferInv
  <1>1. ClientInit => BufferInv
    BY ClientInitially DEF BufferInv, ClientInit, ClientFresh
  <1>2. BufferInv /\ [ClientNext]_clientVars => BufferInv'
    BY AloneStep, MixedStep DEF ClientNext, QlogStep
  <1> QED BY <1>1, <1>2, PTL DEF ClientSpec

\* End to end: a file whose 226 qlog has read is on the server's disk, all of it, whatever fails,
\* times out or ends in between, until the filter thread's text is found in the shared buf:
\* ftp_write_request and ftp_quit of ftp.c against upload_common.
THEOREM UploadedComplete == ClientSpec => []Uploaded
  <1>1. BufferInv => Uploaded
    BY DEF BufferInv, ClientInv, Acked, AckedWhole, Uploaded
  <1> QED BY ClientInvariance, <1>1, PTL

\* The only step of qlog that ends a read() is that of a reply, and its reply is to the command sent.
LEMMA ReplyInStep ==
    ASSUME ClientInv, ServerStep \/ QlogAlone \/ UNCHANGED clientVars, qwait, ~qwait'
    PROVE  qof' \in {"eof", "cmd", "data", IF qpc \in {"final", "last"} THEN "STOR" ELSE qpc}
  <1>1. Reply
    <2>1. ~(UNCHANGED client) /\ ~(UNCHANGED clientVars)
      BY DEF client, clientVars
    <2>2. QlogAlone
      BY <2>1 DEF ServerStep
    <2>3. qpc \in Verbs \cup {"greet", "final", "last"}
      BY DEF ClientInv, ClientTyped, QlogTyped
    <2>4. ~ftp_write_request /\ ~ftp_login_fails /\ ~ftpcmd /\ ~ftp_send /\ ~Stream /\ ~EndFile /\ ~ftp_quit
      BY <2>3 DEF ftp_write_request, ftp_login_fails, ftpcmd, ftp_send, Stream, EndFile, ftp_quit, Verbs
    <2> QED BY <2>2, <2>4 DEF QlogAlone
  <1>2. CASE cout = <<>>
    BY <1>1, <1>2 DEF Reply, Evaluates
  <1>3. CASE cout # <<>>
    <2>1. 1 \in 1 .. Len(cout) /\ cout[1] = Head(cout)
      BY <1>3 DEF ClientInv, ClientTyped, WireTyped
    <2>2. qof' = Head(cout)[2]
      BY <1>1, <1>3 DEF Reply, Evaluates
    <2>3. qlogin /\ qpc \in Verbs \cup {"greet", "final", "last"}
      BY DEF ClientInv, ClientTyped, QlogTyped, Verbs
    <2>4. Head(cout)[2] \in Awaits
      BY <2>1, <2>3 DEF ClientInv, RepliesExpected, Verbs
    <2>5. Awaits \subseteq {"cmd", "data"} \cup {IF qpc \in {"final", "last"} THEN "STOR" ELSE qpc}
      BY <2>3 DEF Awaits, Expected, Verbs
    <2> QED BY <2>2, <2>4, <2>5
  <1> QED BY <1>2, <1>3

\* ftpcmd takes what it reads for the answer to what it wrote: it is that, or the reply of an
\* alarm, or the end of the connection, although nothing in ftp.c compares them, until the filter
\* thread's text is found in the static buf the two threads share.
THEOREM RepliesAnswer == ClientSpec => RepliesInStep
  <1>1. BufferInv /\ [ClientNext]_clientVars =>
           [qwait /\ ~qwait' => qmixed' > 0 \/
              qof' \in {"eof", "cmd", "data", IF qpc \in {"final", "last"} THEN "STOR" ELSE qpc}]_clientVars
    <2> SUFFICES ASSUME BufferInv, [ClientNext]_clientVars, qwait, ~qwait', ~(qmixed' > 0)
                 PROVE  qof' \in {"eof", "cmd", "data", IF qpc \in {"final", "last"} THEN "STOR" ELSE qpc}
      OBVIOUS
    <2>1. ~QlogMixed
      BY MixedStep
    <2>2. ServerStep \/ QlogAlone \/ UNCHANGED clientVars
      BY <2>1 DEF ClientNext, QlogStep
    <2>3. qmixed' = qmixed
      BY <2>2 DEF ServerStep, QlogAlone, ftp_write_request, ftp_login_fails, ftpcmd, Reply, ftp_send, Stream, EndFile,
                  ftp_quit, client, clientVars
    <2>4. ClientInv
      BY <2>3 DEF BufferInv
    <2> QED BY <2>2, <2>4, ReplyInStep
  <1> QED BY ClientInvariance, <1>1, PTL DEF ClientSpec, RepliesInStep
==============================================================================
