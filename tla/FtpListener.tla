----------------------------- MODULE FtpListener -----------------------------
(***************************************************************************)
(* The listening process of qftp_server (main.c, hash.c): it counts the    *)
(* sessions and those of each address, forks a process for every           *)
(* connection, and takes the counts back in its SIGCHLD handler, which may *)
(* run between any two steps of the loop.  s_children and the counts are   *)
(* plain integers: an increment is a read and a write.                     *)
(***************************************************************************)
EXTENDS Integers, FiniteSets

CONSTANTS FtpIps,        \* client addresses
          FtpPids,       \* process numbers, used again after a wait
          MaxClients,    \* tunable_max_clients
          MaxPerIp,      \* tunable_max_per_ip
          FtpAccepts     \* bound: connections

ASSUME ListenerAssumption ==
    MaxClients \in Nat /\ MaxPerIp \in Nat /\ FtpAccepts \in Nat /\ 0 \notin FtpIps

VARIABLES
    lpc,         \* the listening process: "accept", "inc", "lookup", "store", "fork", "add", "end"
    lip, lpid,   \* address of the connection; process forked for it
    lread,       \* value read and not yet written back
    s_children,
    num_clients, num_this_ip,   \* of sess, copied into the child by fork
    ipCount,     \* s_ip_count_hash: address -> count, 0 without an entry
    pidIp,       \* s_pid_ip_hash: process -> address, 0 without an entry
    child,       \* process -> "none", "new" (before check_limits), "serving", "zombie"
    limits,      \* process -> what it copied of the two counts
    accepts

listenerVars == <<lpc, lip, lpid, lread, s_children, num_clients, num_this_ip, ipCount, pidIp, child,
                  limits, accepts>>

ListenerFresh ==
    /\ lip = 0 /\ lpid = 0 /\ lread = 0 /\ s_children = 0
    /\ num_clients = 0 /\ num_this_ip = 0
    /\ ipCount = [i \in FtpIps |-> 0] /\ pidIp = [p \in FtpPids |-> 0]
    /\ child = [p \in FtpPids |-> "none"] /\ limits = [p \in FtpPids |-> <<0, 0>>] /\ accepts = 0

ListenerInit == lpc = "accept" /\ ListenerFresh

\* The server does not run.
ListenerAbsent == lpc = "end" /\ ListenerFresh

\* accept_timeout returned; the old value of s_children is read.
Accept ==
    /\ lpc = "accept" /\ accepts < FtpAccepts /\ accepts' = accepts + 1
    /\ lip' \in FtpIps /\ lread' = s_children /\ lpc' = "inc"
    /\ UNCHANGED <<lpid, s_children, num_clients, num_this_ip, ipCount, pidIp, child, limits>>

\* Mutant: the session is not counted before its limits are.
CountsOld ==
    /\ lpc = "inc" /\ s_children' = lread + 1 /\ num_clients' = lread /\ lpc' = "lookup"
    /\ UNCHANGED <<lip, lpid, lread, num_this_ip, ipCount, pidIp, child, limits, accepts>>

\* ++s_children; sess.num_clients = s_children
Counts ==
    /\ lpc = "inc" /\ s_children' = lread + 1 /\ num_clients' = lread + 1 /\ lpc' = "lookup"
    /\ UNCHANGED <<lip, lpid, lread, num_this_ip, ipCount, pidIp, child, limits, accepts>>

\* handle_ip_count, first part: hash_lookup_entry and count = *p_count.
Lookup ==
    /\ lpc = "lookup" /\ lread' = ipCount[lip] /\ lpc' = "store"
    /\ UNCHANGED <<lip, lpid, s_children, num_clients, num_this_ip, ipCount, pidIp, child, limits, accepts>>

\* The rest of it: a new entry, or the count written back through the pointer; when the handler
\* freed the entry meanwhile, the count is written into freed memory and the entry is gone.
handle_ip_count ==
    /\ lpc = "store" /\ num_this_ip' = lread + 1 /\ lpc' = "fork"
    /\ ipCount' = IF lread > 0 /\ ipCount[lip] = 0 THEN ipCount ELSE [ipCount EXCEPT ![lip] = lread + 1]
    /\ UNCHANGED <<lip, lpid, lread, s_children, num_clients, pidIp, child, limits, accepts>>

Fork ==
    /\ lpc = "fork" /\ lpc' = "add"
    /\ \E p \in {q \in FtpPids : child[q] = "none"} :
         /\ lpid' = p /\ child' = [child EXCEPT ![p] = "new"]
         /\ limits' = [limits EXCEPT ![p] = <<num_clients, num_this_ip>>]
    /\ UNCHANGED <<lip, lread, s_children, num_clients, num_this_ip, ipCount, pidIp, accepts>>

\* ERR_EXIT: accept or fork failed.  The sessions go on.
ListenerFails ==
    /\ lpc \in {"accept", "fork"} /\ lpc' = "end"
    /\ UNCHANGED <<lip, lpid, lread, s_children, num_clients, num_this_ip, ipCount, pidIp, child, limits, accepts>>

\* hash_add_entry keeps the entry an earlier process of this number has left.
AddEntry ==
    /\ lpc = "add" /\ lpc' = "accept" /\ lread' = 0 /\ lpid' = 0 /\ lip' = 0
    /\ pidIp' = IF pidIp[lpid] # 0 THEN pidIp ELSE [pidIp EXCEPT ![lpid] = lip]
    /\ UNCHANGED <<s_children, num_clients, num_this_ip, ipCount, child, limits, accepts>>

\* check_limits, in the child; begin_session follows.
check_limits(p) ==
    /\ child[p] = "new"
    /\ child' = [child EXCEPT ![p] = IF \/ MaxClients > 0 /\ limits[p][1] > MaxClients
                                        \/ MaxPerIp > 0 /\ limits[p][2] > MaxPerIp
                                     THEN "zombie" ELSE "serving"]
    /\ UNCHANGED <<lpc, lip, lpid, lread, s_children, num_clients, num_this_ip, ipCount, pidIp, limits, accepts>>

SessionEnds(p) ==
    /\ child[p] = "serving" /\ child' = [child EXCEPT ![p] = "zombie"]
    /\ UNCHANGED <<lpc, lip, lpid, lread, s_children, num_clients, num_this_ip, ipCount, pidIp, limits, accepts>>

\* Mutant: a count of 0 is not looked for.
drop_ip_countBelow(counts, ip) == IF ip = 0 THEN counts ELSE [counts EXCEPT ![ip] = @ - 1]

\* drop_ip_count: an entry whose count gets to 0 is freed.
drop_ip_count(counts, ip) == IF ip = 0 \/ counts[ip] = 0 THEN counts ELSE [counts EXCEPT ![ip] = @ - 1]

\* handle_sigchld takes every process that has ended, one after the other; SIGCHLD of several may
\* be one signal.  One turn of its loop.
handle_sigchld ==
    /\ lpc # "end" /\ \E p \in {q \in FtpPids : child[q] = "zombie"} :
         /\ child' = [child EXCEPT ![p] = "none"] /\ limits' = [limits EXCEPT ![p] = <<0, 0>>]
         /\ ipCount' = drop_ip_count(ipCount, pidIp[p]) /\ pidIp' = [pidIp EXCEPT ![p] = 0]
    /\ s_children' = s_children - 1
    /\ UNCHANGED <<lpc, lip, lpid, lread, num_clients, num_this_ip, accepts>>

ListenerNext ==
    \/ Accept \/ Counts \/ Lookup \/ handle_ip_count \/ Fork \/ ListenerFails \/ AddEntry \/ handle_sigchld
    \/ \E p \in FtpPids : check_limits(p) \/ SessionEnds(p)

ListenerSpec == ListenerInit /\ [][ListenerNext]_listenerVars

\* The counts of the listening process stay in range: what was taken back was counted before.
ListenerTypeOK ==
    /\ lpc \in {"accept", "inc", "lookup", "store", "fork", "add", "end"}
    /\ s_children \in 0 .. FtpAccepts /\ num_clients \in 0 .. FtpAccepts
    /\ ipCount \in [FtpIps -> 0 .. FtpAccepts] /\ pidIp \in [FtpPids -> FtpIps \cup {0}]
    /\ child \in [FtpPids -> {"none", "new", "serving", "zombie"}]

\* Never more than max_clients sessions are served, wherever SIGCHLD interrupts the loop: a lost
\* update of s_children and a process that ends before its parent has noted it only make the count
\* too high.
ClientLimit == MaxClients > 0 => Cardinality({p \in FtpPids : child[p] = "serving"}) <= MaxClients

\* The state of the listening process: its counts in range, and its limit kept.
ListenerInv == ListenerTypeOK /\ ClientLimit
==============================================================================
