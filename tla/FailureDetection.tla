--------------------------- MODULE FailureDetection --------------------------
(***************************************************************************)
(* How the masters of a cluster find out that one of them is unreachable       *)
(* (redis-6.2.7/src/cluster.c): pings without answer make a node PFAIL for one *)
(* observer, the gossip sections carry failure reports, a majority of reports   *)
(* makes it FAIL for all, an answer clears the flag, and every node derives     *)
(* from its flags whether the cluster is up.  Time is counted in ticks; times   *)
(* of the code are kept as ages, cut off where they no longer matter.           *)
(***************************************************************************)
EXTENDS Integers, FiniteSets

CONSTANTS
    FMaster,        \* the masters, each with slots
    T,              \* cluster-node-timeout in ticks
    MaxCuts         \* bound: links going down

ASSUME FdAssumption == IsFiniteSet(FMaster) /\ T \in Nat /\ MaxCuts \in Nat

VARIABLES
    view,           \* view[n][m]: "ok", "pfail" or "fail"
    quiet,          \* age of data_received of m at n
    ping,           \* age of ping_sent of m at n, Never if no ping is pending
    report,         \* report[n][m][r]: age of the failure report of r about m
    failAge,        \* age of fail_time
    cstate,         \* server.cluster->state of n
    minority,       \* age of among_minority_time
    cut,            \* links that are down
    ran,            \* nodes whose clusterCron ran in this tick
    suspect,        \* history: age of the last moment at which n flagged m
    alone,          \* history: for how long n has reached no majority
    ncuts

fdvars == <<view, quiet, ping, report, failAge, cstate, minority, cut, ran, suspect, alone, ncuts>>

Validity == 2 * T                   \* CLUSTER_FAIL_REPORT_VALIDITY_MULT
Undo == 2 * T                       \* CLUSTER_FAIL_UNDO_TIME_MULT
Never == -1                         \* no ping is pending
Quorum == (Cardinality(FMaster) \div 2) + 1
Peers(n) == FMaster \ {n}
Up(n, m) == {n, m} \notin cut
Old == Validity + 1                 \* older than a failure report may be
Long == Validity + (T \div 2) + 2     \* older than anything that is compared
\* Ages grow to the first value that is past what the code compares them with.
Older(a, last) == IF a = Never \/ a >= last THEN a ELSE a + 1

FdInit ==
    /\ view = [n \in FMaster |-> [m \in FMaster |-> "ok"]]
    /\ quiet = [n \in FMaster |-> [m \in FMaster |-> 0]] /\ ping = [n \in FMaster |-> [m \in FMaster |-> Never]]
    /\ report = [n \in FMaster |-> [m \in FMaster |-> [r \in FMaster |-> Old]]]
    /\ failAge = [n \in FMaster |-> [m \in FMaster |-> Undo + 1]]
    /\ cstate = [n \in FMaster |-> "ok"] /\ minority = [n \in FMaster |-> T]
    /\ cut = {} /\ ran = {} /\ suspect = [n \in FMaster |-> [m \in FMaster |-> Long]]
    /\ alone = [n \in FMaster |-> 0] /\ ncuts = 0

-----------------------------------------------------------------------------
(* clusterUpdateState of a node with flags v; all slots must be covered *)
Reachable(n, v) == Cardinality({m \in FMaster : m = n \/ v[m] = "ok"})
NewStateIgnoresPfail(n, v) == IF Cardinality({m \in FMaster : m = n \/ v[m] # "fail"}) < Quorum \/ \E m \in Peers(n) : v[m] = "fail" THEN "fail" ELSE "ok"
NewState(n, v) == IF Reachable(n, v) < Quorum \/ \E m \in Peers(n) : v[m] = "fail" THEN "fail" ELSE "ok"
InMinority(n, v) == IF Reachable(n, v) < Quorum THEN 0 ELSE minority[n]
StateOf(n, v) ==
    IF NewState(n, v) = "ok" /\ InMinority(n, v) < T THEN cstate[n] ELSE NewState(n, v)

(* markNodeAsFailingIfNeeded at n, with reports rep; the node itself is one more *)
FailureNotSeen(n, m, v, rep) ==
    v # "fail" /\ Cardinality({r \in FMaster : rep[r] <= Validity}) + 1 >= Quorum
FailureQuorum(n, m, v, rep) ==
    v = "pfail" /\ Cardinality({r \in FMaster : rep[r] <= Validity}) + 1 >= Quorum
MayClearSlaves(n, m) == FALSE
\* clearNodeFailureIfNeeded, for a master with slots
MayClear(n, m) == failAge[n][m] > Undo

\* n reads the gossip section of s: reports about the other nodes
Reported(n, s, m) == [report[n][m] EXCEPT ![s] = IF view[s][m] = "ok" THEN Old ELSE 0]
AfterGossip(n, s, v) ==
    [m \in FMaster |-> IF m \notin {n, s} /\ view[s][m] # "ok" /\ FailureQuorum(n, m, v[m], Reported(n, s, m)) THEN "fail" ELSE v[m]]
AfterPong(n, s) ==
    [view[n] EXCEPT ![s] = IF @ = "pfail" \/ (@ = "fail" /\ MayClear(n, s)) THEN "ok" ELSE @]

\* A PING of n and the PONG of m.  Whoever marks a node as failing broadcasts FAIL,
\* which reaches the nodes it has a link to.
Exchange(n, m) ==
    LET atM == AfterGossip(m, n, view[m])
        atN == AfterGossip(n, m, AfterPong(n, m))
        new(x) == IF x = m THEN atM ELSE IF x = n THEN atN ELSE view[x]
        failing(x) == {y \in FMaster : new(x)[y] = "fail" /\ view[x][y] # "fail"}
        told(z) == UNION {IF x # z /\ Up(x, z) THEN failing(x) ELSE {} : x \in {n, m}}
        final == [z \in FMaster |-> [y \in FMaster |-> IF y # z /\ y \in told(z) THEN "fail" ELSE new(z)[y]]]
        changed(z) == final[z] # view[z]
    IN  /\ n # m /\ Up(n, m) /\ view' = final
        /\ quiet' = [quiet EXCEPT ![n][m] = 0, ![m][n] = 0] /\ ping' = [ping EXCEPT ![n][m] = Never]
        /\ report' = [report EXCEPT ![n] = [y \in FMaster |-> IF y \in {n, m} THEN @[y] ELSE Reported(n, m, y)],
                                    ![m] = [y \in FMaster |-> IF y \in {n, m} THEN @[y] ELSE Reported(m, n, y)]]
        /\ failAge' = [z \in FMaster |-> [y \in FMaster |-> IF final[z][y] = "fail" /\ view[z][y] # "fail" THEN 0 ELSE failAge[z][y]]]
        /\ cstate' = [z \in FMaster |-> IF changed(z) THEN StateOf(z, final[z]) ELSE cstate[z]]
        /\ minority' = [z \in FMaster |-> IF changed(z) THEN InMinority(z, final[z]) ELSE minority[z]]
        /\ suspect' = [z \in FMaster |-> [y \in FMaster |-> IF final[z][y] # "ok" THEN 0 ELSE suspect[z][y]]]
        /\ UNCHANGED <<cut, ran, alone, ncuts>>

\* clusterCron: a ping is sent when the last answer is old, or at random; a ping
\* without answer or any other packet for longer than the timeout makes the node PFAIL.
TimedOut(n, m, p) == p # Never /\ p > T /\ quiet[n][m] > T /\ view[n][m] = "ok"
Cron(n) ==
    \E early \in SUBSET {m \in Peers(n) : ping[n][m] = Never /\ ~Up(n, m)} :
        LET sent == [m \in FMaster |-> IF m = n \/ ping[n][m] # Never THEN ping[n][m]
                                       ELSE IF m \in early \/ quiet[n][m] > T \div 2 THEN 0 ELSE Never]
            v == [m \in FMaster |-> IF m # n /\ TimedOut(n, m, sent[m]) THEN "pfail" ELSE view[n][m]]
            update == v # view[n] \/ cstate[n] = "fail"
        IN  /\ n \notin ran /\ ran' = ran \cup {n}
            /\ ping' = [ping EXCEPT ![n] = sent] /\ view' = [view EXCEPT ![n] = v]
            /\ cstate' = [cstate EXCEPT ![n] = IF update THEN StateOf(n, v) ELSE @]
            /\ minority' = [minority EXCEPT ![n] = IF update THEN InMinority(n, v) ELSE @]
            /\ suspect' = [suspect EXCEPT ![n] = [m \in FMaster |-> IF v[m] # "ok" THEN 0 ELSE @[m]]]
            /\ UNCHANGED <<quiet, report, failAge, cut, alone, ncuts>>

ReachesMajority(n) == Cardinality({m \in FMaster : m = n \/ Up(n, m)}) >= Quorum
\* A tick passes once every cron ran; a link that is up is never silent for half a timeout.
Tick ==
    /\ ran = FMaster /\ ran' = {}
    /\ \A n \in FMaster, m \in FMaster : n # m /\ Up(n, m) => quiet[n][m] <= T \div 2
    /\ quiet' = [n \in FMaster |-> [m \in FMaster |-> IF n = m THEN 0 ELSE Older(quiet[n][m], T + 1)]]
    /\ ping' = [n \in FMaster |-> [m \in FMaster |-> Older(ping[n][m], T + 1)]]
    /\ report' = [n \in FMaster |-> [m \in FMaster |-> [r \in FMaster |-> Older(report[n][m][r], Old)]]]
    /\ failAge' = [n \in FMaster |-> [m \in FMaster |-> Older(failAge[n][m], Undo + 1)]]
    /\ minority' = [n \in FMaster |-> Older(minority[n], T)]
    /\ suspect' = [n \in FMaster |-> [m \in FMaster |-> IF view[n][m] # "ok" THEN 0 ELSE Older(suspect[n][m], Long)]]
    /\ alone' = [n \in FMaster |-> IF ReachesMajority(n) THEN 0 ELSE Older(alone[n], Long)]
    /\ UNCHANGED <<view, cstate, cut, ncuts>>
\* A link, or all links of a node, go down.
Cut ==
    /\ ncuts < MaxCuts /\ ncuts' = ncuts + 1
    /\ \/ \E n \in FMaster, m \in FMaster : n # m /\ Up(n, m) /\ cut' = cut \cup {{n, m}}
       \/ \E n \in FMaster : cut' = cut \cup {{n, m} : m \in Peers(n)} /\ cut' # cut
    /\ UNCHANGED <<view, quiet, ping, report, failAge, cstate, minority, ran, suspect, alone>>
Heal ==
    /\ cut # {} /\ cut' = {} /\ alone' = [n \in FMaster |-> 0]
    /\ UNCHANGED <<view, quiet, ping, report, failAge, cstate, minority, ran, suspect, ncuts>>

FdNext == (\E n \in FMaster, m \in FMaster : Exchange(n, m)) \/ (\E n \in FMaster : Cron(n)) \/ Tick \/ Cut \/ Heal
FdFair == WF_fdvars(Tick) /\ (\A n \in FMaster : WF_fdvars(Cron(n))) /\ (\A n \in FMaster, m \in FMaster : WF_fdvars(Exchange(n, m)))
FdSpec == FdInit /\ [][FdNext]_fdvars /\ FdFair

-----------------------------------------------------------------------------
\* A node that reaches no majority of the masters stops serving, at most the timeout,
\* half a timeout for the ping, and two ticks later: the writes it accepted after the
\* others may have elected a replica are bounded in time.
MinorityStops == \A n \in FMaster : ~ReachesMajority(n) /\ alone[n] > T + (T \div 2) + 2 => cstate[n] = "fail"

\* A master is declared FAIL only when a majority of the masters found it unreachable,
\* each at most the validity of a report ago.
FailByMajority ==
    \A n \in FMaster, m \in FMaster :
         (view'[n][m] = "fail" /\ \A x \in FMaster : view[x][m] # "fail")
             => Cardinality({x \in FMaster : suspect[x][m] <= Validity}) >= Quorum

\* When the links stay up, all flags are cleared and every node serves again.
EventuallyUp == <>[](cut = {}) => <>[](\A n \in FMaster : cstate[n] = "ok" /\ \A m \in Peers(n) : view[n][m] = "ok")
=============================================================================
