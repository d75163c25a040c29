--------------------------- MODULE SentinelFailover ---------------------------
(***************************************************************************)
(* What a Sentinel does once it leads a failover (sentinel.c): select a     *)
(* slave, SLAVEOF NO ONE, wait for INFO to show the promotion, reconfigure  *)
(* the other slaves, switch address; and how the others follow through      *)
(* hello messages, and bring the Redis instances in line with their own     *)
(* configuration.  The elections are those of SentinelElection: each        *)
(* failover has an epoch of its own.                                        *)
(*                                                                         *)
(* All Sentinels monitor one master and know every instance.  S_DOWN and    *)
(* the clocks are free choices.  INFO shows the role the instance has when  *)
(* it replies, a hello the configuration its sender has then; a SLAVEOF may *)
(* be lost with its connection.                                             *)
(***************************************************************************)
EXTENDS Integers, FiniteSets

CONSTANTS
    Overseer, Instance,
    First,          \* the master of the configuration files at the start
    Nothing,           \* no master: the instance is a master; no promoted slave
    ParallelSyncs,  \* master->parallel_syncs
    LastEpoch        \* bound on the failovers

ASSUME FailoverAssumption ==
    /\ IsFiniteSet(Instance) /\ First \in Instance /\ Nothing \notin Instance
    /\ ParallelSyncs \in Nat \ {0} /\ LastEpoch \in Nat

VARIABLES
    sen,    \* each Sentinel: current_epoch and its sentinelRedisInstance of the master
    role,   \* the Redis instances: whom they replicate, or Nothing
    used,   \* the epochs of the elections won so far
    stuck   \* history: a Sentinel took a newer config epoch, but not its address

sfvars == <<sen, role, used, stuck>>

States == {"NONE", "SELECT_SLAVE", "SEND_SLAVEOF_NOONE", "WAIT_PROMOTION", "RECONF_SLAVES"}
Flags == SUBSET {"SENT", "INPROG", "DONE"}
NoFlags == [i \in Instance |-> {}]

Slaves(m) == Instance \ {m.addr}

SfInit ==
    /\ sen = [s \in Overseer |->
                [addr |-> First, config_epoch |-> 0, epoch |-> 0, state |-> "NONE",
                 failover_epoch |-> 0, promoted |-> Nothing, flags |-> NoFlags]]
    /\ role = [i \in Instance |-> IF i = First THEN Nothing ELSE First]
    /\ used = {}
    /\ stuck = FALSE

\* Mutant: the old address until the failover is over.
CurrentAddressLate(m) == m.addr

\* sentinelGetCurrentMasterAddress: what hellos and the config file carry.
CurrentAddress(m) == IF m.state = "RECONF_SLAVES" THEN m.promoted ELSE m.addr

\* sentinelSendSlaveOf to each of the instances: the transaction reaches some.
SendSlaveOf(to, master) ==
    \E got \in SUBSET to : role' = [i \in Instance |-> IF i \in got THEN master ELSE role[i]]

\* sentinelResetMaster and sentinelResetMasterAndChangeAddress; the old master
\* becomes a slave by no longer being the address.
ChangeAddress(m, addr) ==
    [m EXCEPT !.addr = addr, !.state = "NONE", !.promoted = Nothing, !.flags = NoFlags]

\* sentinelAbortFailover
Abort(m) == [m EXCEPT !.state = "NONE", !.promoted = Nothing]

-----------------------------------------------------------------------------
(* The failover state machine, one timer tick each.                          *)

\* An election is won (SentinelElection): WAIT_START is over.
Elected(s) ==
    LET e == sen[s].epoch + 1
    IN  /\ sen[s].state = "NONE" /\ e <= LastEpoch /\ e \notin used
        /\ sen' = [sen EXCEPT ![s].state = "SELECT_SLAVE", ![s].epoch = e, ![s].failover_epoch = e]
        /\ used' = used \cup {e}
        /\ UNCHANGED <<role, stuck>>

\* sentinelFailoverSelectSlave: any slave may be the best one, or none is good.
SelectSlave(s) ==
    /\ sen[s].state = "SELECT_SLAVE"
    /\ sen' = [sen EXCEPT ![s] = Abort(@)]
       \/ \E i \in Slaves(sen[s]) :
            sen' = [sen EXCEPT ![s].state = "SEND_SLAVEOF_NOONE", ![s].promoted = i]
    /\ UNCHANGED <<role, used, stuck>>

\* sentinelFailoverSendSlaveOfNoOne, when the slave is connected
SendSlaveOfNoOne(s) ==
    /\ sen[s].state = "SEND_SLAVEOF_NOONE"
    /\ SendSlaveOf({sen[s].promoted}, Nothing)
    /\ sen' = [sen EXCEPT ![s].state = "WAIT_PROMOTION"]
    /\ UNCHANGED <<used, stuck>>

\* -failover-abort-slave-timeout, of either state
PromotionTimeout(s) ==
    /\ sen[s].state \in {"SEND_SLAVEOF_NOONE", "WAIT_PROMOTION"}
    /\ sen' = [sen EXCEPT ![s] = Abort(@)]
    /\ UNCHANGED <<role, used, stuck>>

InProgress(m) == {i \in Slaves(m) : m.flags[i] \cap {"SENT", "INPROG"} # {}}
Unconfigured(m) == {i \in Slaves(m) \ {m.promoted} : "DONE" \notin m.flags[i]}

\* The loop of sentinelFailoverReconfNextSlave: expired are the slaves whose
\* RECONF_SENT timed out, which become DONE and are then sent SLAVEOF again,
\* as the slaves not yet sent one are; at most ParallelSyncs are in progress.
\* Which ones depends on the dictionary order and on the connections.
ReconfNextSlave(m, expired, to) ==
    /\ expired \subseteq {i \in Unconfigured(m) : "SENT" \in m.flags[i]}
    /\ to \subseteq {i \in Unconfigured(m) : i \in expired \/ m.flags[i] = {}}
    /\ Cardinality(InProgress(m)) >= ParallelSyncs => expired = {} /\ to = {}
    /\ Cardinality(InProgress(m)) + Cardinality(to) <= ParallelSyncs \/ to = {}

Reconfigured(m, expired, to) ==
    [m EXCEPT !.flags = [i \in Instance |->
        ((m.flags[i] \ (IF i \in expired THEN {"SENT"} ELSE {}))
           \cup (IF i \in expired THEN {"DONE"} ELSE {})) \cup (IF i \in to THEN {"SENT"} ELSE {})]]

\* The tick in RECONF_SLAVES that does not end the failover.
ReconfSlaves(s, expired, to) ==
    LET m == sen[s]
    IN  /\ m.state = "RECONF_SLAVES"
        /\ ReconfNextSlave(m, expired, to)
        /\ expired \cup to # {}
        /\ SendSlaveOf(to, m.promoted)
        /\ sen' = [sen EXCEPT ![s] = Reconfigured(m, expired, to)]
        /\ UNCHANGED <<used, stuck>>

\* sentinelFailoverDetectEnd: the promoted slave is reachable, and each other
\* one is DONE or S_DOWN; or the failover timed out, and SLAVEOF is sent once
\* more.  UPDATE_CONFIG is acted on at the end of the same tick.
DetectEnd(s, timeout, down) ==
    LET m == sen[s]
    IN  /\ m.state = "RECONF_SLAVES"
        /\ Unconfigured(m) \subseteq down \/ timeout
        /\ SendSlaveOf(IF timeout THEN {i \in Unconfigured(m) : "SENT" \notin m.flags[i]} ELSE {}, m.promoted)
        /\ sen' = [sen EXCEPT ![s] = ChangeAddress(m, m.promoted)]
        /\ UNCHANGED <<used, stuck>>

-----------------------------------------------------------------------------
(* sentinelRefreshInstanceInfo, for a slave i of s.                          *)

PromotionSeen(m, i) == m.state = "WAIT_PROMOTION" /\ m.promoted = i /\ role[i] = Nothing

\* The promotion is acknowledged: the configuration epoch is the failover's.
InfoPromoted(s, i) ==
    /\ i \in Slaves(sen[s]) /\ PromotionSeen(sen[s], i)
    /\ sen' = [sen EXCEPT ![s].config_epoch = sen[s].failover_epoch, ![s].state = "RECONF_SLAVES"]
    /\ UNCHANGED <<role, used, stuck>>

\* sentinelMasterLooksSane, with the INFO of the master and the waits.
MasterLooksSane(m) == role[m.addr] = Nothing

\* +convert-to-slave and +fix-slave-config
InfoMisconfigured(s, i) ==
    LET m == sen[s]
    IN  /\ i \in Slaves(m) /\ ~PromotionSeen(m, i)
        /\ \/ role[i] = Nothing /\ m.promoted # i
           \/ role[i] \notin {Nothing, m.addr} /\ m.flags[i] = {}
        /\ MasterLooksSane(m)
        /\ role' = [role EXCEPT ![i] = m.addr]
        /\ UNCHANGED <<sen, used, stuck>>

\* RECONF_SENT to RECONF_INPROG, and on to RECONF_DONE when the link is up; a
\* slave of another master may be reconfigured by the same INFO.
InfoReconf(s, i, up, fix) ==
    LET m == sen[s]
        f == m.flags[i]
        g == IF "SENT" \in f /\ role[i] = m.promoted THEN (f \ {"SENT"}) \cup {"INPROG"} ELSE f
        h == IF "INPROG" \in g /\ up THEN (g \ {"INPROG"}) \cup {"DONE"} ELSE g
    IN  /\ i \in Slaves(m) /\ role[i] # Nothing /\ f \cap {"SENT", "INPROG"} # {}
        /\ h # f \/ fix
        /\ fix => role[i] # m.addr /\ MasterLooksSane(m)
        /\ role' = IF fix THEN [role EXCEPT ![i] = m.addr] ELSE role
        /\ sen' = [sen EXCEPT ![s].flags[i] = h]
        /\ UNCHANGED <<used, stuck>>

-----------------------------------------------------------------------------
Newer(mine, theirs) == mine < theirs

\* sentinelProcessHelloMessage at s, of a hello of t: the epoch, and the
\* configuration if it is newer; the address is compared with master->addr.
ReceiveHello(s, t) ==
    LET m == sen[s]
        h == sen[t]
        addr == CurrentAddress(h)
        e == [m EXCEPT !.epoch = IF h.epoch > @ THEN h.epoch ELSE @]
        c == [e EXCEPT !.config_epoch = h.config_epoch]
    IN  /\ s # t
        /\ sen' = [sen EXCEPT ![s] = IF ~Newer(m.config_epoch, h.config_epoch) THEN e
                                     ELSE IF addr # m.addr THEN ChangeAddress(c, addr) ELSE c]
        /\ stuck' = (stuck \/ (/\ Newer(m.config_epoch, h.config_epoch)
                               /\ addr = m.addr /\ m.state # "NONE"))
        /\ UNCHANGED <<role, used>>

\* The configuration file, rewritten at each change, has the current address.
Reboot(s) ==
    /\ sen[s].state # "NONE"
    /\ sen' = [sen EXCEPT ![s] = [ChangeAddress(@, CurrentAddress(@)) EXCEPT !.failover_epoch = 0]]
    /\ UNCHANGED <<role, used, stuck>>

StateMachine(s) ==
    \/ SelectSlave(s) \/ SendSlaveOfNoOne(s) \/ PromotionTimeout(s)
    \/ \E timeout \in BOOLEAN, down \in SUBSET Instance : DetectEnd(s, timeout, down)

Info(s, i) ==
    \/ InfoPromoted(s, i) \/ InfoMisconfigured(s, i)
    \/ \E up, fix \in BOOLEAN : InfoReconf(s, i, up, fix)

SfNext ==
    \/ \E s \in Overseer : Elected(s) \/ StateMachine(s) \/ Reboot(s)
    \/ \E s \in Overseer, expired, to \in SUBSET Instance : ReconfSlaves(s, expired, to)
    \/ \E s \in Overseer, i \in Instance : Info(s, i)
    \/ \E s, t \in Overseer : ReceiveHello(s, t)

\* The timer runs ten times a second, INFO and hellos are periodic: none of
\* them is withheld for ever.  Elections and restarts need not happen.
SfFairness ==
    /\ \A s \in Overseer : WF_sfvars(StateMachine(s))
    /\ \A s \in Overseer, i \in Instance : WF_sfvars(InfoMisconfigured(s, i))
    /\ \A s, t \in Overseer : WF_sfvars(ReceiveHello(s, t))

SfSpec == SfInit /\ [][SfNext]_sfvars
SfFairSpec == SfSpec /\ SfFairness

-----------------------------------------------------------------------------
SfTypeOK ==
    /\ sen \in [Overseer -> [addr : Instance, config_epoch : 0 .. LastEpoch, epoch : 0 .. LastEpoch,
                             state : States, failover_epoch : 0 .. LastEpoch,
                             promoted : Instance \cup {Nothing}, flags : [Instance -> Flags]]]
    /\ role \in [Instance -> Instance \cup {Nothing}]
    /\ used \subseteq 1 .. LastEpoch
    /\ stuck \in BOOLEAN

\* promoted_slave is set exactly while the failover has one, and a slave with
\* RECONF_SENT or RECONF_INPROG exists only beside it: sentinelRefreshInstanceInfo
\* and sentinelFailoverReconfNextSlave read promoted_slave->addr unchecked.
PromotedWhenUsed ==
    \A s \in Overseer :
        LET m == sen[s]
        IN  /\ (m.promoted # Nothing) =
                 (m.state \in {"SEND_SLAVEOF_NOONE", "WAIT_PROMOTION", "RECONF_SLAVES"})
            /\ InProgress(m) # {} => m.state = "RECONF_SLAVES"
            /\ m.promoted # m.addr

\* One configuration epoch names one master, whoever advertises it (hello or
\* configuration file), as long as no Sentinel took the epoch without the
\* address.
OneMasterPerConfigEpoch ==
    ~stuck => \A s, t \in Overseer :
                sen[s].config_epoch = sen[t].config_epoch
                  => CurrentAddress(sen[s]) = CurrentAddress(sen[t])

\* Sentinels agree on the master a configuration epoch names, and none of them uses a
\* promoted slave it does not have (sentinelFailoverStateMachine).
SentinelsAgree == PromotedWhenUsed /\ OneMasterPerConfigEpoch

Agreed ==
    \A s, t \in Overseer : sen[s].addr = sen[t].addr /\ sen[s].config_epoch = sen[t].config_epoch

InLine == Agreed /\ \A s \in Overseer : \A i \in Slaves(sen[s]) : role[i] = sen[s].addr

\* A Sentinel whose master stays a master turns all the others into its
\* slaves: lost SLAVEOFs, aborted promotions and the old master coming back
\* are repaired through INFO, once there are no more failovers.
EventuallyReplicate ==
    []~stuck /\ <>[](\A s \in Overseer : role[sen[s].addr] = Nothing) => <>[]InLine
=============================================================================
