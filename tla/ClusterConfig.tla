--------------------------- MODULE ClusterConfig ---------------------------
(***************************************************************************)
(* How the nodes of a Redis Cluster agree on who serves which hash slots   *)
(* (cluster.c): currentEpoch and configEpoch, the claims carried by the    *)
(* header of every bus packet, UPDATE packets, elections of a replica by   *)
(* the masters, takeovers, configEpoch collisions and restarts.            *)
(*                                                                         *)
(* One step is one packet, one call of clusterCron or one command,         *)
(* together with the clusterBeforeSleep that follows it.  All nodes know   *)
(* each other, so a node is a slave exactly when its slaveof is set.       *)
(* Whether a master is flagged FAIL, and every comparison of times, is a   *)
(* free choice: failure detection is the subject of FailureDetection.      *)
(* A PONG has the content of a PING and SendPing may happen at any time,   *)
(* so the reply to a PING is not a packet of its own.                      *)
(***************************************************************************)
EXTENDS Integers, FiniteSets

CONSTANTS Node,        \* the nodes
          Id,          \* their names, compared by memcmp: injective, to Nat
          Slot,        \* hash slots, a set of numbers
          InitOwner,   \* the master that first serves each slot
          InitSlaveof, \* the master of each replica, None for the masters
          InitEpoch,   \* the configEpoch each node starts with
          FirstEpoch,  \* the currentEpoch all of them start with
          None,
          MaxEpoch,    \* bound: no election or takeover beyond this epoch
          MaxNet,      \* bound: packets in flight when a PING or FAIL is sent
          MaxFaults    \* bound: restarts and takeovers

ASSUME ConfigAssumption ==
    /\ IsFiniteSet(Node)
    /\ None \notin Node
    /\ Slot \subseteq Nat
    /\ Id \in [Node -> Nat]
    /\ \A m, n \in Node : Id[m] = Id[n] => m = n
    /\ InitSlaveof \in [Node -> Node \cup {None}]
    /\ InitEpoch \in [Node -> Nat]
    /\ FirstEpoch \in Nat
    /\ \A n \in Node : InitEpoch[n] <= FirstEpoch
    /\ InitOwner \in [Slot -> Node]
    /\ \A s \in Slot : InitSlaveof[InitOwner[s]] = None
    /\ \A n \in Node : InitSlaveof[n] # n
    /\ MaxEpoch \in Nat
    /\ MaxNet \in Nat
    /\ MaxFaults \in Nat

VARIABLES
    conf,      \* conf[n]: what n knows; its nodes.conf, see NodeConf
    saved,     \* the currentEpoch in n's nodes.conf; the rest is always saved
    auth,      \* n's failover_auth_sent, _epoch and _count, see NodeAuth
    net,       \* packets in flight; links may lose them and overtake
    won,       \* history: the elections won
    forgotten, \* history: votes sent by a node that died before saving them
    faults     \* the restarts and takeovers so far

vars == <<conf, saved, auth, net, won, forgotten, faults>>

\* slaveof[m] and slots[s] are None for a master and for an unassigned slot.
NodeConf == [currentEpoch  : Nat,
             lastVoteEpoch : Nat,
             configEpoch   : [Node -> Nat],
             slaveof       : [Node -> Node \cup {None}],
             slots         : [Slot -> Node \cup {None}]]

\* stale is history: failover_auth_count holds a vote of an earlier election.
NodeAuth == [sent : BOOLEAN, epoch : Nat, count : Nat, stale : BOOLEAN]

\* The header of every packet; an UPDATE is also about a third node.
Update == [node : Node, configEpoch : Nat, slots : SUBSET Slot]
Packet == [type : {"PING", "FAIL", "AUTH_REQUEST", "AUTH_ACK", "UPDATE"},
           sender : Node, to : Node, currentEpoch : Nat, configEpoch : Nat,
           slots : SUBSET Slot, slaveof : Node \cup {None},
           forceack : BOOLEAN, update : Update \cup {None}]

TypeOK == /\ conf \in [Node -> NodeConf]
          /\ saved \in [Node -> Nat]
          /\ auth \in [Node -> NodeAuth]
          /\ net \subseteq Packet
          /\ won \subseteq [node : Node, epoch : Nat, stale : BOOLEAN]
          /\ forgotten \subseteq Node \X Nat
          /\ faults \in 0..MaxFaults

Larger(a, b) == IF a > b THEN a ELSE b

SlotsOf(c, m) == {s \in Slot : c.slots[s] = m}

\* server.cluster->size / 2 + 1, as clusterUpdateState counts it.
NeededQuorum(c) ==
    Cardinality({m \in Node : c.slaveof[m] = None /\ SlotsOf(c, m) # {}}) \div 2 + 1

-----------------------------------------------------------------------------
(* Packets *)

\* A slave advertises the slots and the configEpoch of its master.
BuildMessageHdr(n, c, type, to, force, update) ==
    LET master == IF c.slaveof[n] = None THEN n ELSE c.slaveof[n]
    IN  [type |-> type, sender |-> n, to |-> to,
         currentEpoch |-> c.currentEpoch,
         configEpoch |-> c.configEpoch[master],
         slots |-> SlotsOf(c, master),
         slaveof |-> c.slaveof[n],
         forceack |-> force, update |-> update]

Broadcast(n, c, type, force) ==
    {BuildMessageHdr(n, c, type, m, force, None) : m \in Node \ {n}}

-----------------------------------------------------------------------------
(* What a packet changes in the configuration of the node that reads it *)

\* Every packet: learn a newer currentEpoch, and a newer configEpoch of p.sender.
SeeEpochs(c, p) ==
    [c EXCEPT !.currentEpoch = Larger(@, p.currentEpoch),
              !.configEpoch[p.sender] = Larger(@, p.configEpoch)]

\* clusterSetNodeAsMaster, or a master that turned into a slave.
SeeRole(c, p) ==
    [c EXCEPT !.slaveof[p.sender] = p.slaveof,
              !.slots = IF p.slaveof # None /\ c.slaveof[p.sender] = None
                        THEN [s \in Slot |-> IF @[s] = p.sender THEN None ELSE @[s]]
                        ELSE @]

\* Rebind the slots claimed with a greater configEpoch; when the node's own
\* master, or the node itself, loses its last slot, replicate the new owner.
UpdateSlotsConfigWith(n, c, sender, epoch, claimed) ==
    LET curmaster == IF c.slaveof[n] = None THEN n ELSE c.slaveof[n]
        rebound == {s \in claimed : /\ c.slots[s] # sender
                                    /\ \/ c.slots[s] = None
                                       \/ c.configEpoch[c.slots[s]] < epoch}
        lost == {s \in rebound : c.slots[s] = curmaster}
        new == [c EXCEPT !.slots = [s \in Slot |-> IF s \in rebound THEN sender
                                                   ELSE @[s]]]
    IN  IF sender = n THEN c
        ELSE IF lost # {} /\ SlotsOf(new, curmaster) = {}
             THEN [new EXCEPT !.slaveof[n] = sender]
             ELSE new

\* Mutant: a collision is noticed and left alone.
IgnoreCollision(n, c, p) == c

\* Two masters with one configEpoch: the one with the smaller name moves on.
HandleConfigEpochCollision(n, c, p) ==
    IF /\ c.slaveof[n] = None /\ c.slaveof[p.sender] = None
       /\ p.configEpoch = c.configEpoch[n]
       /\ c.configEpoch[p.sender] = c.configEpoch[n]
       /\ Id[p.sender] > Id[n]
    THEN [c EXCEPT !.currentEpoch = @ + 1,
                   !.configEpoch[n] = c.currentEpoch + 1]
    ELSE c

\* The set of slots p.sender claims is not the one c has for it.
DirtySlots(c, p) ==
    LET senderMaster == IF c.slaveof[p.sender] = None THEN p.sender
                        ELSE c.slaveof[p.sender]
    IN  SlotsOf(c, senderMaster) # p.slots

\* The slots for which p.sender is told of an owner with a greater configEpoch.
Outdated(c, p) ==
    {s \in p.slots : /\ c.slots[s] \notin {p.sender, None}
                     /\ c.configEpoch[c.slots[s]] > p.configEpoch}

-----------------------------------------------------------------------------
Init ==
    /\ conf = [n \in Node |->
                 [currentEpoch  |-> FirstEpoch,
                  lastVoteEpoch |-> 0,
                  configEpoch   |-> [m \in Node |->
                                       IF m = n \/ InitSlaveof[m] = None
                                       THEN InitEpoch[m]
                                       ELSE InitEpoch[InitSlaveof[m]]],
                  slaveof       |-> InitSlaveof,
                  slots         |-> InitOwner]]
    /\ saved = [n \in Node |-> conf[n].currentEpoch]
    /\ auth = [n \in Node |-> [sent |-> FALSE, epoch |-> 0, count |-> 0,
                               stale |-> FALSE]]
    /\ net = {}
    /\ won = {}
    /\ forgotten = {}
    /\ faults = 0

\* Mutant: currentEpoch is never written to nodes.conf.
AdoptForgetsEpoch(n, c) ==
    /\ conf' = [conf EXCEPT ![n] = c]
    /\ saved' = saved

\* n's configuration becomes c.  All of it is saved before n sleeps when any
\* part of it but currentEpoch changed (CLUSTER_TODO_SAVE_CONFIG).
Adopt(n, c) ==
    /\ conf' = [conf EXCEPT ![n] = c]
    /\ saved' = [saved EXCEPT ![n] =
                   IF [c EXCEPT !.currentEpoch = 0]
                        # [conf[n] EXCEPT !.currentEpoch = 0]
                   THEN c.currentEpoch ELSE @]

\* clusterCron and clusterSendPing: a PING may be sent to any node at any time.
SendPing(n, m) ==
    /\ m # n
    /\ Cardinality(net) < MaxNet
    /\ net' = net \cup {BuildMessageHdr(n, conf[n], "PING", m, FALSE, None)}
    /\ UNCHANGED <<conf, saved, auth, won, forgotten, faults>>

\* clusterSendFail, when n flags a node FAIL.
SendFail(n, m) ==
    /\ m # n
    /\ Cardinality(net) < MaxNet
    /\ net' = net \cup {BuildMessageHdr(n, conf[n], "FAIL", m, FALSE, None)}
    /\ UNCHANGED <<conf, saved, auth, won, forgotten, faults>>

\* What a PING or PONG makes of the configuration of n, before collisions.
SeePing(n, p) ==
    LET c == SeeRole(SeeEpochs(conf[n], p), p)
    IN  IF DirtySlots(c, p) /\ p.slaveof = None
        THEN UpdateSlotsConfigWith(n, c, p.sender, p.configEpoch, p.slots)
        ELSE c

\* The UPDATE that answers a PING, about the owner of the first outdated slot.
UpdateFor(n, p) ==
    LET c == SeePing(n, p)
        outdated == Outdated(c, p)
        first == {s \in outdated : \A t \in outdated : s <= t}
    IN  IF DirtySlots(SeeRole(SeeEpochs(conf[n], p), p), p)
        THEN {BuildMessageHdr(n, c, "UPDATE", p.sender, FALSE,
                [node |-> c.slots[s], configEpoch |-> c.configEpoch[c.slots[s]],
                 slots |-> SlotsOf(c, c.slots[s])]) : s \in first}
        ELSE {}

ReceivePing(p) ==
    /\ p.type = "PING"
    /\ Adopt(p.to, HandleConfigEpochCollision(p.to, SeePing(p.to, p), p))
    /\ net' = (net \ {p}) \cup UpdateFor(p.to, p)
    /\ UNCHANGED <<auth, won, forgotten, faults>>

\* FAIL: the flag it sets is a free choice here, the epochs it carries are not.
ReceiveFail(p) ==
    /\ p.type = "FAIL"
    /\ Adopt(p.to, SeeEpochs(conf[p.to], p))
    /\ net' = net \ {p}
    /\ UNCHANGED <<auth, won, forgotten, faults>>

ReceiveUpdate(p) ==
    LET n == p.to
        u == p.update
        c == SeeEpochs(conf[n], p)
        known == [c EXCEPT !.slaveof[u.node] = None,
                           !.configEpoch[u.node] = u.configEpoch]
    IN  /\ p.type = "UPDATE"
        /\ Adopt(n, IF c.configEpoch[u.node] >= u.configEpoch THEN c
                    ELSE UpdateSlotsConfigWith(n, known, u.node,
                                               u.configEpoch, u.slots))
        /\ net' = net \ {p}
        /\ UNCHANGED <<auth, won, forgotten, faults>>

-----------------------------------------------------------------------------
(* Elections *)

\* clusterHandleSlaveFailover may act: n is a slave of a master with slots.
CanFailover(n) == /\ conf[n].slaveof[n] # None
                  /\ SlotsOf(conf[n], conf[n].slaveof[n]) # {}

\* The retry time has elapsed: set up an election and tell the other slaves.
ScheduleElection(n) ==
    /\ CanFailover(n)
    /\ auth' = [auth EXCEPT ![n].count = 0, ![n].sent = FALSE, ![n].stale = FALSE]
    /\ net' = net \cup {p \in Broadcast(n, conf[n], "PING", FALSE) :
                          conf[n].slaveof[p.to] = conf[n].slaveof[n]}
    /\ auth' # auth
    /\ UNCHANGED <<conf, saved, won, forgotten, faults>>

\* Ask for votes; failover_auth_count is not reset.  force: mf_end is set.
RequestFailoverAuth(n, force) ==
    LET c == [conf[n] EXCEPT !.currentEpoch = @ + 1]
    IN  /\ CanFailover(n)
        /\ ~auth[n].sent
        /\ c.currentEpoch <= MaxEpoch
        /\ conf' = [conf EXCEPT ![n] = c]
        /\ saved' = [saved EXCEPT ![n] = c.currentEpoch]
        /\ auth' = [auth EXCEPT ![n] = [sent |-> TRUE, epoch |-> c.currentEpoch,
                                        count |-> @.count,
                                        stale |-> @.count > 0]]
        /\ net' = net \cup Broadcast(n, c, "AUTH_REQUEST", force)
        /\ UNCHANGED <<won, forgotten, faults>>

\* Mutant: a master may vote again in the epoch it voted in.
MayVoteAgain(n, c, p) ==
    /\ c.slaveof[n] = None /\ SlotsOf(c, n) # {}
    /\ p.currentEpoch >= c.currentEpoch
    /\ c.slaveof[p.sender] # None
    /\ c.slaveof[p.sender] = n => p.forceack

\* The conditions of clusterSendFailoverAuthIfNeeded that are not about time;
\* no node has itself flagged FAIL.
MayVote(n, c, p) ==
    /\ c.slaveof[n] = None /\ SlotsOf(c, n) # {}
    /\ p.currentEpoch >= c.currentEpoch
    /\ c.lastVoteEpoch # c.currentEpoch
    /\ c.slaveof[p.sender] # None
    /\ c.slaveof[p.sender] = n => p.forceack
    /\ \A s \in p.slots : \/ c.slots[s] = None
                          \/ c.configEpoch[c.slots[s]] <= p.configEpoch

DenyVote(p) ==
    /\ p.type = "AUTH_REQUEST"
    /\ Adopt(p.to, SeeEpochs(conf[p.to], p))
    /\ net' = net \ {p}
    /\ UNCHANGED <<auth, won, forgotten, faults>>

Vote(p) ==
    LET n == p.to
        c == SeeEpochs(conf[n], p)
        v == [c EXCEPT !.lastVoteEpoch = c.currentEpoch]
    IN  /\ p.type = "AUTH_REQUEST"
        /\ MayVote(n, c, p)
        /\ Adopt(n, v)
        /\ net' = (net \ {p}) \cup
                    {BuildMessageHdr(n, v, "AUTH_ACK", p.sender, FALSE, None)}
        /\ UNCHANGED <<auth, won, forgotten, faults>>

\* A vote counts for the election of failover_auth_epoch, sent or only scheduled.
ReceiveAuthAck(p) ==
    LET n == p.to
        c == SeeEpochs(conf[n], p)
    IN  /\ p.type = "AUTH_ACK"
        /\ Adopt(n, c)
        /\ auth' = IF /\ c.slaveof[p.sender] = None
                      /\ SlotsOf(c, p.sender) # {}
                      /\ p.currentEpoch >= auth[n].epoch
                   THEN [auth EXCEPT ![n].count = @ + 1]
                   ELSE auth
        /\ net' = net \ {p}
        /\ UNCHANGED <<won, forgotten, faults>>

\* clusterFailoverReplaceYourMaster: n serves the slots of its master.
ReplaceYourMaster(n, c) ==
    [c EXCEPT !.slaveof[n] = None,
              !.slots = [s \in Slot |-> IF @[s] = c.slaveof[n] THEN n ELSE @[s]]]

\* The quorum is reached, seen by the next clusterHandleSlaveFailover.
WinElection(n) ==
    LET c == ReplaceYourMaster(n,
               [conf[n] EXCEPT !.configEpoch[n] = Larger(@, auth[n].epoch)])
    IN  /\ CanFailover(n)
        /\ auth[n].sent
        /\ auth[n].count >= NeededQuorum(conf[n])
        /\ Adopt(n, c)
        /\ net' = net \cup Broadcast(n, c, "PING", FALSE)
        /\ won' = won \cup {[node |-> n, epoch |-> auth[n].epoch,
                             stale |-> auth[n].stale]}
        /\ UNCHANGED <<auth, forgotten, faults>>

-----------------------------------------------------------------------------
(* Commands and faults *)

Fault == faults < MaxFaults /\ faults' = faults + 1

\* CLUSTER FAILOVER TAKEOVER: clusterBumpConfigEpochWithoutConsensus.
Takeover(n) ==
    LET old == conf[n]
        epochs == {old.currentEpoch} \cup {old.configEpoch[m] : m \in Node}
        bumped == IF \/ old.configEpoch[n] = 0
                     \/ \E e \in epochs : e > old.configEpoch[n]
                  THEN [old EXCEPT !.currentEpoch = @ + 1,
                                   !.configEpoch[n] = old.currentEpoch + 1]
                  ELSE old
        c == ReplaceYourMaster(n, bumped)
    IN  /\ Fault
        /\ old.slaveof[n] # None
        /\ c.currentEpoch <= MaxEpoch
        /\ Adopt(n, c)
        /\ net' = net \cup Broadcast(n, c, "PING", FALSE)
        /\ UNCHANGED <<auth, won, forgotten>>

\* n dies and starts again from nodes.conf: clusterLoadConfig.
Reload(n) ==
    /\ LET epochs == {saved[n]} \cup {conf[n].configEpoch[m] : m \in Node}
       IN  \E max \in epochs :
             /\ \A e \in epochs : e <= max
             /\ conf' = [conf EXCEPT ![n].currentEpoch = max]
    /\ auth' = [auth EXCEPT ![n] = [sent |-> FALSE, epoch |-> 0, count |-> 0,
                                    stale |-> FALSE]]

Restart(n) ==
    /\ Fault
    /\ Reload(n)
    /\ net' = {p \in net : p.to # n}
    /\ <<conf, auth, net>>' # <<conf, auth, net>>
    /\ UNCHANGED <<saved, won, forgotten>>

\* The write handler of a busy link sends the vote in the same iteration of the
\* event loop; n dies before clusterBeforeSleep saves lastVoteEpoch.
VoteThenDie(p) ==
    LET n == p.to
        c == SeeEpochs(conf[n], p)
        v == [c EXCEPT !.lastVoteEpoch = c.currentEpoch]
    IN  /\ p.type = "AUTH_REQUEST"
        /\ MayVote(n, c, p)
        /\ Fault
        /\ Reload(n)
        /\ net' = {q \in net : q.to # n} \cup
                    {BuildMessageHdr(n, v, "AUTH_ACK", p.sender, FALSE, None)}
        /\ forgotten' = forgotten \cup {<<n, c.currentEpoch>>}
        /\ UNCHANGED <<saved, won>>

Receive(p) == \/ ReceivePing(p)
              \/ ReceiveFail(p)
              \/ ReceiveUpdate(p)
              \/ DenyVote(p)
              \/ Vote(p)
              \/ ReceiveAuthAck(p)

Next == \/ \E n, m \in Node : SendPing(n, m) \/ SendFail(n, m)
        \/ \E p \in net : Receive(p) \/ VoteThenDie(p)
        \/ \E n \in Node : \/ ScheduleElection(n)
                           \/ \E force \in BOOLEAN : RequestFailoverAuth(n, force)
                           \/ WinElection(n)
                           \/ Takeover(n)
                           \/ Restart(n)

Spec == Init /\ [][Next]_vars

-----------------------------------------------------------------------------
(* Properties *)

\* Two replicas win the same epoch only if one of them counted the vote of an
\* earlier election (ReceiveAuthAck between scheduling and asking), or a master
\* voted in that epoch, died before saving it and could vote again.
OneWinnerPerEpoch ==
    \A v, w \in won :
        v.epoch = w.epoch /\ v.node # w.node =>
            v.stale \/ w.stale \/ \E n \in Node : <<n, v.epoch>> \in forgotten

\* In every view the owner of a slot is a master: a redirection never names a
\* node the same view holds for a slave.
OwnerIsMaster ==
    \A n \in Node, s \in Slot :
        conf[n].slots[s] # None => conf[n].slaveof[conf[n].slots[s]] = None

\* The assertion of clusterSetMaster, seen from outside: a node that is a slave
\* owns no slot, and never replicates itself.
SlaveServesNothing ==
    \A n \in Node :
        conf[n].slaveof[n] # None => /\ SlotsOf(conf[n], n) = {}
                                     /\ conf[n].slaveof[n] # n

\* A node that votes for an epoch after a crash still knows its saved vote:
\* currentEpoch never falls below lastVoteEpoch, also when it was not saved.
VoteNotAhead ==
    \A n \in Node : conf[n].lastVoteEpoch <= conf[n].currentEpoch

\* A node's view holds together: slots belong to masters, a slave serves nothing, and no
\* vote is ahead of the epoch it was given in (clusterSetMaster, clusterUpdateSlotsConfigWith).
ViewsSound == OwnerIsMaster /\ SlaveServesNothing /\ VoteNotAhead

\* No PING between any two nodes would change, or make anyone send, anything.
Quiet ==
    /\ net = {}
    /\ \A n \in Node : \A m \in Node \ {n} :
         LET p == BuildMessageHdr(n, conf[n], "PING", m, FALSE, None)
         IN  /\ HandleConfigEpochCollision(m, SeePing(m, p), p) = conf[m]
             /\ UpdateFor(m, p) = {}

\* Gossip has nothing left to say only when every node names the same owner for
\* every slot, and no two masters have the same configEpoch: a disagreement left
\* by a failover, a takeover or a restart is always one that some PING or UPDATE
\* still repairs ("eventually all the nodes end with a different configuration
\* epoch").
QuietMeansAgreed ==
    Quiet => /\ \A s \in Slot, n, m \in Node :
                  conf[n].slots[s] = conf[m].slots[s] /\ conf[n].slots[s] # None
             /\ \A n, m \in Node :
                  n # m /\ conf[n].slaveof[n] = None /\ conf[m].slaveof[m] = None =>
                    conf[n].configEpoch[n] # conf[m].configEpoch[m]
=============================================================================
