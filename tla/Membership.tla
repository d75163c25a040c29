------------------------------ MODULE Membership -----------------------------
(***************************************************************************)
(* The table of nodes of a cluster node (redis-6.2.7/src/cluster.c): MEET and   *)
(* the handshake, nodes learnt from gossip, FORGET and its black list, RESET,   *)
(* REPLICATE, and the pointers between entries of the table (master, replicas,  *)
(* owner of a slot, failure reports), all of which clusterDelNode has to undo.  *)
(* A packet and its answer are one step; one slot is modelled.                  *)
(***************************************************************************)
EXTENDS Integers, FiniteSets

CONSTANTS
    CNode,                  \* servers, standing for their addresses
    MaxMOps, MaxGen         \* bounds: administrator's commands and faults; hard resets of a node

VARIABLES
    cn,                     \* cn[n]: the cluster state of server n
    tidy,                   \* no FORGET, RESET or handshake timeout so far
    nmo

mvars == <<cn, tidy, nmo>>

NodeName == CNode \X (0..MaxGen)    \* the name of a node, which a hard reset changes
NoName == <<"none", 0>>
MyId(n) == <<n, cn[n].gen>>
\* One entry per node known: nodes; handshake: addresses being met, and is MEET still to be sent?
Fresh(n, g) ==
    [gen |-> g, nodes |-> {<<n, g>>}, noaddr |-> {}, handshake |-> {}, black |-> {}, slave |-> {},
     slaveof |-> [i \in NodeName |-> NoName], slaves |-> [i \in NodeName |-> {}], owner |-> NoName, mig |-> NoName,
     report |-> {}, pfail |-> {}]
Master(s, i) == i \in s.nodes /\ i \notin s.slave

\* Some servers know each other, one of them has the slot; the others are to be added.
MInitOf(first, group) ==
    /\ cn = [n \in CNode |-> IF n \in group
                            THEN [Fresh(n, 0) EXCEPT !.nodes = {<<m, 0>> : m \in group}, !.owner = <<first, 0>>]
                            ELSE Fresh(n, 0)]
    /\ tidy = TRUE /\ nmo = 0
MInit == \E group \in SUBSET CNode : \E first \in group : MInitOf(first, group)

-----------------------------------------------------------------------------
(* Operations on the table of one node *)
\* clusterSetNodeAsMaster, clusterNodeRemoveSlave
RemoveSlave(s, i) ==
    IF s.slaveof[i] = NoName THEN s
    ELSE [s EXCEPT !.slaves[s.slaveof[i]] = @ \ {i}, !.slaveof[i] = NoName]
SetAsMaster(s, i) == IF Master(s, i) THEN s ELSE [RemoveSlave(s, i) EXCEPT !.slave = @ \ {i}]
\* clusterNodeAddSlave
AddSlave(s, m, i) == [s EXCEPT !.slaves[m] = @ \cup {i}, !.slaveof[i] = m]

DelNode(s, i) ==
    LET t == RemoveSlave(s, i) IN
    [t EXCEPT !.nodes = @ \ {i}, !.noaddr = @ \ {i}, !.slave = @ \ {i}, !.pfail = @ \ {i},
              !.owner = IF @ = i THEN NoName ELSE @, !.mig = IF @ = i THEN NoName ELSE @,
              !.report = {r \in @ : r[1] # i /\ r[2] # i},
              !.slaveof = [j \in NodeName |-> IF @[j] = i THEN NoName ELSE @[j]], !.slaves[i] = {}]

\* The header of a packet of a known node i, whose state is f: role, then slots.
ReadRole(s, i, f) ==
    IF f.slaveof[i] = NoName /\ i \notin f.slave THEN SetAsMaster(s, i)
    ELSE LET t == IF Master(s, i) THEN [s EXCEPT !.slave = @ \cup {i}, !.owner = IF @ = i THEN NoName ELSE @] ELSE s
             m == f.slaveof[i]
         IN  IF m \in t.nodes /\ t.slaveof[i] # m THEN AddSlave(RemoveSlave(t, i), m, i) ELSE t
ReadSlots(s, i, f) == IF f.owner = i /\ Master(s, i) /\ s.owner = NoName THEN [s EXCEPT !.owner = i] ELSE s

\* clusterProcessGossipSection: reports about known nodes; unknown ones are added,
\* unless they were forgotten a short time ago.
MReports(s, me, i, f) ==
    IF i \in s.slave THEN s.report
    ELSE LET about == (f.nodes \cap s.nodes) \ {me, i} IN
         {r \in s.report : r[2] # i \/ r[1] \notin about} \cup {<<g, i>> : g \in about \cap f.pfail}
Learnt(s, i, f) == ((f.nodes \ s.nodes) \ f.noaddr) \ s.black
ReadGossip(s, me, i, f) ==
    LET new == Learnt(s, i, f) IN
    [s EXCEPT !.report = MReports(s, me, i, f), !.nodes = @ \cup new, !.slave = @ \cup (new \cap f.slave), !.pfail = @ \cup (new \cap f.pfail)]

\* A PING, PONG or MEET of the server with state f and name i arrives.
ReceivePong(s, me, i, f) ==
    IF i \in s.nodes /\ i # me THEN ReadGossip(ReadSlots(ReadRole(s, i, f), i, f), me, i, f) ELSE s

-----------------------------------------------------------------------------
Step(n, s) == cn' = [cn EXCEPT ![n] = s]

\* A PING to a known node and its PONG.  Another name in the PONG: the address is not
\* the node's any more.
CanPing(n, x) == x \in cn[n].nodes \ {MyId(n)} /\ x \notin cn[n].noaddr
AfterPing(n, x) ==
    LET a == x[1]
        atA == ReceivePong(cn[a], MyId(a), MyId(n), cn[n])
        pong == [cn[n] EXCEPT !.pfail = @ \ {x}]
    IN  IF a = n \/ MyId(a) # x
        THEN [cn EXCEPT ![n].noaddr = @ \cup {x}]
        ELSE [cn EXCEPT ![n] = ReceivePong(pong, MyId(n), x, atA), ![a] = atA]
Ping(n, x) == CanPing(n, x) /\ cn' = AfterPing(n, x) /\ UNCHANGED <<tidy, nmo>>

\* MEET makes an unknown sender a node in handshake.
MetIgnored(a, n, meet) == ReceivePong(cn[a], MyId(a), MyId(n), cn[n])
Met(a, n, meet) ==
    IF meet /\ MyId(n) \notin cn[a].nodes THEN [cn[a] EXCEPT !.handshake = @ \cup {<<n, FALSE>>}]
    ELSE ReceivePong(cn[a], MyId(a), MyId(n), cn[n])
\* The link to a node in handshake: MEET or PING, and the PONG that names it.
Handshake(n, h) ==
    LET a == h[1]
        met == Met(a, n, h[2])
        done == [cn[n] EXCEPT !.handshake = @ \ {h}]
        named == IF MyId(a) \in done.nodes THEN done
                 ELSE [done EXCEPT !.nodes = @ \cup {MyId(a)}, !.slave = IF MyId(a) \in met.slave THEN @ \cup {MyId(a)} ELSE @]
    IN  /\ h \in cn[n].handshake
        /\ IF a = n THEN Step(n, done) ELSE cn' = [cn EXCEPT ![n] = named, ![a] = met]
        /\ UNCHANGED <<tidy, nmo>>

Op == nmo < MaxMOps /\ nmo' = nmo + 1
HandshakeTimeout(n, h) == h \in cn[n].handshake /\ Op /\ tidy' = FALSE /\ Step(n, [cn[n] EXCEPT !.handshake = @ \ {h}])
Suspect(n, x) == x \in cn[n].nodes \ {MyId(n)} /\ x \notin cn[n].pfail /\ Op /\ Step(n, [cn[n] EXCEPT !.pfail = @ \cup {x}]) /\ UNCHANGED tidy

(* Commands *)
Meet(n, a) ==
    /\ \A h \in cn[n].handshake : h[1] # a
    /\ Op /\ Step(n, [cn[n] EXCEPT !.handshake = @ \cup {<<a, TRUE>>}]) /\ UNCHANGED tidy
Forget(n, x) ==
    /\ x \in cn[n].nodes \ {MyId(n)} /\ cn[n].slaveof[MyId(n)] # x
    /\ Op /\ tidy' = FALSE /\ Step(n, DelNode([cn[n] EXCEPT !.black = @ \cup {x}], x))
\* The entry of the black list is a minute old.
BlacklistExpires(n, x) ==
    x \in cn[n].black /\ Op /\ Step(n, [cn[n] EXCEPT !.black = @ \ {x}]) /\ UNCHANGED tidy
\* CLUSTER REPLICATE, clusterSetMaster
Replicate(n, x) ==
    LET s == RemoveSlave(cn[n], MyId(n)) IN
    /\ x \in cn[n].nodes \ {MyId(n)} /\ x \notin cn[n].slave /\ cn[n].owner # MyId(n)
    /\ Op /\ Step(n, AddSlave([s EXCEPT !.slave = @ \cup {MyId(n)}, !.mig = IF Master(cn[n], MyId(n)) THEN NoName ELSE @], x, MyId(n))) /\ UNCHANGED tidy
Migrating(n, x) ==
    /\ cn[n].owner = MyId(n) /\ x \in cn[n].nodes \ {MyId(n)}
    /\ Op /\ Step(n, [cn[n] EXCEPT !.mig = x]) /\ UNCHANGED tidy
\* CLUSTER RESET: all entries go; HARD takes a new name.
Reset(n, hard) ==
    /\ hard => cn[n].gen < MaxGen
    /\ Op /\ tidy' = FALSE
    /\ Step(n, [Fresh(n, IF hard THEN cn[n].gen + 1 ELSE cn[n].gen) EXCEPT !.black = cn[n].black])

MNext ==
    \/ \E n \in CNode : (\E x \in NodeName : Ping(n, x)) \/ (\E h \in cn[n].handshake : Handshake(n, h))
    \/ \E n \in CNode :
        \/ \E x \in NodeName : Suspect(n, x) \/ Forget(n, x) \/ BlacklistExpires(n, x) \/ Replicate(n, x) \/ Migrating(n, x)
        \/ \E h \in cn[n].handshake : HandshakeTimeout(n, h)
        \/ \E a \in CNode : Meet(n, a)
        \/ \E hard \in BOOLEAN : Reset(n, hard)
MSpec == MInit /\ [][MNext]_mvars

-----------------------------------------------------------------------------
\* Every pointer of the table leads to an entry of the table, and the lists of
\* replicas are the inverse of slaveof: clusterDelNode leaves nothing behind,
\* whatever gossip, roles and commands came before it.
NoDangling ==
    \A n \in CNode : LET s == cn[n] IN
        /\ ({s.owner, s.mig} \cup {s.slaveof[i] : i \in NodeName}) \ {NoName} \subseteq s.nodes
        /\ \A r \in s.report : r[1] \in s.nodes /\ r[2] \in s.nodes
        /\ \A i \in NodeName, m \in NodeName : i \in s.slaves[m] <=> (s.slaveof[i] = m /\ i \in s.nodes)

\* A forgotten node stays out, while it is on the black list and, once all have
\* forgotten it, for ever: what is still heard of it, from the others or from the node
\* itself, does not bring it back.  Only a handshake with its address does.
Meeting(n, x) == \E h \in cn[n].handshake : h[1] = x[1]
KnownToSome(x) == \E n \in CNode : n # x[1] /\ x \in cn[n].nodes
ForgottenStaysOut ==
    \A n \in CNode, x \in NodeName :
         n # x[1] /\ x \notin cn[n].nodes /\ ~Meeting(n, x) /\ (x \in cn[n].black \/ ~KnownToSome(x))
             => x \notin cn'[n].nodes

\* One MEET joins two groups: when the pings have nothing new to tell, any two nodes
\* know the same nodes as soon as one knows the other.
Settled == \A n \in CNode : cn[n].handshake = {} /\ \A x \in NodeName : CanPing(n, x) => AfterPing(n, x) = cn
Joined ==
    \A n \in CNode, m \in CNode :
        MyId(m) \in cn[n].nodes => \A k \in CNode : MyId(k) \in cn[m].nodes <=> MyId(k) \in cn[n].nodes
SettledMeansJoined == Joined \/ ~tidy \/ ~Settled

-----------------------------------------------------------------------------
(***************************************************************************)
(* CLUSTER FAILOVER (redis-6.2.7/src/cluster.c): a replica asks its master to   *)
(* pause writes, waits until it has the master's offset, is elected although    *)
(* the master is alive, and replaces it.  Both sides give up on their own       *)
(* clocks; packets are late or lost.  Time is counted in ticks of clusterCron.   *)
(***************************************************************************)
CONSTANTS
    MfTimeout, PauseMult,                   \* CLUSTER_MF_TIMEOUT in ticks, CLUSTER_MF_PAUSE_MULT
    MaxTime, MaxMfWrites, MaxAttempts       \* bounds: ticks, writes, commands of the administrator

VARIABLES
    mfclock,
    moffset, soffset,       \* replication offsets of master and replica
    mfs,                    \* the replica: mf_end, mf_master_offset, mf_can_start
    mfm,                    \* the master: mf_end, client_pause_end_time
    bus,                    \* packets on their way: MFSTART, PAUSED offsets, the claim of the new master
    mfasked,                  \* failover_auth_sent
    role,                   \* roles of the two as they know them
    crond,                  \* whose cron ran in this tick
    attempt,                \* history: number of the attempt
    heard,                  \* history: the attempt that the master's pause belongs to
    fresh,                  \* history: does mf_master_offset belong to this attempt?
    promoted                \* history: when a replica with a fresh offset promoted

mfvars == <<mfclock, moffset, soffset, mfs, mfm, bus, mfasked, role, crond, attempt, heard, fresh, promoted>>

Idle == [end |-> -1, off |-> -1, can |-> FALSE]
Two == {"m", "s"}

MfInit ==
    /\ mfclock = 0 /\ moffset = 0 /\ soffset = 0 /\ mfs = Idle /\ mfm = [end |-> -1, pause |-> -1]
    /\ bus = {} /\ mfasked = FALSE /\ role = [x \in Two |-> IF x = "m" THEN "master" ELSE "replica"] /\ crond = {}
    /\ attempt = 0 /\ heard = 0 /\ fresh = FALSE /\ promoted = -1

\* The master accepts writes unless it is paused; a pause ends when the clock is past its end.
Paused == mfm.pause # -1 /\ mfm.pause >= mfclock
Write ==
    /\ role["m"] = "master" /\ ~Paused /\ moffset < MaxMfWrites /\ moffset' = moffset + 1
    /\ UNCHANGED <<mfclock, soffset, mfs, mfm, bus, mfasked, role, crond, attempt, heard, fresh, promoted>>
Stream ==
    /\ role["s"] = "replica" /\ soffset < moffset /\ soffset' = soffset + 1
    /\ UNCHANGED <<mfclock, moffset, mfs, mfm, bus, mfasked, role, crond, attempt, heard, fresh, promoted>>

\* CLUSTER FAILOVER and CLUSTER FAILOVER FORCE
Failover(force) ==
    /\ role["s"] = "replica" /\ attempt < MaxAttempts /\ attempt' = attempt + 1
    /\ mfs' = [end |-> mfclock + MfTimeout, off |-> -1, can |-> force] /\ fresh' = FALSE
    /\ bus' = IF force THEN bus ELSE bus \cup {[type |-> "mfstart", off |-> 0, of |-> attempt']}
    /\ UNCHANGED <<mfclock, moffset, soffset, mfm, mfasked, role, crond, heard, promoted>>

\* MFSTART: the master pauses its clients and answers with a PING
PausedPing(h) == [type |-> "paused", off |-> moffset, of |-> h]
PauseEnd == mfclock + MfTimeout * PauseMult
ReceiveMfStart ==
    \E p \in bus :
        /\ p.type = "mfstart" /\ role["m"] = "master"
        /\ mfm' = [end |-> mfclock + MfTimeout, pause |-> IF PauseEnd > mfm.pause THEN PauseEnd ELSE mfm.pause]
        /\ heard' = p.of /\ bus' = (bus \ {p}) \cup {PausedPing(p.of)}
        /\ UNCHANGED <<mfclock, moffset, soffset, mfs, mfasked, role, crond, attempt, fresh, promoted>>
\* Packets of a master with a manual failover in progress carry the flag PAUSED.
MfSendPing ==
    /\ role["m"] = "master" /\ mfm.end # -1 /\ bus' = bus \cup {PausedPing(heard)}
    /\ UNCHANGED <<mfclock, moffset, soffset, mfs, mfm, mfasked, role, crond, attempt, heard, fresh, promoted>>
ReceivePaused ==
    \E p \in bus :
        /\ p.type = "paused" /\ bus' = bus \ {p}
        /\ IF role["s"] = "replica" /\ mfs.end # -1 /\ mfs.off = -1
           THEN mfs' = [mfs EXCEPT !.off = p.off] /\ fresh' = (p.of = attempt)
           ELSE UNCHANGED <<mfs, fresh>>
        /\ UNCHANGED <<mfclock, moffset, soffset, mfm, mfasked, role, crond, attempt, heard, promoted>>
Lose ==
    /\ \E p \in bus : bus' = bus \ {p}
    /\ UNCHANGED <<mfclock, moffset, soffset, mfs, mfm, mfasked, role, crond, attempt, heard, fresh, promoted>>

\* clusterHandleManualFailover: from the cron and before sleeping
AnnouncedIsEnough(off) == off # -1
CaughtUpWith(off) == off # -1 /\ off = soffset
HandleManualFailover ==
    /\ role["s"] = "replica" /\ mfs.end # -1 /\ ~mfs.can /\ CaughtUpWith(mfs.off)
    /\ mfs' = [mfs EXCEPT !.can = TRUE]
    /\ UNCHANGED <<mfclock, moffset, soffset, mfm, bus, mfasked, role, crond, attempt, heard, fresh, promoted>>
\* clusterHandleSlaveFailover in a manual failover: ask for votes, and win with them
Manual == mfs.end # -1 /\ mfs.can
AskForVotes ==
    /\ role["s"] = "replica" /\ Manual /\ ~mfasked /\ mfasked' = TRUE
    /\ UNCHANGED <<mfclock, moffset, soffset, mfs, mfm, bus, role, crond, attempt, heard, fresh, promoted>>
Win ==
    /\ role["s"] = "replica" /\ Manual /\ mfasked
    /\ role' = [role EXCEPT !["s"] = "master"] /\ mfs' = Idle /\ promoted' = IF fresh THEN mfclock ELSE promoted
    /\ bus' = bus \cup {[type |-> "claim", off |-> 0, of |-> 0]}
    /\ UNCHANGED <<mfclock, moffset, soffset, mfm, mfasked, crond, attempt, heard, fresh>>
\* The master reads the claim of its slots and becomes a replica of the winner.
ReceiveClaim ==
    /\ \E p \in bus : p.type = "claim" /\ bus' = bus \ {p}
    /\ role' = [role EXCEPT !["m"] = "replica"] /\ mfm' = [mfm EXCEPT !.end = -1]
    /\ UNCHANGED <<mfclock, moffset, soffset, mfs, mfasked, crond, attempt, heard, fresh, promoted>>
\* A later PING repeats the claim.
Repeat ==
    /\ role["s"] = "master" /\ role["m"] = "master" /\ bus' = bus \cup {[type |-> "claim", off |-> 0, of |-> 0]}
    /\ UNCHANGED <<mfclock, moffset, soffset, mfs, mfm, mfasked, role, crond, attempt, heard, fresh, promoted>>

\* manualFailoverCheckTimeout, by the cron of each node; then the clock moves on
AfterTimeout(s) == IF s.end # -1 /\ s.end < mfclock THEN Idle ELSE s
CronS ==
    /\ "s" \notin crond /\ crond' = crond \cup {"s"} /\ mfs' = AfterTimeout(mfs)
    /\ UNCHANGED <<mfclock, moffset, soffset, mfm, bus, mfasked, role, attempt, heard, fresh, promoted>>
CronM ==
    /\ "m" \notin crond /\ crond' = crond \cup {"m"}
    /\ mfm' = IF mfm.end # -1 /\ mfm.end < mfclock THEN [mfm EXCEPT !.end = -1] ELSE mfm
    /\ UNCHANGED <<mfclock, moffset, soffset, mfs, bus, mfasked, role, attempt, heard, fresh, promoted>>
Clock ==
    /\ crond = Two /\ crond' = {} /\ mfclock < MaxTime /\ mfclock' = mfclock + 1
    /\ UNCHANGED <<moffset, soffset, mfs, mfm, bus, mfasked, role, attempt, heard, fresh, promoted>>

MfNext ==
    \/ Write \/ Stream \/ (\E force \in BOOLEAN : Failover(force)) \/ ReceiveMfStart \/ MfSendPing \/ ReceivePaused \/ Lose
    \/ HandleManualFailover \/ AskForVotes \/ Win \/ ReceiveClaim \/ Repeat \/ CronS \/ CronM \/ Clock
MfSpec == MfInit /\ [][MfNext]_mfvars

-----------------------------------------------------------------------------
\* A manual failover loses nothing: when the replica replaces its master it has every
\* write that the master acknowledged, if the offset it waited for was announced in the
\* pause that this attempt asked for.  The two timeouts run on different clocks, and the
\* replica may still win in the tick after its own.
ManualKeepsWrites == role["s"] = "replica" /\ role'["s"] = "master" /\ fresh => soffset = moffset
\* After it, the old master accepts no write for a whole timeout, the time that the claim
\* of the winner has to reach it.
OldMasterSilent == promoted # -1 /\ moffset' # moffset => mfclock >= promoted + MfTimeout
=============================================================================
