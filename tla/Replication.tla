----------------------------- MODULE Replication ----------------------------
(***************************************************************************)
(* redis-6.2.7/src/replication.c: partial resynchronization, full          *)
(* synchronization through an RDB file or a pipe, and the FAILOVER command.*)
(* Each has state of its own; MCServers instantiates them.                 *)
(***************************************************************************)
EXTENDS Integers, Sequences, FiniteSets

-----------------------------------------------------------------------------
(***************************************************************************)
(* Replication with partial resynchronization (redis-6.2.7/src/replication.c): *)
(* servers that may each be told to follow another one or none, the            *)
(* replication IDs and offsets that decide whether a replica may go on from a  *)
(* point of a backlog, the cached master, restarts that reload ID and offset   *)
(* from the RDB file, and chains of replicas.  The stream is a sequence of     *)
(* SELECTs and writes, each one byte long; data is the sequence of writes a    *)
(* server has executed, with the database each went to.                        *)
(***************************************************************************)
CONSTANTS
    RNode,              \* the servers
    RDb,                \* the databases, 0 among them
    BacklogSize,
    MaxWrites, MaxOps   \* bounds: writes of clients, and orders, faults and restarts

VARIABLES
    data,               \* the writes a server has executed
    masterof,           \* masterhost, Nobody for a master
    rid, off,           \* replid and master_repl_offset
    rid2, off2,         \* replid2 and second_replid_offset
    backlog,            \* the bytes it holds, NoBacklog if it is not allocated
    seldb,              \* slaveseldb, -1 to force a SELECT
    cached,             \* cached_master: replid, reploff and selected database
    mdb,                \* the database selected by the connected master
    state,              \* repl_state: none, connect, wait (for the reply), transfer, connected
    conn,               \* the connection of a replica to its master, as the master sees it
    nextid,             \* the next random replication ID
    nwrites, nops

rvars == <<data, masterof, rid, off, rid2, off2, backlog, seldb, cached, mdb, state, conn, nextid, nwrites, nops>>

Nobody == "nobody"     \* no server
NoBacklog == [on |-> FALSE, bytes |-> <<>>]
NewBacklog == [on |-> TRUE, bytes |-> <<>>]
NoCached == [id |-> 0, off |-> -1, db |-> 0]
NoConn == [to |-> Nobody, st |-> "none", buf |-> <<>>, snap |-> <<>>, id |-> 0, off |-> 0, db |-> 0]

\* The replicaof lines of the configuration files: each server follows no other or
\* one that itself leads to a master.
Topology ==
    {t \in [RNode -> RNode \cup {Nobody}] :
        \A n \in RNode : t[n] = Nobody \/ (t[n] # n /\ (t[t[n]] = Nobody \/ (t[t[n]] # n /\ t[t[t[n]]] = Nobody)))}

RInit ==
    /\ data = [n \in RNode |-> <<>>] /\ masterof \in Topology
    /\ \E f \in [RNode -> 1..Cardinality(RNode)] : (\A m, n \in RNode : m # n => f[m] # f[n]) /\ rid = f
    /\ off = [n \in RNode |-> 0] /\ rid2 = [n \in RNode |-> 0] /\ off2 = [n \in RNode |-> -1]
    /\ backlog = [n \in RNode |-> NoBacklog] /\ seldb = [n \in RNode |-> -1]
    /\ cached = [n \in RNode |-> NoCached] /\ mdb = [n \in RNode |-> 0]
    /\ state = [n \in RNode |-> IF masterof[n] = Nobody THEN "none" ELSE "connect"] /\ conn = [n \in RNode |-> NoConn]
    /\ nextid = Cardinality(RNode) + 1 /\ nwrites = 0 /\ nops = 0

Select(d) == [op |-> "select", db |-> d, w |-> 0]
Byte(w) == [op |-> "write", db |-> 0, w |-> w]
RSlaves(n) == {s \in RNode : conn[s].to = n}

-----------------------------------------------------------------------------
(* feedReplicationBacklog: only the last BacklogSize bytes are kept; the first *)
(* of them is at repl_backlog_off.                                            *)
Fed(bl, bytes) ==
    LET all == bl.bytes \o bytes
        from == IF Len(all) > BacklogSize THEN Len(all) - BacklogSize + 1 ELSE 1
    IN  [bl EXCEPT !.bytes = SubSeq(all, from, Len(all))]
BacklogOff(n) == off[n] - Len(backlog[n].bytes) + 1
\* canFeedReplicaReplBuffer
CanFeed(s) == conn[s].st # "waitstart"
FeedConns(n, bytes) ==
    [s \in RNode |-> IF s \in RSlaves(n) /\ CanFeed(s) THEN [conn[s] EXCEPT !.buf = @ \o bytes] ELSE conn[s]]

\* A client's write on a master: replicationFeedSlaves, with a SELECT if needed
Write(n) ==
    \E d \in RDb :
        LET feeds == backlog[n].on
            bytes == (IF seldb[n] # d THEN <<Select(d)>> ELSE <<>>) \o <<Byte(nwrites + 1)>>
        IN  /\ masterof[n] = Nobody /\ nwrites < MaxWrites /\ nwrites' = nwrites + 1
            /\ data' = [data EXCEPT ![n] = Append(@, <<d, nwrites + 1>>)]
            /\ IF feeds
               THEN /\ backlog' = [backlog EXCEPT ![n] = Fed(@, bytes)]
                    /\ off' = [off EXCEPT ![n] = @ + Len(bytes)]
                    /\ seldb' = [seldb EXCEPT ![n] = d] /\ conn' = FeedConns(n, bytes)
               ELSE UNCHANGED <<backlog, off, seldb, conn>>
            /\ UNCHANGED <<masterof, rid, rid2, off2, cached, mdb, state, nextid, nops>>

\* The replica executes the next byte of its master and passes it on.
Stream(n) ==
    LET b == Head(conn[n].buf)
        fed == FeedConns(n, <<b>>)
    IN  /\ state[n] = "connected" /\ conn[n].buf # <<>>
        /\ mdb' = [mdb EXCEPT ![n] = IF b.op = "select" THEN b.db ELSE @]
        /\ data' = IF b.op = "write" THEN [data EXCEPT ![n] = Append(@, <<mdb[n], b.w>>)] ELSE data
        /\ off' = [off EXCEPT ![n] = IF backlog[n].on THEN @ + 1 ELSE @]
        /\ backlog' = [backlog EXCEPT ![n] = IF @.on THEN Fed(@, <<b>>) ELSE @]
        /\ conn' = [fed EXCEPT ![n].buf = Tail(@)]
        /\ UNCHANGED <<masterof, rid, rid2, off2, seldb, cached, state, nextid, nwrites, nops>>

-----------------------------------------------------------------------------
(* Closed connections.  A replica that loses a connected master caches it;     *)
(* one in the middle of a handshake or a transfer only starts again.           *)
CacheOf(n) == IF state[n] = "connected" THEN [id |-> rid[n], off |-> off[n], db |-> mdb[n]] ELSE cached[n]
CloseAll(ns) ==
    /\ conn' = [s \in RNode |-> IF s \in ns THEN NoConn ELSE conn[s]]
    /\ cached' = [s \in RNode |-> IF s \in ns THEN CacheOf(s) ELSE cached[s]]
    /\ state' = [s \in RNode |-> IF s \in ns THEN "connect" ELSE state[s]]

LoseConnection(n) ==
    /\ conn[n].to # Nobody /\ nops < MaxOps /\ nops' = nops + 1
    /\ CloseAll({n})
    /\ UNCHANGED <<data, masterof, rid, off, rid2, off2, backlog, seldb, mdb, nextid, nwrites>>

\* replicationSetMaster: its own replicas are disconnected, and a master makes a
\* cached master of itself.
ReplicaOf(n, m) ==
    /\ m # n /\ masterof[n] # m /\ nops < MaxOps /\ nops' = nops + 1
    /\ masterof' = [masterof EXCEPT ![n] = m]
    /\ conn' = [s \in RNode |-> IF s = n \/ s \in RSlaves(n) THEN NoConn ELSE conn[s]]
    /\ state' = [s \in RNode |-> IF s = n \/ s \in RSlaves(n) THEN "connect" ELSE state[s]]
    /\ cached' = [s \in RNode |->
            IF s = n THEN (IF masterof[n] = Nobody THEN [id |-> rid[n], off |-> off[n], db |-> 0] ELSE CacheOf(n))
            ELSE IF s \in RSlaves(n) THEN CacheOf(s) ELSE cached[s]]
    /\ UNCHANGED <<data, rid, off, rid2, off2, backlog, seldb, mdb, nextid, nwrites>>

\* replicationUnsetMaster: the history goes on under a new ID; the old one stays
\* valid up to here (shiftReplicationId).
NoOne(n) ==
    /\ masterof[n] # Nobody /\ nops < MaxOps /\ nops' = nops + 1
    /\ masterof' = [masterof EXCEPT ![n] = Nobody]
    /\ rid2' = [rid2 EXCEPT ![n] = rid[n]] /\ off2' = [off2 EXCEPT ![n] = off[n] + 1]
    /\ rid' = [rid EXCEPT ![n] = nextid] /\ nextid' = nextid + 1
    /\ seldb' = [seldb EXCEPT ![n] = -1]
    /\ conn' = [s \in RNode |-> IF s = n \/ s \in RSlaves(n) THEN NoConn ELSE conn[s]]
    /\ state' = [s \in RNode |-> IF s = n THEN "none" ELSE IF s \in RSlaves(n) THEN "connect" ELSE state[s]]
    /\ cached' = [s \in RNode |-> IF s = n THEN NoCached ELSE IF s \in RSlaves(n) THEN CacheOf(s) ELSE cached[s]]
    /\ UNCHANGED <<data, off, backlog, mdb, nwrites>>

\* replicationCron: a master without replicas for long frees its backlog
FreeBacklog(n) ==
    /\ masterof[n] = Nobody /\ backlog[n].on /\ RSlaves(n) = {} /\ nops < MaxOps /\ nops' = nops + 1
    /\ rid' = [rid EXCEPT ![n] = nextid] /\ nextid' = nextid + 1
    /\ rid2' = [rid2 EXCEPT ![n] = 0] /\ off2' = [off2 EXCEPT ![n] = -1]
    /\ backlog' = [backlog EXCEPT ![n] = NoBacklog]
    /\ UNCHANGED <<data, masterof, off, seldb, cached, mdb, state, conn, nwrites>>

\* SHUTDOWN and start: rdbPopulateSaveInfo and loadDataFromDisk
SaveInfo(n) ==
    IF masterof[n] = Nobody THEN (IF backlog[n].on THEN {[id |-> rid[n], off |-> off[n], db |-> IF seldb[n] = -1 THEN 0 ELSE seldb[n]]} ELSE {})
    ELSE IF state[n] = "connected" THEN {[id |-> rid[n], off |-> off[n], db |-> mdb[n]]}
    ELSE IF cached[n] # NoCached THEN {[id |-> rid[n], off |-> off[n], db |-> cached[n].db]}
    ELSE {}
RestartWith(n, info) ==
    /\ nops < MaxOps /\ nops' = nops + 1
    /\ rid' = [rid EXCEPT ![n] = IF info = {} THEN nextid ELSE (CHOOSE i \in info : TRUE).id]
    /\ off' = [off EXCEPT ![n] = IF info = {} THEN 0 ELSE (CHOOSE i \in info : TRUE).off]
    /\ cached' = [s \in RNode |-> IF s = n THEN (IF info = {} THEN NoCached ELSE CHOOSE i \in info : TRUE)
                                 ELSE IF s \in RSlaves(n) THEN CacheOf(s) ELSE cached[s]]
    /\ nextid' = nextid + 1
    /\ rid2' = [rid2 EXCEPT ![n] = 0] /\ off2' = [off2 EXCEPT ![n] = -1]
    /\ backlog' = [backlog EXCEPT ![n] = NoBacklog] /\ seldb' = [seldb EXCEPT ![n] = -1]
    /\ conn' = [s \in RNode |-> IF s = n \/ s \in RSlaves(n) THEN NoConn ELSE conn[s]]
    /\ state' = [s \in RNode |-> IF s = n THEN (IF masterof[n] = Nobody THEN "none" ELSE "connect")
                                ELSE IF s \in RSlaves(n) THEN "connect" ELSE state[s]]
    /\ UNCHANGED <<data, masterof, mdb, nwrites>>
RRestart(n) == RestartWith(n, IF masterof[n] = Nobody THEN {} ELSE SaveInfo(n))

-----------------------------------------------------------------------------
(* masterTryPartialResynchronization *)
AnyOffsetOfSecondId(m, id, o) == id = rid[m] \/ id = rid2[m]
KnowsHistory(m, id, o) == id = rid[m] \/ (id = rid2[m] /\ o <= off2[m])
MayContinue(m, id, o) ==
    /\ id # 0 /\ KnowsHistory(m, id, o)
    /\ backlog[m].on /\ o >= BacklogOff(m) /\ o <= BacklogOff(m) + Len(backlog[m].bytes)

\* The replica connects and sends PSYNC; syncCommand.  A server that has lost its
\* own master answers -NOMASTERLINK.  The first replica creates the backlog.
Psync(n) ==
    LET m == masterof[n]
        o == cached[n].off + 1
        part == MayContinue(m, cached[n].id, o)
        skip == o - BacklogOff(m)
        first == ~backlog[m].on
    IN  /\ m # Nobody /\ state[n] = "connect"
        /\ masterof[m] # Nobody => state[m] = "connected"
        /\ state' = [state EXCEPT ![n] = "wait"]
        /\ conn' = [conn EXCEPT ![n] =
                IF part THEN [NoConn EXCEPT !.to = m, !.st = "continue", !.id = rid[m],
                                            !.buf = SubSeq(backlog[m].bytes, skip + 1, Len(backlog[m].bytes))]
                ELSE [NoConn EXCEPT !.to = m, !.st = "waitstart"]]
        /\ IF ~part /\ first
           THEN /\ rid' = [rid EXCEPT ![m] = nextid] /\ nextid' = nextid + 1
                /\ rid2' = [rid2 EXCEPT ![m] = 0] /\ off2' = [off2 EXCEPT ![m] = -1]
                /\ backlog' = [backlog EXCEPT ![m] = NewBacklog]
           ELSE UNCHANGED <<rid, nextid, rid2, off2, backlog>>
        /\ UNCHANGED <<data, masterof, off, seldb, cached, mdb, nwrites, nops>>

\* startBgsaveForReplication: a snapshot for every replica that waits for one,
\* announced with +FULLRESYNC; the stream starts again with a SELECT.
StartBgsave(m) ==
    LET ns == {s \in RSlaves(m) : conn[s].st = "waitstart"}
        db == IF masterof[m] = Nobody THEN (IF seldb[m] = -1 THEN 0 ELSE seldb[m]) ELSE mdb[m]
    IN  /\ ns # {} /\ (masterof[m] # Nobody => state[m] = "connected" \/ cached[m] # NoCached)
        /\ conn' = [s \in RNode |-> IF s \in ns THEN [conn[s] EXCEPT !.st = "rdb", !.snap = data[m], !.id = rid[m], !.off = off[m], !.db = db]
                                    ELSE conn[s]]
        /\ seldb' = [seldb EXCEPT ![m] = -1]
        /\ UNCHANGED <<data, masterof, rid, off, rid2, off2, backlog, cached, mdb, state, nextid, nwrites, nops>>

\* The replies to PSYNC: slaveTryPartialResynchronization
ReceiveContinue(n) ==
    LET same == conn[n].id = cached[n].id
        gone == IF same THEN {} ELSE RSlaves(n)
    IN  /\ state[n] = "wait" /\ conn[n].st = "continue"
        /\ IF same THEN UNCHANGED <<rid, rid2, off2>>
           ELSE /\ rid2' = [rid2 EXCEPT ![n] = cached[n].id] /\ off2' = [off2 EXCEPT ![n] = off[n] + 1]
                /\ rid' = [rid EXCEPT ![n] = conn[n].id]
        /\ mdb' = [mdb EXCEPT ![n] = cached[n].db]
        /\ backlog' = [backlog EXCEPT ![n] = IF @.on THEN @ ELSE NewBacklog]
        /\ conn' = [s \in RNode |-> IF s \in gone THEN NoConn ELSE IF s = n THEN [conn[s] EXCEPT !.st = "online"] ELSE conn[s]]
        /\ state' = [s \in RNode |-> IF s = n THEN "connected" ELSE IF s \in gone THEN "connect" ELSE state[s]]
        /\ cached' = [s \in RNode |-> IF s = n THEN NoCached ELSE IF s \in gone THEN CacheOf(s) ELSE cached[s]]
        /\ UNCHANGED <<data, masterof, off, seldb, nextid, nwrites, nops>>

ReceiveFullResync(n) ==
    /\ state[n] = "wait" /\ conn[n].st = "rdb"
    /\ backlog' = [backlog EXCEPT ![n] = NoBacklog]
    /\ conn' = [s \in RNode |-> IF s \in RSlaves(n) THEN NoConn ELSE conn[s]]
    /\ state' = [s \in RNode |-> IF s = n THEN "transfer" ELSE IF s \in RSlaves(n) THEN "connect" ELSE state[s]]
    /\ cached' = [s \in RNode |-> IF s = n THEN NoCached ELSE IF s \in RSlaves(n) THEN CacheOf(s) ELSE cached[s]]
    /\ UNCHANGED <<data, masterof, rid, off, rid2, off2, seldb, mdb, nextid, nwrites, nops>>

\* readSyncBulkPayload, to its end
LoadRdb(n) ==
    /\ state[n] = "transfer"
    /\ data' = [data EXCEPT ![n] = conn[n].snap] /\ rid' = [rid EXCEPT ![n] = conn[n].id] /\ off' = [off EXCEPT ![n] = conn[n].off]
    /\ rid2' = [rid2 EXCEPT ![n] = 0] /\ off2' = [off2 EXCEPT ![n] = -1]
    /\ mdb' = [mdb EXCEPT ![n] = conn[n].db]
    /\ backlog' = [backlog EXCEPT ![n] = IF @.on THEN @ ELSE NewBacklog]
    /\ state' = [state EXCEPT ![n] = "connected"]
    /\ conn' = [conn EXCEPT ![n].st = "online", ![n].snap = <<>>, ![n].id = 0, ![n].off = 0, ![n].db = 0]
    /\ UNCHANGED <<masterof, seldb, cached, nextid, nwrites, nops>>
LoadFails(n) ==
    /\ state[n] = "transfer" /\ nops < MaxOps /\ nops' = nops + 1
    /\ data' = [data EXCEPT ![n] = <<>>]
    /\ state' = [state EXCEPT ![n] = "connect"] /\ conn' = [conn EXCEPT ![n] = NoConn]
    /\ UNCHANGED <<masterof, rid, off, rid2, off2, backlog, seldb, cached, mdb, nextid, nwrites>>

RNext ==
    \E n \in RNode :
        \/ Write(n) \/ Stream(n) \/ LoseConnection(n) \/ NoOne(n) \/ FreeBacklog(n) \/ RRestart(n)
        \/ \E m \in RNode : ReplicaOf(n, m)
        \/ Psync(n) \/ StartBgsave(n) \/ ReceiveContinue(n) \/ ReceiveFullResync(n) \/ LoadRdb(n) \/ LoadFails(n)
\* What the event loop and replicationCron do by themselves.
RAuto(n) ==
    Stream(n) \/ Psync(n) \/ StartBgsave(n) \/ ReceiveContinue(n) \/ ReceiveFullResync(n) \/ LoadRdb(n)
RSpec == RInit /\ [][RNext]_rvars /\ \A n \in RNode : WF_rvars(RAuto(n))

-----------------------------------------------------------------------------
\* A connected replica that has executed all its master sent has executed the
\* same writes in the same databases, and has the master's ID and offset, whatever
\* promotions, restarts and partial resynchronizations led to the connection.
InSync(n) ==
    LET m == masterof[n] IN
    data[n] = data[m] /\ off[n] = off[m] /\ rid[n] = rid[m]
ConnectedMeansSame == \A n \in RNode : state[n] = "connected" /\ conn[n].buf = <<>> => InSync(n)

\* Once servers are left alone, every replica that leads to a master, through other
\* replicas or directly, ends up connected with all the stream executed: a refused,
\* interrupted or failed synchronization is tried again.
LeadsToMaster(n) ==
    LET m == masterof[n] IN m # Nobody /\ (masterof[m] = Nobody \/ masterof[masterof[m]] = Nobody)
EventuallySynced == \A n \in RNode : <>[](LeadsToMaster(n) => state[n] = "connected" /\ conn[n].buf = <<>>)

\* The assertion of replicationFeedSlaves: a server with replicas has a backlog.
SlavesNeedBacklog == \A n \in RNode : (\E s \in RSlaves(n) : conn[s].st # "none") => backlog[n].on

-----------------------------------------------------------------------------
(***************************************************************************)
(* Full synchronization of replicas through an RDB file                       *)
(* (redis-6.2.7/src/replication.c, rdb.c): one master, its single child       *)
(* process and dump file, replicas that ask at any time, attach to a running  *)
(* BGSAVE or wait for the next, receive the file and then the writes buffered *)
(* since the fork.  Data is the sequence of writes since the last FLUSHALL.   *)
(***************************************************************************)
CONSTANTS
    Replica,
    MaxFWrites, MaxFSyncs, MaxFFaults     \* bounds: writes, SYNC requests, failures and drops

VARIABLES
    fdata,          \* the master's data
    slave,          \* the replica's client on the master, and what the replica holds
    child,          \* the child process: kind, its snapshot, running, ok or fail
    dump,           \* the dump file: none, or its content and who wrote it
    generated,      \* RDBGeneratedByReplication
    fconf,          \* saveparamslen > 0 or AOF on (save), repl-diskless-sync (diskless)
    nfw, nfs, nff

fvars == <<fdata, slave, child, dump, generated, fconf, nfw, nfs, nff>>

Flush == 0
NoChild == [kind |-> "none", snap |-> <<>>, end |-> "running"]
NoDump == [on |-> FALSE, snap |-> <<>>, byrepl |-> FALSE]
OffSlave == [st |-> "off", eof |-> FALSE, rdbonly |-> FALSE, onack |-> FALSE, buf |-> <<>>, file |-> <<>>, got |-> <<>>]

FInit ==
    /\ fdata = <<>> /\ slave = [r \in Replica |-> OffSlave]
    /\ child = NoChild /\ dump = NoDump /\ generated = FALSE
    /\ fconf \in [save : BOOLEAN, diskless : BOOLEAN]
    /\ nfw = 0 /\ nfs = 0 /\ nff = 0

InState(sl, states) == {r \in Replica : sl[r].st \in states}

-----------------------------------------------------------------------------
(* canFeedReplicaReplBuffer *)
CanFeedReplica(s) == ~s.rdbonly /\ s.st \notin {"off", "start"}
Feed(w) == [r \in Replica |-> IF CanFeedReplica(slave[r]) THEN [slave[r] EXCEPT !.buf = Append(@, w)] ELSE slave[r]]

FWrite ==
    /\ nfw < MaxFWrites /\ nfw' = nfw + 1
    /\ fdata' = Append(fdata, nfw + 1) /\ slave' = Feed(nfw + 1)
    /\ UNCHANGED <<child, dump, generated, fconf, nfs, nff>>

\* killRDBChild does nothing to a child that has already exited
Killed(c) == IF c.end = "running" THEN [c EXCEPT !.end = "fail"] ELSE c

\* FLUSHALL: flushAllDataAndResetRDB kills the child and saves the empty dataset
FlushAll ==
    /\ nff < MaxFFaults /\ nff' = nff + 1
    /\ fdata' = <<>> /\ slave' = Feed(Flush)
    /\ child' = IF child.kind \in {"disk", "socket"} THEN Killed(child) ELSE child
    /\ dump' = IF fconf.save THEN [on |-> TRUE, snap |-> <<>>, byrepl |-> FALSE] ELSE dump
    /\ UNCHANGED <<generated, fconf, nfw, nfs>>

-----------------------------------------------------------------------------
(* startBgsaveForReplication, called with the flags all of the waiting         *)
(* replicas have: every replica that waits shares the child.                  *)
Started(sl) == [r \in Replica |-> IF sl[r].st = "start" THEN [sl[r] EXCEPT !.st = "end", !.buf = <<>>] ELSE sl[r]]
StartBgsaveForReplication(sl, mineof) ==
    LET socket == fconf.diskless /\ mineof IN
    /\ child' = [kind |-> IF socket THEN "socket" ELSE "disk", snap |-> fdata, end |-> "running"]
    /\ slave' = Started(sl)
    /\ generated' = (generated \/ ~socket)
\* fork fails: the waiting replicas are refused
ForkFails(sl) ==
    /\ nff < MaxFFaults /\ nff' = nff + 1
    /\ slave' = [r \in Replica |-> IF sl[r].st = "start" THEN OffSlave ELSE sl[r]]
    /\ UNCHANGED <<child, generated>>

Attachable(r, rdbonly) ==
    {s \in Replica \ {r} : slave[s].st = "end" /\ (~slave[s].rdbonly \/ rdbonly)}
Sync(r) ==
    \E eof, rdbonly \in BOOLEAN :
        LET new == [OffSlave EXCEPT !.st = "start", !.eof = eof, !.rdbonly = rdbonly]
            with == [slave EXCEPT ![r] = new]
            others == {s \in Attachable(r, rdbonly) : slave[s].eof => eof}
        IN  /\ slave[r].st = "off" /\ nfs < MaxFSyncs /\ nfs' = nfs + 1
            /\ \/ /\ child.kind = "disk" /\ others # {}
                  /\ \E s \in others :
                        slave' = [slave EXCEPT ![r] = [new EXCEPT !.st = "end", !.buf = IF rdbonly THEN <<>> ELSE slave[s].buf]]
                  /\ UNCHANGED <<child, generated, nff>>
               \/ /\ child.kind = "disk" => others = {}
                  /\ child.kind # "none" \/ (fconf.diskless /\ eof)
                  /\ slave' = with /\ UNCHANGED <<child, generated, nff>>
               \/ /\ child.kind = "none" /\ ~(fconf.diskless /\ eof)
                  /\ \/ StartBgsaveForReplication(with, eof) /\ UNCHANGED nff
                     \/ ForkFails(with)
            /\ UNCHANGED <<fdata, dump, fconf, nfw>>

\* BGSAVE or BGREWRITEAOF of a client or of serverCron
OtherChild(kind) ==
    /\ child.kind = "none" /\ nff < MaxFFaults /\ nff' = nff + 1
    /\ child' = [kind |-> kind, snap |-> fdata, end |-> "running"]
    /\ UNCHANGED <<fdata, slave, dump, generated, fconf, nfw, nfs>>

\* The child: rdbSave renames the file before it exits
ChildEnds ==
    /\ child.kind # "none" /\ child.end = "running"
    /\ child' = [child EXCEPT !.end = "ok"]
    /\ dump' = IF child.kind \in {"disk", "bgsave"}
               THEN [on |-> TRUE, snap |-> child.snap, byrepl |-> child.kind = "disk"] ELSE dump
    /\ UNCHANGED <<fdata, slave, generated, fconf, nfw, nfs, nff>>
ChildFails ==
    /\ child.kind # "none" /\ child.end = "running" /\ nff < MaxFFaults /\ nff' = nff + 1
    /\ child' = [child EXCEPT !.end = "fail"]
    /\ UNCHANGED <<fdata, slave, dump, generated, fconf, nfw, nfs>>

\* updateSlavesWaitingBgsave
UpdateSlavesIfOk(sl) ==
    [r \in Replica |->
        IF sl[r].st # "end" \/ child.end = "fail" THEN sl[r]
        ELSE IF child.kind = "socket" THEN [sl[r] EXCEPT !.st = "online", !.onack = TRUE, !.file = child.snap]
        ELSE [sl[r] EXCEPT !.st = "bulk", !.file = dump.snap]]
UpdateSlaves(sl) ==
    [r \in Replica |->
        IF sl[r].st # "end" THEN sl[r]
        ELSE IF child.end = "fail" \/ (child.kind # "socket" /\ ~dump.on) THEN OffSlave
        ELSE IF child.kind = "socket" THEN [sl[r] EXCEPT !.st = "online", !.onack = TRUE, !.file = child.snap]
        ELSE [sl[r] EXCEPT !.st = "bulk", !.file = dump.snap]]

\* replicationStartPendingFork; the diskless delay may or may not be over
StartPending(sl, now) ==
    LET waiting == InState(sl, {"start"}) IN
    IF waiting = {} \/ (fconf.diskless /\ ~now)
    THEN slave' = sl /\ child' = NoChild /\ UNCHANGED <<generated, nff>>
    ELSE \/ StartBgsaveForReplication(sl, \A r \in waiting : sl[r].eof) /\ UNCHANGED nff
         \/ ForkFails(sl) /\ child' = NoChild
\* checkChildrenDone
Reap ==
    /\ child.kind # "none" /\ child.end # "running"
    /\ \E now \in BOOLEAN : StartPending(IF child.kind \in {"disk", "socket", "bgsave"} THEN UpdateSlaves(slave) ELSE slave, now)
    /\ UNCHANGED <<fdata, dump, fconf, nfw, nfs>>
\* replicationCron once the delay is over
CronStarts ==
    /\ child.kind = "none" /\ InState(slave, {"start"}) # {}
    /\ StartBgsaveForReplication(slave, \A r \in InState(slave, {"start"}) : slave[r].eof)
    /\ UNCHANGED <<fdata, dump, fconf, nfw, nfs, nff>>
CronForkFails ==
    /\ child.kind = "none" /\ InState(slave, {"start"}) # {} /\ ForkFails(slave)
    /\ UNCHANGED <<fdata, dump, fconf, nfw, nfs>>

RemoveRDB ==
    /\ ~fconf.save /\ generated /\ dump.on /\ InState(slave, {"start", "end", "bulk"}) = {}
    /\ dump' = NoDump /\ generated' = FALSE
    /\ UNCHANGED <<fdata, slave, child, fconf, nfw, nfs, nff>>

\* sendBulkToSlave up to the last byte, then putSlaveOnline
SendBulk(r) ==
    /\ slave[r].st = "bulk"
    /\ slave' = [slave EXCEPT ![r] = IF @.rdbonly THEN OffSlave ELSE [@ EXCEPT !.st = "online", !.got = slave[r].file]]
    /\ UNCHANGED <<fdata, child, dump, generated, fconf, nfw, nfs, nff>>
\* After a diskless transfer the first REPLCONF ACK puts the replica online.
AckOnline(r) ==
    /\ slave[r].st = "online" /\ slave[r].onack
    /\ slave' = [slave EXCEPT ![r] = IF @.rdbonly THEN OffSlave ELSE [@ EXCEPT !.onack = FALSE, !.got = slave[r].file]]
    /\ UNCHANGED <<fdata, child, dump, generated, fconf, nfw, nfs, nff>>

\* The replica executes the next write sent to it.
FStream(r) ==
    LET w == Head(slave[r].buf) IN
    /\ slave[r].st = "online" /\ ~slave[r].onack /\ slave[r].buf # <<>>
    /\ slave' = [slave EXCEPT ![r].buf = Tail(@), ![r].got = IF w = Flush THEN <<>> ELSE Append(@, w)]
    /\ UNCHANGED <<fdata, child, dump, generated, fconf, nfw, nfs, nff>>

\* freeClient of a replica: the child of a master without saves is killed if no
\* other replica waits for it.
FreeSlave(r) ==
    /\ slave[r].st # "off" /\ nff < MaxFFaults /\ nff' = nff + 1
    /\ child' = IF ~fconf.save /\ slave[r].st = "end" /\ child.kind = "disk" /\ InState(slave, {"end"}) = {r}
                THEN Killed(child) ELSE child
    /\ slave' = [slave EXCEPT ![r] = OffSlave]
    /\ UNCHANGED <<fdata, dump, generated, fconf, nfw, nfs>>

FNext ==
    \/ FWrite \/ FlushAll \/ ChildEnds \/ ChildFails \/ Reap \/ CronStarts \/ CronForkFails \/ RemoveRDB
    \/ OtherChild("bgsave") \/ OtherChild("aof")
    \/ \E r \in Replica : Sync(r) \/ SendBulk(r) \/ AckOnline(r) \/ FStream(r) \/ FreeSlave(r)
FSpec == FInit /\ [][FNext]_fvars /\ WF_fvars(ChildEnds) /\ WF_fvars(Reap) /\ WF_fvars(CronStarts) /\ WF_fvars(RemoveRDB)
               /\ \A r \in Replica : WF_fvars(SendBulk(r)) /\ WF_fvars(AckOnline(r)) /\ WF_fvars(FStream(r))

-----------------------------------------------------------------------------
\* An online replica that has executed all that was sent to it holds the master's
\* data: the file it was given and the writes buffered for it have no gap and no
\* write twice, whichever child and however many replicas shared it.
FileThenStream ==
    \A r \in Replica : slave[r].st = "online" /\ ~slave[r].onack /\ slave[r].buf = <<>> => slave[r].got = fdata

\* A replica that waits for a BGSAVE does not wait for ever, and a master that keeps
\* no files does not keep the one it made for them.
NoEndlessWait == \A r \in Replica : slave[r].st \in {"start", "end"} ~> slave[r].st \notin {"start", "end"}
GeneratedFileRemoved == (~fconf.save /\ dump.byrepl) ~> ~dump.byrepl

-----------------------------------------------------------------------------
(***************************************************************************)
(* Diskless synchronization (redis-6.2.7/src/replication.c and rdb.c): a child *)
(* writes the RDB payload into a pipe; the parent reads one buffer at a time   *)
(* and copies it to the sockets of several replicas, which accept all, part or *)
(* none of it and may close or hang at any time.  The parent stops reading     *)
(* until the slowest replica has the buffer.                                   *)
(***************************************************************************)
CONSTANTS
    PConn,              \* the connections of the replicas
    Chunks, BufLen      \* the payload in buffers, and the bytes of a buffer

VARIABLES
    produced,           \* buffers the child has written
    pchild,             \* running, written (waits on the exit pipe), exited, killed, none (reaped)
    pread,              \* buffers the parent has read
    readevent,          \* rdbPipeReadHandler is installed
    buflen,             \* rdb_pipe_bufflen
    nwriting,           \* rdb_pipe_numconns_writing
    exitpipe,           \* rdb_child_exit_pipe is open
    sock                \* the connections

pvars == <<produced, pchild, pread, readevent, buflen, nwriting, exitpipe, sock>>

\* listed: in rdb_pipe_conns; st: replstate; handler: the write handler is set;
\* doff: repldboff; got: the bytes the replica has received; alive: the socket
PInit ==
    /\ produced = 0 /\ pchild = "running" /\ pread = 0 /\ readevent = TRUE /\ buflen = 0
    /\ nwriting = 0 /\ exitpipe = TRUE
    /\ sock = [c \in PConn |-> [listed |-> TRUE, st |-> "end", handler |-> FALSE, doff |-> 0, got |-> <<>>, alive |-> TRUE]]

Bytes(b, from, to) == [i \in 1..(to - from) |-> <<b, from + i>>]

-----------------------------------------------------------------------------
(* The child: rdbSaveToSlavesSockets *)
ChildWrites ==
    /\ pchild = "running" /\ produced < Chunks /\ produced' = produced + 1
    /\ UNCHANGED <<pchild, pread, readevent, buflen, nwriting, exitpipe, sock>>
ChildDone ==
    /\ pchild = "running" /\ produced = Chunks /\ pchild' = "written"
    /\ UNCHANGED <<produced, pread, readevent, buflen, nwriting, exitpipe, sock>>
ChildExits ==
    /\ pchild = "written" /\ ~exitpipe /\ pchild' = "exited"
    /\ UNCHANGED <<produced, pread, readevent, buflen, nwriting, exitpipe, sock>>
ChildCrashes ==
    /\ pchild \in {"running", "written"} /\ pchild' = "killed"
    /\ UNCHANGED <<produced, pread, readevent, buflen, nwriting, exitpipe, sock>>
KillRDBChild == IF pchild \in {"running", "written"} THEN "killed" ELSE pchild

-----------------------------------------------------------------------------
(* rdbPipeReadHandler: one turn of its loop *)
\* The outcomes of a connWrite: some bytes, none, or an error
Outcome == 0..BufLen
ReadBuffer ==
    \E n \in [PConn -> Outcome] :
        LET alive == {c \in PConn : sock[c].listed /\ sock[c].alive}
            slow == {c \in alive : n[c] # BufLen}
        IN  /\ readevent /\ pread < produced
            /\ \A c \in PConn \ alive : n[c] = 0
            /\ pread' = pread + 1 /\ buflen' = BufLen
            /\ sock' = [c \in PConn |->
                    IF c \in alive THEN [sock[c] EXCEPT !.doff = n[c], !.got = @ \o Bytes(pread + 1, 0, n[c]), !.handler = c \in slow]
                    ELSE IF sock[c].listed THEN [sock[c] EXCEPT !.listed = FALSE, !.st = "freed"] ELSE sock[c]]
            /\ nwriting' = nwriting + Cardinality(slow)
            /\ pchild' = IF alive = {} THEN KillRDBChild ELSE pchild
            /\ readevent' = (slow = {} /\ alive # {})
            /\ UNCHANGED <<produced, exitpipe>>
\* end of file: the child may exit
ReadEof ==
    /\ readevent /\ pread = produced /\ pchild \in {"written", "exited", "killed"}
    /\ readevent' = FALSE /\ exitpipe' = FALSE /\ buflen' = 0
    /\ UNCHANGED <<produced, pchild, pread, nwriting, sock>>

ConnRemoved(c, s) ==
    IF ~sock[c].handler THEN sock' = [sock EXCEPT ![c] = s] /\ UNCHANGED <<nwriting, readevent>>
    ELSE /\ sock' = [sock EXCEPT ![c] = [s EXCEPT !.handler = FALSE]]
         /\ nwriting' = nwriting - 1 /\ readevent' = (readevent \/ nwriting = 1)

\* rdbPipeWriteHandler
WriteHandler(c) ==
    \E k \in 1..BufLen :
        LET s == sock[c]
            to == s.doff + k
            next == [s EXCEPT !.doff = to, !.got = @ \o Bytes(pread, s.doff, to)]
        IN  /\ s.handler /\ s.alive /\ to <= buflen
            /\ IF to < buflen THEN sock' = [sock EXCEPT ![c] = next] /\ UNCHANGED <<nwriting, readevent>>
               ELSE ConnRemoved(c, next)
            /\ UNCHANGED <<produced, pchild, pread, buflen, exitpipe>>

\* The socket breaks; the parent notices when it writes, or frees the client for
\* other reasons (an error on read, the timeout after a partial write).
SocketBreaks(c) ==
    /\ sock[c].alive /\ sock[c].st # "freed" /\ sock' = [sock EXCEPT ![c].alive = FALSE]
    /\ UNCHANGED <<produced, pchild, pread, readevent, buflen, nwriting, exitpipe>>
Freed(c) ==
    IF sock[c].listed THEN ConnRemoved(c, [sock[c] EXCEPT !.st = "freed", !.listed = FALSE])
    ELSE sock' = [sock EXCEPT ![c].st = "freed"] /\ UNCHANGED <<nwriting, readevent>>
TimeoutConn(c) ==
    /\ sock[c].st # "freed" /\ (~sock[c].alive \/ sock[c].handler)
    /\ Freed(c) /\ UNCHANGED <<produced, pchild, pread, buflen, exitpipe>>
KillConn(c) == sock[c].st # "freed" /\ Freed(c) /\ UNCHANGED <<produced, pchild, pread, buflen, exitpipe>>

\* checkChildrenDone: backgroundSaveDoneHandlerSocket, updateSlavesWaitingBgsave
PReap ==
    /\ pchild \in {"exited", "killed"}
    /\ pchild' = "none" /\ exitpipe' = FALSE /\ readevent' = FALSE /\ nwriting' = 0 /\ buflen' = 0
    /\ sock' = [c \in PConn |->
            IF sock[c].st # "end" THEN sock[c]
            ELSE IF pchild = "exited" THEN [sock[c] EXCEPT !.st = "online", !.listed = FALSE]
            ELSE [sock[c] EXCEPT !.st = "freed", !.listed = FALSE, !.handler = FALSE]]
    /\ UNCHANGED <<produced, pread>>

PNext ==
    \/ ChildWrites \/ ChildDone \/ ChildExits \/ ChildCrashes \/ ReadBuffer \/ ReadEof \/ PReap
    \/ \E c \in PConn : WriteHandler(c) \/ SocketBreaks(c) \/ TimeoutConn(c) \/ KillConn(c)
\* A replica that hangs is freed after repl-timeout, so its handler runs or it goes.
PSpec == PInit /\ [][PNext]_pvars
    /\ WF_pvars(ChildWrites) /\ WF_pvars(ChildDone) /\ WF_pvars(ChildExits) /\ WF_pvars(ReadBuffer) /\ WF_pvars(ReadEof) /\ WF_pvars(PReap)
    /\ \A c \in PConn : WF_pvars(TimeoutConn(c))

-----------------------------------------------------------------------------
\* A replica is put online only with the whole payload, in order and without
\* repetition, however its share of each buffer was cut.
Payload == [i \in 1..(Chunks * BufLen) |-> <<1 + ((i - 1) \div BufLen), 1 + ((i - 1) % BufLen)>>]
OnlineHasAll == \A c \in PConn : sock[c].st = "online" => sock[c].got = Payload

\* The assertion of rdbPipeReadHandler: it only runs when no replica is still writing
\* the last buffer; the count is the number of installed write handlers.
WritersCounted ==
    pchild # "none" => /\ nwriting = Cardinality({c \in PConn : sock[c].handler})
                       /\ readevent => nwriting = 0

\* The transfer ends: the child is reaped, whatever happens to the replicas.
TransferEnds == <>(pchild = "none")

-----------------------------------------------------------------------------
(***************************************************************************)
(* The FAILOVER and WAIT commands (redis-6.2.7/src/replication.c): a master    *)
(* pauses writes, waits until a replica has acknowledged all of the stream,    *)
(* becomes its replica and asks it to take over with PSYNC ... FAILOVER, with  *)
(* timeouts, FORCE, ABORT and lost connections; clients block until replicas   *)
(* have acknowledged their writes.  Offsets count the bytes of the master's    *)
(* stream, one per write or PING.                                             *)
(***************************************************************************)
CONSTANTS
    Target,             \* the replicas
    MaxOff, MaxFoOps    \* bounds: length of the stream; commands, drops and promotions by hand

VARIABLES
    moff,               \* the master's master_repl_offset
    demoted,            \* it is a replica of its target
    foState,            \* failover_state: none, wait, progress
    fo,                 \* target_replica_host ("any" if none is chosen), force, failover_end_time set
    psync,              \* the failover connection: none, sent, accepted, refused
    rep,                \* the replicas: link, offset executed, acknowledged offset, own master
    waiting,            \* clients_waiting_acks, newest first
    answer,             \* the last answer to a WAIT, <<>> if the last step gave none
    writes,             \* the offsets after the clients' writes, their woff
    nfo

fovars == <<moff, demoted, foState, fo, psync, rep, waiting, answer, writes, nfo>>

NoTarget == "any replica"
NoFo == [target |-> NoTarget, force |-> FALSE, ends |-> FALSE]

FoInit ==
    /\ moff = 0 /\ demoted = FALSE /\ foState = "none" /\ fo = NoFo /\ psync = "none"
    /\ rep = [t \in Target |-> [up |-> TRUE, off |-> 0, ack |-> 0, master |-> FALSE]]
    /\ waiting = <<>> /\ answer = <<>> /\ writes = {} /\ nfo = 0

Online == {t \in Target : rep[t].up}
Paused == foState # "none"

-----------------------------------------------------------------------------
(* The stream *)
ClientWrite ==
    /\ ~demoted /\ ~Paused /\ moff < MaxOff
    /\ moff' = moff + 1 /\ writes' = writes \cup {moff + 1} /\ answer' = <<>>
    /\ UNCHANGED <<demoted, foState, fo, psync, rep, waiting, nfo>>
\* replicationCron does not ping during a failover, if that has a timeout
CronPing ==
    /\ ~demoted /\ Online # {} /\ ~(fo.ends /\ Paused) /\ moff < MaxOff
    /\ moff' = moff + 1 /\ answer' = <<>>
    /\ UNCHANGED <<demoted, foState, fo, psync, rep, waiting, writes, nfo>>
Deliver(t) ==
    /\ rep[t].up /\ rep[t].off < moff
    /\ rep' = [rep EXCEPT ![t].off = @ + 1] /\ answer' = <<>>
    /\ UNCHANGED <<moff, demoted, foState, fo, psync, waiting, writes, nfo>>
\* replicationSendAck and REPLCONF ACK
Ack(t) ==
    /\ rep[t].up /\ rep[t].ack < rep[t].off
    /\ rep' = [rep EXCEPT ![t].ack = rep[t].off] /\ answer' = <<>>
    /\ UNCHANGED <<moff, demoted, foState, fo, psync, waiting, writes, nfo>>
LoseLink(t) ==
    /\ rep[t].up /\ nfo < MaxFoOps /\ nfo' = nfo + 1
    /\ rep' = [rep EXCEPT ![t].up = FALSE, ![t].ack = 0] /\ answer' = <<>>
    /\ UNCHANGED <<moff, demoted, foState, fo, psync, waiting, writes>>
\* A partial resynchronization, refused while the master is failing over
Relink(t) ==
    /\ ~rep[t].up /\ ~rep[t].master /\ ~demoted /\ foState = "none"
    /\ rep' = [rep EXCEPT ![t].up = TRUE] /\ answer' = <<>>
    /\ UNCHANGED <<moff, demoted, foState, fo, psync, waiting, writes, nfo>>
\* REPLICAOF NO ONE on a replica
PromotedByHand(t) ==
    /\ ~rep[t].master /\ nfo < MaxFoOps /\ nfo' = nfo + 1
    /\ rep' = [rep EXCEPT ![t] = [up |-> FALSE, off |-> @.off, ack |-> 0, master |-> TRUE]] /\ answer' = <<>>
    /\ UNCHANGED <<moff, demoted, foState, fo, psync, waiting, writes>>

-----------------------------------------------------------------------------
(* WAIT *)
CountAcks(o) == Cardinality({t \in Online : rep[t].ack >= o})
CountExecuted(o) == Cardinality({t \in Target : rep[t].off >= o})
WaitCommand(woff, num) ==
    /\ ~demoted /\ nfo < MaxFoOps /\ nfo' = nfo + 1
    /\ IF CountAcks(woff) >= num
       THEN answer' = <<[off |-> woff, num |-> CountAcks(woff)]>> /\ UNCHANGED waiting
       ELSE waiting' = <<[off |-> woff, num |-> num]>> \o waiting /\ answer' = <<>>
    /\ UNCHANGED <<moff, demoted, foState, fo, psync, rep, writes>>

Served(last, c) == last.off # 0 /\ last.off >= c.off /\ last.num >= c.num
ProcessWaiting ==
    LET Step[i \in 0..Len(waiting)] ==
            IF i = 0 THEN [last |-> [off |-> 0, num |-> 0], left |-> <<>>, ans |-> <<>>]
            ELSE LET p == Step[i - 1]
                     c == waiting[i]
                     n == CountAcks(c.off)
                 IN  IF Served(p.last, c) THEN [p EXCEPT !.ans = Append(@, [off |-> c.off, num |-> p.last.num])]
                     ELSE IF n >= c.num THEN [last |-> [off |-> c.off, num |-> n], left |-> p.left, ans |-> Append(p.ans, [off |-> c.off, num |-> n])]
                     ELSE [p EXCEPT !.left = Append(@, c)]
        end == Step[Len(waiting)]
    IN  /\ end.ans # <<>>
        /\ waiting' = end.left /\ answer' = end.ans
        /\ UNCHANGED <<moff, demoted, foState, fo, psync, rep, writes, nfo>>

-----------------------------------------------------------------------------
(* FAILOVER [TO t [FORCE]] [TIMEOUT] and FAILOVER ABORT *)
FailoverCommand(t, force, ends) ==
    /\ ~demoted /\ foState = "none" /\ Online # {} /\ nfo < MaxFoOps /\ nfo' = nfo + 1
    /\ force => ends /\ t # NoTarget
    /\ t # NoTarget => t \in Online
    /\ foState' = "wait" /\ fo' = [target |-> t, force |-> force, ends |-> ends] /\ answer' = <<>>
    /\ UNCHANGED <<moff, demoted, psync, rep, waiting, writes>>

\* clearFailoverState, with the state it leaves the server in
Clear(replica) == foState' = "none" /\ fo' = NoFo /\ psync' = "none" /\ demoted' = replica
\* abortFailover: a failover in progress makes the server a master again
FailoverAbort ==
    /\ foState # "none" /\ nfo < MaxFoOps /\ nfo' = nfo + 1
    /\ Clear(FALSE) /\ answer' = <<>>
    /\ UNCHANGED <<moff, rep, waiting, writes>>

\* replicationSetMaster of the target: blocked clients and replicas are disconnected
BecomeReplica(t) ==
    /\ foState' = "progress" /\ fo' = [fo EXCEPT !.target = t] /\ demoted' = TRUE
    /\ waiting' = <<>> /\ answer' = <<>>
    /\ rep' = [x \in Target |-> [rep[x] EXCEPT !.up = FALSE, !.ack = 0]]
    /\ UNCHANGED <<moff, psync, writes, nfo>>
Deadline ==
    /\ foState = "wait" /\ fo.ends
    /\ IF fo.force THEN BecomeReplica(fo.target)
       ELSE Clear(FALSE) /\ answer' = <<>> /\ UNCHANGED <<moff, rep, waiting, writes, nfo>>
AckedAWrite(t) == \A w \in writes : w < moff => rep[t].ack >= w
CaughtUp(t) == rep[t].ack = moff
ReplicaSynced(t) ==
    /\ foState = "wait" /\ t \in Online /\ fo.target \in {t, NoTarget} /\ CaughtUp(t)
    /\ BecomeReplica(t)

\* The old master connects and sends PSYNC <replid> <offset> FAILOVER, which its
\* target accepts if it is a replica with the same history.
SendPsync ==
    /\ foState = "progress" /\ psync = "none"
    /\ psync' = "sent" /\ answer' = <<>>
    /\ UNCHANGED <<moff, demoted, foState, fo, rep, waiting, writes, nfo>>
AcceptFailover ==
    LET t == fo.target IN
    /\ psync = "sent" /\ ~rep[t].master
    /\ rep' = [rep EXCEPT ![t].master = TRUE] /\ psync' = "accepted" /\ answer' = <<>>
    /\ UNCHANGED <<moff, demoted, foState, fo, waiting, writes, nfo>>
RefuseFailover ==
    /\ psync = "sent" /\ rep[fo.target].master
    /\ psync' = "refused" /\ answer' = <<>>
    /\ UNCHANGED <<moff, demoted, foState, fo, rep, waiting, writes, nfo>>
\* syncWithMaster: any other reply than +CONTINUE and +FULLRESYNC aborts, and so
\* does a connection that breaks before the reply is read.
ReadReply ==
    /\ psync \in {"accepted", "refused"}
    /\ Clear(psync = "accepted") /\ answer' = <<>>
    /\ UNCHANGED <<moff, rep, waiting, writes, nfo>>
LoseReply ==
    /\ psync \in {"sent", "accepted", "refused"} /\ nfo < MaxFoOps /\ nfo' = nfo + 1
    /\ Clear(FALSE) /\ answer' = <<>>
    /\ UNCHANGED <<moff, rep, waiting, writes>>

FoNext ==
    \/ ClientWrite \/ CronPing \/ ProcessWaiting \/ FailoverAbort \/ Deadline
    \/ SendPsync \/ AcceptFailover \/ RefuseFailover \/ ReadReply \/ LoseReply
    \/ \E w \in writes, n \in 1..Cardinality(Target) : WaitCommand(w, n)
    \/ \E t \in Target \cup {NoTarget}, force, ends \in BOOLEAN : FailoverCommand(t, force, ends)
    \/ \E t \in Target : Deliver(t) \/ Ack(t) \/ LoseLink(t) \/ Relink(t) \/ PromotedByHand(t) \/ ReplicaSynced(t)
FoFair == WF_fovars(Deadline) /\ WF_fovars(SendPsync) /\ WF_fovars(AcceptFailover) /\ WF_fovars(RefuseFailover) /\ WF_fovars(ReadReply)
FoSpec == FoInit /\ [][FoNext]_fovars /\ FoFair

-----------------------------------------------------------------------------
\* The replica that accepts an unforced failover has executed all of the old
\* master's stream, so no write a client was told of is lost.
FailoverKeepsWrites == [][psync = "sent" /\ psync' = "accepted" /\ ~fo.force => rep[fo.target].off = moff]_fovars

\* The number WAIT returns is never more than the replicas that have executed the
\* client's writes.
WaitTellsTruth == \A i \in 1..Len(answer) : CountExecuted(answer[i].off) >= answer[i].num

\* A failover with a TIMEOUT does not keep the writes paused for ever.
TimeoutUnpauses == (foState # "none" /\ fo.ends) ~> foState = "none"
=============================================================================
