----------------------------- MODULE MCServers ------------------------------
(***************************************************************************)
(* What servers do together: partial and full resynchronisation, FAILOVER  *)
(* and WAIT, the I/O threads of one of them, cluster gossip, the migration *)
(* of a slot, failure detection in a cluster, and Sentinels that monitor   *)
(* instances and fail them over. A behaviour picks one part, whose module  *)
(* takes all the steps while the others stay in their first states.        *)
(***************************************************************************)
EXTENDS Replication, IOThreads, ClusterConfig, Resharding, FailureDetection, SentinelMonitor, SentinelFailover, Sequences

CONSTANTS A, B, R, m1, m2, m3

VARIABLES part, turn   \* part: the part that runs

-----------------------------------------------------------------------------
\* b replicates a; c replicates a, or b.  All are connected before the first write or
\* fault, and the first write is to database 0.
ResyncStart ==
  /\ rid["a"] = 1 /\ rid["b"] = 2
  /\ masterof["a"] = Nobody /\ masterof["b"] = "a" /\ masterof["c"] \in {"a", "b"}
  /\ part # "resync" => masterof["c"] = "a"
ResyncStep ==
  /\ RNext
  /\ nops = 0 /\ nwrites = 0 /\ (nops' > 0 \/ nwrites' > 0) =>
       \A i \in RNode : masterof[i] # Nobody => state[i] = "connected"
  /\ nwrites = 0 /\ nwrites' = 1 => \E i \in RNode : data'[i] = <<<<1, 1>>>>

-----------------------------------------------------------------------------
(* Two masters A and B, a replica R of A, and the epochs of a cluster that was joined by *)
(* CLUSTER MEET: all 0.                                                                  *)
Ids == [i \in Node |-> CASE i = A -> 1 [] i = B -> 2 [] i = R -> 3]
Owners == [s \in Slot |-> IF s = 0 THEN A ELSE B]
Masters == [i \in Node |-> IF i = R THEN A ELSE None]
Epochs == [i \in Node |-> 0]

\* Only the replica sends FAIL, to B, to keep the instance small.
GossipStep == Next /\ \A p \in net' : p.type = "FAIL" => p.sender = R /\ p.to = B

-----------------------------------------------------------------------------
\* A round: links are cut or heal, each link carries a packet each way, each node runs its
\* cron, and a tick passes.
Round == <<<<m1, m2>>, <<m2, m3>>, <<m3, m1>>, <<m2, m1>>, <<m3, m2>>, <<m1, m3>>, <<m1>>, <<m2>>, <<m3>>>>
FailureStep ==
  \/ turn = 0 /\ turn' = 1 /\ (Cut \/ Heal \/ UNCHANGED fdvars)
  \/ /\ turn \in 1 .. 6 /\ turn' = turn + 1
     /\ LET s == Round[turn] IN IF Up(s[1], s[2]) THEN Exchange(s[1], s[2]) ELSE UNCHANGED fdvars
  \/ turn \in 7 .. 9 /\ turn' = turn + 1 /\ Cron(Round[turn][1])
  \/ turn = 10 /\ turn' = 0 /\ Tick

-----------------------------------------------------------------------------
ClockJumps == {-2, 5}

-----------------------------------------------------------------------------
\* Only part p runs.
OnlyPart(p) ==
  /\ part = p /\ part' = part
  /\ p # "resync" => UNCHANGED <<data, masterof, rid, off, rid2, off2, backlog, seldb, cached, mdb,
            state, conn, nextid, nwrites, nops>>
  /\ p # "fullsync" => UNCHANGED <<fdata, slave, child, dump, generated, fconf, nfw, nfs, nff>>
  /\ p # "pipe" => UNCHANGED <<produced, pchild, pread, readevent, buflen, nwriting, exitpipe,
            sock>>
  /\ p # "failover" => UNCHANGED <<moff, demoted, foState, fo, psync, rep, waiting, answer, writes,
            nfo>>
  /\ p # "threads" => UNCHANGED <<iot, mpc, tpc, cq, ioc, worked>>
  /\ p # "gossip" => UNCHANGED <<conf, saved, auth, net, won, forgotten, faults>>
  /\ p # "reshard" => UNCHANGED <<sowner, smig, simp, sepoch, known, store, mreq, sreq, sans,
            truth, unsure, plan, nsw, nsf>>
  /\ p # "faildet" => UNCHANGED <<view, quiet, ping, report, failAge, cstate, minority, cut, ran,
            suspect, alone, ncuts, turn>>
  /\ p # "monitor" => UNCHANGED <<link, inst, tilt, smquiet, mfaults>>
  /\ p # "sentinels" => UNCHANGED <<sen, role, used, stuck>>

ServersInit ==
  /\ part \in {"resync", "fullsync", "pipe", "failover", "threads", "gossip", "reshard", "faildet",
                "monitor", "sentinels"}
  /\ RInit
  /\ ResyncStart
  /\ FInit
  /\ part # "fullsync" => fconf.save /\ fconf.diskless
  /\ PInit
  /\ FoInit
  /\ IoInit
  /\ Init
  /\ SInit
  /\ part # "reshard" => truth = [k \in SKey |-> 0]
  /\ FdInit
  /\ turn = 0
  /\ SmInit
  /\ SfInit

ServersNext ==
  \/ OnlyPart("resync") /\ ResyncStep
  \/ OnlyPart("fullsync") /\ FNext
  \/ OnlyPart("pipe") /\ PNext
  \/ OnlyPart("failover") /\ FoNext
  \/ OnlyPart("threads") /\ IoNext
  \/ OnlyPart("gossip") /\ GossipStep
  \/ OnlyPart("reshard") /\ SNext
  \/ OnlyPart("faildet") /\ FailureStep
  \/ OnlyPart("monitor") /\ SmNext
  \/ OnlyPart("sentinels") /\ SfNext

serversvars == <<part, data, masterof, rid, off, rid2, off2, backlog, seldb, cached, mdb, state,
                  conn, nextid, nwrites, nops, fdata, slave, child, dump, generated, fconf, nfw,
                  nfs, nff, produced, pchild, pread, readevent, buflen, nwriting, exitpipe, sock,
                  moff, demoted, foState, fo, psync, rep, waiting, answer, writes, nfo, iot, mpc,
                  tpc, cq, ioc, worked, conf, saved, auth, net, won, forgotten, faults, sowner,
                  smig, simp, sepoch, known, store, mreq, sreq, sans, truth, unsure, plan, nsw,
                  nsf, view, quiet, ping, report, failAge, cstate, minority, cut, ran, suspect,
                  alone, ncuts, turn, link, inst, tilt, smquiet, mfaults, sen, role, used, stuck>>
ServersSpec == ServersInit /\ [][ServersNext]_serversvars

\* The fairness of the modules.  Only one part runs, so fairness of one action of each
\* part is fairness of a disjunction of them.
ServersFairness ==
  /\ WF_serversvars(\/ OnlyPart("resync") /\ RAuto("a")
                    \/ OnlyPart("fullsync") /\ (ChildEnds \/ Reap)
                    \/ OnlyPart("pipe") /\ (ChildWrites \/ ChildDone \/ ChildExits)
                    \/ OnlyPart("failover") /\ Deadline
                    \/ OnlyPart("threads") /\ MainStep
                    \/ OnlyPart("reshard") /\ Process
                    \/ OnlyPart("faildet") /\ FailureStep
                    \/ OnlyPart("monitor") /\ (SmTick \/ Reply)
                    \/ OnlyPart("sentinels") /\ StateMachine("s1"))
  /\ WF_serversvars(\/ OnlyPart("resync") /\ RAuto("b")
                    \/ OnlyPart("fullsync") /\ CronStarts
                    \/ OnlyPart("pipe") /\ (ReadBuffer \/ ReadEof)
                    \/ OnlyPart("failover") /\ SendPsync
                    \/ OnlyPart("threads") /\ ThreadStep(1)
                    \/ OnlyPart("reshard") /\ SetSlotNodeAtDst
                    \/ OnlyPart("sentinels") /\ StateMachine("s2"))
  /\ WF_serversvars(\/ OnlyPart("resync") /\ RAuto("c")
                    \/ OnlyPart("fullsync") /\ RemoveRDB
                    \/ OnlyPart("pipe") /\ PReap
                    \/ OnlyPart("failover") /\ AcceptFailover
                    \/ OnlyPart("reshard") /\ Restore
                    \/ OnlyPart("sentinels") /\ InfoMisconfigured("s1", "m"))
  /\ WF_serversvars(\/ OnlyPart("fullsync") /\ (SendBulk("r1") \/ AckOnline("r1") \/ FStream("r1"))
                    \/ OnlyPart("pipe") /\ TimeoutConn("c1")
                    \/ OnlyPart("failover") /\ RefuseFailover
                    \/ OnlyPart("reshard") /\ ReadReplyOf
                    \/ OnlyPart("sentinels") /\ InfoMisconfigured("s1", "x"))
  /\ WF_serversvars(\/ OnlyPart("fullsync") /\ (SendBulk("r2") \/ AckOnline("r2") \/ FStream("r2"))
                    \/ OnlyPart("pipe") /\ TimeoutConn("c2")
                    \/ OnlyPart("failover") /\ ReadReply
                    \/ OnlyPart("sentinels") /\ InfoMisconfigured("s1", "y"))
  /\ WF_serversvars(OnlyPart("sentinels") /\ InfoMisconfigured("s2", "m"))
  /\ WF_serversvars(OnlyPart("sentinels") /\ InfoMisconfigured("s2", "x"))
  /\ WF_serversvars(OnlyPart("sentinels") /\ InfoMisconfigured("s2", "y"))
  /\ WF_serversvars(OnlyPart("sentinels") /\ ReceiveHello("s1", "s2"))
  /\ WF_serversvars(OnlyPart("sentinels") /\ ReceiveHello("s2", "s1"))
  /\ SF_serversvars(OnlyPart("threads") /\ StopThread)
ServersFairSpec == ServersSpec /\ ServersFairness

-----------------------------------------------------------------------------
(* What the parts promise. *)

\* A replica that counts as synchronized has the data: the same history and bytes as its
\* master after a partial resynchronization, the snapshot and then the stream after a
\* full one, and a write that WAIT has counted (masterTryPartialResynchronization,
\* sendBulkToSlave, rdbPipeReadHandler, waitCommand).
ReplicasHaveTheData ==
  /\ part = "resync" => ConnectedMeansSame /\ SlavesNeedBacklog
  /\ part = "fullsync" => FileThenStream
  /\ part = "pipe" => OnlineHasAll /\ WritersCounted
  /\ part = "failover" => WaitTellsTruth

\* Every view of the cluster is sound, and when nothing is left to be said all views are
\* the same (clusterProcessPacket, clusterUpdateSlotsConfigWith).
GossipAgrees ==
  part = "gossip" => ViewsSound /\ QuietMeansAgreed

\* Nobody is declared down without reason: FAIL needs suspicions of a majority of
\* masters, and S_DOWN needs silence for as long as down-after-milliseconds says
\* (markNodeAsFailingIfNeeded, sentinelCheckSubjectivelyDown).
FlagsJustified ==
  [][/\ part = "faildet" => FailByMajority
     /\ part = "monitor" => SilentBeforeDown]_serversvars

\* What was started ends: replicas synchronize, no replica waits for ever for a child,
\* generated files are removed, a diskless transfer ends, a FAILOVER with a timeout
\* unpauses, the event loop goes on beside I/O threads, and a client that follows
\* redirections gets its answer.
WorkCompletes ==
  /\ part = "resync" => EventuallySynced
  /\ part = "fullsync" => NoEndlessWait /\ GeneratedFileRemoved
  /\ part = "pipe" => TransferEnds
  /\ part = "failover" => TimeoutUnpauses
  /\ part = "threads" => LoopGoesOn
  /\ part = "reshard" => RequestEnds

\* A healed cluster is up again, an instance that died is seen as down and one that
\* answers as up, and after a failover all slaves replicate the new master
\* (clusterUpdateState, sentinelCheckSubjectivelyDown, sentinelRefreshInstanceInfo).
FailuresNoticed ==
  /\ part = "faildet" => EventuallyUp
  /\ part = "monitor" => EventuallyDown /\ EventuallyNotDown
  /\ part = "sentinels" => EventuallyReplicate
=============================================================================
