----------------------------- MODULE MCStorage ------------------------------
(***************************************************************************)
(* The keyspace with expiry, eviction, freeing in the background, the AOF  *)
(* and the RDB file, and what stands between a client and the keyspace:    *)
(* protocol, output buffers, tracking and ACLs. A behaviour picks one      *)
(* part, whose module takes all the steps while the others stay in their   *)
(* first states.                                                           *)
(***************************************************************************)
EXTENDS Keyspace, Eviction, AppendOnly, Acl, Tracking, ClientOutput, Integers, Sequences, TLC

VARIABLE part   \* the part that runs

-----------------------------------------------------------------------------
\* Writes are paused only while nothing is watched, and WATCH comes when the replica is
\* up to date.
KeyspaceStep ==
  KNext /\ ~(paused' /\ watcher'.keys # {}) /\ (klast' = "watch" => link = <<>>)

-----------------------------------------------------------------------------
MCPolicies == {"allkeys-lru", "volatile-lru", "volatile-ttl", "volatile-random", "noeviction"}

-----------------------------------------------------------------------------
(* Datasets of one or two keys, of all types and encodings. *)
I(n) == <<"i", n>>
S(n) == <<"s", n>>
Item(t, e, v) == [t |-> t, enc |-> e, v |-> v]
Strm(items, last, groups) == Item("stream", "stream", [items |-> items, last |-> last, groups |-> groups])
Grp(pel, cons) == [name |-> S(1), last |-> 1, pel |-> pel, consumers |-> cons]
Nack(id, c) == [id |-> id, time |-> 5, count |-> 2, c |-> c]
Consumer(n) == [name |-> S(n), seen |-> 4]
Objs ==
  {Item("string", "int", I(1)), Item("string", "raw", S(9)), Item("module", "raw", S(4)),
   Item("list", "quicklist", <<<<S(1), I(2)>>, <<S(9)>>>>),
   Item("set", "intset", {I(1), I(2), I(3)}), Item("set", "ht", {I(1), S(2)}), Item("set", "ht", {I(1), I(2)}),
   Item("zset", "ziplist", {<<S(1), 2>>, <<S(2), 2>>, <<I(3), 1>>}),
   Item("zset", "skiplist", {<<S(9), 1>>, <<S(1), 1>>}), Item("zset", "skiplist", {<<S(2), 1>>}),
   Item("hash", "ziplist", {<<S(1), I(1)>>, <<S(2), I(1)>>, <<S(3), S(3)>>}),
   Item("hash", "ht", {<<S(1), S(9)>>}), Item("hash", "ht", {<<S(1), S(2)>>, <<I(2), I(2)>>}),
   Strm(<<>>, 3, {}), Strm(<<<<1, S(1)>>, <<3, S(2)>>>>, 4, {Grp({Nack(1, S(1)), Nack(2, S(2))}, {Consumer(1), Consumer(2), Consumer(3)})}),
   Strm(<<<<2, S(1)>>>>, 2, {Grp({}, {}), [Grp({Nack(2, S(2))}, {Consumer(2)}) EXCEPT !.name = S(2)]})}
\* What only older versions write
OldObjs ==
  {Item("hash", "ht", {}), Item("list", "quicklist", <<>>), Item("zset", "ziplist", {}),
   Item("list", "ziplist", <<<<S(1), I(2)>>>>), Item("list", "quicklist", <<<<S(1), I(2)>>>>),
   Item("hash", "ziplist", {<<S(1), S(9)>>}), Item("hash", "ziplist", {<<S(1), S(2)>>}), Item("zset", "skiplist", {<<S(1), 2>>})}
Entry(d, k, o, x, i) == [db |-> d, key |-> S(k), o |-> o, expire |-> x, idle |-> i]
OtherKey == Item("string", "int", I(2))
Sets ==
  {<<>>} \cup {<<Entry(0, 1, o, x, 3)>> : o \in Objs, x \in {-1, 2, 8}}
  \cup {<<Entry(0, 1, o, 2, 3), Entry(d, 2, OtherKey, y, 1)>> : o \in Objs, d \in {0, 1}, y \in {-1, 8}}
OldSets == {<<Entry(0, 1, o, 8, 0), Entry(0, 2, OtherKey, -1, 0)>> : o \in OldObjs}
Nums == {0, 1, 63, 64, 127, 128, 255, 256, 16383, 16384, 32767, 32768, 65535, 65536, 16777216, 2147483647}
        \cup {0 - n : n \in {1, 127, 128, 129, 32767, 32768}}
MCAofConfigs == {[policy |-> p, norw |-> FALSE] : p \in {"always", "everysec"}}
MCLoaders == [master : BOOLEAN, entries : {2, 5}, now : {5}]

-----------------------------------------------------------------------------
(* User "u" with channel rules or all rights, and a file with or without an error. *)
Rl(t, x, s) == [t |-> t, x |-> x, s |-> s]
Pl(t) == Rl(t, "", "")
AclCats == "get" :> {"read", "string"} @@ "set" :> {"write", "string"} @@ "client" :> {"admin"} @@ "mod" :> {"read"}
AclRules ==
  {<<Pl("on"), Rl("pass", "p", "")>>, <<Pl("allcommands"), Rl("-", "get", "")>>, <<Rl("+@", "string", "")>>,
   <<Rl("-@", "admin", ""), Rl("+|", "client", "list")>>, <<Rl("+|", "client", "list"), Rl("+", "set", "")>>,
   <<Rl("-@", "admin", "")>>, <<Pl("nocommands"), Rl("+", "mod", "")>>, <<Rl("chan", "c1", ""), Rl("chan", "c*", "")>>,
   <<Pl("resetchannels"), Rl("chan", "c1", "")>>, <<Pl("allkeys"), Rl("key", "k", "")>>, <<Pl("resetkeys"), Rl("key", "k", "")>>,
   <<Pl("reset")>>, <<Rl("+@", "read", ""), Rl("-", "get", "")>>, <<Rl("-", "client", ""), Rl("+|", "client", "list")>>,
   <<Rl("delpass", "p", "")>>, <<Pl("allcommands"), Rl("-", "get", ""), Rl("+|", "get", "list")>>,
   <<Pl("resetchannels"), Rl("chan", "c*", "")>>}
GoodFile == <<[name |-> "u", rules |-> <<Pl("on"), Pl("nopass"), Pl("allcommands"), Rl("chan", "c1", "")>>]>>
BadFile == <<[name |-> "u", rules |-> <<Pl("on"), Pl("nopass")>>],
             [name |-> "default", rules |-> <<Pl("on"), Pl("nopass"), Pl("bad")>>]>>
MCCmdOrder == <<"get", "set", "client", "mod">>
MCCatOrder == <<"read", "write", "admin", "string">>
MCMatchPairs == {<<"c*", "c1">>, <<"c*", "c2">>}
MCEditedFiles == {GoodFile, BadFile}
MCTopics == {<<"pattern", "c1">>, <<"channel", "c1">>, <<"channel", "c2">>, <<"pattern", "c*">>}

AclStart ==
  \E first \in {TRUE, FALSE} :
    /\ users = [n \in {"default", "u"} |->
                 IF n = "default" THEN DefaultUser(0)
                 ELSE Built(CreateUser(0),
                        IF first THEN <<Pl("on"), Rl("pass", "p", ""), Pl("resetchannels"), Rl("chan", "c1", ""), Rl("chan", "c*", "")>>
                        ELSE <<Pl("on"), Pl("nopass"), Pl("allcommands"), Pl("allkeys")>>).u]
    /\ acls = [c \in {"c1"} |-> [user |-> <<"u", 0>>, auth |-> TRUE, open |-> TRUE, closing |-> FALSE, subs |-> {}]]
    /\ aclfile = (IF first THEN BadFile ELSE GoodFile)
    /\ loaded = TRUE /\ acalls = 0 /\ alast = [name |-> "", err |-> ""]
\* The third command is ACL LOAD or ACL DELUSER.
AclStep == /\ AclNext
           /\ acalls' = 3 => alast'.name \in {"load", "deluser"}
           /\ alast'.name = "setuser" => users'["default"] = users["default"] \/ acalls = 0

-----------------------------------------------------------------------------
(* Client c1 starts with tracking on, in one of these ways. *)
Opt(b, i, x, n, r, p) == [bcast |-> b, optin |-> i, optout |-> x, noloop |-> n, redir |-> r, prefs |-> p]
TrackOpts ==
  {Opt(FALSE, FALSE, FALSE, FALSE, "c2", <<>>), Opt(FALSE, TRUE, FALSE, FALSE, "nobody", <<>>),
   Opt(TRUE, FALSE, FALSE, TRUE, "nobody", <<<<"a">>, <<"b">>>>), Opt(FALSE, FALSE, TRUE, TRUE, "nobody", <<>>),
   Opt(TRUE, FALSE, FALSE, FALSE, "nobody", <<>>)}
MCTKeys == {<<"a", "b">>, <<"b">>}

TrackStart ==
  \E second \in {2, 3}, o \in (IF part = "tracking" THEN TrackOpts ELSE {Opt(TRUE, FALSE, FALSE, FALSE, "nobody", <<>>)}) :
    LET cs == {"c1", "c2"}
        off == [cl |-> [c \in cs |-> NewTc(IF c = "c1" THEN 3 ELSE second)], tab |-> [k \in {<<"a", "b">>, <<"b">>} |-> {}],
                items |-> 0, num |-> 0, pre |-> [p \in AllPrefixes |-> NoPrefix], pend |-> {},
                msgs |-> [c \in cs |-> {}], cur |-> Nobody]
        s == Enabled(off, "c1", o)
    IN  /\ part # "tracking" => second = 2
        /\ tcl = s.cl /\ ttab = s.tab /\ titems = s.items /\ tnum = s.num /\ tpre = s.pre /\ tpend = {} /\ tmsgs = s.msgs
        /\ tcache = [c \in cs |-> {}] /\ tstale = [c \in cs |-> {}] /\ tdown = FALSE /\ tcalls = 0

-----------------------------------------------------------------------------
(* Streams of requests: inline and multibulk ones, empty ones, long arguments, *)
(* every protocol error, and a stream of a master.                            *)
Args == <<<<"a">>, <<"c", "c", "c", "c">>>>
One(x) == Request(Mb(<<<<x>>>>), <<<<x>>>>)
Two == Request(Mb(Args), Args)
Inline == Request(<<"a", "_", "d", "b", "t", "_", "d", "r", "n">>, <<<<"a">>, <<"TAB", "_">>>>)
Quoted == Request(<<"s", "b", "s", "s", "n">>, <<<<"s">>>>)
Nothing == Request(<<"r", "n">>, <<>>)
Zero == Request(<<"*", "0", "r", "n">>, <<>>)
Three == LET x == <<<<"a">>, <<>>, <<"a">>>> IN Request(Mb(x), x)
AllStreams ==
  {Stream(FALSE, FALSE, <<Two, Inline>>, <<>>), Stream(FALSE, FALSE, <<One("B"), Two, Quoted>>, <<>>),
   Stream(FALSE, FALSE, <<Nothing, Zero, One("a")>>, <<"d", "a", "n", "a">>), Stream(FALSE, FALSE, <<One("Q")>>, <<"a">>),
   Stream(FALSE, TRUE, <<One("A"), Three>>, <<>>), Stream(FALSE, TRUE, <<One("a")>>, <<"*", "3", "r", "n", "a">>),
   Stream(FALSE, TRUE, <<One("a")>>, <<"*", "1", "r", "n", "$", "6", "r", "n", "a">>),
   Stream(FALSE, FALSE, <<>>, <<"*", "1", "r", "n", "$", "-", "1", "r", "n">>),
   Stream(FALSE, FALSE, <<>>, <<"*", "1", "r", "n", "n", "r", "n">>),
   Stream(FALSE, FALSE, <<>>, [i \in 1 .. 13 |-> "a"]),
   Stream(FALSE, FALSE, <<>>, <<"*", "1", "r", "n", "$", "9", "r", "n">> \o [i \in 1 .. 10 |-> "a"]),
   Stream(TRUE, FALSE, <<Two, Nothing, One("M"), One("a"), One("E")>>, <<"a", "n">>)}
ParserStart == /\ IF part = "parser" THEN qs \in AllStreams ELSE qs = Stream(FALSE, FALSE, <<One("Q")>>, <<"a">>)
               /\ q = NewQueryClient(qs)

-----------------------------------------------------------------------------
\* Only part p runs.
OnlyPart(p) ==
  /\ part = p /\ part' = part
  /\ p # "keyspace" => UNCHANGED <<kmaster, kreplica, link, now, paused, watcher, ncmd, klast>>
  /\ p # "eviction" => UNCHANGED <<lru, ttl, clock, epool, policy, epaused, pending, ev,
            procRunning, eresult, eops>>
  /\ p # "lazyfree" => UNCHANGED <<ldict, ref, argv, used, jobs, bio, lazyfree_objects, freed,
            twice, flushes>>
  /\ p # "aof" => UNCHANGED <<conf, aup, adata, aof, rw, aclient, nAof>>
  /\ p # "snapshot" => UNCHANGED <<origin, how, snap, damage, reader, got, probe>>
  /\ p # "acl" => UNCHANGED <<users, acls, aclfile, loaded, acalls, alast>>
  /\ p # "tracking" => UNCHANGED <<tcl, ttab, titems, tnum, tpre, tpend, tmsgs, tcache, tstale,
            tdown, tcalls>>
  /\ p # "output" => UNCHANGED <<cl, told, wok, muted, over>>
  /\ p # "parser" => UNCHANGED <<qs, q>>

StorageInit ==
  /\ part \in {"keyspace", "eviction", "lazyfree", "aof", "snapshot", "acl", "tracking", "output",
                "parser"}
  /\ KInit
  /\ part # "keyspace" => \A d \in {0, 1}, k \in {"a", "b"} : kmaster[d].dict[k] = 0
  /\ EInit
  /\ part # "eviction" => policy = "noeviction"
  /\ LInit
  /\ AofInit
  /\ part # "aof" => conf.policy = "always"
  /\ SnInit
  /\ part # "snapshot" => origin = <<>> /\ probe = 0 /\ reader = [master |-> TRUE, entries |-> 2, now |-> 5]
  /\ IF part = "acl" THEN AclStart ELSE AclInit
  /\ TrackStart
  /\ CoInit
  /\ ParserStart

StorageNext ==
  \/ OnlyPart("keyspace") /\ KeyspaceStep
  \/ OnlyPart("eviction") /\ ENext
  \/ OnlyPart("lazyfree") /\ LNext
  \/ OnlyPart("aof") /\ AofNext
  \/ OnlyPart("snapshot") /\ SnNext
  \/ OnlyPart("acl") /\ AclStep
  \/ OnlyPart("tracking") /\ TkNext
  \/ OnlyPart("output") /\ CoNext
  \/ OnlyPart("parser") /\ QpNext

storagevars == <<part, kmaster, kreplica, link, now, paused, watcher, ncmd, klast, lru, ttl, clock,
                  epool, policy, epaused, pending, ev, procRunning, eresult, eops, ldict, ref,
                  argv, used, jobs, bio, lazyfree_objects, freed, twice, flushes, conf, aup, adata,
                  aof, rw, aclient, nAof, origin, how, snap, damage, reader, got, probe, users,
                  acls, aclfile, loaded, acalls, alast, tcl, ttab, titems, tnum, tpre, tpend,
                  tmsgs, tcache, tstale, tdown, tcalls, cl, told, wok, muted, over, qs, q>>
StorageSpec == StorageInit /\ [][StorageNext]_storagevars

\* What only records the last operation is not part of the state.
StorageView == <<part, kmaster, kreplica, link, now, paused, watcher, ncmd, lru, ttl, clock, epool,
                 policy, epaused, pending, ev, procRunning, eresult, eops, ldict, ref, argv, used,
                 jobs, bio, lazyfree_objects, freed, twice, flushes, conf, aup, adata, aof, rw,
                 aclient, nAof, origin, how, snap, damage, reader, got, probe, users, acls,
                 aclfile, loaded, acalls, tcl, ttab, titems, tnum, tpre, tpend, tmsgs, tcache,
                 tstale, tdown, tcalls, cl, told, wok, muted, over, qs, q>>

-----------------------------------------------------------------------------
(* What the parts promise. *)

\* Every deadline belongs to a key, and a replica that has applied its stream has the
\* keys of its master (db.c, expire.c).
KeysRight ==
  part = "keyspace" => DeadlinesHaveKeys /\ ReplicaHasKeys

\* The eviction pool is sorted, and the freeing thread never frees what is still used nor
\* loses count of its work (evict.c, lazyfree.c).
MemoryRight ==
  /\ part = "eviction" => PoolSorted
  /\ part = "lazyfree" => NoUseAfterFree /\ PendingCounted

\* Loading what is on disk gives the dataset: the append only file after any crash, what
\* an RDB file keeps of every type and encoding, and the commands of an AOF rewrite
\* (aof.c, rdb.c).
DiskRight ==
  /\ part = "aof" => FileIsDataset /\ RepliedMeansSynced
  /\ part = "snapshot" => /\ LoadedIsSaved /\ NumbersRoundTrip /\ CompactWithinLimit
                          /\ RewriteRebuilds

\* The last rule that speaks of a command decides, the description of a user rebuilds it,
\* and no client keeps a freed user (acl.c).
AclRight ==
  part = "acl" => LastRuleDecides /\ DescriptionRebuilds /\ NoFreedUser

\* Caches of tracking clients are told of every change; replies leave in order, none is
\* forgotten, and the limits of output buffers are kept; commands are read whole however
\* the bytes arrive, and the offset of a master counts those that were run (tracking.c,
\* networking.c).
ClientsRight ==
  /\ part = "tracking" => CachesCoherent /\ TablesAgree
  /\ part = "output" => RepliesInOrder /\ NoReplyForgotten /\ HardLimitKept /\ SoftLimitKept
  /\ part = "parser" => CommandsDone /\ MasterOffsetExact

\* What one step may never do: run an EXEC whose keys have changed, write in a pause,
\* evict a key the policy spares or stop evicting too early, skip the fsync of a second,
\* load half an ACL file, or leave a subscriber with a channel its user lost.
StorageSteps ==
  [][/\ part = "keyspace" => ExecOnlyIfUnchanged /\ PausedMeansQuiet
     /\ part = "eviction" => OnlyCandidatesEvicted /\ TimerStopsWhenDone
     /\ part = "aof" => EverySecondSynced
     /\ part = "acl" => LoadAllOrNothing /\ SubscribersPermitted]_storagevars
=============================================================================
