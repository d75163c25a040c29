------------------------------ MODULE Keyspace ------------------------------
(***************************************************************************)
(* The databases of a master and of a replica that follows its command       *)
(* stream: the commands on keys and their deadlines (redis-6.2.7/src/db.c,    *)
(* expire.c, t_string.c), the keys that are deleted because they expired or   *)
(* memory is short, a paused master, and WATCH and EXEC (multi.c).  A key has *)
(* a value, 0 if it does not exist, and a deadline, 0 if it has none.         *)
(* Deadlines are relative to the clock of the server that runs the command,   *)
(* and a command may reach the replica late.                                  *)
(***************************************************************************)
EXTENDS Integers, Sequences, FiniteSets

CONSTANTS
    KKey, KDb, KValue,   \* keys, databases, values (positive numbers)
    Ttl,                 \* the times to live commands give (0: already over)
    QueuedOp,            \* the commands the watching client queues
    MaxNow, MaxLink,     \* bounds: clock, commands on the way to the replica,
    MaxCmd, MaxWatch,    \*         commands run, keys watched,
    MaxLoaded            \*         keys the servers start with

VARIABLES
    kmaster, kreplica,   \* the databases: dict and expires of each
    link,                \* the commands propagated, and not yet run by the replica
    now,                 \* mstime()
    paused,              \* CLIENT PAUSE WRITE
    watcher,             \* a client that uses WATCH: its watched keys and its flags
    ncmd,                \* commands run and keys evicted so far
    klast                \* what the last step was

kvars == <<kmaster, kreplica, link, now, paused, watcher, ncmd, klast>>

EmptyDb == [dict |-> [k \in KKey |-> 0], exp |-> [k \in KKey |-> 0]]
Idle == [keys |-> {}, snap |-> <<>>, multi |-> FALSE, cas |-> FALSE, error |-> FALSE]

\* What both servers load: keys with a first value, with and without a deadline.
LoadedServers ==
    {db \in [KDb -> [dict : [KKey -> {0, 1}], exp : [KKey -> {0, 2}]]] :
        /\ \A d \in KDb, k \in KKey : db[d].exp[k] # 0 => db[d].dict[k] # 0
        /\ Cardinality({p \in KDb \X KKey : db[p[1]].dict[p[2]] # 0}) <= MaxLoaded}

KInit ==
    /\ kmaster \in LoadedServers /\ kreplica = kmaster
    /\ link = <<>> /\ now = 1 /\ paused = FALSE /\ watcher = Idle /\ ncmd = 0 /\ klast = "none"

-----------------------------------------------------------------------------
(* A server at work: its databases, whether it is a replica, what it has      *)
(* propagated and the keys for which it has called signalModifiedKey.         *)
Work(db, isreplica) == [db |-> db, isreplica |-> isreplica, out |-> <<>>, touched |-> {}]

Has(w, d, k) == w.db[d].dict[k] # 0
\* keyIsExpired
Expired(w, d, k) == w.db[d].exp[k] # 0 /\ now > w.db[d].exp[k]
Visible(w, d, k) == IF Expired(w, d, k) THEN 0 ELSE w.db[d].dict[k]

Touch(w, d, k) == [w EXCEPT !.touched = @ \cup {<<d, k>>}]
Propagate(w, cmd) == IF w.isreplica THEN w ELSE [w EXCEPT !.out = Append(@, cmd)]
Delete(w, d, k) == [w EXCEPT !.db[d].dict[k] = 0, !.db[d].exp[k] = 0]
Add(w, d, k, v) == [w EXCEPT !.db[d].dict[k] = v]
setExpire(w, d, k, when) == [w EXCEPT !.db[d].exp[k] = when]
removeExpire(w, d, k) == setExpire(w, d, k, 0)
\* propagateExpire: expired and evicted keys reach the replica as DEL
Del(d, k) == [op |-> "del", d |-> d, k |-> k]
DeleteSilently(w, d, k) == Touch(Delete(w, d, k), d, k)
DeleteAndPropagate(w, d, k) == Propagate(Touch(Delete(w, d, k), d, k), Del(d, k))

expireIfNeeded(w, d, k) ==
    IF ~Expired(w, d, k) \/ w.isreplica \/ paused THEN w ELSE DeleteAndPropagate(w, d, k)
lookupKeyWrite(w, d, k) == expireIfNeeded(w, d, k)

-----------------------------------------------------------------------------
(* The commands, as they are run by a client of the master and, once          *)
(* propagated, by the replica.                                                *)
SetGeneric(w, c) ==
    LET e == lookupKeyWrite(w, c.d, c.k)
        s == Add(e, c.d, c.k, c.v)
        kept == IF c.keepttl THEN s ELSE removeExpire(s, c.d, c.k)
        done == IF c.ttl = 0 THEN kept ELSE setExpire(kept, c.d, c.k, now + c.ttl)
    IN  IF (c.cond = "nx" /\ Has(e, c.d, c.k)) \/ (c.cond = "xx" /\ ~Has(e, c.d, c.k)) THEN e
        ELSE Propagate(Touch(done, c.d, c.k), [c EXCEPT !.cond = IF c.ttl # 0 THEN "none" ELSE @])

DelGeneric(w, c) ==
    LET e == expireIfNeeded(w, c.d, c.k) IN
    IF Has(e, c.d, c.k) THEN Propagate(Touch(Delete(e, c.d, c.k), c.d, c.k), c) ELSE e

\* EXPIRE (a relative time) and EXPIREAT; checkAlreadyExpired is false in a replica.
When(c) == IF c.abs THEN c.t ELSE now + c.t
ExpireGeneric(w, c) ==
    LET e == lookupKeyWrite(w, c.d, c.k) IN
    IF ~Has(e, c.d, c.k) THEN e
    ELSE IF When(c) <= now /\ ~w.isreplica THEN DeleteAndPropagate(e, c.d, c.k)
    ELSE Propagate(Touch(setExpire(e, c.d, c.k, When(c)), c.d, c.k), c)

Persist(w, c) ==
    LET e == lookupKeyWrite(w, c.d, c.k) IN
    IF Has(e, c.d, c.k) /\ e.db[c.d].exp[c.k] # 0 THEN Propagate(Touch(removeExpire(e, c.d, c.k), c.d, c.k), c) ELSE e

\* The value and the deadline of a key go to another place, which must be free.
Place(w, d, k, d2, k2) ==
    LET a == Add(w, d2, k2, w.db[d].dict[k])
    IN  IF w.db[d].exp[k] # 0 THEN setExpire(a, d2, k2, w.db[d].exp[k]) ELSE a

Rename(w, c) ==
    LET e == lookupKeyWrite(w, c.d, c.k)
        f == lookupKeyWrite(e, c.d, c.k2)
        free == Delete(f, c.d, c.k2)
        r == Delete(Place(free, c.d, c.k, c.d, c.k2), c.d, c.k)
    IN  IF ~Has(e, c.d, c.k) THEN e
        ELSE IF c.nx /\ Has(f, c.d, c.k2) THEN f
        ELSE Propagate(Touch(Touch(r, c.d, c.k), c.d, c.k2), c)

Move(w, c) ==
    LET e == lookupKeyWrite(w, c.d, c.k)
        f == lookupKeyWrite(e, c.d2, c.k)
        m == Delete(Place(f, c.d, c.k, c.d2, c.k), c.d, c.k)
    IN  IF ~Has(e, c.d, c.k) THEN e
        ELSE IF Has(f, c.d2, c.k) THEN f
        ELSE Propagate(Touch(Touch(m, c.d, c.k), c.d2, c.k), c)

Copy(w, c) ==
    LET e == lookupKeyWrite(w, c.d, c.k)
        f == lookupKeyWrite(e, c.d2, c.k2)
        m == Place(Delete(f, c.d2, c.k2), c.d, c.k, c.d2, c.k2)
    IN  IF ~Has(e, c.d, c.k) THEN e
        ELSE IF Has(f, c.d2, c.k2) /\ ~c.replace THEN f
        ELSE Propagate(Touch(m, c.d2, c.k2), c)

\* touchAllWatchedKeysInDb, after the swap; only keys that exist on a side
SwapOfOne(w, c) == {<<c.d, k>> : k \in {j \in KKey : Has(w, c.d, j)}} \cup {<<c.d2, k>> : k \in {j \in KKey : Has(w, c.d2, j)}}
SwapTouched(w, c) == {c.d, c.d2} \X {k \in KKey : Has(w, c.d, k) \/ Has(w, c.d2, k)}
SwapDb(w, c) ==
    Propagate([w EXCEPT !.db[c.d] = w.db[c.d2], !.db[c.d2] = w.db[c.d], !.touched = @ \cup SwapTouched(w, c)], c)

\* emptyDb of one database or of all
EmptyDbs(w, c) ==
    Propagate([w EXCEPT !.db = [d \in KDb |-> IF d \in c.ds THEN EmptyDb ELSE @[d]],
                        !.touched = @ \cup {p \in c.ds \X KKey : Has(w, p[1], p[2])}], c)

Run(w, c) ==
    CASE c.op = "set"     -> SetGeneric(w, c)
      [] c.op = "del"     -> DelGeneric(w, c)
      [] c.op = "expire"  -> ExpireGeneric(w, c)
      [] c.op = "persist" -> Persist(w, c)
      [] c.op = "rename"  -> Rename(w, c)
      [] c.op = "move"    -> Move(w, c)
      [] c.op = "copy"    -> Copy(w, c)
      [] c.op = "swap"    -> SwapDb(w, c)
      [] c.op = "flush"   -> EmptyDbs(w, c)

SetCommands ==
    {c \in [op : {"set"}, d : KDb, k : KKey, v : KValue, cond : {"none", "nx", "xx"}, keepttl : BOOLEAN, ttl : Ttl \cup {0}] :
        c.keepttl => c.ttl = 0 /\ c.cond = "none"}
KeyCommands ==
    [op : {"del", "persist"}, d : KDb, k : KKey]
        \cup {c \in [op : {"expire"}, d : KDb, k : KKey, t : Ttl \cup {0}, abs : BOOLEAN] : c.abs => c.t > 0}
TwoKeyCommands ==
    {c \in [op : {"rename"}, d : KDb, k : KKey, k2 : KKey, nx : BOOLEAN] : c.k # c.k2}
        \cup {c \in [op : {"move"}, d : KDb, d2 : KDb, k : KKey] : c.d # c.d2}
        \cup {c \in [op : {"copy"}, d : KDb, d2 : KDb, k : KKey, k2 : KKey, replace : BOOLEAN] : c.d # c.d2 \/ c.k # c.k2}
DbCommands ==
    {c \in [op : {"swap"}, d : KDb, d2 : KDb] : c.d < c.d2}
        \cup {[op |-> "flush", ds |-> ds] : ds \in {{d} : d \in KDb} \cup {KDb}}
Commands == SetCommands \cup KeyCommands \cup TwoKeyCommands \cup DbCommands

-----------------------------------------------------------------------------
\* touchWatchedKey: the watcher is marked if one of its keys was touched.
Effect(w) ==
    /\ kmaster' = w.db
    /\ link' = link \o w.out
    /\ Len(link') <= MaxLink
    /\ UNCHANGED <<kreplica, now, paused>>
Marked(w) == [watcher EXCEPT !.cas = @ \/ w.touched \cap watcher.keys # {}]

\* Writes wait while clients are paused.
Client ==
    \E c \in Commands :
        LET w == Run(Work(kmaster, FALSE), c) IN
        /\ ~paused /\ ncmd < MaxCmd
        /\ Effect(w) /\ watcher' = Marked(w) /\ ncmd' = ncmd + 1 /\ klast' = c.op

\* lookupKeyReadWithFlags on the master: a key found expired is deleted
Read ==
    \E d \in KDb, k \in KKey :
        LET w == expireIfNeeded(Work(kmaster, FALSE), d, k) IN
        w.db # kmaster /\ Effect(w) /\ watcher' = Marked(w) /\ klast' = "read" /\ UNCHANGED ncmd

\* activeExpireCycle: the expired keys among those it samples.
RECURSIVE DeleteAll(_, _)
DeleteAll(w, ps) ==
    IF ps = {} THEN w
    ELSE LET p == CHOOSE q \in ps : TRUE IN DeleteAll(DeleteAndPropagate(w, p[1], p[2]), ps \ {p})
ActiveExpireCycle ==
    \E ps \in SUBSET (KDb \X KKey) :
        LET m == Work(kmaster, FALSE)
            w == DeleteAll(m, ps)
        IN  /\ ~paused /\ ps # {} /\ \A p \in ps : Expired(m, p[1], p[2])
            /\ Effect(w) /\ watcher' = Marked(w) /\ klast' = "cycle" /\ UNCHANGED ncmd

\* performEvictions, of one key
Evict ==
    \E d \in KDb, k \in KKey :
        LET m == Work(kmaster, FALSE)
            w == DeleteAndPropagate(m, d, k)
        IN  /\ ~paused /\ ncmd < MaxCmd /\ Has(m, d, k)
            /\ Effect(w) /\ watcher' = Marked(w) /\ ncmd' = ncmd + 1 /\ klast' = "evict"

Tick == now < MaxNow /\ now' = now + 1 /\ klast' = "tick" /\ UNCHANGED <<kmaster, kreplica, link, paused, watcher, ncmd>>
Pause == paused' = ~paused /\ klast' = "pause" /\ UNCHANGED <<kmaster, kreplica, link, now, watcher, ncmd>>

\* The replica runs the next command of its master, at the time it is then.
Replicate ==
    /\ link # <<>>
    /\ kreplica' = Run(Work(kreplica, TRUE), Head(link)).db
    /\ link' = Tail(link) /\ klast' = "replicate"
    /\ UNCHANGED <<kmaster, now, paused, watcher, ncmd>>

-----------------------------------------------------------------------------
(* WATCH, MULTI, EXEC.  snap is what the client could see when it watched.    *)
Others == UNCHANGED <<kmaster, kreplica, link, now, paused, ncmd>>
watchCommand ==
    \E d \in KDb, k \in KKey :
        /\ ~watcher.multi /\ <<d, k>> \notin watcher.keys /\ Cardinality(watcher.keys) < MaxWatch
        /\ watcher' = [watcher EXCEPT !.keys = @ \cup {<<d, k>>}, !.snap = [p \in DOMAIN @ \cup {<<d, k>>} |->
                            IF p \in DOMAIN @ THEN @[p] ELSE Visible(Work(kmaster, FALSE), d, k)]]
        /\ klast' = "watch" /\ Others
multiCommand == ~watcher.multi /\ watcher.keys # {} /\ watcher' = [watcher EXCEPT !.multi = TRUE] /\ klast' = "multi" /\ Others
flagTransaction == watcher.multi /\ watcher' = [watcher EXCEPT !.error = TRUE] /\ klast' = "flag" /\ Others
discardTransaction == watcher.multi /\ watcher' = Idle /\ klast' = "discard" /\ Others
unwatchCommand == ~watcher.multi /\ watcher.keys # {} /\ watcher' = Idle /\ klast' = "unwatch" /\ Others

isWatchedKeyExpired == \E p \in watcher.keys : Expired(Work(kmaster, FALSE), p[1], p[2])
Aborted == watcher.cas \/ watcher.error \/ isWatchedKeyExpired
execAbort == watcher.multi /\ Aborted /\ watcher' = Idle /\ klast' = "abort" /\ Others
\* The queued command is run with the keys no longer watched.
execCommand ==
    \E c \in Commands :
        LET w == Run(Work(kmaster, FALSE), c) IN
        /\ c.op \in QueuedOp /\ watcher.multi /\ ~Aborted /\ ~paused
        /\ Effect(w) /\ watcher' = Idle /\ klast' = "exec" /\ UNCHANGED ncmd

KNext ==
    \/ Client \/ Read \/ ActiveExpireCycle \/ Evict \/ Tick \/ Pause \/ Replicate
    \/ watchCommand \/ multiCommand \/ flagTransaction \/ discardTransaction \/ unwatchCommand \/ execAbort \/ execCommand
KSpec == KInit /\ [][KNext]_kvars

-----------------------------------------------------------------------------
\* A deadline belongs to a key that exists, on both servers, after any mix of
\* renames, moves, swaps, flushes, expirations and evictions (the assertions in
\* getExpire, setExpire and removeExpire).
DeadlinesHaveKeys ==
    \A db \in {kmaster, kreplica} : \A d \in KDb, k \in KKey : db[d].exp[k] # 0 => db[d].dict[k] # 0

\* Once the replica has run all that was propagated, it has the keys and the
\* values of the master, the same keys have deadlines there, and none is sooner:
\* the replica has neither expired a key itself nor missed one the master
\* expired or evicted (expireIfNeeded, propagateExpire).
ReplicaHasKeys ==
    link = <<>> =>
        \A d \in KDb, k \in KKey :
            LET m == kmaster[d]
                r == kreplica[d]
            IN  m.dict[k] = r.dict[k] /\ (m.exp[k] = 0 <=> r.exp[k] = 0) /\ m.exp[k] <= r.exp[k]

\* EXEC runs the transaction only if the client would still see, for every key
\* it watches, what it saw when it called WATCH, whether the key was changed by
\* a client, expired, was evicted, or its database was swapped or flushed.
ExecOnlyIfUnchanged ==
    klast' = "exec" =>
       \A p \in watcher.keys : Visible(Work(kmaster, FALSE), p[1], p[2]) = watcher.snap[p]

\* While writes are paused nothing changes in the databases of the master and
\* nothing is added to the replication stream, even if keys expire and are read
\* (checkClientPauseTimeoutAndReturnIfPaused).
PausedMeansQuiet == paused /\ paused' => kmaster' = kmaster /\ Len(link') <= Len(link)
=============================================================================
