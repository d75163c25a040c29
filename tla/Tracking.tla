------------------------------ MODULE Tracking ------------------------------
(***************************************************************************)
(* Server assisted client side caching (redis-6.2.7/src/tracking.c with        *)
(* CLIENT TRACKING, CLIENT CACHING and HELLO of networking.c and the calls in    *)
(* server.c): the table of keys a client may have cached, broadcast prefixes,    *)
(* redirection, the limit of the table, invalidations that wait for the reply    *)
(* of the running command, and what the clients keep in their caches.           *)
(***************************************************************************)
EXTENDS Integers, Sequences, FiniteSets, SequencesExt, FiniteSetsExt

CONSTANTS
    TClients, TKeys,    \* keys and prefixes are sequences
    TOptions,           \* options of CLIENT TRACKING ON
    TProtos,            \* protocol versions clients start with
    TableMax,           \* tracking-table-max-keys
    MaxCalls            \* commands of a behaviour
Nobody == "nobody"

VARIABLES
    tcl,                \* the clients
    ttab, titems, tnum, \* TrackingTable, TrackingTableTotalItems, server.tracking_clients
    tpre,               \* PrefixTable: the clients and the changed keys (with the writer) of a prefix
    tpend,              \* server.tracking_pending_keys
    tmsgs,              \* what was sent to a client: keys, <<"all">>, <<"broken">>
    tcache, tstale,     \* keys in a client's cache, and those among them that changed since
    tdown,              \* an assertion failed
    tcalls

tkvars == <<tcl, ttab, titems, tnum, tpre, tpend, tmsgs, tcache, tstale, tdown, tcalls>>

All == <<"all">>
Broken == <<"broken">>
NewTc(proto) == [alive |-> TRUE, on |-> FALSE, bcast |-> FALSE, optin |-> FALSE, optout |-> FALSE, noloop |-> FALSE, redir |-> Nobody,
                 broken |-> FALSE, pref |-> {}, caching |-> FALSE, resp |-> proto, pubsub |-> (proto = 2), multi |-> FALSE, queue |-> <<>>]
NoPrefix == [c |-> {}, keys |-> <<>>]      \* keys: pairs of a key and the last client that changed it
AllPrefixes == {<<>>} \cup UNION {Range(o.prefs) : o \in TOptions}

-----------------------------------------------------------------------------
(* The server's side.  s is the state of the tables while a command runs: *)
Here == [cl |-> tcl, tab |-> ttab, items |-> titems, num |-> tnum, pre |-> tpre, pend |-> tpend, msgs |-> tmsgs, cur |-> Nobody]
Track(s) ==
    /\ tcl' = s.cl /\ ttab' = s.tab /\ titems' = s.items /\ tnum' = s.num /\ tpre' = s.pre /\ tpend' = s.pend /\ tmsgs' = s.msgs

\* sendTrackingMessage: to the client or the one it redirects to; in RESP2 only a
\* redirection to a subscribed client gets it
Send(s, c, what) ==
    LET r == s.cl[c].redir
        to == IF r = Nobody THEN c ELSE r
        hears == s.cl[to].resp > 2 \/ (r # Nobody /\ s.cl[to].pubsub)
    IN  IF r # Nobody /\ ~s.cl[to].alive
        THEN [s EXCEPT !.cl[c].broken = TRUE, !.msgs[c] = IF s.cl[c].resp > 2 THEN @ \cup {Broken} ELSE @]
        ELSE IF hears THEN [s EXCEPT !.msgs[to] = @ \cup what] ELSE s

\* disableTracking
Disabled(s, c) ==
    LET k == s.cl[c]
        gone(p) == [s.pre[p] EXCEPT !.c = @ \ {c}]
        pre == IF ~k.bcast THEN s.pre ELSE [p \in DOMAIN s.pre |-> IF p \notin k.pref THEN s.pre[p] ELSE IF gone(p).c = {} THEN NoPrefix ELSE gone(p)]
        off == [k EXCEPT !.on = FALSE, !.broken = FALSE, !.bcast = FALSE, !.optin = FALSE, !.optout = FALSE, !.caching = FALSE, !.noloop = FALSE,
                         !.pref = IF k.bcast THEN {} ELSE @]
    IN  [s EXCEPT !.pre = pre, !.num = IF k.on THEN @ - 1 ELSE @, !.cl[c] = IF k.on THEN off ELSE k]
Collide(p, r) == IsPrefix(p, r) \/ IsPrefix(r, p)
\* checkPrefixCollisionsOrReply: 0 refuses; a collision among the given ones returns
\* the index of the first, which is 0 only for the first prefix
Collision(c, prefs) ==
    LET old(i) == \E p \in tcl[c].pref : Collide(p, prefs[i])
        given(i) == \E j \in (i + 1)..Len(prefs) : Collide(prefs[i], prefs[j])
        bad == {i \in DOMAIN prefs : old(i) \/ given(i)}
    IN  IF bad = {} THEN 1 ELSE IF old(Min(bad)) THEN 0 ELSE Min(bad) - 1
\* enableTracking
Enabled(s, c, o) ==
    LET k == s.cl[c]
        ps == IF ~o.bcast THEN {} ELSE IF o.prefs = <<>> THEN {<<>>} ELSE Range(o.prefs)
    IN  [s EXCEPT !.num = IF k.on THEN @ ELSE @ + 1,
                  !.cl[c] = [k EXCEPT !.on = TRUE, !.broken = FALSE, !.bcast = o.bcast, !.optin = o.optin, !.optout = o.optout, !.noloop = o.noloop,
                                      !.redir = o.redir, !.pref = @ \cup ps],
                  !.pre = [p \in DOMAIN s.pre |-> IF p \in ps THEN [s.pre[p] EXCEPT !.c = @ \cup {c}] ELSE s.pre[p]]]
\* CLIENT TRACKING ON ...: the checks
Refused(c, o) ==
    \/ o.redir # Nobody /\ ~tcl[IF o.redir = Nobody THEN c ELSE o.redir].alive
    \/ ~o.bcast /\ o.prefs # <<>>
    \/ tcl[c].on /\ tcl[c].bcast # o.bcast
    \/ o.bcast /\ (o.optin \/ o.optout)
    \/ o.optin /\ o.optout
    \/ (o.optin /\ tcl[c].optout) \/ (o.optout /\ tcl[c].optin)
    \/ o.bcast /\ Collision(c, o.prefs) = 0

\* trackingRememberKeys
Remembers(k) == ~((k.optin /\ ~k.caching) \/ (k.optout /\ k.caching))
RememberKeys(s, c, key) ==
    IF ~s.cl[c].on \/ s.cl[c].bcast \/ ~Remembers(s.cl[c]) THEN s
    ELSE [s EXCEPT !.tab[key] = @ \cup {c}, !.items = IF c \in s.tab[key] THEN @ ELSE @ + 1]
ToBroadcast(s, c, key) ==
    [s EXCEPT !.pre = [p \in DOMAIN s.pre |->
        IF s.pre[p].c = {} \/ ~IsPrefix(p, key) THEN s.pre[p]
        ELSE [s.pre[p] EXCEPT !.keys = Append(SelectSeq(@, LAMBDA e : e[1] # key), <<key, c>>)]]]
\* trackingInvalidateKey: c is the client that changed it, if any
InvalidateKey(s, c, key, bcast) ==
    LET t == IF bcast THEN ToBroadcast(s, c, key) ELSE s
        told == {d \in t.tab[key] : t.cl[d].alive /\ t.cl[d].on /\ ~t.cl[d].bcast /\ ~(t.cl[d].noloop /\ d = c)}
        sent == FoldSet(LAMBDA d, u : IF d = s.cur THEN [u EXCEPT !.pend = @ \cup {key}] ELSE Send(u, d, {key}), t, told)
    IN  [sent EXCEPT !.items = @ - Cardinality(t.tab[key]), !.tab[key] = {}]
\* trackingInvalidateKeysOnFlush
InvalidateAll(s) ==
    LET told == IF s.num = 0 THEN s ELSE FoldSet(LAMBDA d, u : Send(u, d, {All}), s, {d \in TClients : s.cl[d].alive /\ s.cl[d].on})
    IN  [told EXCEPT !.tab = [k \in TKeys |-> {}], !.items = 0]
\* trackingLimitUsedSlots: random keys go until the table is small enough
Used(s) == {k \in TKeys : s.tab[k] # {}}
Evictable(s) == IF s.num = 0 \/ Cardinality(Used(s)) <= TableMax THEN {{}} ELSE kSubset(Cardinality(Used(s)) - TableMax, Used(s))
LimitUsedSlots(s, e) == FoldSet(LAMBDA k, u : InvalidateKey(u, Nobody, k, FALSE), s, e)
\* trackingHandlePendingKeyInvalidations
HandlePending(s) == [(IF s.pend = {} THEN s ELSE Send(s, s.cur, s.pend)) EXCEPT !.pend = {}]
\* trackingBroadcastInvalidationMessages
Broadcast(s) ==
    LET keysFor(p, c) == {e[1] : e \in {x \in Range(s.pre[p].keys) : ~(s.cl[c].noloop /\ x[2] = c)}}
        toAll(u, p) == FoldSet(LAMBDA c, v : IF keysFor(p, c) = {} THEN v ELSE Send(v, c, keysFor(p, c)), u, s.pre[p].c)
        sent == FoldSet(LAMBDA p, u : toAll(u, p), s, {p \in DOMAIN s.pre : s.pre[p].keys # <<>>})
    IN  IF s.num = 0 THEN s ELSE [sent EXCEPT !.pre = [p \in DOMAIN @ |-> [@[p] EXCEPT !.keys = <<>>]]]

-----------------------------------------------------------------------------
(* What clients keep: a client caches what it read when it counts on being told *)

Hears(k, cl) == IF k.redir = Nobody THEN k.resp > 2 ELSE cl[k.redir].alive /\ (cl[k.redir].resp > 2 \/ cl[k.redir].pubsub)
Caches(c, key) ==
    LET k == tcl[c] IN
    k.on /\ Hears(k, tcl) /\ (IF k.bcast THEN \E p \in k.pref : IsPrefix(p, key) ELSE Remembers(k))
Changed(c, key) ==      \* everybody's copy is stale, but for a NOLOOP client's own change
    [d \in TClients |-> IF d = c /\ tcl[d].noloop THEN tstale[d] \ {key} ELSE IF key \in tcache[d] THEN tstale[d] \cup {key} ELSE tstale[d]]

\* A NOLOOP client keeps what it wrote in broadcast mode only: its own change takes the
\* key out of the table, nobody would tell it of the next one
Own(c, key) == IF tcl[c].noloop /\ ~tcl[c].bcast THEN [tcache EXCEPT ![c] = @ \ {key}] ELSE tcache

-----------------------------------------------------------------------------
TkInit ==
    /\ \E f \in [TClients -> TProtos] : tcl = [c \in TClients |-> NewTc(f[c])]
    /\ ttab = [k \in TKeys |-> {}] /\ titems = 0 /\ tnum = 0 /\ tpre = [p \in AllPrefixes |-> NoPrefix] /\ tpend = {}
    /\ tmsgs = [c \in TClients |-> {}] /\ tcache = [c \in TClients |-> {}] /\ tstale = [c \in TClients |-> {}] /\ tdown = FALSE /\ tcalls = 0

\* A command passes processCommand, which limits the table, then call(), which sends
\* what waits for the reply; resetClient forgets CLIENT CACHING.
Begun(c, e) == LimitUsedSlots([Here EXCEPT !.cur = c], e)
Ended(s, c, keep) == [HandlePending(s) EXCEPT !.cl[c].caching = IF keep THEN @ ELSE FALSE]
Running(c) == ~tdown /\ tcl[c].alive /\ tcalls < MaxCalls /\ tcalls' = tcalls + 1 /\ tdown' = FALSE
Free(c) == Running(c) /\ ~tcl[c].multi

ReadKey(c, key) ==
    /\ Free(c)
    /\ \E e \in Evictable(Here) : Track(Ended(RememberKeys(Begun(c, e), c, key), c, FALSE))
    /\ tcache' = IF Caches(c, key) THEN [tcache EXCEPT ![c] = @ \cup {key}] ELSE tcache
    /\ tstale' = IF Caches(c, key) THEN [tstale EXCEPT ![c] = @ \ {key}] ELSE tstale
\* As ReadKey, the key having expired: it is changed by nobody while c runs
ReadExpired(c, key) ==
    /\ Free(c)
    /\ \E e \in Evictable(Here) : Track(Ended(RememberKeys(InvalidateKey(Begun(c, e), Nobody, key, TRUE), c, key), c, FALSE))
    /\ tcache' = IF Caches(c, key) THEN [tcache EXCEPT ![c] = @ \cup {key}] ELSE tcache
    /\ tstale' = IF Caches(c, key) THEN [Changed(Nobody, key) EXCEPT ![c] = @ \ {key}] ELSE Changed(Nobody, key)
TkWrite(c, key) ==
    /\ Free(c)
    /\ \E e \in Evictable(Here) : Track(Ended(InvalidateKey(Begun(c, e), c, key, TRUE), c, FALSE))
    /\ tstale' = Changed(c, key) /\ tcache' = Own(c, key)
Flush(c) ==
    /\ Free(c)
    /\ \E e \in Evictable(Here) : Track(Ended(InvalidateAll(Begun(c, e)), c, FALSE))
    /\ tstale' = tcache /\ UNCHANGED tcache
\* MULTI, a queued SET, EXEC: a queued command is no call()
Multi(c) ==
    /\ Free(c) /\ \E e \in Evictable(Here) : Track([Ended(Begun(c, e), c, TRUE) EXCEPT !.cl[c].multi = TRUE, !.cl[c].queue = <<>>])
    /\ UNCHANGED <<tcache, tstale>>
Queue(c, key) ==
    /\ Running(c) /\ tcl[c].multi /\ tcl[c].queue = <<>>
    /\ \E e \in Evictable(Here) : Track([Begun(c, e) EXCEPT !.cl[c].queue = <<key>>])
    /\ UNCHANGED <<tcache, tstale>>
Exec(c) ==
    /\ Running(c) /\ tcl[c].multi
    /\ \E e \in Evictable(Here) :
         LET s == Begun(c, e)
             t == IF tcl[c].queue = <<>> THEN s ELSE InvalidateKey(s, c, tcl[c].queue[1], TRUE)
         IN  Track([Ended(t, c, FALSE) EXCEPT !.cl[c].multi = FALSE, !.cl[c].queue = <<>>])
    /\ tstale' = IF tcl[c].queue = <<>> THEN tstale ELSE Changed(c, tcl[c].queue[1])
    /\ tcache' = IF tcl[c].queue = <<>> THEN tcache ELSE Own(c, tcl[c].queue[1])

\* CLIENT TRACKING ON, OFF and CLIENT CACHING; a client that changes its mode starts
\* with an empty cache
TrackingOn(c, o) ==
    /\ Free(c) /\ ~Refused(c, o) /\ \E e \in Evictable(Here) : Track(Ended(Enabled(Begun(c, e), c, o), c, TRUE))
    /\ tcache' = [tcache EXCEPT ![c] = {}] /\ tstale' = [tstale EXCEPT ![c] = {}]
TrackingOff(c) ==
    /\ Free(c) /\ \E e \in Evictable(Here) : Track(Ended(Disabled(Begun(c, e), c), c, TRUE))
    /\ tcache' = [tcache EXCEPT ![c] = {}] /\ tstale' = [tstale EXCEPT ![c] = {}]
Caching(c) ==           \* YES with OPTIN, NO with OPTOUT
    /\ Free(c) /\ tcl[c].on /\ (tcl[c].optin \/ tcl[c].optout)
    /\ \E e \in Evictable(Here) : Track(Ended([Begun(c, e) EXCEPT !.cl[c].caching = TRUE], c, TRUE)) /\ UNCHANGED <<tcache, tstale>>
\* HELLO 2 or 3: a client that changes it empties its cache
Hello(c, v) ==
    /\ Free(c) /\ tcl[c].resp # v /\ \E e \in Evictable(Here) : Track(Ended([Begun(c, e) EXCEPT !.cl[c].resp = v], c, FALSE))
    /\ LET lost == {d \in TClients : d = c \/ tcl[d].redir = c}
       IN  tcache' = [d \in TClients |-> IF d \in lost THEN {} ELSE tcache[d]] /\ tstale' = [d \in TClients |-> IF d \in lost THEN {} ELSE tstale[d]]
\* The connection ends; a client that redirected to it knows, as both are its own
Close(c) ==
    /\ Running(c) /\ Track([Disabled(Here, c) EXCEPT !.cl[c].alive = FALSE, !.msgs[c] = {}])
    /\ LET lost == {d \in TClients : d = c \/ tcl[d].redir = c}
       IN  tcache' = [d \in TClients |-> IF d \in lost THEN {} ELSE tcache[d]] /\ tstale' = [d \in TClients |-> IF d \in lost THEN {} ELSE tstale[d]]

\* beforeSleep: its assertion, then the broadcast messages
TkBeforeSleep ==
    /\ ~tdown
    /\ IF tpend # {} THEN tdown' = TRUE /\ UNCHANGED <<tcl, ttab, titems, tnum, tpre, tpend, tmsgs>> ELSE tdown' = FALSE /\ Track(Broadcast(Here))
    /\ UNCHANGED <<tcache, tstale, tcalls>>
\* A client reads its messages: they concern it and the clients that redirect to it
Deliver(c) ==
    LET ours == {d \in TClients : d = c \/ tcl[d].redir = c}
        drop(d) == IF (d \in ours /\ All \in tmsgs[c]) \/ (d = c /\ Broken \in tmsgs[c]) THEN TKeys ELSE IF d \in ours THEN tmsgs[c] ELSE {}
    IN  /\ ~tdown /\ tcl[c].alive /\ tmsgs[c] # {}
        /\ tmsgs' = [tmsgs EXCEPT ![c] = {}]
        /\ tcache' = [d \in TClients |-> tcache[d] \ drop(d)] /\ tstale' = [d \in TClients |-> tstale[d] \ drop(d)]
        /\ UNCHANGED <<tcl, ttab, titems, tnum, tpre, tpend, tdown, tcalls>>

TkNext ==
    \/ \E c \in TClients, k \in TKeys : ReadKey(c, k) \/ ReadExpired(c, k) \/ TkWrite(c, k) \/ Queue(c, k)
    \/ \E c \in TClients : Flush(c) \/ Multi(c) \/ Exec(c) \/ TrackingOff(c) \/ Caching(c) \/ Close(c) \/ Deliver(c)
    \/ \E c \in TClients, o \in TOptions : TrackingOn(c, o)
    \/ \E c \in TClients, v \in {2, 3} : Hello(c, v)
    \/ TkBeforeSleep
TkSpec == TkInit /\ [][TkNext]_tkvars

-----------------------------------------------------------------------------
Target(c) == IF tcl[c].redir = Nobody THEN c ELSE tcl[c].redir

\* A client never relies on a stale copy without being told: what it has cached and
\* somebody changed is in a message to it (or to where it redirects), or waits in a
\* prefix or for the end of the command.
CachesCoherent ==
    \A c \in TClients : tcl[c].alive /\ tcl[c].on /\ Hears(tcl[c], tcl) =>
        \A k \in tstale[c] :
            \/ tmsgs[Target(c)] \cap {k, All} # {}
            \/ k \in tpend
            \/ tcl[c].bcast /\ \E p \in tcl[c].pref : \E e \in Range(tpre[p].keys) : e[1] = k /\ ~(tcl[c].noloop /\ e[2] = c)

\* The tables agree: the number of tracking clients, the number of ids, the prefixes of
\* a client and the clients of a prefix; no prefix keeps a client that is gone.
TablesAgree ==
    /\ tnum = Cardinality({c \in TClients : tcl[c].on})
    /\ titems = FoldSet(LAMBDA k, n : n + Cardinality(ttab[k]), 0, TKeys)
    /\ \A p \in AllPrefixes : tpre[p].c = {c \in TClients : tcl[c].alive /\ tcl[c].on /\ tcl[c].bcast /\ p \in tcl[c].pref}

=============================================================================
