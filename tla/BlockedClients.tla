--------------------------- MODULE BlockedClients ---------------------------
(***************************************************************************)
(* Clients blocked on lists and sorted sets (redis-6.2.7/src/blocked.c, with   *)
(* the blocking commands of t_list.c and t_zset.c): BLPOP, BLMOVE and BZPOPMIN *)
(* queue a client at its keys; a key that is added to the database is signalled *)
(* as ready, and after the command, or the transaction, clients are served in  *)
(* turn.  What is done for them is propagated to a replica.  Elements are      *)
(* numbered in the order they are pushed.                                    *)
(***************************************************************************)
EXTENDS Integers, Sequences, FiniteSets, SequencesExt

CONSTANTS
    BKey,      \* the keys
    Client,
    MaxPush    \* bound: elements pushed

VARIABLES
    bsrv,      \* the database, the queues of the clients, the keys that are ready
    brepl,     \* the database of the replica
    pushed,    \* the number of elements pushed so far
    taken,     \* the elements clients were given
    gone,      \* the elements deleted with their key
    arrival,   \* the clients of each key in the order they blocked
    mixed,     \* the keys at which clients of both types have waited
    overwritten, \* the keys overwritten by a value of another type
    served     \* who was served in the last step: client, key

bcvars == <<bsrv, brepl, pushed, taken, gone, arrival, mixed, overwritten, served>>

NoValue == [type |-> "none", v |-> <<>>]
String == [type |-> "string", v |-> <<>>]
List(s) == [type |-> "list", v |-> s]
ZSet(s) == [type |-> "zset", v |-> s]
Idle == [btype |-> "none", keys |-> {}]

\* ready is server.ready_keys, marked is db->ready_keys; out and prop are what
\* the running command gives to clients and to the replica.
BcInit ==
    /\ bsrv = [db |-> [k \in BKey |-> NoValue], queue |-> [k \in BKey |-> <<>>],
               client |-> [c \in Client |-> Idle], ready |-> <<>>, marked |-> {},
               out |-> <<>>, prop |-> <<>>]
    /\ brepl = bsrv.db
    /\ pushed = 0 /\ taken = {} /\ gone = {} /\ served = <<>>
    /\ arrival = bsrv.queue /\ mixed = {} /\ overwritten = {}

-----------------------------------------------------------------------------
(* Lists and sorted sets                                                     *)

Push(s, where, e) == IF where = "left" THEN <<e>> \o s ELSE Append(s, e)
BcPop(s, where) == IF where = "left" THEN Tail(s) ELSE Front(s)
End(s, where) == IF where = "left" THEN Head(s) ELSE Last(s)
\* A key is deleted with its last element.
BcKept(o) == IF o.v = <<>> /\ o.type # "string" THEN NoValue ELSE o

\* lmoveGenericCommand
Move(db, x) ==
    LET e == End(db[x.key].v, x.where)
        popped == [db EXCEPT ![x.key] = List(BcPop(@.v, x.where))]
        moved == [popped EXCEPT ![x.dst] = List(Push(@.v, x.whereto, e))]
    IN  [moved EXCEPT ![x.key] = BcKept(@)]

\* renameGenericCommand
Rename(db, x) == [db EXCEPT ![x.key] = NoValue, ![x.dst] = db[x.key]]

\* What a command that does not block does to a database: pushGenericCommand,
\* popGenericCommand, lmoveGenericCommand, zaddCommand (an element is its own
\* score), genericZpopCommand, delCommand, setCommand, renameCommand, and
\* sortCommand with STORE.
BcEffect(db, x) ==
    CASE x.cmd = "push" -> [db EXCEPT ![x.key] = List(Push(@.v, x.where, x.elem))]
      [] x.cmd = "pop" -> [db EXCEPT ![x.key] = BcKept(List(BcPop(@.v, x.where)))]
      [] x.cmd = "move" -> Move(db, x)
      [] x.cmd = "zadd" -> [db EXCEPT ![x.key] = ZSet(SortSeq(Append(@.v, x.elem), <))]
      [] x.cmd = "zpop" -> [db EXCEPT ![x.key] = BcKept(ZSet(Tail(@.v)))]
      [] x.cmd = "del" -> [db EXCEPT ![x.key] = NoValue]
      [] x.cmd = "set" -> [db EXCEPT ![x.key] = String]
      [] x.cmd = "store" -> [db EXCEPT ![x.key] = List(<<x.elem>>)]
      [] x.cmd = "rename" -> Rename(db, x)

\* checkType, and the replies of the commands that find no key
Accepted(db, x) ==
    CASE x.cmd = "push" -> db[x.key].type \in {"none", "list"}
      [] x.cmd = "pop" -> db[x.key].type = "list"
      [] x.cmd = "move" -> db[x.key].type = "list" /\ db[x.dst].type \in {"none", "list"}
      [] x.cmd = "zadd" -> db[x.key].type \in {"none", "zset"}
      [] x.cmd = "zpop" -> db[x.key].type = "zset"
      [] x.cmd \in {"del", "rename"} -> db[x.key] # NoValue
      [] x.cmd \in {"set", "store"} -> TRUE

-----------------------------------------------------------------------------
(* Blocking and unblocking                                                   *)

BlockedOf(s, btype) == {c \in Client : s.client[c].btype = btype}

\* signalKeyAsReady, for a key added with a value of this type
signalKeyAsReady(s, k, type) ==
    IF BlockedOf(s, type) = {} \/ s.queue[k] = <<>> \/ k \in s.marked THEN s
    ELSE [s EXCEPT !.ready = Append(@, k), !.marked = @ \cup {k}]

\* The key was not there before (dbAdd), or was deleted first (RENAME); a value
\* stored over another one is no new key (dbOverwrite).
Added(db, x) == {k \in BKey : db[k] = NoValue} \cup (IF x.cmd = "rename" THEN {x.dst} ELSE {})

\* call: the command, the signals of the keys it adds, and its propagation
Signalled(added, s, key) == IF key \in added /\ s.db[key] # NoValue THEN signalKeyAsReady(s, key, s.db[key].type) ELSE s
Call(s, x) ==
    IF ~Accepted(s.db, x) THEN s
    ELSE Signalled(Added(s.db, x), [s EXCEPT !.db = BcEffect(s.db, x), !.prop = Append(@, x)],
                   IF x.cmd \in {"move", "rename"} THEN x.dst ELSE x.key)

\* blockForKeys
blockForKeys(s, c, b) ==
    [s EXCEPT !.client[c] = b, !.queue = [k \in BKey |-> IF k \in b.keys THEN Append(@[k], c) ELSE @[k]]]

\* unblockClient with unblockClientWaitingData
unblockClient(s, c) ==
    [s EXCEPT !.client[c] = Idle, !.queue = [k \in BKey |-> SelectSeq(@[k], LAMBDA d : d # c)]]

-----------------------------------------------------------------------------
(* Serving                                                                   *)

\* lmoveHandlePush for a client served at key k: the destination is added or
\* is a list.
HandlePush(s, b, e) ==
    LET new == [s EXCEPT !.db[b.dst] = List(Push(@.v, b.whereto, e))]
    IN  IF s.db[b.dst] = NoValue THEN signalKeyAsReady(new, b.dst, "list") ELSE new

\* serveClientBlockedOnList: the element is given or moved; if the destination
\* has another type it is pushed back and the client gets an error.
ServeBlocked(s, k, c, e) ==
    LET b == s.client[c]
        popped == [s EXCEPT !.db[k].v = BcPop(@, b.where)]
        pop == [cmd |-> "pop", key |-> k, where |-> b.where]
        move == [cmd |-> "move", key |-> k, where |-> b.where, dst |-> b.dst, whereto |-> b.whereto]
    IN  IF b.dst = "none" THEN [popped EXCEPT !.prop = Append(@, pop), !.out = Append(@, <<c, k, e>>)]
        ELSE IF s.db[b.dst].type \in {"none", "list"}
        THEN [HandlePush(popped, b, e) EXCEPT !.prop = Append(@, move), !.out = Append(@, <<c, k, 0>>)]
        ELSE s

Rotate(s, k) == [s EXCEPT !.queue[k] = Append(Tail(@), Head(@))]

\* serveClientsBlockedOnListKey: n clients are looked at, from the head of the
\* queue; those of the other type are put at its tail.
RECURSIVE ServeList(_, _, _)
ServeList(s, k, n) ==
    IF n = 0 THEN s
    ELSE LET c == Head(s.queue[k]) IN
         IF s.client[c].btype # "list" THEN ServeList(Rotate(s, k), k, n - 1)
         ELSE IF s.db[k].v = <<>> THEN s
         ELSE ServeList(unblockClient(ServeBlocked(s, k, c, End(s.db[k].v, s.client[c].where)), c), k, n - 1)

\* serveClientsBlockedOnSortedSetKey
RECURSIVE ServeZSet(_, _, _)
ServeZSet(s, k, n) ==
    IF n = 0 \/ s.db[k] = NoValue THEN s
    ELSE LET c == Head(s.queue[k])
             popped == [s EXCEPT !.db[k] = BcKept(ZSet(Tail(@.v))), !.out = Append(@, <<c, k, Head(s.db[k].v)>>),
                                 !.prop = Append(@, [cmd |-> "zpop", key |-> k])]
         IN  IF s.client[c].btype # "zset" THEN ServeZSet(Rotate(s, k), k, n - 1)
             ELSE ServeZSet(unblockClient(popped, c), k, n - 1)

\* One key of handleClientsBlockedOnKeys
ServeKey(s, k) ==
    LET t == [s EXCEPT !.marked = @ \ {k}]
    IN  CASE s.db[k].type = "list" -> [ServeList(t, k, Len(t.queue[k])) EXCEPT !.db[k] = BcKept(@)]
          [] s.db[k].type = "zset" -> ServeZSet(t, k, Len(t.queue[k]))
          [] OTHER -> t

\* Mutant: keys that become ready while clients are served are forgotten.
HandleOnce(s) == [FoldLeft(ServeKey, [s EXCEPT !.ready = <<>>], s.ready) EXCEPT !.ready = <<>>, !.marked = {}]

\* handleClientsBlockedOnKeys: until no key is ready
RECURSIVE HandleAll(_)
HandleAll(s) ==
    IF s.ready = <<>> THEN s ELSE HandleAll(FoldLeft(ServeKey, [s EXCEPT !.ready = <<>>], s.ready))

handleClientsBlockedOnKeys(s) == HandleAll(s)

-----------------------------------------------------------------------------
(* Steps.  A step ends with the replica having executed what was propagated.  *)

BcElements(db) == UNION {ToSet(db[k].v) : k \in BKey}
Types(s, k) == {s.client[c].btype : c \in ToSet(s.queue[k])}
Refresh(s) == [s EXCEPT !.out = <<>>, !.prop = <<>>]

\* n elements were pushed, the keys over were overwritten, and the elements
\* lost went with their key.
Finish(s, n, over, lost) ==
    LET given == {o[3] : o \in ToSet(s.out)} \ {0}
    IN  /\ bsrv' = Refresh(s)
        /\ brepl' = FoldLeft(LAMBDA db, x : IF Accepted(db, x) THEN BcEffect(db, x) ELSE db, brepl, s.prop)
        /\ pushed' = pushed + n
        /\ taken' = taken \cup given
        /\ gone' = gone \cup lost
        /\ arrival' = [k \in BKey |->
                         LET here == ToSet(s.queue[k])
                         IN  SelectSeq(arrival[k], LAMBDA c : c \in here)
                             \o SelectSeq(s.queue[k], LAMBDA c : c \notin ToSet(arrival[k]))]
        /\ mixed' = mixed \cup {k \in BKey : Cardinality(Types(s, k)) > 1}
        /\ overwritten' = (overwritten \cup over) \ {k \in BKey : s.db[k] = NoValue}
        /\ served' = [i \in 1 .. Len(s.out) |-> <<s.out[i][1], s.out[i][2]>>]

\* The commands of clients that do not block; e is the next element.
Commands(e) ==
    {[cmd |-> "push", key |-> k, where |-> w, elem |-> e] : k \in BKey, w \in {"left", "right"}}
    \cup {[cmd |-> "zadd", key |-> k, elem |-> e] : k \in BKey}
    \cup {[cmd |-> "store", key |-> k, elem |-> e] : k \in BKey}
Others ==
    [cmd : {"del", "set"}, key : BKey]
    \cup {x \in [cmd : {"rename"}, key : BKey, dst : BKey] : x.key # x.dst}

\* The elements a command deletes; one that is refused is not pushed.
Lost(db, x) ==
    IF ~Accepted(db, x) THEN IF "elem" \in DOMAIN x THEN {x.elem} ELSE {}
    ELSE CASE x.cmd \in {"del", "set", "store"} -> ToSet(db[x.key].v)
           [] x.cmd = "rename" -> ToSet(db[x.dst].v)
           [] OTHER -> {}

Over(db, x) == IF x.cmd = "store" /\ db[x.key].type \notin {"none", "list"} THEN {x.key} ELSE {}

\* A command, or a transaction of two, of a client that does not block
Transaction ==
    \E x \in Commands(pushed + 1) :
        \/ /\ pushed < MaxPush
           /\ Finish(handleClientsBlockedOnKeys(Call(bsrv, x)), 1, Over(bsrv.db, x), Lost(bsrv.db, x))
        \/ \E y \in Commands(pushed + 2) \cup Others :
             /\ pushed + (IF "elem" \in DOMAIN y THEN 2 ELSE 1) <= MaxPush
             /\ \E mid \in {Call(bsrv, x)} :
                Finish(handleClientsBlockedOnKeys(Call(mid, y)), IF "elem" \in DOMAIN y THEN 2 ELSE 1,
                       Over(bsrv.db, x) \cup Over(mid.db, y), Lost(bsrv.db, x) \cup Lost(mid.db, y))

Simple == \E x \in Others : Accepted(bsrv.db, x) /\ Finish(handleClientsBlockedOnKeys(Call(bsrv, x)), 0, {}, Lost(bsrv.db, x))

\* The commands that block: the first of the keys with an element is popped
\* (blockingPopGenericCommand, blockingGenericZpopCommand), a list of the wrong
\* type is an error, and with nothing to pop the client blocks.
FirstHit(keys) == LET hit == {i \in 1 .. Len(keys) : bsrv.db[keys[i]] # NoValue}
                  IN  IF hit = {} THEN 0 ELSE CHOOSE i \in hit : \A j \in hit : i <= j

\* Popped at once: the command is rewritten into the one that does not block.
PopNow(c, x) ==
    LET e == End(bsrv.db[x.key].v, IF x.cmd = "zpop" THEN "left" ELSE x.where)
        out == IF x.cmd = "move" THEN bsrv.out ELSE <<<<c, x.key, e>>>>
    IN  Finish(handleClientsBlockedOnKeys([Call(bsrv, x) EXCEPT !.out = out]), 0, {}, {})

BlockingPop(c, keys, btype, where) ==
    LET i == FirstHit(keys)
        b == [btype |-> btype, keys |-> ToSet(keys), where |-> where, dst |-> "none", whereto |-> "left"]
        x == IF btype = "zset" THEN [cmd |-> "zpop", key |-> keys[i]] ELSE [cmd |-> "pop", key |-> keys[i], where |-> where]
    IN  /\ bsrv.client[c] = Idle
        /\ IF i = 0 THEN Finish(blockForKeys(bsrv, c, b), 0, {}, {})
           ELSE bsrv.db[keys[i]].type = btype /\ PopNow(c, x)

\* blmoveGenericCommand
BlockingMove(c, k, dst) ==
    LET b == [btype |-> "list", keys |-> {k}, where |-> "right", dst |-> dst, whereto |-> "left"]
        x == [cmd |-> "move", key |-> k, where |-> "right", dst |-> dst, whereto |-> "left"]
    IN  /\ bsrv.client[c] = Idle
        /\ IF bsrv.db[k] = NoValue THEN Finish(blockForKeys(bsrv, c, b), 0, {}, {})
           ELSE Accepted(bsrv.db, x) /\ PopNow(c, x)

\* The timeout of the client, CLIENT UNBLOCK, or its disconnection
Unblock(c) == bsrv.client[c] # Idle /\ Finish(unblockClient(bsrv, c), 0, {}, {})

\* disconnectAllBlockedClients
DisconnectAll ==
    /\ \E c \in Client : bsrv.client[c] # Idle
    /\ Finish(FoldLeft(unblockClient, bsrv, SetToSeq({c \in Client : bsrv.client[c] # Idle})), 0, {}, {})

KeyLists == {<<k>> : k \in BKey} \cup {<<j, k>> : j, k \in BKey}

BcNext ==
    \/ Transaction
    \/ Simple
    \/ \E c \in Client, keys \in KeyLists, where \in {"left", "right"} : BlockingPop(c, keys, "list", where)
    \/ \E c \in Client, k \in BKey : BlockingPop(c, <<k>>, "zset", "left")
    \/ \E c \in Client, k, dst \in BKey : BlockingMove(c, k, dst)
    \/ \E c \in Client : Unblock(c)
    \/ DisconnectAll

BcSpec == BcInit /\ [][BcNext]_bcvars

-----------------------------------------------------------------------------
(* Properties                                                                *)

\* The queue of a key and the keys of a client mirror each other, and between
\* commands no key is left to be served.
WaitersListed ==
    /\ bsrv.ready = <<>> /\ bsrv.marked = {}
    /\ \A k \in BKey, c \in Client :
         Cardinality({i \in 1 .. Len(bsrv.queue[k]) : bsrv.queue[k][i] = c}) = IF k \in bsrv.client[c].keys THEN 1 ELSE 0

InVain(k) == \E c \in ToSet(bsrv.queue[k]) : bsrv.client[c].btype = bsrv.db[k].type

\* No client goes on waiting at a key that holds what it waits for, however the
\* key came to be, in a transaction or served to somebody else; a key that was
\* overwritten by a value of another type is the exception.
NobodyWaitsInVain == \A k \in BKey \ overwritten : ~InVain(k)

\* "we serve all the clients waiting for this list, from the one that blocked
\* first, to the last": whoever is served at a key, nobody of the same type
\* blocked there before and is still blocked.
InTurn(k) ==
    \A i \in 1 .. Len(served') :
        served'[i][2] = k =>
            LET c == served'[i][1]
                at == {j \in 1 .. Len(arrival[k]) : arrival[k][j] = c}
            IN  \A j \in at : \A h \in 1 .. j - 1 :
                  bsrv.client[arrival[k][h]].btype = bsrv.client[c].btype
                    => arrival[k][h] \notin ToSet(arrival'[k])

\* The same at the keys where only one type of client has ever waited.
ServedInTurnUnmixed == \A k \in BKey \ mixed : InTurn(k)

\* The replica pops and moves what was popped and moved for blocked clients.
ReplicaHasLists == brepl = bsrv.db

\* An element pushed is in one list, or was given to one client, or went with
\* its key; none is lost between being popped and being served.
NothingLost ==
    /\ BcElements(bsrv.db) \cap (taken \cup gone) = {} /\ taken \cap gone = {}
    /\ BcElements(bsrv.db) \cup taken \cup gone = 1 .. pushed
    /\ \A j, k \in BKey : j # k => ToSet(bsrv.db[j].v) \cap ToSet(bsrv.db[k].v) = {}
=============================================================================
