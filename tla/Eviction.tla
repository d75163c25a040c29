------------------------------ MODULE Eviction ------------------------------
(***************************************************************************)
(* Eviction of keys when memory is short (redis-6.2.7/src/evict.c): the pool   *)
(* of candidates that survives from one call to the next and so holds keys     *)
(* that have since been used, deleted or lost their deadline, the loop that     *)
(* may be cut short and resumed by a timer, and the lazy-free thread that       *)
(* gives memory back behind its back.  Every key takes one unit of memory.      *)
(***************************************************************************)
EXTENDS Integers, Sequences, FiniteSets, SequencesExt

CONSTANTS
    EKey,           \* the names of keys (positive numbers)
    Policies,       \* the policies CONFIG SET maxmemory-policy gives
    Lazy,           \* lazyfree-lazy-eviction
    PoolSize,       \* EVPOOL_SIZE
    Samples,        \* maxmemory-samples
    Batch,          \* keys freed between two looks at the clock (16)
    MaxMem,         \* maxmemory
    LruMax,         \* LRU_CLOCK_MAX
    MaxOps          \* bound: operations of clients and of the clock

VARIABLES
    lru,            \* when each key was last used, None if it does not exist
    ttl,            \* its deadline, 0 if it has none
    clock,          \* LRU_CLOCK()
    epool,          \* EvictionPoolLRU: an array of keys (0: NULL) and idle times
    policy, epaused,
    pending,        \* units of memory the lazy-free thread has yet to free
    ev,             \* performEvictions: where it is, for whom it runs, its locals
    procRunning,    \* isEvictionProcRunning
    eresult,        \* what it returned last
    eops

evars == <<lru, ttl, clock, epool, policy, epaused, pending, ev, procRunning, eresult, eops>>

None == -1
Keys == {k \in EKey : lru[k] # None}
Mem(ks) == Cardinality(ks) + pending
Null == [k |-> 0, idle |-> 0]
NotRunning == [pc |-> "out", by |-> "nobody", tofree |-> 0, freed |-> 0, keys |-> 0]

EInit ==
    /\ lru = [k \in EKey |-> None] /\ ttl = [k \in EKey |-> 0] /\ clock = 0
    /\ epool = [i \in 1..PoolSize |-> Null]
    /\ policy \in Policies /\ epaused = FALSE /\ pending = 0
    /\ ev = NotRunning /\ procRunning = FALSE /\ eresult = "none" /\ eops = 0

AllKeys == policy \in {"allkeys-lru", "allkeys-random"}
Candidates == IF policy = "noeviction" THEN {} ELSE IF AllKeys THEN Keys ELSE {k \in Keys : ttl[k] # 0}

\* The clock wraps; the idle time is then short by one.
estimateObjectIdleTime(k) == IF clock >= lru[k] THEN clock - lru[k] ELSE clock + (LruMax - lru[k])
IdleOf(k) == IF policy = "volatile-ttl" THEN 9 - ttl[k] ELSE estimateObjectIdleTime(k)

-----------------------------------------------------------------------------
(* evictionPoolPopulate: a key goes behind the entries less idle than it.  If  *)
(* the pool is full the first entry is dropped, and a key less idle than all   *)
(* is not taken; else the entries from its place on move to the right.         *)
Behind(pool, idle) ==
    CHOOSE n \in 0..PoolSize :
        /\ \A i \in 1..n : pool[i].k # 0 /\ pool[i].idle < idle
        /\ n < PoolSize => pool[n + 1].k = 0 \/ pool[n + 1].idle >= idle
InsertEntry(pool, n, e) ==
    IF n = 0 /\ pool[PoolSize].k # 0 THEN pool
    ELSE IF n < PoolSize /\ pool[n + 1].k = 0 THEN [pool EXCEPT ![n + 1] = e]
    ELSE IF pool[PoolSize].k = 0
    THEN [i \in 1..PoolSize |-> IF i <= n THEN pool[i] ELSE IF i = n + 1 THEN e ELSE pool[i - 1]]
    ELSE [i \in 1..PoolSize |-> IF i < n THEN pool[i + 1] ELSE IF i = n THEN e ELSE pool[i]]
Insert(pool, k) == InsertEntry(pool, Behind(pool, IdleOf(k)), [k |-> k, idle |-> IdleOf(k)])
\* dictGetSomeKeys may return fewer keys than asked for, and the same one twice
SampleSeqs == UNION {[1..n -> Candidates] : n \in 1..Samples}
Populate(pool, samples) == FoldLeft(Insert, pool, samples)

\* The most idle entry that is still a candidate; it and the stale ones are cleared.
BestAmong(pool, ks) ==
    LET good == {i \in 1..PoolSize : pool[i].k \in ks}
    IN  IF good = {} THEN 0 ELSE CHOOSE i \in good : \A j \in good : j <= i
BestEntry(pool) == BestAmong(pool, Candidates)
Cleared(pool, best) == [i \in 1..PoolSize |-> IF i >= best THEN Null ELSE pool[i]]

-----------------------------------------------------------------------------
(* performEvictions, called before a command of a client or by its timer.      *)
\* Not safe to evict, enough memory, or a policy that evicts nothing
Early(by) ==
    /\ ev.pc = "out" /\ (by = "timer" => procRunning)
    /\ epaused \/ Mem(Keys) <= MaxMem \/ policy = "noeviction"
    /\ eresult' = IF epaused \/ Mem(Keys) <= MaxMem THEN "ok" ELSE "fail"
    /\ procRunning' = (procRunning /\ by = "client")
    /\ ev' = [NotRunning EXCEPT !.pc = IF by = "client" /\ eresult' = "ok" THEN "run" ELSE "out"]
    /\ UNCHANGED <<lru, ttl, clock, epool, policy, epaused, pending, eops>>
Begin(by) ==
    /\ ev.pc = "out" /\ (by = "timer" => procRunning)
    /\ ~epaused /\ Mem(Keys) > MaxMem /\ policy # "noeviction"
    /\ ev' = [pc |-> "loop", by |-> by, tofree |-> Mem(Keys) - MaxMem, freed |-> 0, keys |-> 0]
    /\ UNCHANGED <<lru, ttl, clock, epool, policy, epaused, pending, procRunning, eresult, eops>>

\* The key is deleted; with lazy freeing the memory comes back later, and what
\* the thread frees meanwhile counts as freed here.
DeleteBest(k) ==
    /\ lru' = [lru EXCEPT ![k] = None] /\ ttl' = [ttl EXCEPT ![k] = 0]
    /\ \E meanwhile \in 0..pending :
        /\ pending' = pending - meanwhile + (IF Lazy THEN 1 ELSE 0)
        /\ LET freed == ev.freed + meanwhile + (IF Lazy THEN 0 ELSE 1)
               n == ev.keys + 1
               look == n % Batch = 0
               enough == Lazy /\ Cardinality(Keys \ {k}) + pending' <= MaxMem
           IN  \E late \in BOOLEAN :
                /\ late => look /\ ~enough
                /\ procRunning' = (procRunning \/ late)
                /\ ev' = [ev EXCEPT !.freed = freed, !.keys = n,
                                    !.pc = IF late \/ (look /\ enough) THEN "end" ELSE "loop"]

Iterate ==
    /\ ev.pc = "loop" /\ ev.freed < ev.tofree /\ Candidates # {}
    /\ IF policy \in {"allkeys-random", "volatile-random"}
       THEN \E k \in Candidates : DeleteBest(k) /\ UNCHANGED epool
       ELSE \E samples \in SampleSeqs :
                LET pool == Populate(epool, samples)
                    best == BestEntry(pool)
                IN  /\ epool' = Cleared(pool, best)
                    /\ IF best = 0 THEN UNCHANGED <<lru, ttl, pending, ev, procRunning>>
                       ELSE DeleteBest(pool[best].k)
    /\ UNCHANGED <<clock, policy, epaused, eresult, eops>>

Finish ==
    /\ ev.pc = "end" \/ (ev.pc = "loop" /\ ev.freed >= ev.tofree)
    /\ eresult' = IF procRunning THEN "running" ELSE "ok"
    /\ ev' = [NotRunning EXCEPT !.pc = IF ev.by = "client" THEN "run" ELSE "out"]
    /\ UNCHANGED <<lru, ttl, clock, epool, policy, epaused, pending, procRunning, eops>>

\* Nothing to delete: the lazy-free thread gets a last chance
CantFree ==
    /\ ev.pc = "loop" /\ ev.freed < ev.tofree /\ Candidates = {}
    /\ \E meanwhile \in 0..pending : pending' = pending - meanwhile
    /\ eresult' = IF pending > 0 /\ Cardinality(Keys) + pending' <= MaxMem THEN "ok" ELSE "fail"
    /\ ev' = [NotRunning EXCEPT !.pc = IF ev.by = "client" /\ eresult' = "ok" THEN "run" ELSE "out"]
    /\ procRunning' = (procRunning /\ ev.by = "client")
    /\ UNCHANGED <<lru, ttl, clock, epool, policy, epaused, eops>>

LazyFreed ==
    pending > 0 /\ pending' = pending - 1 /\ UNCHANGED <<lru, ttl, clock, epool, policy, epaused, ev, procRunning, eresult, eops>>

-----------------------------------------------------------------------------
(* The command: processCommand refuses it only if the result was EVICT_FAIL.   *)
Operation ==
    /\ ev.pc = "run" /\ ev' = NotRunning /\ eops < MaxOps /\ eops' = eops + 1
    /\ \/ \E k \in EKey, t \in 0..1 : lru' = [lru EXCEPT ![k] = clock] /\ ttl' = [ttl EXCEPT ![k] = t] /\ UNCHANGED policy
       \/ \E k \in Keys : lru' = [lru EXCEPT ![k] = None] /\ ttl' = [ttl EXCEPT ![k] = 0] /\ UNCHANGED policy
       \/ \E k \in Keys, t \in 0..2 : ttl' = [ttl EXCEPT ![k] = t] /\ UNCHANGED <<lru, policy>>
       \/ policy' \in Policies /\ UNCHANGED <<lru, ttl>>
    /\ UNCHANGED <<clock, epool, epaused, pending, procRunning, eresult>>
ClockTick ==
    ev.pc = "out" /\ eops < MaxOps /\ eops' = eops + 1 /\ clock' = (clock + 1) % (LruMax + 1)
    /\ UNCHANGED <<lru, ttl, epool, policy, epaused, pending, ev, procRunning, eresult>>
PauseClients ==
    ev.pc = "out" /\ epaused' = ~epaused /\ UNCHANGED <<lru, ttl, clock, epool, policy, pending, ev, procRunning, eresult, eops>>

ENext ==
    \/ \E by \in {"client", "timer"} : Early(by) \/ Begin(by)
    \/ Iterate \/ Finish \/ CantFree \/ LazyFreed \/ Operation \/ ClockTick \/ PauseClients
ESpec == EInit /\ [][ENext]_evars

-----------------------------------------------------------------------------
\* The entries of the pool are at its left end, in ascending order of idle time,
\* after any mix of insertions, evictions and cleared stale entries: that is what
\* evictionPoolPopulate and the scan from the right rely on.
PoolSorted ==
    \A i \in 1..(PoolSize - 1) : epool[i + 1].k # 0 => epool[i].k # 0 /\ epool[i].idle <= epool[i + 1].idle

\* Under a volatile policy no key without a deadline is evicted, though the pool
\* may hold it from before a PERSIST, a SET or a change of policy.
OnlyCandidatesEvicted ==
    ev.pc = "loop" => \A k \in Keys : lru'[k] = None => k \in Candidates

\* The timer is removed only when memory is back under the limit, nothing is left
\* to evict, or clients are paused (evictionTimeProc).
TimerStopsWhenDone ==
    procRunning /\ ~procRunning' => Cardinality(Keys) + pending' <= MaxMem \/ Candidates = {} \/ epaused

-----------------------------------------------------------------------------
(***************************************************************************)
(* Values freed by a background thread (redis-6.2.7/src/lazyfree.c, bio.c)    *)
(* while the main thread goes on using the objects it still has references    *)
(* to.  Reference counts are plain integers, so a decrement by the thread is   *)
(* a read and a later write.  The main thread runs one command, or one         *)
(* transaction, whose arguments it holds until the end.                        *)
(***************************************************************************)
CONSTANTS
    LKey, LObj,          \* keys, and objects that can be made
    Large,               \* the objects whose free effort is over LAZYFREE_THRESHOLD
    MaxFlush             \* bound: FLUSHALL ASYNC commands

VARIABLES
    ldict,               \* the value of each key, NoObj if there is none
    ref,                 \* refcount, 0 before the object is made and once it is freed
    argv,                \* the objects the arguments of the client refer to
    used,                \* those among them that a command has already stored
    jobs,                \* bio_jobs: each a sequence of objects to release
    bio,                 \* the thread: its place, the objects of its job still to do, the count it read
    lazyfree_objects,    \* the pending objects INFO reports
    freed,               \* history: objects given back to the allocator
    twice,               \* history: an object was released after it had been freed
    flushes

lvars == <<ldict, ref, argv, used, jobs, bio, lazyfree_objects, freed, twice, flushes>>

NoObj == 0
BioIdle == [pc |-> "wait", todo |-> <<>>, val |-> 0]
LInit ==
    /\ ldict = [k \in LKey |-> NoObj] /\ ref = [o \in LObj |-> 0] /\ argv = {} /\ used = {}
    /\ jobs = <<>> /\ bio = BioIdle /\ lazyfree_objects = 0 /\ freed = {} /\ twice = FALSE /\ flushes = 0

-----------------------------------------------------------------------------
(* The main thread at work.                                                   *)
Now == [dict |-> ldict, ref |-> ref, jobs |-> jobs, count |-> lazyfree_objects, freed |-> freed, twice |-> twice]
decrRefCount(w, o) ==
    IF w.ref[o] = 1 THEN [w EXCEPT !.ref[o] = 0, !.freed = @ \cup {o}]
    ELSE IF w.ref[o] = 0 THEN [w EXCEPT !.twice = TRUE]
    ELSE [w EXCEPT !.ref[o] = @ - 1]
incrRefCount(w, o) == [w EXCEPT !.ref[o] = @ + 1]
Submit(w, os) == [w EXCEPT !.jobs = Append(@, os), !.count = @ + Len(os)]
\* freeObjAsync, and the same test in dbAsyncDelete
freeObjAsync(w, o) == IF o \in Large /\ w.ref[o] = 1 THEN Submit(w, <<o>>) ELSE decrRefCount(w, o)
Release(w, o, async) == IF async THEN freeObjAsync(w, o) ELSE decrRefCount(w, o)
dbDelete(w, k, async) ==
    IF w.dict[k] = NoObj THEN w ELSE Release([w EXCEPT !.dict[k] = NoObj], w.dict[k], async)
\* dbAdd, dbOverwrite and the reference setKey takes
setKey(w, k, o, async) ==
    LET a == [incrRefCount(w, o) EXCEPT !.dict[k] = o]
    IN  IF w.dict[k] = NoObj THEN a ELSE Release(a, w.dict[k], async)

Become(w) ==
    /\ ldict' = w.dict /\ ref' = w.ref /\ jobs' = w.jobs /\ lazyfree_objects' = w.count
    /\ freed' = w.freed /\ twice' = w.twice

-----------------------------------------------------------------------------
Parse ==
    \E o \in LObj :
        /\ ref[o] = 0 /\ o \notin freed /\ argv' = argv \cup {o} /\ ref' = [ref EXCEPT ![o] = 1]
        /\ UNCHANGED <<ldict, used, jobs, bio, lazyfree_objects, freed, twice, flushes>>
LSet ==
    \E o \in argv \ used, k \in LKey, async \in BOOLEAN :
        Become(setKey(Now, k, o, async)) /\ used' = used \cup {o} /\ UNCHANGED <<argv, bio, flushes>>
DelOrUnlink ==
    \E k \in LKey, async \in BOOLEAN :
        ldict[k] # NoObj /\ Become(dbDelete(Now, k, async)) /\ UNCHANGED <<argv, used, bio, flushes>>
RenameWithoutReference ==
    \E k, k2 \in LKey, async \in BOOLEAN :
        LET o == ldict[k]
            a == dbDelete(Now, k2, async)
            b == [a EXCEPT !.dict[k2] = o]
        IN  /\ k # k2 /\ o # NoObj
            /\ Become(dbDelete(b, k, async)) /\ UNCHANGED <<argv, used, bio, flushes>>
RenameKey ==
    \E k, k2 \in LKey, async \in BOOLEAN :
        LET o == ldict[k]
            a == dbDelete(incrRefCount(Now, o), k2, async)
            b == [a EXCEPT !.dict[k2] = o]
        IN  /\ k # k2 /\ o # NoObj
            /\ Become(dbDelete(b, k, async)) /\ UNCHANGED <<argv, used, bio, flushes>>
\* emptyDbAsync: the thread gets the whole dictionary
FlushAsync ==
    LET ks == {k \in LKey : ldict[k] # NoObj}
        os == FoldLeft(LAMBDA s, k : IF k \in ks THEN Append(s, ldict[k]) ELSE s, <<>>, SetToSeq(LKey))
    IN  /\ ks # {} /\ flushes < MaxFlush /\ flushes' = flushes + 1
        /\ Become([Submit(Now, os) EXCEPT !.dict = [k \in LKey |-> NoObj]]) /\ UNCHANGED <<argv, used, bio>>
\* freeClientArgv and freeClientMultiState, one argument at a time
FreeArgv ==
    \E o \in argv :
        Become(decrRefCount(Now, o)) /\ argv' = argv \ {o} /\ used' = used \ {o} /\ UNCHANGED <<bio, flushes>>

-----------------------------------------------------------------------------
(* bioProcessBackgroundJobs: the job stays in the list until it is done.       *)
BioTake ==
    /\ bio.pc = "wait" /\ jobs # <<>> /\ bio' = [pc |-> "read", todo |-> Head(jobs), val |-> 0]
    /\ UNCHANGED <<ldict, ref, argv, used, jobs, lazyfree_objects, freed, twice, flushes>>
BioRead ==
    /\ bio.pc = "read" /\ bio.todo # <<>> /\ bio' = [bio EXCEPT !.pc = "write", !.val = ref[Head(bio.todo)]]
    /\ UNCHANGED <<ldict, ref, argv, used, jobs, lazyfree_objects, freed, twice, flushes>>
BioWrite ==
    LET o == Head(bio.todo) IN
    /\ bio.pc = "write" /\ bio' = [pc |-> "read", todo |-> Tail(bio.todo), val |-> 0]
    /\ ref' = [ref EXCEPT ![o] = IF bio.val <= 1 THEN 0 ELSE bio.val - 1]
    /\ freed' = IF bio.val = 1 THEN freed \cup {o} ELSE freed
    /\ twice' = (twice \/ bio.val = 0 \/ o \in freed)
    /\ UNCHANGED <<ldict, argv, used, jobs, lazyfree_objects, flushes>>
\* lazyfreeFreeObject, lazyfreeFreeDatabase: the counters, once all is released
BioEnd ==
    /\ bio.pc = "read" /\ bio.todo = <<>> /\ bio' = BioIdle
    /\ lazyfree_objects' = lazyfree_objects - Len(Head(jobs)) /\ jobs' = Tail(jobs)
    /\ UNCHANGED <<ldict, ref, argv, used, freed, twice, flushes>>

LNext == Parse \/ LSet \/ DelOrUnlink \/ RenameKey \/ FlushAsync \/ FreeArgv \/ BioTake \/ BioRead \/ BioWrite \/ BioEnd
LSpec == LInit /\ [][LNext]_lvars

-----------------------------------------------------------------------------
\* An object that a key or an argument of the running client refers to has not
\* been freed, by either thread, and nothing is released after it was freed.
NoUseAfterFree == ~twice /\ \A o \in freed : o \notin argv /\ \A k \in LKey : ldict[k] # o

\* The pending objects reported by INFO are those of the jobs still in the list,
\* and no object is in two of them.
PendingCounted ==
    LET all == FlattenSeq(jobs) IN
    lazyfree_objects = Len(all) /\ Len(all) = Cardinality({all[i] : i \in 1..Len(all)})
=============================================================================
