-------------------------------- MODULE Dict --------------------------------
(***************************************************************************)
(* The hash table of Redis (redis-6.2.7/src/dict.c), its incremental rehash, *)
(* the iterators and the stateless scan behind SCAN (db.c), and the cron that  *)
(* resizes it (server.c).  A table is a function from bucket numbers to       *)
(* chains; the second one is in use while rehashidx is not -1.                *)
(***************************************************************************)
EXTENDS Integers, Sequences, FiniteSets, SequencesExt

CONSTANTS
    Keys, HashOf,       \* the keys and their hashes
    InitialSize,        \* DICT_HT_INITIAL_SIZE
    EmptyVisits,        \* empty buckets a rehash step may pass (10 in the code)
    ForceRatio,         \* dict_force_resize_ratio
    MinFill,            \* HASHTABLE_MIN_FILL, in percent
    Width,              \* bits of a cursor
    FirstSizes,         \* sizes of the table at the start
    MaxDictOps          \* changes made by clients and the cron

VARIABLES
    ht,                 \* the two tables
    rehashidx,          \* the next bucket to move, or -1
    pauserehash,        \* safe iterators
    canResize,          \* dict_can_resize: no child is running
    contents,           \* the keys that were added and not deleted
    scan,               \* a client that scans: cursor, keys it must still see
    iter,               \* a safe iterator
    sample,             \* the last keys returned by chance
    nDict

dcvars == <<ht, rehashidx, pauserehash, canResize, contents, scan, iter, sample, nDict>>

NoTable == <<>>
Table(n) == [i \in 0..(n - 1) |-> <<>>]
Size(t) == Cardinality(DOMAIN t)
Mask(t) == Size(t) - 1
Slot(k, t) == HashOf[k] % Size(t)
InChain(c) == {c[i] : i \in DOMAIN c}
KeysOf(t) == UNION {InChain(t[i]) : i \in DOMAIN t}
Used(t) == Cardinality(KeysOf(t))
Rehashing(d) == d.idx # -1
Now == [t |-> ht, idx |-> rehashidx]
Be(d) == ht' = d.t /\ rehashidx' = d.idx

\* _dictNextPower
NextPower(n) == CHOOSE s \in {InitialSize * 2^i : i \in 0..Width} :
                    s >= n /\ (s = InitialSize \/ s \div 2 < n)
\* _dictExpand
Expand(d, n) ==
    LET size == NextPower(n) IN
    IF Rehashing(d) \/ Used(d.t[1]) > n \/ size = Size(d.t[1]) THEN d
    ELSE IF d.t[1] = NoTable THEN [d EXCEPT !.t[1] = Table(size)]
    ELSE [d EXCEPT !.t[2] = Table(size), !.idx = 0]

\* dictRehash(d, 1): the next bucket that is not empty, unless EmptyVisits are passed
RECURSIVE SkipEmpty(_, _, _)
SkipEmpty(d, i, visits) ==
    IF d.t[1][i] # <<>> THEN [i |-> i, found |-> TRUE]
    ELSE IF visits = 1 THEN [i |-> i + 1, found |-> FALSE]
    ELSE SkipEmpty(d, i + 1, visits - 1)
MoveBucket(d, i) ==
    [d EXCEPT !.t[2] = FoldLeft(LAMBDA t, k : [t EXCEPT ![Slot(k, t)] = <<k>> \o @], d.t[2], d.t[1][i]),
              !.t[1][i] = <<>>, !.idx = i + 1]
Finished(d) == IF Used(d.t[1]) = 0 THEN [t |-> <<d.t[2], NoTable>>, idx |-> -1] ELSE d
Rehash(d) ==
    IF ~Rehashing(d) THEN d
    ELSE IF Used(d.t[1]) = 0 THEN Finished(d)
    ELSE LET s == SkipEmpty(d, d.idx, EmptyVisits)
         IN  IF s.found THEN Finished(MoveBucket(d, s.i)) ELSE [d EXCEPT !.idx = s.i]
RehashStep(d) == IF pauserehash = 0 THEN Rehash(d) ELSE d

\* dictFind, without its rehash step
FindIn(d, k) ==
    \/ d.t[1] # NoTable /\ k \in InChain(d.t[1][Slot(k, d.t[1])])
    \/ Rehashing(d) /\ k \in InChain(d.t[2][Slot(k, d.t[2])])

\* _dictExpandIfNeeded; allowed: what dictExpandAllowed answers (it may refuse only
\* up to HASHTABLE_MAX_LOAD_FACTOR, here 2 keys per bucket)
ExpandIfNeeded(d, allowed) ==
    LET used == Used(d.t[1])
        size == Size(d.t[1])
    IN  IF Rehashing(d) THEN d
        ELSE IF size = 0 THEN Expand(d, InitialSize)
        ELSE IF used >= size /\ (canResize \/ used \div size > ForceRatio) /\ (allowed \/ used >= 2 * size) THEN Expand(d, used + 1)
        ELSE d

Count(n) == nDict + n <= MaxDictOps /\ nDict' = nDict + n

PutEntry(d, k) ==
    LET w == IF Rehashing(d) THEN 2 ELSE 1 IN [d EXCEPT !.t[w][Slot(k, d.t[w])] = <<k>> \o @]
Add(k, allowed) ==
    LET d == ExpandIfNeeded(RehashStep(Now), allowed) IN
    /\ Count(1)
    /\ Be(IF FindIn(d, k) THEN d ELSE PutEntry(d, k))
    /\ contents' = contents \cup {k}
    /\ UNCHANGED <<pauserehash, canResize, scan, iter, sample>>

\* dictGenericDelete.  The entry may be the one an iterator stands on.
Unchain(d, k) ==
    LET drop(c) == SelectSeq(c, LAMBDA x : x # k)
    IN  IF d.t[1] # NoTable /\ k \in InChain(d.t[1][Slot(k, d.t[1])]) THEN [d EXCEPT !.t[1][Slot(k, d.t[1])] = drop(@)]
        ELSE IF Rehashing(d) THEN [d EXCEPT !.t[2][Slot(k, d.t[2])] = drop(@)] ELSE d
Delete(k) ==
    /\ Used(ht[1]) + Used(ht[2]) > 0
    /\ iter.on => k = iter.entry       \* what the comment of dictGetSafeIterator allows
    /\ Count(1) /\ Be(Unchain(RehashStep(Now), k)) /\ contents' = contents \ {k}
    /\ scan' = [scan EXCEPT !.must = @ \ {k}]
    /\ iter' = [iter EXCEPT !.must = @ \ {k}, !.given = @ \ {k}]
    /\ UNCHANGED <<pauserehash, canResize, sample>>

\* dictFind
Find(k) ==
    /\ rehashidx # -1 /\ Used(ht[1]) + Used(ht[2]) > 0
    /\ Be(RehashStep(Now)) /\ UNCHANGED <<pauserehash, canResize, contents, scan, iter, sample, nDict>>

\* dictEmpty (FLUSHALL)
Empty ==
    /\ ~iter.on /\ Count(1) /\ contents # {}
    /\ ht' = <<NoTable, NoTable>> /\ rehashidx' = -1 /\ pauserehash' = 0 /\ contents' = {}
    /\ scan' = [scan EXCEPT !.must = {}] /\ UNCHANGED <<canResize, iter, sample>>

\* tryResizeHashTables, then incrementallyRehash, of a cron without a child
NeedsResize(d) ==
    LET size == Size(d.t[1]) + Size(d.t[2])
    IN  size > InitialSize /\ ((Used(d.t[1]) + Used(d.t[2])) * 100) \div size < MinFill
Resize(d) == IF ~canResize \/ Rehashing(d) THEN d ELSE Expand(d, IF Used(d.t[1]) < InitialSize THEN InitialSize ELSE Used(d.t[1]))
DatabasesCron ==
    LET d == IF NeedsResize(Now) THEN Resize(Now) ELSE Now
        e == IF pauserehash > 0 THEN d ELSE Rehash(d)
    IN  /\ canResize /\ ~iter.on /\ Be(e) /\ e # Now
        /\ UNCHANGED <<pauserehash, canResize, contents, scan, iter, sample, nDict>>
\* updateDictResizePolicy, when a child starts or ends
ResizePolicy ==
    /\ Count(1) /\ ~iter.on /\ canResize' = ~canResize
    /\ UNCHANGED <<ht, rehashidx, pauserehash, contents, scan, iter, sample>>

-----------------------------------------------------------------------------
(* Scanning *)

Bit(v, i) == (v \div 2^i) % 2
Rev(v) == FoldLeft(LAMBDA x, i : 2 * x + Bit(v, i - 1), 0, [i \in 1..Width |-> i])
\* v |= ~m, and the increment of the reversed cursor
IncrementPlain(v, m) == IF v % (m + 1) = m THEN 0 ELSE (v % (m + 1)) + 1
Increment(v, m) == Rev((Rev((2^Width - 1 - m) + (v % (m + 1))) + 1) % 2^Width)
\* dictScan: [cursor, keys]
RECURSIVE ScanLarger(_, _, _, _)
ScanLarger(v, small, large, seen) ==
    LET got == seen \cup InChain(large[v % Size(large)])
        next == Increment(v, Mask(large))
        inner == (next % Size(large)) \div Size(small)     \* the bits of v & (m0 ^ m1)
    IN  IF inner # 0 THEN ScanLarger(next, small, large, got) ELSE [cursor |-> next, keys |-> got]
Scan(d, v) ==
    IF Used(d.t[1]) + Used(d.t[2]) = 0 THEN [cursor |-> 0, keys |-> {}]
    ELSE IF ~Rehashing(d) THEN [cursor |-> Increment(v, Mask(d.t[1])), keys |-> InChain(d.t[1][v % Size(d.t[1])])]
    ELSE LET small == IF Size(d.t[1]) > Size(d.t[2]) THEN d.t[2] ELSE d.t[1]
             large == IF Size(d.t[1]) > Size(d.t[2]) THEN d.t[1] ELSE d.t[2]
         IN  ScanLarger(v, small, large, InChain(small[v % Size(small)]))

\* scanGenericCommand: buckets until count keys are found or maxiterations are made
RECURSIVE ScanLoop(_, _, _, _)
ScanLoop(v, count, left, found) ==
    LET s == Scan(Now, v)
        got == found \cup s.keys
    IN  IF s.cursor # 0 /\ left > 0 /\ Cardinality(got) < count THEN ScanLoop(s.cursor, count, left - 1, got)
        ELSE [cursor |-> s.cursor, keys |-> got]
StartScan ==
    /\ scan.st = "idle" /\ scan' = [st |-> "on", cursor |-> 0, must |-> contents]
    /\ UNCHANGED <<ht, rehashidx, pauserehash, canResize, contents, iter, sample, nDict>>
ScanCommand(count) ==
    LET s == ScanLoop(scan.cursor, count, 10 * count, {}) IN
    /\ scan.st = "on"
    /\ scan' = [st |-> IF s.cursor = 0 THEN "done" ELSE "on", cursor |-> s.cursor, must |-> scan.must \ s.keys]
    /\ UNCHANGED <<ht, rehashidx, pauserehash, canResize, contents, iter, sample, nDict>>

-----------------------------------------------------------------------------
(* Safe iterators *)

NoEntry == "none"
Iterator == [on |-> FALSE, table |-> 1, index |-> -1, entry |-> NoEntry, next |-> NoEntry, must |-> {}, twice |-> FALSE, given |-> {}]
After(k) == LET c == IF \E i \in DOMAIN ht[1] : k \in InChain(ht[1][i]) THEN ht[1][Slot(k, ht[1])] ELSE ht[2][Slot(k, ht[2])]
                p == CHOOSE i \in DOMAIN c : c[i] = k
            IN  IF p = Len(c) THEN NoEntry ELSE c[p + 1]
\* The loop of dictNext over the buckets: where the next chain that is not empty is
RECURSIVE NextBucket(_, _)
NextBucket(w, i) ==
    IF i >= Size(ht[w]) THEN IF w = 1 /\ rehashidx # -1 THEN NextBucket(2, 0) ELSE [w |-> 0, i |-> 0]
    ELSE IF ht[w][i] # <<>> THEN [w |-> w, i |-> i] ELSE NextBucket(w, i + 1)
\* dictGetSafeIterator and the first dictNext; dictNext; dictReleaseIterator
IterStart ==
    /\ scan.st = "idle" /\ iter = Iterator /\ pauserehash' = pauserehash + 1
    /\ iter' = [Iterator EXCEPT !.on = TRUE, !.must = contents]
    /\ UNCHANGED <<ht, rehashidx, canResize, contents, scan, sample, nDict>>
GiveEntry(it, e) == [it EXCEPT !.entry = e, !.next = After(e), !.must = @ \ {e}, !.twice = @ \/ e \in it.given, !.given = @ \cup {e}]
IterNext ==
    /\ iter.on
    /\ LET b == NextBucket(iter.table, iter.index + 1) IN
        IF iter.entry # NoEntry /\ iter.next # NoEntry
        THEN iter' = GiveEntry(iter, iter.next) /\ UNCHANGED pauserehash
        ELSE IF b.w = 0 THEN iter' = [Iterator EXCEPT !.must = iter.must, !.twice = iter.twice, !.index = 0] /\ pauserehash' = pauserehash - 1
        ELSE iter' = GiveEntry([iter EXCEPT !.table = b.w, !.index = b.i], ht[b.w][b.i][1]) /\ UNCHANGED pauserehash
    /\ UNCHANGED <<ht, rehashidx, canResize, contents, scan, sample, nDict>>

-----------------------------------------------------------------------------
(* Keys by chance *)

Drawn(d) ==
    IF Rehashing(d) THEN [i \in d.idx..(Size(d.t[1]) + Size(d.t[2]) - 1) |-> IF i >= Size(d.t[1]) THEN d.t[2][i - Size(d.t[1])] ELSE d.t[1][i]]
    ELSE d.t[1]
RandomKey ==
    LET d == RehashStep(Now)
        b == Drawn(d)
    IN  /\ ~iter.on /\ scan.st = "idle" /\ Used(ht[1]) + Used(ht[2]) > 0 /\ Be(d)
        /\ sample' = [asked |-> 1, from |-> KeysOf(b), got |-> {}, of |-> contents]
        /\ UNCHANGED <<pauserehash, canResize, contents, scan, iter, nDict>>
\* dictGetSomeKeys, from bucket i and without another draw (few buckets are empty in
\* a row): [stored, i] after `steps' more buckets
RECURSIVE SomeKeys(_, _, _, _, _)
SomeKeys(d, i, count, steps, got) ==
    LET max == IF Rehashing(d) /\ Size(d.t[2]) > Size(d.t[1]) THEN Size(d.t[2]) ELSE Size(d.t[1])
        moved == Rehashing(d) /\ i < d.idx          \* bucket i of the first table is empty for sure
        j == IF moved /\ i >= Size(d.t[2]) THEN d.idx ELSE i
        first == IF (moved /\ i < Size(d.t[2])) \/ j >= Size(d.t[1]) THEN <<>> ELSE d.t[1][j]
        second == IF Rehashing(d) /\ j < Size(d.t[2]) THEN d.t[2][j] ELSE <<>>
        take(s, c) == s \o SubSeq(c, 1, IF Len(c) < count - Len(s) THEN Len(c) ELSE count - Len(s))
        new == take(take(got, first), second)
    IN  IF Len(got) = count \/ steps = 0 THEN got ELSE SomeKeys(d, (j + 1) % max, count, steps - 1, new)
GetSomeKeys(count, i) ==
    LET d == FoldLeft(LAMBDA x, n : RehashStep(x), Now, [n \in 1..count |-> n]) IN
    /\ ~iter.on /\ scan.st = "idle" /\ count <= Used(ht[1]) + Used(ht[2]) /\ Be(d)
    /\ i < (IF Rehashing(d) /\ Size(d.t[2]) > Size(d.t[1]) THEN Size(d.t[2]) ELSE Size(d.t[1]))
    /\ sample' = [asked |-> count, from |-> KeysOf(d.t[1]) \cup KeysOf(d.t[2]), got |-> InChain(SomeKeys(d, i, count, 10 * count, <<>>)), of |-> contents]
    /\ UNCHANGED <<pauserehash, canResize, contents, scan, iter, nDict>>

-----------------------------------------------------------------------------
\* A table of some size with some keys, that is not being rehashed
Filled(n, s) == FoldLeft(LAMBDA t, k : [t EXCEPT ![Slot(k, t)] = <<k>> \o @], Table(n), SetToSeq(s))
DictInit ==
    /\ \E n \in FirstSizes, s \in SUBSET Keys : Cardinality(s) <= n /\ ht = <<Filled(n, s), NoTable>> /\ contents = s
    /\ rehashidx = -1 /\ pauserehash = 0 /\ canResize = TRUE /\ nDict = 0
    /\ scan = [st |-> "idle", cursor |-> 0, must |-> {}] /\ iter = Iterator
    /\ sample = [asked |-> 0, from |-> {}, got |-> {}, of |-> {}]
DictNext ==
    \/ \E k \in Keys : (\E a \in BOOLEAN : Add(k, a)) \/ Delete(k) \/ Find(k)
    \/ Empty \/ DatabasesCron \/ ResizePolicy \/ StartScan \/ (\E n \in {1, 3} : ScanCommand(n))
    \/ IterStart \/ IterNext \/ RandomKey \/ (\E n \in {1, 2}, i \in 0..(2^Width - 1) : GetSomeKeys(n, i))
DictSpec == DictInit /\ [][DictNext]_dcvars

-----------------------------------------------------------------------------
\* A key is found if and only if it was added and not deleted, in every phase of a
\* rehash, and the buckets before rehashidx are empty (dictGetRandomKey does not draw
\* from them, and would otherwise never end).
LookupsRight ==
    /\ \A k \in Keys : FindIn(Now, k) <=> k \in contents
    /\ rehashidx # -1 => \A i \in 0..(rehashidx - 1) : ht[1][i] = <<>>

\* A full scan returns every key that was there from its start to its end, however the
\* table was resized and rehashed between the calls.
ScanComplete == scan.st = "done" => scan.must = {}

\* A safe iterator gives every key that stays exactly once, although the keys it
\* stands on are deleted, and others are added, while it is in use.
IterationExact == ~iter.twice /\ (~iter.on => iter.must = {}) /\ (iter.on <=> pauserehash = 1)

\* Keys drawn by chance are keys of the table, and every key of it can be drawn by
\* dictGetRandomKey, in every phase of a rehash.
SampleFair == sample'.from = sample'.of /\ sample'.got \subseteq sample'.of
=============================================================================
