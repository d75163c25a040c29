------------------------------ MODULE ZSetType ------------------------------
(***************************************************************************)
(* The commands on sorted sets (redis-6.2.7/src/t_zset.c) on a master and on  *)
(* a replica that gets them over the replication link and is configured       *)
(* otherwise.  A sorted set is a ziplist, a list of pairs kept in order by a  *)
(* linear search, or a skiplist, of which SkipList.tla shows that it is kept   *)
(* in order.  An element is a number, its order the lexicographic one.        *)
(***************************************************************************)
EXTENDS Integers, Sequences, FiniteSets, SequencesExt

CONSTANTS
    ZKey,            \* the keys that may hold a sorted set
    ZElem,           \* a set of numbers
    Long,            \* the elements longer than zset_max_ziplist_value
    PlainSet,        \* the elements of one more key, a set that never changes
    Finite,          \* the scores that are numbers: an interval around 0
    AddElems,        \* the lists of elements ZADD is given
    Weight,          \* the weights ZUNION and ZINTER are given
    ZMaxZiplist,     \* zset_max_ziplist_entries of the master,
    ReplZMaxZiplist, \* and of the replica
    RangeBound,      \* the scores ranges are given
    Bound            \* the largest index, offset, count or limit given

VARIABLES
    zmaster,   \* the sorted set at each key, or ZNone
    zreplica,
    zdead,     \* an assertion failed, the server is gone
    zlast      \* the last command of the master

zsvars == <<zmaster, zreplica, zdead, zlast>>

SetKey == "set"
ZNone == [enc |-> "none", list |-> <<>>]
Crash == [enc |-> "crash", list |-> <<>>]

ZInit ==
    /\ zmaster = [k \in ZKey |-> ZNone] /\ zreplica = zmaster
    /\ zdead = FALSE /\ zlast = [op |-> "none"]

-----------------------------------------------------------------------------
(* Doubles: the finite scores, two infinities and NaN.                       *)

Inf == 1000
NaN == 5000
ZScores == Finite \cup {Inf, -Inf}
IsInf(x) == x \in {Inf, -Inf}
Plus(x, y) ==
    IF NaN \in {x, y} \/ (IsInf(x) /\ IsInf(y) /\ x # y) THEN NaN
    ELSE IF IsInf(x) THEN x ELSE IF IsInf(y) THEN y ELSE x + y
Sign(x) == IF x > 0 THEN 1 ELSE -1
Times(x, y) ==
    IF IsInf(x) \/ IsInf(y)
    THEN IF 0 \in {x, y} THEN NaN ELSE Sign(x) * Sign(y) * Inf
    ELSE x * y
NaNToZero(x) == IF x = NaN THEN 0 ELSE x

-----------------------------------------------------------------------------
(* The two encodings                                                         *)

Pair(e, s) == [ele |-> e, score |-> s]
Elems(o) == {p.ele : p \in ToSet(o.list)}
ScoreOf(o, e) == (CHOOSE p \in ToSet(o.list) : p.ele = e).score
ZLess(p, q) == p.score < q.score \/ (p.score = q.score /\ p.ele < q.ele)
InOrder(s) == [j \in 1 .. Cardinality(s) |-> CHOOSE p \in s : Cardinality({q \in s : ZLess(q, p)}) = j - 1]

\* zzlInsert: before the first pair with a larger score, or the same and a
\* larger element
zzlInsert(l, e, s) ==
    LET after == {j \in 1 .. Len(l) : l[j].score > s \/ (l[j].score = s /\ l[j].ele > e)}
    IN  IF after = {} THEN Append(l, Pair(e, s))
        ELSE InsertAt(l, CHOOSE j \in after : \A k \in after : j <= k, Pair(e, s))

zzlDelete(l, e) == SelectSeq(l, LAMBDA p : p.ele # e)

\* zslInsert and zslUpdateScore, zslDelete
ZPut(o, e, s) ==
    [o EXCEPT !.list = IF o.enc = "zl" THEN zzlInsert(zzlDelete(@, e), e, s)
                       ELSE InOrder({p \in ToSet(@) : p.ele # e} \cup {Pair(e, s)})]

\* zsetConvert asserts that a ziplist has an entry.
zsetConvert(o, enc) ==
    IF o.enc = enc THEN o
    ELSE IF enc = "sl" /\ o.list = <<>> THEN Crash
    ELSE [enc |-> enc, list |-> o.list]

zsetConvertToZiplistIfNeeded(o, max) ==
    IF Len(o.list) <= max /\ Elems(o) \cap Long = {} THEN zsetConvert(o, "zl") ELSE o

\* zsetAdd; the flags are a subset of nx, xx, gt, lt and incr.
zsetAdd(o, s, e, flags, max) ==
    IF e \in Elems(o)
    THEN LET cur == ScoreOf(o, e)
             new == IF "incr" \in flags THEN Plus(s, cur) ELSE s
         IN  IF \/ "nx" \in flags
                \/ new = NaN
                \/ "lt" \in flags /\ new >= cur
                \/ "gt" \in flags /\ new <= cur
             THEN o ELSE ZPut(o, e, new)
    ELSE IF "xx" \in flags THEN o
    ELSE LET room == o.enc = "sl" \/ (Len(o.list) + 1 <= max /\ e \notin Long)
             c == IF room THEN o ELSE zsetConvert(o, "sl")
         IN  IF c = Crash THEN Crash ELSE ZPut(c, e, s)

\* What is stored at a key: the key is deleted with its last element.
Stored(o) == IF o.list = <<>> /\ o # Crash THEN ZNone ELSE o

-----------------------------------------------------------------------------
(* ZADD, ZINCRBY and ZREM                                                    *)

Flags == {{}, {"nx"}, {"xx"}, {"gt"}, {"lt"}, {"xx", "gt"}, {"xx", "lt"}}

\* zaddGenericCommand
ZAdd(o, args, flags, max) ==
    LET new == [enc |-> IF max = 0 \/ args[1].ele \in Long THEN "sl" ELSE "zl", list |-> <<>>]
    IN  IF o = ZNone /\ "xx" \in flags THEN o
        ELSE FoldLeft(LAMBDA z, p : zsetAdd(z, p.score, p.ele, flags, max), IF o = ZNone THEN new ELSE o, args)

\* zremCommand
ZRem(o, es) == Stored([o EXCEPT !.list = SelectSeq(@, LAMBDA p : p.ele \notin es)])

-----------------------------------------------------------------------------
(* Ranges.  A range by rank has a start and an end; one by score or by element *)
(* has bounds, an offset and a limit, where -1 is no limit.                   *)

ZGteMin(v, r) == IF r.minex THEN v > r.min ELSE v >= r.min
ZLteMax(v, r) == IF r.maxex THEN v < r.max ELSE v <= r.max
ZValue(p, r) == IF r.by = "lex" THEN p.ele ELSE p.score

\* The sanitising of the indexes: 0-based, an empty range as <<1, 0>>
Sanitize(start, end, llen) ==
    LET s == IF start < 0 THEN IF llen + start < 0 THEN 0 ELSE llen + start ELSE start
        e == IF end < 0 THEN llen + end ELSE end
    IN  IF s > e \/ s >= llen THEN <<1, 0>> ELSE <<s, IF e >= llen THEN llen - 1 ELSE e>>

\* zzlIsInRange and zzlIsInLexRange, zslIsInRange and zslIsInLexRange
IsInRange(l, r) ==
    /\ ~(r.min > r.max \/ (r.min = r.max /\ (r.minex \/ r.maxex)))
    /\ l # <<>> /\ ZGteMin(ZValue(Last(l), r), r) /\ ZLteMax(ZValue(Head(l), r), r)

\* zzlFirstInRange and zzlLastInRange: the position, or 0.  The first pair
\* that is not below the range is in it or there is none.
ZFirstInRange(l, r) ==
    LET not == {j \in 1 .. Len(l) : ZGteMin(ZValue(l[j], r), r)}
        j == CHOOSE j \in not : \A k \in not : j <= k
    IN  IF IsInRange(l, r) /\ not # {} THEN IF ZLteMax(ZValue(l[j], r), r) THEN j ELSE 0 ELSE 0

ZLastInRange(l, r) ==
    LET not == {j \in 1 .. Len(l) : ZLteMax(ZValue(l[j], r), r)}
        j == CHOOSE j \in not : \A k \in not : j >= k
    IN  IF IsInRange(l, r) /\ not # {} THEN IF ZGteMin(ZValue(l[j], r), r) THEN j ELSE 0 ELSE 0

\* zzlDeleteRangeByScore and ByLex: from the first in range while not above it
RECURSIVE DeleteFrom(_, _, _)
DeleteFrom(l, j, r) ==
    IF j <= Len(l) /\ ZLteMax(ZValue(l[j], r), r) THEN DeleteFrom(RemoveAt(l, j), j, r) ELSE l

DeleteInRange(l, r) ==
    LET j == ZFirstInRange(l, r) IN IF j = 0 THEN l ELSE DeleteFrom(l, j, r)

\* zzlDeleteRangeByRank, 0-based
DeleteRanks(l, start, end) == SubSeq(l, 1, start) \o SubSeq(l, end + 2, Len(l))

\* zremrangeGenericCommand
ZRemRange(o, r) ==
    Stored([o EXCEPT !.list =
              IF r.by = "rank" THEN LET s == Sanitize(r.start, r.end, Len(@)) IN
                                    IF s = <<1, 0>> THEN @ ELSE DeleteRanks(@, s[1], s[2])
              ELSE DeleteInRange(@, r)])

\* genericZrangebyrankCommand
RangeByRank(l, r) ==
    LET s == Sanitize(r.start, r.end, Len(l)) IN
    IF s = <<1, 0>> THEN <<>>
    ELSE [j \in 1 .. s[2] - s[1] + 1 |-> IF r.rev THEN l[Len(l) - s[1] - j + 1] ELSE l[s[1] + j]]

\* The loop over at most limit pairs, until one is out of the range
RECURSIVE Emit(_, _, _, _)
Emit(l, j, limit, r) ==
    IF \/ j \notin 1 .. Len(l) \/ limit = 0
       \/ ~(IF r.rev THEN ZGteMin(ZValue(l[j], r), r) ELSE ZLteMax(ZValue(l[j], r), r))
    THEN <<>>
    ELSE <<l[j]>> \o Emit(l, IF r.rev THEN j - 1 ELSE j + 1, limit - 1, r)

\* Mutant: a reversed range is skipped from its front.
RangeSkipsFront(l, r) ==
    LET first == IF r.rev THEN ZLastInRange(l, r) ELSE ZFirstInRange(l, r)
        skip == first + r.offset
    IN  IF first = 0 \/ r.offset < 0 THEN <<>> ELSE Emit(l, skip, r.limit, r)

\* genericZrangebyscoreCommand and genericZrangebylexCommand.  A negative
\* offset is counted down for ever: no pair is left.
RangeByValue(l, r) ==
    LET first == IF r.rev THEN ZLastInRange(l, r) ELSE ZFirstInRange(l, r)
        skip == IF r.rev THEN first - r.offset ELSE first + r.offset
    IN  IF first = 0 \/ r.offset < 0 THEN <<>> ELSE Emit(l, skip, r.limit, r)

ZRange(l, r) == IF r.by = "rank" THEN RangeByRank(l, r) ELSE RangeByValue(l, r)

\* zrangestoreCommand with zrangeResultBeginStore, EmitCBufferForStore and
\* FinalizeStore
ZRangeStore(o, r, max) ==
    Stored(FoldLeft(LAMBDA z, p : IF z = Crash THEN Crash ELSE zsetAdd(z, p.score, p.ele, {}, max),
                    [enc |-> "zl", list |-> <<>>], ZRange(o.list, r)))

-----------------------------------------------------------------------------
(* ZUNION, ZINTER and ZDIFF.  A source has pairs and a weight.               *)

\* zunionInterAggregate; MIN and MAX keep the target if the value is NaN.
Aggregate(target, v, aggr) ==
    CASE aggr = "sum" -> NaNToZero(Plus(target, v))
      [] aggr = "min" -> IF v # NaN /\ v < target THEN v ELSE target
      [] aggr = "max" -> IF v # NaN /\ v > target THEN v ELSE target

\* zuiInitIterator and zuiNext: a set has the score 1 for every element.
Source(db, k, w) ==
    [key |-> k, weight |-> w,
     list |-> IF k = SetKey THEN InOrder({Pair(e, 1) : e \in PlainSet}) ELSE db[k].list]

\* qsort by cardinality
BySize(src) == SortSeq(src, LAMBDA a, b : Len(a.list) < Len(b.list))

ZInter(src, aggr) ==
    LET all == BySize(src)
        in(e, j) == e \in Elems(all[j])
        score(p) ==
            FoldLeft(LAMBDA t, j : Aggregate(t, Times(ScoreOf(all[j], p.ele), all[j].weight), aggr),
                     NaNToZero(Times(p.score, all[1].weight)), [j \in 1 .. Len(all) - 1 |-> j + 1])
    IN  {Pair(p.ele, score(p)) : p \in {q \in ToSet(all[1].list) : \A j \in 2 .. Len(all) : in(q.ele, j)}}

\* The accumulator is a function from elements to scores.
Accumulate(acc, p, weight, aggr) ==
    LET v == NaNToZero(Times(p.score, weight)) IN
    IF p.ele \in DOMAIN acc THEN [acc EXCEPT ![p.ele] = Aggregate(@, v, aggr)]
    ELSE [e \in DOMAIN acc \cup {p.ele} |-> IF e = p.ele THEN v ELSE acc[e]]

ZUnion(src, aggr) ==
    LET add(acc, s) == FoldLeft(LAMBDA a, p : Accumulate(a, p, s.weight, aggr), acc, s.list)
        acc == FoldLeft(add, [e \in {} |-> 0], BySize(src))
    IN  {Pair(e, acc[e]) : e \in DOMAIN acc}

\* zsetChooseDiffAlgorithm: 0 if a later source is the first object
zsetChooseDiffAlgorithm(src) ==
    LET one == (Len(src) * Len(src[1].list)) \div 2
        two == FoldLeft(LAMBDA n, s : n + Len(s.list), 0, src)
    IN  IF \E j \in 2 .. Len(src) : src[j].key = src[1].key THEN 0 ELSE IF one <= two THEN 1 ELSE 2

\* zdiffAlgorithm1: the elements of the first source that no other has.
\* zdiffAlgorithm2: the elements of the others are removed from it, until it
\* is empty.
ZDiff(src) ==
    LET others == UNION {Elems(src[j]) : j \in 2 .. Len(src)}
        algorithm1 == {p \in ToSet(src[1].list) : \A j \in 2 .. Len(src) : p.ele \notin Elems(src[j])}
        algorithm2 == FoldLeft(LAMBDA s, e : {p \in s : p.ele # e}, ToSet(src[1].list), SetToSeq(others))
    IN  IF src[1].list = <<>> THEN {}
        ELSE CASE zsetChooseDiffAlgorithm(src) = 0 -> {}
               [] zsetChooseDiffAlgorithm(src) = 1 -> algorithm1
               [] zsetChooseDiffAlgorithm(src) = 2 -> algorithm2

\* zunionInterDiffGenericCommand, with a destination
ZOpStore(db, c, max) ==
    LET src == [j \in 1 .. Len(c.src) |-> Source(db, c.src[j], c.weights[j])]
        s == CASE c.kind = "inter" -> ZInter(src, c.aggr) [] c.kind = "union" -> ZUnion(src, c.aggr)
               [] c.kind = "diff" -> ZDiff(src)
    IN  Stored(zsetConvertToZiplistIfNeeded([enc |-> "sl", list |-> InOrder(s)], max))

\* genericZpopCommand
ZPop(o, where, count) ==
    LET n == IF count > Len(o.list) THEN Len(o.list) ELSE count
    IN  Stored([o EXCEPT !.list = IF where = "min" THEN SubSeq(@, n + 1, Len(@)) ELSE SubSeq(@, 1, Len(@) - n)])

-----------------------------------------------------------------------------
(* A command is executed by the master and, as it is, by the replica.        *)

\* What the command writes at its key
Exec(db, c, max) ==
    CASE c.op = "add" -> ZAdd(db[c.key], c.args, c.flags, max)
      [] c.op = "rem" -> ZRem(db[c.key], c.elems)
      [] c.op = "remrange" -> ZRemRange(db[c.key], c.range)
      [] c.op = "rangestore" -> ZRangeStore(db[c.from], c.range, max)
      [] c.op = "store" -> ZOpStore(db, c, max)
      [] c.op = "pop" -> ZPop(db[c.key], c.where, c.count)

\* call() propagates a command that changed something, as it was given; a
\* command that changes nothing on the master changes nothing on the replica.
Outcome(c, m, r) ==
    /\ zlast' = c
    /\ zdead' = (Crash \in {m, r})
    /\ m # Crash => \A p \in ToSet(m.list) : p.score \in ZScores \cup {NaN}
    /\ zmaster' = IF m = Crash THEN zmaster ELSE [zmaster EXCEPT ![c.key] = m]
    /\ zreplica' = IF Crash \in {m, r} THEN zreplica ELSE [zreplica EXCEPT ![c.key] = r]
Command(c) == ~zdead /\ Outcome(c, Exec(zmaster, c, ZMaxZiplist), Exec(zreplica, c, ReplZMaxZiplist))

Has(k) == zmaster[k] # ZNone
ZIndex == -Bound .. Bound
SameScore(k) == \A p, q \in ToSet(zmaster[k].list) : p.score = q.score
ScoreRange == [by : {"score"}, min : RangeBound, max : RangeBound, minex : BOOLEAN, maxex : BOOLEAN]
LexRange == [by : {"lex"}, min : ZElem, max : ZElem, minex : BOOLEAN, maxex : BOOLEAN]
RankRange == [by : {"rank"}, start : ZIndex, end : ZIndex, rev : BOOLEAN]
\* By element only where the scores are all the same
ValueRanges(k) == ScoreRange \cup (IF SameScore(k) THEN LexRange ELSE {})
\* with the order and the LIMIT of ZRANGESTORE
LimitedRanges(k) ==
    {[by |-> r.by, min |-> r.min, max |-> r.max, minex |-> r.minex, maxex |-> r.maxex, rev |-> rev, offset |-> offset, limit |-> limit] :
        r \in ValueRanges(k), rev \in BOOLEAN, offset \in -1 .. Bound, limit \in -1 .. Bound}

ZADD ==
    \E k \in ZKey, es \in AddElems, fl \in Flags : \E ss \in [DOMAIN es -> ZScores] :
        Command([op |-> "add", key |-> k, args |-> [j \in DOMAIN es |-> Pair(es[j], ss[j])], flags |-> fl])
ZINCRBY ==
    \E k \in ZKey, e \in ZElem, s \in ZScores, fl \in Flags :
        Command([op |-> "add", key |-> k, args |-> <<Pair(e, s)>>, flags |-> fl \cup {"incr"}])
ZREM == \E k \in ZKey : Has(k) /\ \E es \in SUBSET ZElem : Command([op |-> "rem", key |-> k, elems |-> es])
ZREMRANGE ==
    \E k \in ZKey : Has(k) /\ \E r \in RankRange \cup ValueRanges(k) :
        Command([op |-> "remrange", key |-> k, range |-> r])
ZRANGESTORE ==
    \E k, from \in ZKey : \E r \in RankRange \cup LimitedRanges(from) :
        Command([op |-> "rangestore", key |-> k, from |-> from, range |-> r])
ZSTORE ==
    \E k \in ZKey, src \in [1 .. 2 -> ZKey \cup {SetKey}], w \in [1 .. 2 -> Weight], aggr \in {"sum", "min", "max"}, kind \in {"inter", "union", "diff"} :
        /\ kind = "diff" => w = <<1, 1>> /\ aggr = "sum"
        /\ Command([op |-> "store", key |-> k, kind |-> kind, src |-> src, weights |-> w, aggr |-> aggr])
ZPOP ==
    \E k \in ZKey, where \in {"min", "max"}, n \in 1 .. Bound :
        Has(k) /\ Command([op |-> "pop", key |-> k, where |-> where, count |-> n])

ZNext == ZADD \/ ZINCRBY \/ ZREM \/ ZREMRANGE \/ ZRANGESTORE \/ ZSTORE \/ ZPOP

ZSpec == ZInit /\ [][ZNext]_zsvars

-----------------------------------------------------------------------------
(* Properties                                                                *)

AsSet(o) == ToSet(o.list)

\* A ziplist is in order although each insertion looks for its place only, no
\* score is NaN, no empty sorted set stays in the keyspace, and a ziplist that
\* is too long or has a long element is converted.
ZSetsWellFormed ==
    \A side \in {<<zmaster, ZMaxZiplist>>, <<zreplica, ReplZMaxZiplist>>} : \A k \in ZKey :
        LET o == side[1][k] IN
        /\ (o = ZNone) <=> (o.list = <<>>)
        /\ o.list = InOrder(AsSet(o)) /\ Cardinality(Elems(o)) = Len(o.list)
        /\ \A p \in AsSet(o) : p.score # NaN
        /\ o.enc = "zl" => Len(o.list) <= side[2] /\ Elems(o) \cap Long = {}

\* The commands are propagated as they are, and have the same effect on a
\* replica with other limits for its ziplists.
ReplicaHasZSets == zdead \/ \A k \in ZKey : AsSet(zreplica[k]) = AsSet(zmaster[k])

\* What each command promises, in terms of sets of pairs: reference definitions
\* that know nothing of encodings, of the order of work and of early exits.
ZBefore(s, p) == Cardinality({q \in s : ZLess(q, p)})
RefAdd(s, p, flags) ==
    LET old == {q \in s : q.ele = p.ele}
        cur == (CHOOSE q \in old : TRUE).score
        new == IF "incr" \in flags /\ old # {} THEN Plus(p.score, cur) ELSE p.score
        ok == IF old = {} THEN "xx" \notin flags
              ELSE "nx" \notin flags /\ new # NaN /\ ("gt" \in flags => new > cur) /\ ("lt" \in flags => new < cur)
    IN  IF ok THEN (s \ old) \cup {Pair(p.ele, new)} ELSE s

RefIndex(i, n) == IF i < 0 THEN n + i ELSE i
RefIn(s, r) ==
    IF r.by = "rank" THEN {p \in s : LET n == Cardinality(s) IN ZBefore(s, p) \in RefIndex(r.start, n) .. RefIndex(r.end, n)}
    ELSE {p \in s : ZGteMin(ZValue(p, r), r) /\ ZLteMax(ZValue(p, r), r)}
ZRefRange(s, r) ==
    IF r.by = "rank"
    THEN LET n == Cardinality(s) IN
         {p \in s : (IF r.rev THEN n - 1 - ZBefore(s, p) ELSE ZBefore(s, p)) \in RefIndex(r.start, n) .. RefIndex(r.end, n)}
    ELSE LET in == RefIn(s, r)
             nth(p) == IF r.rev THEN Cardinality(in) - 1 - ZBefore(in, p) ELSE ZBefore(in, p)
         IN  {p \in in : r.offset >= 0 /\ nth(p) >= r.offset /\ (r.limit < 0 \/ nth(p) < r.offset + r.limit)}

RefSource(k) == IF k = SetKey THEN {Pair(e, 1) : e \in PlainSet} ELSE AsSet(zmaster[k])
Products(c, e) == {<<j, Times(p.score, c.weights[j])>> : <<j, p>> \in {<<i, q>> \in {1, 2} \X (RefSource(c.src[1]) \cup RefSource(c.src[2])) : q \in RefSource(c.src[i]) /\ q.ele = e}}
ZRefStore(c, new) ==
    LET one == RefSource(c.src[1])
        two == RefSource(c.src[2])
        els(s) == {p.ele : p \in s}
        combined(p) ==
            LET x == {q[2] : q \in Products(c, p.ele)}
                min == CHOOSE v \in x : \A w \in x : v <= w
                max == CHOOSE v \in x : \A w \in x : v >= w
            IN  \* a product that is NaN: the score is one or the other, or 0
                IF NaN \in x THEN p.score \in (x \ {NaN}) \cup {0}
                ELSE CASE c.aggr = "min" -> p.score = min
                       [] c.aggr = "max" -> p.score = max
                       [] c.aggr = "sum" -> p.score = IF Cardinality(Products(c, p.ele)) = 1 THEN min
                                                      ELSE NaNToZero(Plus(min, max))
    IN  CASE c.kind = "diff" -> new = {p \in one : p.ele \notin els(two)}
          [] c.kind = "union" -> els(new) = els(one) \cup els(two) /\ \A p \in new : combined(p)
          [] c.kind = "inter" -> els(new) = els(one) \cap els(two) /\ \A p \in new : combined(p)

\* Every command does to the key what its reference says.
ZSetsAsTold ==
    zdead' \/
    LET c == zlast'
        old == AsSet(zmaster[c.key])
        new == AsSet(zmaster'[c.key])
    IN  CASE c.op = "add" -> new = FoldLeft(LAMBDA s, p : RefAdd(s, p, c.flags), old, c.args)
          [] c.op = "rem" -> new = {p \in old : p.ele \notin c.elems}
          [] c.op = "remrange" -> new = old \ RefIn(old, c.range)
          [] c.op = "rangestore" -> new = ZRefRange(AsSet(zmaster[c.from]), c.range)
          [] c.op = "store" -> ZRefStore(c, new)
          [] c.op = "pop" -> LET n == Cardinality(old) IN
                             new = {p \in old : IF c.where = "min" THEN ZBefore(old, p) >= c.count
                                                ELSE n - 1 - ZBefore(old, p) >= c.count}
          [] OTHER -> FALSE

=============================================================================
