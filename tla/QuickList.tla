------------------------------ MODULE QuickList ------------------------------
(***************************************************************************)
(* The quicklist behind a list key (redis-6.2.7/src/quicklist.c) and the     *)
(* commands that work inside a list (redis-6.2.7/src/t_list.c).  A list is a *)
(* chain of nodes; a node has a ziplist, a cached count, and may be          *)
(* compressed.  The nodes at the ends, as many as the compress depth says,   *)
(* are meant to stay uncompressed, because the ends are read and written as  *)
(* they are.  Positions in a chain start at 1; 0 is the null pointer.        *)
(***************************************************************************)
EXTENDS Integers, Sequences, FiniteSets, SequencesExt

CONSTANTS
    LElem,        \* the elements
    Big,          \* the elements that make their node worth compressing
    Fill,         \* list-max-ziplist-size: elements if positive, bytes if negative
    SafetyLimit,  \* SIZE_SAFETY_LIMIT, in bytes
    Compress,     \* list-compress-depth
    MaxLen        \* bound: elements of the list

VARIABLES
    ql,      \* the quicklist: its nodes, its count, and whether a compressed node was used as a ziplist
    qcall    \* the last command, its arguments and its reply

qvars == <<ql, qcall>>

Node(zl) == [zl |-> zl, count |-> Len(zl), lzf |-> FALSE, re |-> FALSE]
EmptyList == [node |-> <<>>, count |-> 0, bad |-> FALSE]
QInit == ql = EmptyList /\ qcall = [op |-> "none", args |-> <<>>, reply |-> <<>>]

Bytes(zl) == Len(zl) + Len(SelectSeq(zl, LAMBDA e : e \in Big))
Set(q, i, n) == [q EXCEPT !.node[i] = n]
\* An access to the ziplist of node i, which must not be compressed.
Touch(q, i) == [q EXCEPT !.bad = @ \/ q.node[i].lzf]
Flat(q) == FlattenSeq([i \in DOMAIN q.node |-> q.node[i].zl])

-----------------------------------------------------------------------------
\* Compression.  A node that is too small, or would not shrink, stays as it is.
CompressNode(n) ==
    IF ~n.lzf /\ \E i \in DOMAIN n.zl : n.zl[i] \in Big THEN [n EXCEPT !.lzf = TRUE, !.re = FALSE] ELSE n
DecompressNode(n) == [n EXCEPT !.lzf = FALSE]
DecompressForUse(n) == IF n.lzf THEN [n EXCEPT !.lzf = FALSE, !.re = TRUE] ELSE n

\* __quicklistCompress, of the whole list and of node i if it is inside.
InDepth(q, i) == i <= Compress \/ i > Len(q.node) - Compress
Force(q, i) ==
    LET n == Len(q.node)
        inner == {Compress + 1, n - Compress} \cup (IF i # 0 /\ ~InDepth(q, i) THEN {i} ELSE {})
        forced == [j \in 1 .. n |->
                      IF InDepth(q, j) THEN DecompressNode(q.node[j])
                      ELSE IF n > 2 * Compress /\ j \in inner THEN CompressNode(q.node[j])
                      ELSE q.node[j]]
    IN  IF Compress = 0 \/ n < 2 * Compress THEN q ELSE [q EXCEPT !.node = SubSeq(forced, 1, n)]

\* The macros quicklistCompress and quicklistRecompressOnly
RecompressOnly(q, i) == IF q.node[i].re THEN Set(q, i, CompressNode(q.node[i])) ELSE q
CompressIt(q, i) == IF q.node[i].re THEN RecompressOnly(q, i) ELSE Force(q, i)

-----------------------------------------------------------------------------
\* Nodes are added, removed, split and merged.
InsertNode(q, old, n, after) ==
    LET at == IF after THEN old + 1 ELSE IF old = 0 THEN 1 ELSE old
        r == [q EXCEPT !.node = InsertAt(@, at, n)]
    IN  IF old = 0 THEN r ELSE CompressIt(r, IF after THEN old ELSE old + 1)

DelNode(q, i) == Force([q EXCEPT !.node = RemoveAt(@, i), !.count = @ - q.node[i].count], 0)

MeetsOptimization(sz) == Fill < 0 /\ sz <= -Fill
Allowed(sz, count) == MeetsOptimization(sz) \/ (sz <= SafetyLimit /\ count <= Fill)
AllowInsert(q, i, e) ==
    i \in DOMAIN q.node /\ Allowed(Bytes(q.node[i].zl) + Bytes(<<e>>), q.node[i].count + 1)
AllowMerge(q, a, b) ==
    /\ {a, b} \subseteq DOMAIN q.node
    /\ Allowed(Bytes(q.node[a].zl) + Bytes(q.node[b].zl), q.node[a].count + q.node[b].count)

\* ziplistMerge keeps the longer of the two ziplists, the first if they are equal.
ZiplistMerge(q, a) ==
    LET m == q.node[a]
        n == q.node[a + 1]
        keep == [(IF Len(m.zl) >= Len(n.zl) THEN m ELSE n) EXCEPT
                     !.zl = m.zl \o n.zl, !.count = Len(m.zl) + Len(n.zl), !.lzf = FALSE]
    IN  CompressIt(Force([q EXCEPT !.node = ReplaceAt(RemoveAt(@, a + 1), a, keep)], 0), a)

\* Node a with the one behind it, if they fit: the list, and where node i is then
MergeAt(s, a) ==
    IF AllowMerge(s.q, a, a + 1) THEN [q |-> ZiplistMerge(s.q, a), i |-> IF s.i > a THEN s.i - 1 ELSE s.i] ELSE s
\* The two before the centre, the two behind it, then the centre with what is on
\* either side
WithBoth(s) == MergeAt(s, s.i)
WithPrev(s) == WithBoth(MergeAt(s, s.i - 1))
BehindCenter(s) == WithPrev(MergeAt(s, s.i + 1))
MergeNodes(q, center) == BehindCenter(MergeAt([q |-> q, i |-> center], center - 2)).q

\* What stays in the node, and what the new node gets
SplitAtOffset(n, off, after) ==
    LET cut == IF after THEN off + 1 ELSE off
        front == SubSeq(n.zl, 1, cut)
        back == SubSeq(n.zl, cut + 1, Len(n.zl))
    IN  IF after THEN <<front, back>> ELSE <<back, front>>
SplitBehind(n, off, after) == SplitAtOffset(n, IF after THEN off ELSE off + 1, after)
SplitNode(n, off, after) == SplitAtOffset(n, off, after)

-----------------------------------------------------------------------------
PushEnd(q, e, head) ==
    LET i == IF head THEN 1 ELSE Len(q.node)
        n == q.node[i]
        r == IF AllowInsert(q, i, e)
             THEN Set(Touch(q, i), i, [n EXCEPT !.zl = IF head THEN <<e>> \o @ ELSE Append(@, e), !.count = @ + 1])
             ELSE InsertNode(q, IF q.node = <<>> THEN 0 ELSE i, Node(<<e>>), ~head)
    IN  [r EXCEPT !.count = @ + 1]

\* quicklistAppendZiplist
AppendZiplist(q, n) ==
    LET r == InsertNode(q, Len(q.node), n, TRUE) IN [r EXCEPT !.count = @ + n.count]

\* quicklistDelIndex, of the element at position p of node i
DelIndex(q, i, p) ==
    LET n == [q.node[i] EXCEPT !.zl = RemoveAt(@, p), !.count = @ - 1]
        r == Set(Touch(q, i), i, n)
        d == IF n.count = 0 THEN DelNode(r, i) ELSE r
    IN  [d EXCEPT !.count = @ - 1]

Pop(q, head) ==
    LET i == IF head THEN 1 ELSE Len(q.node)
    IN  DelIndex(q, i, IF head THEN 1 ELSE Len(q.node[i].zl))

\* ziplistIndex: the position an offset stands for, 0 if there is none
ZiplistIndex(zl, off) ==
    LET p == IF off >= 0 THEN off + 1 ELSE Len(zl) + 1 + off IN IF p \in DOMAIN zl THEN p ELSE 0

\* quicklistIndex: the node, which is decompressed, and the offset in it
NotFound == [i |-> 0, off |-> 0]
QIndex(q, idx) ==
    LET n == Len(q.node)
        index == IF idx < 0 THEN -idx - 1 ELSE idx
        QAt(k) == IF idx < 0 THEN n + 1 - k ELSE k
        accum[k \in 0 .. n] == IF k = 0 THEN 0 ELSE accum[k - 1] + q.node[QAt(k)].count
        hit == {k \in 1 .. n : accum[k - 1] <= index /\ index < accum[k]}
        k == CHOOSE j \in hit : TRUE
    IN  IF index >= q.count \/ hit = {} THEN NotFound
        ELSE [i |-> QAt(k), off |-> IF idx < 0 THEN accum[k - 1] - index - 1 ELSE index - accum[k - 1]]
QUsed(q, i) == IF i = 0 THEN q ELSE Set(q, i, DecompressForUse(q.node[i]))
EntryPos(q, entry) == ZiplistIndex(q.node[entry.i].zl, entry.off)
Value(q, entry) == q.node[entry.i].zl[EntryPos(q, entry)]

\* quicklistReplaceAtIndex
QReplace(q, entry, e) ==
    LET u == QUsed(q, entry.i) IN CompressIt([u EXCEPT !.node[entry.i].zl[EntryPos(u, entry)] = e], entry.i)

-----------------------------------------------------------------------------
\* _quicklistInsert, beside the entry at offset off of node i
AddTo(q, i, p, e) ==
    LET n == DecompressForUse(q.node[i])
    IN  RecompressOnly(Set(q, i, [n EXCEPT !.zl = InsertAt(@, p, e), !.count = @ + 1]), i)

SplitInsert(q, i, off, e, after) ==
    LET u == QUsed(q, i)
        s == SplitNode(u.node[i], off, after)
        stay == [u.node[i] EXCEPT !.zl = s[1], !.count = Len(s[1])]
        new == Node(IF after THEN <<e>> \o s[2] ELSE Append(s[2], e))
    IN  MergeNodes(InsertNode(Set(u, i, stay), i, new, after), IF after THEN i ELSE i + 1)

QInsert(q, i, off, e, after) ==
    LET n == q.node[i]
        full == ~AllowInsert(q, i, e)
        at_tail == after /\ off = n.count
        at_head == ~after /\ off = 0
    IN  [(CASE ~full -> AddTo(q, i, IF after THEN off + 2 ELSE off + 1, e)
            [] full /\ at_tail /\ AllowInsert(q, i + 1, e) -> AddTo(q, i + 1, 1, e)
            [] full /\ at_head /\ AllowInsert(q, i - 1, e) -> AddTo(q, i - 1, Len(q.node[i - 1].zl) + 1, e)
            [] full /\ ~AllowInsert(q, i + 1, e) /\ at_tail /\ i < Len(q.node) -> InsertNode(q, i, Node(<<e>>), TRUE)
            [] full /\ ~AllowInsert(q, i - 1, e) /\ at_head /\ i > 1 -> InsertNode(q, i, Node(<<e>>), FALSE)
            [] OTHER -> SplitInsert(q, i, off, e, after)) EXCEPT !.count = @ + 1]

-----------------------------------------------------------------------------
\* quicklistDelRange: node i, and the elements still to delete, from offset off.
DelInNode(n, extent, off) ==
    IF off >= 0 THEN IF extent + off >= n.count THEN n.count - off ELSE extent
    ELSE IF -off > extent THEN extent ELSE -off

RECURSIVE DelLoop(_, _, _, _)
DelLoop(q, i, extent, off) ==
    LET n == q.node[i]
        del == DelInNode(n, extent, off)
        u == DecompressForUse(n)
        p == ZiplistIndex(n.zl, off)
        cut == [u EXCEPT !.zl = SubSeq(@, 1, p - 1) \o SubSeq(@, p + del, Len(@)), !.count = @ - del]
        r == [Set(q, i, cut) EXCEPT !.count = @ - del]
    IN  IF extent = 0 THEN q
        ELSE IF off = 0 /\ extent >= n.count THEN DelLoop(DelNode(q, i), i, extent - n.count, 0)
        ELSE IF cut.count = 0 THEN DelLoop(DelNode(r, i), i, extent - del, 0)
        ELSE DelLoop(RecompressOnly(r, i), i + 1, extent - del, 0)

DelRange(q, start, count) ==
    LET left == IF start >= 0 THEN q.count - start ELSE -start
        e == QIndex(q, start)
    IN  IF count <= 0 \/ e.i = 0 THEN q ELSE DelLoop(QUsed(q, e.i), e.i, IF count > left THEN left ELSE count, e.off)

-----------------------------------------------------------------------------
\* quicklistNext: the list, the iterator, and whether there is an entry, at
\* position pos of node cur.
Iter(q, idx, fwd) == LET e == QIndex(q, idx) IN [cur |-> e.i, off |-> e.off, pos |-> 0, fwd |-> fwd]

RECURSIVE QNext(_, _)
QNext(q, it) ==
    LET u == IF it.pos = 0 THEN QUsed(q, it.cur) ELSE Touch(q, it.cur)
        d == IF it.pos = 0 THEN 0 ELSE IF it.fwd THEN 1 ELSE -1
        zl == u.node[it.cur].zl
        p == IF it.pos = 0 THEN ZiplistIndex(zl, it.off) ELSE it.pos + d
        c == IF it.fwd THEN (it.cur + 1) % (Len(u.node) + 1) ELSE it.cur - 1
    IN  IF it.cur = 0 THEN [q |-> q, it |-> it]
        ELSE IF p \in DOMAIN zl THEN [q |-> u, it |-> [it EXCEPT !.pos = p, !.off = @ + d]]
        ELSE QNext(CompressIt(u, it.cur), [it EXCEPT !.cur = c, !.off = IF it.fwd THEN 0 ELSE -1, !.pos = 0])
QEntry(s) == s.q.node[s.it.cur].zl[s.it.pos]
Ended(s) == s.it.cur = 0

\* quicklistDelEntry: the iterator goes on from the same offset or the node beside
DelEntry(s) ==
    LET i == s.it.cur
        gone == s.q.node[i].count = 1
        q == DelIndex(s.q, i, s.it.pos)
        c == IF ~gone THEN i ELSE IF s.it.fwd THEN IF i > Len(q.node) THEN 0 ELSE i ELSE i - 1
    IN  [q |-> q, it |-> [s.it EXCEPT !.pos = 0, !.cur = c, !.off = IF ~gone THEN @ ELSE IF s.it.fwd THEN 0 ELSE -1]]

-----------------------------------------------------------------------------
\* The commands.  They work on a key that exists; a list that becomes empty is
\* deleted.  A compressed node used as a ziplist is undefined: nothing follows.
Done(op, args, q, reply) ==
    /\ ~ql.bad
    /\ ql' = q
    /\ qcall' = [op |-> op, args |-> args, reply |-> reply]
DoneWith(op, args, r) == Done(op, args, r.q, r.reply)
Room == ql.count < MaxLen
Pos == -ql.count - 1 .. ql.count

LPush == \E e \in LElem, head \in BOOLEAN : Room /\ Done("push", <<e, head>>, PushEnd(ql, e, head), ql.count + 1)

LIndex ==
    \E idx \in Pos :
        LET e == QIndex(ql, idx) IN
        Done("index", <<idx>>, QUsed(ql, e.i), IF e.i = 0 THEN <<>> ELSE <<Value(ql, e)>>)

LSet ==
    \E idx \in Pos, v \in LElem :
        LET e == QIndex(ql, idx) IN e.i # 0 /\ Done("set", <<idx, v>>, QReplace(ql, e, v), <<>>)

\* The loops of the commands: elements are taken until the command has seen enough.
WithLength(q) == [q |-> q, reply |-> q.count]
RECURSIVE InsertLoop(_, _, _, _)
InsertLoop(s, pivot, v, after) ==
    IF Ended(s) THEN [q |-> s.q, reply |-> -1]
    ELSE IF QEntry(s) = pivot
         THEN WithLength(QInsert(s.q, s.it.cur, s.it.off, v, after))
         ELSE InsertLoop(QNext(s.q, s.it), pivot, v, after)
LInsert ==
    \E pivot \in LElem, v \in LElem, after \in BOOLEAN :
        /\ Room /\ ql.count > 0
        /\ DoneWith("insert", <<pivot, v, after>>, InsertLoop(QNext(ql, Iter(ql, 0, TRUE)), pivot, v, after))

RECURSIVE RemLoop(_, _, _, _)
RemLoop(s, v, toremove, removed) ==
    IF Ended(s) THEN [q |-> s.q, reply |-> removed]
    ELSE IF QEntry(s) # v THEN RemLoop(QNext(s.q, s.it), v, toremove, removed)
    ELSE LET d == DelEntry(s) IN
         IF toremove # 0 /\ removed + 1 = toremove THEN [q |-> d.q, reply |-> removed + 1]
         ELSE RemLoop(QNext(d.q, d.it), v, toremove, removed + 1)
LRem ==
    \E v \in LElem, n \in -2 .. 2 :
        /\ ql.count > 0
        /\ DoneWith("rem", <<v, n>>, RemLoop(QNext(ql, Iter(ql, IF n < 0 THEN -1 ELSE 0, n >= 0)), v, IF n < 0 THEN -n ELSE n, 0))

\* addListRangeReply, with start and end as they are given
RECURSIVE RangeLoop(_, _, _)
RangeLoop(s, n, reply) ==
    IF n = 1 THEN [q |-> s.q, reply |-> Append(reply, QEntry(s))]
    ELSE RangeLoop(QNext(s.q, s.it), n - 1, Append(reply, QEntry(s)))
FromStart(q, i) == IF i < 0 THEN q.count + i ELSE i
RangeReply(q, first, last, reverse) ==
    LET start == IF FromStart(q, first) < 0 THEN 0 ELSE FromStart(q, first)
        end == IF FromStart(q, last) >= q.count THEN q.count - 1 ELSE FromStart(q, last)
    IN  IF start > end \/ start >= q.count THEN [q |-> q, reply |-> <<>>]
        ELSE RangeLoop(QNext(q, Iter(q, IF reverse THEN end ELSE start, ~reverse)), end - start + 1, <<>>)
LRange ==
    \E first \in Pos, last \in Pos :
        ql.count > 0 /\ DoneWith("range", <<first, last>>, RangeReply(ql, first, last, FALSE))

\* LPOP and RPOP, of one element or, with a count, of several
LPop ==
    \E head \in BOOLEAN :
        LET n == IF head THEN 1 ELSE Len(ql.node)
            zl == ql.node[n].zl
        IN  ql.count > 0 /\ Done("pop", <<1, head>>, Pop(ql, head), <<IF head THEN Head(zl) ELSE Last(zl)>>)
LPopCount ==
    \E head \in BOOLEAN, count \in 1 .. MaxLen :
        LET n == IF count > ql.count THEN ql.count ELSE count
            start == IF head THEN 0 ELSE -n
            r == RangeReply(ql, start, IF head THEN n - 1 ELSE -1, ~head)
        IN  ql.count > 0 /\ Done("pop", <<count, head>>, DelRange(r.q, start, n), r.reply)

LTrim ==
    \E first \in Pos, last \in Pos :
        LET start == IF FromStart(ql, first) < 0 THEN 0 ELSE FromStart(ql, first)
            end == IF FromStart(ql, last) >= ql.count THEN ql.count - 1 ELSE FromStart(ql, last)
            none == start > end \/ start >= ql.count
            ltrim == IF none THEN ql.count ELSE start
            rtrim == IF none THEN 0 ELSE ql.count - end - 1
        IN  ql.count > 0 /\ Done("trim", <<first, last>>, DelRange(DelRange(ql, 0, ltrim), -rtrim, rtrim), <<>>)

\* LPOS with RANK, COUNT (-1 if not given) and MAXLEN: the indexes of the matches
RECURSIVE PosLoop(_, _, _, _, _)
PosLoop(s, a, index, matches, reply) ==
    LET hit == QEntry(s) = a.v
        m == IF hit THEN matches + 1 ELSE matches
        told == hit /\ m >= a.rank
        r == IF told THEN Append(reply, IF s.it.fwd THEN index ELSE s.q.count - index - 1) ELSE reply
    IN  IF Ended(s) \/ (a.maxlen # 0 /\ index >= a.maxlen) THEN [q |-> s.q, reply |-> reply]
        ELSE IF told /\ (a.count = -1 \/ (a.count # 0 /\ m - a.rank + 1 >= a.count)) THEN [q |-> s.q, reply |-> r]
        ELSE PosLoop(QNext(s.q, s.it), a, index + 1, m, r)
LPos ==
    \E v \in LElem, rank \in {-2, -1, 1, 2}, count \in {-1, 0, 2}, maxlen \in {0, 2} :
        LET a == [v |-> v, rank |-> IF rank < 0 THEN -rank ELSE rank, count |-> count, maxlen |-> maxlen]
            start == QNext(ql, Iter(ql, IF rank < 0 THEN -1 ELSE 0, rank > 0))
        IN  ql.count > 0 /\ DoneWith("pos", <<v, rank, count, maxlen>>, PosLoop(start, a, 0, 0, <<>>))

\* COPY: the nodes with their encoding, added one by one.  RDB: every node is
\* saved as a ziplist, and loaded uncompressed.
Dup == Done("same", <<>>, FoldLeft(LAMBDA q, n : AppendZiplist(q, [n EXCEPT !.re = FALSE]), EmptyList, ql.node), <<>>)
Reload == Done("same", <<>>, FoldLeft(LAMBDA q, n : AppendZiplist(q, Node(n.zl)), EmptyList, ql.node), <<>>)

QNextState ==
    LPush \/ LIndex \/ LSet \/ LInsert \/ LRem \/ LRange \/ LPop \/ LPopCount \/ LTrim \/ LPos \/ Dup \/ Reload
QSpec == QInit /\ [][QNextState]_qvars

-----------------------------------------------------------------------------
\* Every count the list caches is right, no node is empty, and with a limit on
\* the elements of a node no node has more, after any mix of insertions,
\* deletions, splits and merges (quicklist->count, node->count).
CountsRight ==
    /\ ql.count = Len(Flat(ql))
    /\ \A i \in DOMAIN ql.node :
           LET n == ql.node[i] IN n.count = Len(n.zl) /\ n.zl # <<>> /\ (Fill > 0 => n.count <= Fill)

\* What a plain sequence gives: the list and the reply.
Clip(s, first, last) ==
    LET a == IF first < 0 THEN Len(s) + first ELSE first
        b == IF last < 0 THEN Len(s) + last ELSE last
    IN  {k \in DOMAIN s : a <= k - 1 /\ k - 1 <= b}
Kept(s, ks) == LET f[k \in 0 .. Len(s)] == IF k = 0 THEN <<>> ELSE IF k \in ks THEN Append(f[k - 1], s[k]) ELSE f[k - 1] IN f[Len(s)]
QAt(s, idx) == IF idx < 0 THEN Len(s) + 1 + idx ELSE idx + 1
Rank(ks, k, fwd) == Cardinality({j \in ks : IF fwd THEN j <= k ELSE j >= k})
Occurs(s, v) == {k \in DOMAIN s : s[k] = v}

QTold(s, op, a) ==
    CASE op = "push"   -> IF a[2] THEN <<a[1]>> \o s ELSE Append(s, a[1])
      [] op = "set"    -> [s EXCEPT ![QAt(s, a[1])] = a[2]]
      [] op = "insert" -> IF Occurs(s, a[1]) = {} THEN s
                          ELSE LET k == CHOOSE j \in Occurs(s, a[1]) : \A i \in Occurs(s, a[1]) : j <= i
                               IN  InsertAt(s, IF a[3] THEN k + 1 ELSE k, a[2])
      [] op = "rem"    -> LET o == Occurs(s, a[1])
                              m == IF a[2] < 0 THEN -a[2] ELSE a[2]
                          IN  Kept(s, DOMAIN s \ {k \in o : m = 0 \/ Rank(o, k, a[2] >= 0) <= m})
      [] op = "pop"    -> IF a[2] THEN SubSeq(s, a[1] + 1, Len(s)) ELSE SubSeq(s, 1, Len(s) - a[1])
      [] op = "trim"   -> Kept(s, Clip(s, a[1], a[2]))
      [] OTHER         -> s

Answer(s, op, a) ==
    CASE op = "push"   -> Len(s) + 1
      [] op = "index"  -> IF QAt(s, a[1]) \in DOMAIN s THEN <<s[QAt(s, a[1])]>> ELSE <<>>
      [] op = "insert" -> IF Occurs(s, a[1]) = {} THEN -1 ELSE Len(s) + 1
      [] op = "rem"    -> Len(s) - Len(QTold(s, op, a))
      [] op = "range"  -> Kept(s, Clip(s, a[1], a[2]))
      [] op = "pop"    -> IF a[2] THEN SubSeq(s, 1, Min({a[1], Len(s)}))
                          ELSE Reverse(SubSeq(s, Max({0, Len(s) - a[1]}) + 1, Len(s)))
      [] op = "pos"    -> LET fwd == a[2] > 0
                              seen == {k \in Occurs(s, a[1]) : a[4] = 0 \/ (IF fwd THEN k ELSE Len(s) + 1 - k) <= a[4]}
                              from == IF fwd THEN a[2] ELSE -a[2]
                              upto == IF a[3] = -1 THEN from ELSE IF a[3] = 0 THEN Len(s) ELSE from + a[3] - 1
                              hits == Kept([k \in DOMAIN s |-> k - 1], {k \in seen : Rank(seen, k, fwd) \in from .. upto})
                          IN  IF fwd THEN hits ELSE Reverse(hits)
      [] OTHER         -> <<>>

\* Every command leaves the elements, and gives the answer, that it would with
\* a plain sequence, however the elements are spread over nodes and whatever is
\* compressed (t_list.c over quicklist.c).
ListAsTold ==
    ~ql'.bad => /\ Flat(ql') = QTold(Flat(ql), qcall'.op, qcall'.args)
                /\ qcall'.reply = Answer(Flat(ql), qcall'.op, qcall'.args)
=============================================================================
