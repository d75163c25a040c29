------------------------------ MODULE SkipList ------------------------------
(***************************************************************************)
(* The skiplist of a sorted set and the hash table beside it                *)
(* (redis-6.2.7/src/t_zset.c).  A node is named by its element, a number     *)
(* that also stands for the lexicographic order; 0 is the header and Null the *)
(* null pointer.  Every level of a node has a forward pointer and a span, the *)
(* number of nodes the pointer skips to, from which ranks are computed.      *)
(***************************************************************************)
EXTENDS Integers, Sequences, FiniteSets

CONSTANTS
    Elem,       \* a set of positive numbers
    Score,      \* a set of integers
    MaxLevel    \* ZSKIPLIST_MAXLEVEL

VARIABLES
    zsl,     \* level, length and tail of the list; score, backward and level[] of its nodes
    zdict,   \* the hash table: the scores of the elements it has
    zcall    \* the last operation

vars == <<zsl, zdict, zcall>>

SkHeader == 0
Null == -1
Level == 1 .. MaxLevel

\* zslCreate
SkEmpty ==
    [level |-> 1, length |-> 0, tail |-> Null,
     node |-> [x \in {SkHeader} |-> [score |-> 0, back |-> Null, fwd |-> [i \in Level |-> Null], span |-> [i \in Level |-> 0]]]]

Init == zsl = SkEmpty /\ zdict = [e \in {} |-> 0] /\ zcall = [op |-> "none"]

Fwd(z, x, i) == z.node[x].fwd[i]
Span(z, x, i) == z.node[x].span[i]
SkNodes(z) == DOMAIN z.node \ {SkHeader}

\* The nodes before a score and an element; the nodes below a range, the nodes
\* not above it.  A range has bounds that are exclusive or not.
Before(z, score, e) == {x \in SkNodes(z) : z.node[x].score < score \/ (z.node[x].score = score /\ x < e)}
GteMin(v, r) == IF r.minex THEN v > r.min ELSE v >= r.min
LteMax(v, r) == IF r.maxex THEN v < r.max ELSE v <= r.max
SkValue(z, x, r) == IF r.lex THEN x ELSE z.node[x].score
Below(z, r) == {x \in SkNodes(z) : ~GteMin(SkValue(z, x, r), r)}
NotAbove(z, r) == {x \in SkNodes(z) : LteMax(SkValue(z, x, r), r)}

\* The loops that go down the levels and forward while the next node is in s:
\* the last node of each level, and the rank of each.
RECURSIVE Walk(_, _, _, _, _)
Walk(z, s, i, x, rank) ==
    IF Fwd(z, x, i) \in s THEN Walk(z, s, i, Fwd(z, x, i), rank + Span(z, x, i)) ELSE <<x, rank>>

Path(z, s) ==
    LET f[i \in Level] ==
            IF i > z.level THEN <<SkHeader, 0>>
            ELSE IF i = z.level THEN Walk(z, s, i, SkHeader, 0)
            ELSE Walk(z, s, i, f[i + 1][1], f[i + 1][2])
    IN  [update |-> [i \in Level |-> f[i][1]], rank |-> [i \in Level |-> f[i][2]]]

\* zslInsert, of a node with level l (zslRandomLevel)
zslInsert(z, score, e, l) ==
    LET p == Path(z, Before(z, score, e))
        \* The levels above the list's start at the header, over all of it.
        span(i) == IF i > z.level THEN z.length ELSE Span(z, p.update[i], i)
        next == Fwd(z, p.update[1], 1)
        new == [score |-> score, back |-> IF p.update[1] = SkHeader THEN Null ELSE p.update[1],
                fwd |-> [i \in Level |-> IF i <= l THEN Fwd(z, p.update[i], i) ELSE Null],
                span |-> [i \in Level |-> IF i <= l THEN span(i) - (p.rank[1] - p.rank[i]) ELSE 0]]
        old(x) ==
            [z.node[x] EXCEPT
               !.fwd = [i \in Level |-> IF i <= l /\ p.update[i] = x THEN e ELSE @[i]],
               !.span = [i \in Level |-> IF p.update[i] # x THEN @[i]
                                         ELSE IF i <= l THEN p.rank[1] - p.rank[i] + 1
                                         ELSE IF i <= z.level THEN @[i] + 1 ELSE @[i]],
               !.back = IF x = next THEN e ELSE @]
    IN  [level |-> IF l > z.level THEN l ELSE z.level,
         length |-> z.length + 1,
         tail |-> IF next = Null THEN e ELSE z.tail,
         node |-> [x \in DOMAIN z.node \cup {e} |-> IF x = e THEN new ELSE old(x)]]

\* zslDeleteNode
zslDeleteNode(z, x, update) ==
    LET n == z.node[x]
        old(y) == [z.node[y] EXCEPT
                     !.fwd = [i \in Level |-> IF i <= z.level /\ update[i] = y /\ @[i] = x THEN n.fwd[i] ELSE @[i]],
                     !.span = [i \in Level |-> IF i > z.level \/ update[i] # y THEN @[i]
                                               ELSE IF z.node[y].fwd[i] = x THEN @[i] + n.span[i] - 1 ELSE @[i] - 1],
                     !.back = IF y = n.fwd[1] THEN n.back ELSE @]
        nodes == [y \in DOMAIN z.node \ {x} |-> old(y)]
        used == {1} \cup {i \in 1 .. z.level : nodes[SkHeader].fwd[i] # Null}
    IN  [level |-> CHOOSE i \in used : \A j \in used : j <= i,
         length |-> z.length - 1,
         tail |-> IF n.fwd[1] = Null THEN n.back ELSE z.tail,
         node |-> nodes]

\* zslDelete: the node after the path is the one looked for, or there is none.
zslDelete(z, score, e) ==
    LET p == Path(z, Before(z, score, e))
        x == Fwd(z, p.update[1], 1)
    IN  IF x = e /\ z.node[x].score = score THEN zslDeleteNode(z, x, p.update) ELSE z

\* zslUpdateScore: in place if the node stays between its neighbours
zslUpdateScore(z, cur, e, new, l) ==
    LET p == Path(z, Before(z, cur, e))
        n == z.node[e]
    IN  IF /\ n.back = Null \/ z.node[n.back].score < new
           /\ n.fwd[1] = Null \/ z.node[n.fwd[1]].score > new
        THEN [z EXCEPT !.node[e].score = new]
        ELSE zslInsert(zslDeleteNode(z, e, p.update), new, e, l)

\* The loops of zslDeleteRangeByScore, ByLex and ByRank: nodes are deleted one
\* after the other with the same update[].
RECURSIVE DeleteWhile(_, _, _, _)
DeleteWhile(z, x, s, update) ==
    IF x \notin s THEN z ELSE DeleteWhile(zslDeleteNode(z, x, update), Fwd(z, x, 1), s, update)

DeleteRange(z, r) ==
    LET p == Path(z, Below(z, r)) IN DeleteWhile(z, Fwd(z, p.update[1], 1), NotAbove(z, r), p.update)

\* Going forward while the rank stays below a bound
RECURSIVE WalkRank(_, _, _, _, _)
WalkRank(z, bound, i, x, rank) ==
    IF Fwd(z, x, i) # Null /\ rank + Span(z, x, i) <= bound
    THEN WalkRank(z, bound, i, Fwd(z, x, i), rank + Span(z, x, i))
    ELSE <<x, rank>>

RankPath(z, bound) ==
    LET f[i \in Level] ==
            IF i > z.level THEN <<SkHeader, 0>>
            ELSE IF i = z.level THEN WalkRank(z, bound, i, SkHeader, 0)
            ELSE WalkRank(z, bound, i, f[i + 1][1], f[i + 1][2])
    IN  f

RECURSIVE DeleteUpTo(_, _, _, _, _)
DeleteUpTo(z, x, rank, end, update) ==
    IF x = Null \/ rank > end THEN z
    ELSE DeleteUpTo(zslDeleteNode(z, x, update), Fwd(z, x, 1), rank + 1, end, update)

zslDeleteRangeByRank(z, start, end) ==
    LET f == RankPath(z, start - 1)
        update == [i \in Level |-> f[i][1]]
    IN  DeleteUpTo(z, Fwd(z, update[1], 1), f[1][2] + 1, end, update)

\* zslGetRank, 1-based: a level may already end at the element.
zslGetRank(z, score, e) ==
    LET p == Path(z, Before(z, score, e) \cup ({e} \cap SkNodes(z)))
        hit == {i \in 1 .. z.level : p.update[i] = e}
    IN  IF hit = {} THEN 0 ELSE p.rank[CHOOSE i \in hit : \A j \in hit : j <= i]

\* zslGetElementByRank
zslGetElementByRank(z, rank) ==
    LET f == RankPath(z, rank)
        hit == {i \in 1 .. z.level : f[i][2] = rank}
    IN  IF hit = {} THEN Null ELSE f[CHOOSE i \in hit : \A j \in hit : j <= i][1]

\* zslIsInRange and zslIsInLexRange
zslIsInRange(z, r) ==
    /\ ~(r.min > r.max \/ (r.min = r.max /\ (r.minex \/ r.maxex)))
    /\ z.tail # Null /\ GteMin(SkValue(z, z.tail, r), r)
    /\ LteMax(SkValue(z, Fwd(z, SkHeader, 1), r), r)

\* zslFirstInRange and zslFirstInLexRange
FirstInRange(z, r) ==
    LET x == Fwd(z, Path(z, Below(z, r)).update[1], 1)
    IN  IF zslIsInRange(z, r) /\ LteMax(SkValue(z, x, r), r) THEN x ELSE Null

\* zslLastInRange and zslLastInLexRange
LastInRange(z, r) ==
    LET x == Path(z, NotAbove(z, r)).update[1]
    IN  IF zslIsInRange(z, r) /\ GteMin(SkValue(z, x, r), r) THEN x ELSE Null

-----------------------------------------------------------------------------
(* The sorted set of both: zsetAdd, zsetDel and the range deletions of
   zremrangeGenericCommand.  A lexicographic range is only used when all the
   scores are equal.                                                         *)

SkRanges ==
    [lex : {FALSE}, min : Score, max : Score, minex : BOOLEAN, maxex : BOOLEAN]
LexRanges ==
    [lex : {TRUE}, min : Elem, max : Elem, minex : BOOLEAN, maxex : BOOLEAN]
LexAllowed == \A x, y \in SkNodes(zsl) : zsl.node[x].score = zsl.node[y].score

\* dictDelete of the deleted nodes
OnlyIn(z) == [e \in DOMAIN zdict \cap DOMAIN z.node |-> zdict[e]]

Becomes(z, d, call) == zsl' = z /\ zdict' = d /\ zcall' = call

SkAdd(e, score, l) ==
    LET call == [op |-> "add", elem |-> e, score |-> score]
    IN  IF e \in DOMAIN zdict
        THEN Becomes(IF zdict[e] = score THEN zsl ELSE zslUpdateScore(zsl, zdict[e], e, score, l),
                     [zdict EXCEPT ![e] = score], call)
        ELSE Becomes(zslInsert(zsl, score, e, l),
                     [f \in DOMAIN zdict \cup {e} |-> IF f = e THEN score ELSE zdict[f]], call)

\* zsetRemoveFromSkiplist
Del(e) ==
    /\ e \in DOMAIN zdict
    /\ Becomes(zslDelete(zsl, zdict[e], e), [f \in DOMAIN zdict \ {e} |-> zdict[f]], [op |-> "del", elem |-> e])

RemRange(r) ==
    LET z == DeleteRange(zsl, r) IN Becomes(z, OnlyIn(z), [op |-> "range", range |-> r])

RemRank(start, end) ==
    LET z == zslDeleteRangeByRank(zsl, start, end)
    IN  /\ start <= end /\ end <= zsl.length
        /\ Becomes(z, OnlyIn(z), [op |-> "rank", start |-> start, end |-> end])

Next ==
    \/ \E e \in Elem, score \in Score, l \in Level : SkAdd(e, score, l)
    \/ \E e \in Elem : Del(e)
    \/ \E r \in SkRanges : RemRange(r)
    \/ LexAllowed /\ \E r \in LexRanges : RemRange(r)
    \/ \E start, end \in 1 .. Cardinality(Elem) : RemRank(start, end)

Spec == Init /\ [][Next]_vars

-----------------------------------------------------------------------------
(* The reference: elements in the order of score and element.                *)

Scores == [e \in SkNodes(zsl) |-> zsl.node[e].score]
SkLess(d, e, f) == d[e] < d[f] \/ (d[e] = d[f] /\ e < f)
SkRank(d, e) == Cardinality({f \in DOMAIN d : SkLess(d, f, e)}) + 1
InRange(d, r) == {e \in DOMAIN d : LET v == IF r.lex THEN e ELSE d[e] IN GteMin(v, r) /\ LteMax(v, r)}

\* Every pointer of every node leads to the next node of at least that level in
\* the order, and its span is the difference of the ranks; backward pointers and
\* tail mirror level one.
PointersRight ==
    LET rank(x) == IF x = SkHeader THEN 0 ELSE SkRank(Scores, x)
    IN  /\ zsl.length = Cardinality(SkNodes(zsl))
        /\ \A x \in DOMAIN zsl.node, i \in 1 .. zsl.level :
             LET y == Fwd(zsl, x, i)
             IN  y # Null => /\ y \in SkNodes(zsl) /\ rank(y) > rank(x)
                             /\ Span(zsl, x, i) = rank(y) - rank(x)
        /\ \A e \in SkNodes(zsl) : LET y == Fwd(zsl, e, 1) IN
             IF y = Null THEN zsl.tail = e ELSE rank(y) = rank(e) + 1 /\ zsl.node[y].back = e

\* What the range and rank queries answer is what the order says, whatever the
\* levels are.
QueriesRight ==
    /\ \A e \in SkNodes(zsl) : zslGetRank(zsl, zdict[e], e) = SkRank(zdict, e)
    /\ \A k \in 1 .. zsl.length : SkRank(zdict, zslGetElementByRank(zsl, k)) = k
    /\ \A r \in SkRanges \cup (IF LexAllowed THEN LexRanges ELSE {}) :
         LET in == InRange(zdict, r)
         IN  /\ FirstInRange(zsl, r) = IF in = {} THEN Null ELSE CHOOSE e \in in : \A f \in in : f = e \/ SkLess(zdict, e, f)
             /\ LastInRange(zsl, r) = IF in = {} THEN Null ELSE CHOOSE e \in in : \A f \in in : f = e \/ SkLess(zdict, f, e)

\* The operations change the sorted set as they say, and the hash table and the
\* skiplist hold the same elements with the same scores.
Effect(c) ==
    CASE c.op = "add" -> zdict' = [f \in DOMAIN zdict \cup {c.elem} |-> IF f = c.elem THEN c.score ELSE zdict[f]]
      [] c.op = "del" -> zdict' = [f \in DOMAIN zdict \ {c.elem} |-> zdict[f]]
      [] c.op = "range" -> DOMAIN zdict' = DOMAIN zdict \ InRange(zdict, c.range)
      [] c.op = "rank" -> DOMAIN zdict' = {e \in DOMAIN zdict : SkRank(zdict, e) \notin c.start .. c.end}
      [] OTHER -> FALSE

SetAsTold == Effect(zcall') /\ zdict' = Scores'
=============================================================================
