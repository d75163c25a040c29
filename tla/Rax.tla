-------------------------------- MODULE Rax --------------------------------
(***************************************************************************)
(* The radix tree behind streams, client tables, tracking and timers          *)
(* (redis-6.2.7/src/rax.c): chains of nodes with one child are compressed into *)
(* one, split again by insertions and joined by removals; an iterator seeks    *)
(* and walks both ways.  A node is [s, compr, key, v, kids], s its characters; *)
(* a compressed node has one child for all of them.  Allocations do not fail   *)
(* (zmalloc ends the process).                                               *)
(***************************************************************************)
EXTENDS Integers, Sequences, FiniteSets, SequencesExt

CONSTANTS
    RaxKeys,        \* the keys to insert: sequences of numbers
    RaxProbes,      \* what is searched
    RaxValues,      \* values; 0 is NULL
    MaxNode         \* RAX_NODE_MAX_SIZE

VARIABLES
    rax,            \* [head, numele, numnodes]
    raxmap          \* what is in it: from keys to values

rxvars == <<rax, raxmap>>

Leaf == [s |-> <<>>, compr |-> FALSE, key |-> FALSE, v |-> 0, kids |-> <<>>]
\* raxReallocForData, raxSetData
WithData(h, v) == [h EXCEPT !.key = TRUE, !.v = v]
Rest(s, n) == SubSeq(s, n + 1, Len(s))
RECURSIVE Common(_, _)
Common(a, b) == IF a = <<>> \/ b = <<>> THEN 0 ELSE IF a[1] # b[1] THEN 0 ELSE 1 + Common(Tail(a), Tail(b))

-----------------------------------------------------------------------------
(* Insertion *)

\* raxAddChild: the position keeps the characters in order
ChildPos(h, c) == 1 + Cardinality({i \in DOMAIN h.s : h.s[i] < c})
AddChild(h, c, child) == [h EXCEPT !.s = InsertAt(@, ChildPos(h, c), c), !.kids = InsertAt(@, ChildPos(h, c), child)]

\* The last loop of raxGenericInsert: the rest of the key below h, with the new nodes
RECURSIVE Grow(_, _, _)
Grow(h, s, v) ==
    IF s = <<>> THEN [t |-> WithData(h, v), n |-> 0]
    ELSE IF h.s = <<>> /\ Len(s) > 1 THEN
        LET k == IF Len(s) > MaxNode THEN MaxNode ELSE Len(s)
            r == Grow(Leaf, Rest(s, k), v)
        IN  [t |-> [h EXCEPT !.s = SubSeq(s, 1, k), !.compr = TRUE, !.kids = <<r.t>>], n |-> r.n + 1]
    ELSE LET r == Grow(Leaf, Tail(s), v) IN [t |-> AddChild(h, s[1], r.t), n |-> r.n + 1]

SplitAt(h, j) ==
    LET post == Rest(h.s, j + 1)
        next == IF post = <<>> THEN h.kids[1] ELSE [Leaf EXCEPT !.s = post, !.compr = Len(post) > 1, !.kids = h.kids]
    IN  [Leaf EXCEPT !.s = <<h.s[j + 1]>>, !.key = j = 0 /\ h.key, !.v = IF j = 0 THEN h.v ELSE 0, !.kids = <<next>>]
Trimmed(h, j, child) == [h EXCEPT !.s = SubSeq(h.s, 1, j), !.compr = j > 1, !.kids = <<child>>]
\* ALGO 2: the key ends inside a compressed node, after j characters
KeyInside(h, j, v) ==
    LET post == Rest(h.s, j)
    IN  Trimmed(h, j, [s |-> post, compr |-> Len(post) > 1, key |-> TRUE, v |-> v, kids |-> h.kids])

\* raxGenericInsert, with the walk of raxLowWalk: [t, n, new]
RECURSIVE InsertIn(_, _, _, _)
InsertIn(h, s, v, overwrite) ==
    IF s = <<>> THEN [t |-> IF ~h.key \/ overwrite THEN WithData(h, v) ELSE h, n |-> 0, new |-> ~h.key]
    ELSE IF h.s = <<>> THEN LET g == Grow(h, s, v) IN [t |-> g.t, n |-> g.n, new |-> TRUE]
    ELSE IF h.compr THEN
        LET j == Common(h.s, s) IN
        IF j = Len(h.s) THEN LET r == InsertIn(h.kids[1], Rest(s, j), v, overwrite) IN [r EXCEPT !.t = [h EXCEPT !.kids = <<r.t>>]]
        ELSE IF j = Len(s) THEN [t |-> KeyInside(h, j, v), n |-> 1, new |-> TRUE]
        ELSE LET g == Grow(SplitAt(h, j), Rest(s, j), v)
             IN  [t |-> IF j = 0 THEN g.t ELSE Trimmed(h, j, g.t),
                  n |-> g.n + (IF j = 0 THEN 0 ELSE 1) + (IF j + 1 = Len(h.s) THEN 0 ELSE 1), new |-> TRUE]
    ELSE IF \E i \in DOMAIN h.s : h.s[i] = s[1] THEN
        LET i == CHOOSE x \in DOMAIN h.s : h.s[x] = s[1]
            r == InsertIn(h.kids[i], Tail(s), v, overwrite)
        IN  [r EXCEPT !.t = [h EXCEPT !.kids[i] = r.t]]
    ELSE LET g == Grow(h, s, v) IN [t |-> g.t, n |-> g.n, new |-> TRUE]

-----------------------------------------------------------------------------
(* Nodes by their paths: the numbers of the children from the head *)

RECURSIVE At(_, _)
At(h, p) == IF p = <<>> THEN h ELSE At(h.kids[p[1]], Tail(p))
RECURSIVE SetAt(_, _, _)
SetAt(h, p, new) == IF p = <<>> THEN new ELSE [h EXCEPT !.kids[p[1]] = SetAt(@, Tail(p), new)]
Up(p) == SubSeq(p, 1, Len(p) - 1)

\* raxLowWalk: [p, i (characters matched), j (of them inside a compressed node)]
RECURSIVE LowWalk(_, _, _, _)
LowWalk(h, s, i, p) ==
    LET n == At(h, p)
        j == Common(n.s, Rest(s, i))
    IN  IF n.s = <<>> \/ i = Len(s) THEN [p |-> p, i |-> i, j |-> 0]
        ELSE IF n.compr THEN IF j # Len(n.s) THEN [p |-> p, i |-> i + j, j |-> j] ELSE LowWalk(h, s, i + j, Append(p, 1))
        ELSE IF \A x \in DOMAIN n.s : n.s[x] # s[i + 1] THEN [p |-> p, i |-> i, j |-> 0]
        ELSE LowWalk(h, s, i + 1, Append(p, CHOOSE x \in DOMAIN n.s : n.s[x] = s[i + 1]))
Found(h, s, w) == w.i = Len(s) /\ ~(At(h, w.p).compr /\ w.j # 0) /\ At(h, w.p).key
\* raxFind
RxFind(h, s) == LET w == LowWalk(h, s, 0, <<>>) IN IF Found(h, s, w) THEN At(h, w.p).v ELSE -1

-----------------------------------------------------------------------------
(* raxRemove *)

Single(n) == n.compr \/ Len(n.s) = 1
\* raxRemoveChild
RemoveChild(n, i) ==
    IF n.compr THEN [n EXCEPT !.s = <<>>, !.compr = FALSE, !.kids = <<>>] ELSE [n EXCEPT !.s = RemoveAt(@, i), !.kids = RemoveAt(@, i)]
\* The nodes without key and with one child above a leaf at p go with it: the path of
\* the child to unlink.
RECURSIVE Unlinked(_, _)
Unlinked(h, p) == LET up == Up(p) IN IF up = <<>> \/ At(h, up).key \/ ~Single(At(h, up)) THEN p ELSE Unlinked(h, up)
\* Recompression: the first node of the chain that p is in, and the chain below it
RECURSIVE ChainStart(_, _)
ChainStart(h, p) == IF p = <<>> THEN p ELSE IF At(h, Up(p)).key \/ ~Single(At(h, Up(p))) THEN p ELSE ChainStart(h, Up(p))
RECURSIVE Chain(_)
Chain(n) ==     \* [s, n (nodes), end (what follows)]
    LET next == Last(n.kids)
        c == Chain(next)
    IN  IF next.key \/ ~Single(next) THEN [s |-> n.s, n |-> 1, end |-> next]
        ELSE [s |-> n.s \o c.s, n |-> c.n + 1, end |-> c.end]
RxCompress(h, p) ==
    LET start == ChainStart(h, p)
        c == Chain(At(h, start))
    IN  IF c.n = 1 THEN [t |-> h, n |-> 0]
        ELSE [t |-> SetAt(h, start, [Leaf EXCEPT !.s = c.s, !.compr = TRUE, !.kids = <<c.end>>]), n |-> c.n - 1]

Freed(c, n) == [t |-> c.t, n |-> c.n + n, found |-> TRUE]
\* The child at u is unlinked from its parent, which is then perhaps in a chain
UnlinkFrom(h, up, parent) ==
    IF Len(parent.s) = 1 /\ ~parent.key THEN RxCompress(SetAt(h, up, parent), up) ELSE [t |-> SetAt(h, up, parent), n |-> 0]
Unlink(h, u, depth) == Freed(UnlinkFrom(h, Up(u), RemoveChild(At(h, Up(u)), Last(u))), depth - Len(Up(u)))
\* The node at p is a key no more
RemoveNode(h, p, node) ==
    IF node.s = <<>> /\ p # <<>> THEN Unlink(h, Unlinked(h, p), Len(p))
    ELSE IF Len(node.s) = 1 THEN Freed(RxCompress(h, p), 0)
    ELSE [t |-> h, n |-> 0, found |-> TRUE]
RemoveAtNode(h, p, node) == RemoveNode(SetAt(h, p, node), p, node)
RemoveWalked(h, s, w) ==
    IF Found(h, s, w) THEN RemoveAtNode(h, w.p, [At(h, w.p) EXCEPT !.key = FALSE, !.v = 0]) ELSE [t |-> h, n |-> 0, found |-> FALSE]
RemoveFrom(h, s) == RemoveWalked(h, s, LowWalk(h, s, 0, <<>>))     \* [t, n (nodes freed), found]

-----------------------------------------------------------------------------
(* Iterators: [p, k (the key so far), eof] *)

Drop(k, n) == SubSeq(k, 1, Len(k) - (IF n.compr THEN Len(n.s) ELSE 1))
EOF(it) == [it EXCEPT !.eof = TRUE]

\* The inner loop of raxIteratorNextStep: up until a child with a greater character
RECURSIVE NextUp(_, _, _, _), NextStep(_, _, _)
NextUp(h, it, noup, orig) ==
    LET prev == Last(it.k)
        p == IF noup THEN it.p ELSE Up(it.p)
        n == At(h, p)
        k == Drop(it.k, n)
        greater == {i \in DOMAIN n.s : n.s[i] > prev}
        i == CHOOSE x \in greater : \A y \in greater : x <= y
        new == [p |-> Append(p, i), k |-> Append(k, n.s[i]), eof |-> FALSE]
    IN  IF ~noup /\ it.p = <<>> THEN EOF(orig)
        ELSE IF ~n.compr /\ Len(n.s) > (IF noup THEN 0 ELSE 1) /\ greater # {}
             THEN IF At(h, new.p).key THEN new ELSE NextStep(h, new, FALSE)
        ELSE NextUp(h, [it EXCEPT !.p = p, !.k = k], FALSE, orig)
NextStep(h, it, noup) ==
    LET n == At(h, it.p)
        new == [p |-> Append(it.p, 1), k |-> it.k \o (IF n.compr THEN n.s ELSE <<n.s[1]>>), eof |-> FALSE]
    IN  IF ~noup /\ n.kids # <<>> THEN IF At(h, new.p).key THEN new ELSE NextStep(h, new, FALSE)
        ELSE NextUp(h, it, noup, it)

\* raxSeekGreatest
RECURSIVE Greatest(_, _)
Greatest(h, it) ==
    LET n == At(h, it.p) IN
    IF n.s = <<>> THEN it
    ELSE Greatest(h, [it EXCEPT !.p = Append(@, Len(n.kids)), !.k = @ \o (IF n.compr THEN n.s ELSE <<Last(n.s)>>)])
\* raxIteratorPrevStep
RECURSIVE PrevStep(_, _, _, _)
PrevStep(h, it, noup, orig) ==
    LET prev == Last(it.k)
        p == IF noup THEN it.p ELSE Up(it.p)
        n == At(h, p)
        k == Drop(it.k, n)
        smaller == {i \in DOMAIN n.s : n.s[i] < prev}
        i == CHOOSE x \in smaller : \A y \in smaller : x >= y
        new == IF ~n.compr /\ Len(n.s) > (IF noup THEN 0 ELSE 1) /\ smaller # {}
               THEN Greatest(h, [p |-> Append(p, i), k |-> Append(k, n.s[i]), eof |-> FALSE])
               ELSE [it EXCEPT !.p = p, !.k = k]
    IN  IF ~noup /\ it.p = <<>> THEN EOF(orig)
        ELSE IF At(h, new.p).key THEN new ELSE PrevStep(h, new, FALSE, orig)

\* The characters of a path
RECURSIVE KeyOf(_, _)
KeyOf(h, p) == IF p = <<>> THEN <<>> ELSE (IF h.compr THEN h.s ELSE <<h.s[p[1]]>>) \o KeyOf(h.kids[p[1]], Tail(p))
\* raxSeek, to the place of the first raxNext or raxPrev
SeekInside(h, w, it, op, s) ==      \* the walk ended inside or at a compressed node, the key did not
    LET n == At(h, w.p)
        above == n.s[w.j + 1] > s[w.i + 1]
        past == [it EXCEPT !.k = @ \o n.s]
    IN  IF op \in {">", ">="} THEN IF above THEN NextStep(h, it, FALSE) ELSE NextStep(h, past, TRUE)
        ELSE IF ~above THEN Greatest(h, it) ELSE PrevStep(h, past, TRUE, past)
SeekNoMismatch(h, w, it, op) ==
    LET n == At(h, w.p) IN
    IF n.compr /\ n.key /\ w.j # 0 /\ op \in {"<", "<="} THEN it
    ELSE IF op \in {">", ">="} THEN NextStep(h, it, FALSE) ELSE PrevStep(h, it, FALSE, it)
SeekBeside(h, more, op) == IF op \in {">", ">="} THEN NextStep(h, more, TRUE) ELSE PrevStep(h, more, TRUE, more)
SeekFrom(h, w, it, op, s) ==
    IF op \in {"=", ">=", "<="} /\ Found(h, s, w) THEN [it EXCEPT !.k = s]
    ELSE IF op = "=" THEN EOF(it)
    ELSE IF w.i # Len(s) /\ ~At(h, w.p).compr THEN SeekBeside(h, [it EXCEPT !.k = Append(@, s[w.i + 1])], op)
    ELSE IF w.i # Len(s) THEN SeekInside(h, w, it, op, s)
    ELSE SeekNoMismatch(h, w, it, op)
SeekWalked(h, w, op, s) == SeekFrom(h, w, [p |-> w.p, k |-> KeyOf(h, w.p), eof |-> FALSE], op, s)
Seek(r, op, s) ==
    IF r.numele = 0 THEN EOF([p |-> <<>>, k |-> <<>>, eof |-> FALSE])
    ELSE IF op = "$" THEN Greatest(r.head, [p |-> <<>>, k |-> <<>>, eof |-> FALSE])
    ELSE SeekWalked(r.head, LowWalk(r.head, s, 0, <<>>), op, s)
\* raxSeek("^") and raxNext, raxSeek("$") and raxPrev, until the end
RECURSIVE WalkOn(_, _, _)
WalkOn(r, it, forward) ==
    IF it.eof THEN <<>> ELSE <<it.k>> \o WalkOn(r, IF forward THEN NextStep(r.head, it, FALSE) ELSE PrevStep(r.head, it, FALSE, it), forward)
Forward(r) == WalkOn(r, Seek(r, ">=", <<>>), TRUE)
Backward(r) == WalkOn(r, Seek(r, "$", <<>>), FALSE)

-----------------------------------------------------------------------------
RxInit == rax = [head |-> Leaf, numele |-> 0, numnodes |-> 1] /\ raxmap = [k \in {} |-> 0]
\* raxInsert, raxTryInsert
Inserted(r) == [head |-> r.t, numele |-> rax.numele + (IF r.new THEN 1 ELSE 0), numnodes |-> rax.numnodes + r.n]
RxInsert(s, v, overwrite) ==
    LET new == s \notin DOMAIN raxmap
    IN  /\ rax' = Inserted(InsertIn(rax.head, s, v, overwrite))
        /\ raxmap' = [k \in DOMAIN raxmap \cup {s} |-> IF k = s /\ (new \/ overwrite) THEN v ELSE raxmap[k]]
Removed(r) == [head |-> r.t, numele |-> rax.numele - (IF r.found THEN 1 ELSE 0), numnodes |-> rax.numnodes - r.n]
RxRemove(s) ==
    /\ rax' = Removed(RemoveFrom(rax.head, s))
    /\ raxmap' = [k \in DOMAIN raxmap \ {s} |-> raxmap[k]]
RxNext == \E s \in RaxKeys : RxRemove(s) \/ \E v \in RaxValues, o \in BOOLEAN : RxInsert(s, v, o)
RxSpec == RxInit /\ [][RxNext]_rxvars

-----------------------------------------------------------------------------
RECURSIVE Nodes(_)
Nodes(h) == 1 + FoldLeft(LAMBDA x, k : x + Nodes(k), 0, h.kids)
RECURSIVE WellFormed(_)
WellFormed(h) ==
    /\ Len(h.kids) = IF h.compr THEN 1 ELSE Len(h.s)
    /\ h.compr => Len(h.s) > 1
    /\ \A i \in DOMAIN h.kids : WellFormed(h.kids[i]) /\ (h.kids[i].s = <<>> => h.kids[i].key)
RECURSIVE Less(_, _)
Less(a, b) == IF b = <<>> THEN FALSE ELSE IF a = <<>> THEN TRUE ELSE IF a[1] # b[1] THEN a[1] < b[1] ELSE Less(Tail(a), Tail(b))

\* raxFind finds exactly what was inserted and not removed, with its value; the
\* counters are right (raxFreeWithCallback asserts that no node is left), every leaf
\* is a key and every compressed node has one child and at least two characters.
RaxFinds ==
    /\ \A s \in RaxProbes : RxFind(rax.head, s) = IF s \in DOMAIN raxmap THEN raxmap[s] ELSE -1
    /\ rax.numele = Cardinality(DOMAIN raxmap) /\ rax.numnodes = Nodes(rax.head)
    /\ WellFormed(rax.head) \/ raxmap = [k \in {} |-> 0]

\* Every seek stops at the neighbour of its argument in lexicographic order, or at
\* the end when there is none.
RaxSeeks ==
    \A s \in RaxProbes, op \in {"<", "<=", "=", ">=", ">"} : \A it \in {Seek(rax, op, s)} :
        LET fits(k) == (op \in {"<=", "=", ">="} /\ k = s) \/ (op \in {"<", "<="} /\ Less(k, s)) \/ (op \in {">", ">="} /\ Less(s, k))
            all == {k \in DOMAIN raxmap : fits(k)}
        IN  IF all = {} THEN it.eof
            ELSE ~it.eof /\ it.k \in all /\ \A k \in all \ {it.k} : IF op \in {">", ">="} THEN Less(it.k, k) ELSE Less(k, it.k)

\* Walking forwards gives all keys in order, walking backwards in the opposite one.
RaxWalks ==
    \A f \in {Forward(rax)} :
    /\ {f[i] : i \in DOMAIN f} = DOMAIN raxmap /\ \A i \in 1..(Len(f) - 1) : Less(f[i], f[i + 1])
    /\ Backward(rax) = Reverse(f)
=============================================================================
