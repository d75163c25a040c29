------------------------------ MODULE ZipList ------------------------------
(***************************************************************************)
(* The ziplist (redis-6.2.7/src/ziplist.c): entries one after the other in    *)
(* memory, each with the length of the one before it in 1 or 5 bytes, a header *)
(* with the total size, the offset of the last entry and a 16 bit count.  A    *)
(* change of one entry can change the size of all that follow it.             *)
(*                                                                         *)
(* A value is <<"i", n>>, a number, or <<"s", n>>, a string of n bytes that is  *)
(* not a number.                                                            *)
(***************************************************************************)
EXTENDS Integers, Sequences, SequencesExt, FiniteSets

CONSTANTS
    Values,         \* values to store
    Integers0,      \* numbers at the boundaries of the encodings
    MaxEntries,     \* entries of a list
    LenLimit        \* UINT16_MAX

VARIABLES
    zl,             \* [bytes, tail, len, e], e the entries [pl, ps, enc, data]
    zmerge,         \* another list, to be merged
    zvals,          \* the values that are in zl
    zpick,          \* the last answer of a random or length query
    zok             \* no assertion has failed

zlvars == <<zl, zmerge, zvals, zpick, zok>>

HeaderSize == 10
EndSize == 1
BigPrevLen == 254

-----------------------------------------------------------------------------
(* Encodings *)

\* zipTryEncoding, zipIntSize, zipEncodingLenSize; up to 32 bits
IntEnc(n) ==
    CASE n \in 0..12 -> [enc |-> "imm", size |-> 0] [] n \in -128..127 -> [enc |-> "8B", size |-> 1]
      [] n \in -32768..32767 -> [enc |-> "16B", size |-> 2] [] n \in -8388608..8388607 -> [enc |-> "24B", size |-> 3]
      [] OTHER -> [enc |-> "32B", size |-> 4]
LenSize(v) == IF v[1] = "i" \/ v[2] <= 63 THEN 1 ELSE IF v[2] <= 16383 THEN 2 ELSE 5
DataSize(v) == IF v[1] = "i" THEN IntEnc(v[2]).size ELSE v[2]
\* zipSaveInteger, zipLoadInteger: the low bytes, read back with their sign
LowBytes(n, k) == [j \in 1..k |-> (n \div 256^(j - 1)) % 256]
SaveInteger(n) ==
    LET k == IntEnc(n).size IN IF k = 0 THEN <<n + 1>> ELSE LowBytes(n, k)
FromBytes(b) == FoldLeft(LAMBDA x, y : 256 * x + y, 0, Reverse(b))
LoadInteger(enc, b) ==
    LET k == Len(b)
        top == IF b[k] >= 128 THEN b[k] - 256 ELSE b[k]
    IN  IF enc = "imm" THEN b[1] - 1 ELSE top * 256^(k - 1) + FromBytes(SubSeq(b, 1, k - 1))

\* zipStorePrevEntryLength without a pointer: the bytes needed
PrevSize(n) == IF n < BigPrevLen THEN 1 ELSE 5
Entry(pl, v) ==
    [pl |-> pl, ps |-> PrevSize(pl), enc |-> IF v[1] = "i" THEN IntEnc(v[2]).enc ELSE "str",
     data |-> IF v[1] = "i" THEN SaveInteger(v[2]) ELSE <<v[2]>>]
\* ziplistGet
Get(x) == IF x.enc = "str" THEN <<"s", x.data[1]>> ELSE <<"i", LoadInteger(x.enc, x.data)>>
Body(x) == LenSize(Get(x)) + DataSize(Get(x))
Raw(x) == x.ps + Body(x)
Sum(s) == FoldLeft(LAMBDA x, y : x + y, 0, s)
Offset(z, i) == HeaderSize + Sum([j \in 1..(i - 1) |-> Raw(z.e[j])])
AtOffset(z, off) == CHOOSE i \in 1..(Len(z.e) + 1) : Offset(z, i) = off

\* ziplistNew
New == [bytes |-> HeaderSize + EndSize, tail |-> HeaderSize, len |-> 0, e |-> <<>>]
\* ZIPLIST_INCR_LENGTH
Incr(z, n) == [z EXCEPT !.len = IF @ < LenLimit THEN @ + n ELSE @]

-----------------------------------------------------------------------------
(* __ziplistCascadeUpdate *)

\* The first loop: entries whose prevlen field must grow, from j on.  It stops at one
\* with enough space, which may keep a field that is too large.
RECURSIVE Growing(_, _, _, _)
Growing(z, j, prevlen, ok) ==
    IF j > Len(z.e) THEN [stop |-> j, fix |-> FALSE, prevlen |-> prevlen, ok |-> ok]
    ELSE LET cur == z.e[j] IN
        IF cur.pl = prevlen THEN [stop |-> j, fix |-> FALSE, prevlen |-> prevlen, ok |-> ok]
        ELSE IF cur.ps >= PrevSize(prevlen) THEN [stop |-> j, fix |-> TRUE, prevlen |-> prevlen, ok |-> ok]
        ELSE Growing(z, j + 1, Raw(cur) + 4, ok /\ (cur.pl = 0 \/ cur.pl + 4 = prevlen))
\* Where the last entry is afterwards
TailAfterAlways(z, last, extra) == z.tail + extra
TailAfter(z, last, extra) == IF z.tail = Offset(z, last) THEN z.tail + extra - 4 ELSE z.tail + extra
\* The second loop, over the entries the first one found: [z, ok]
CascadeGrown(z, i, first, g) ==
    LET cnt == g.stop - i - 1
        newpl(x) == IF x.pl = 0 THEN first ELSE x.pl + 4
        e == [j \in DOMAIN z.e |->
               IF j \in (i + 1)..(g.stop - 1) THEN [z.e[j] EXCEPT !.pl = newpl(z.e[j]), !.ps = 5]
               ELSE IF j = g.stop /\ g.fix THEN [z.e[j] EXCEPT !.pl = g.prevlen] ELSE z.e[j]]
    IN  [z |-> [z EXCEPT !.e = e, !.bytes = @ + 4 * cnt, !.tail = IF cnt = 0 THEN @ ELSE TailAfter(z, g.stop - 1, 4 * cnt)],
         ok |-> g.ok /\ \A j \in (i + 1)..(g.stop - 1) : PrevSize(newpl(z.e[j])) = 5]
\* The whole function, at entry i
Cascade(z, i) ==
    IF i > Len(z.e) THEN [z |-> z, ok |-> TRUE]
    ELSE CascadeGrown(z, i, Raw(z.e[i]), Growing(z, i + 1, Raw(z.e[i]), TRUE))
CascadeIf(z, i, nextdiff) == IF nextdiff # 0 THEN Cascade(z, i) ELSE [z |-> z, ok |-> TRUE]

-----------------------------------------------------------------------------
(* __ziplistInsert, before entry i (the end: Len + 1), and __ziplistDelete *)

AtEnd(z, i) == i = Len(z.e) + 1
\* The entry new, of req bytes, is put in; the one behind it gets nextdiff more bytes
ZlPut(z, i, new, req, nextdiff, force) ==
    LET next == [z.e[i] EXCEPT !.pl = req, !.ps = IF force THEN 5 ELSE PrevSize(req)] IN
    [z EXCEPT !.e = SubSeq(z.e, 1, i - 1) \o <<new>> \o (IF AtEnd(z, i) THEN <<>> ELSE <<next>> \o SubSeq(z.e, i + 1, Len(z.e))),
              !.bytes = @ + req + nextdiff,
              !.tail = IF AtEnd(z, i) THEN Offset(z, i) ELSE IF i = Len(z.e) THEN @ + req ELSE @ + req + nextdiff]
InsertDiff(z, i, new, req, diff) ==
    LET force == diff = -4 /\ req < 4
        nextdiff == IF force THEN 0 ELSE diff
    IN  CascadeIf(ZlPut(z, i, new, req, nextdiff, force), i + 1, nextdiff)
InsertEntry(z, i, new) == InsertDiff(z, i, new, Raw(new), IF AtEnd(z, i) THEN 0 ELSE PrevSize(Raw(new)) - z.e[i].ps)
Prevlen(z, i) == LET tail == AtOffset(z, z.tail) IN IF ~AtEnd(z, i) THEN z.e[i].pl ELSE IF tail <= Len(z.e) THEN Raw(z.e[tail]) ELSE 0
Insert(z, i, v) == [InsertEntry(z, i, Entry(Prevlen(z, i), v)) EXCEPT !.z = Incr(@, 1)]

\* What the entry after the deleted ones does to the offset of the last entry
\* tot bytes of the entries from i to k - 1, the first of which was first
CutEntries(z, i, k, first, tot, nextdiff) ==
    LET rest == k <= Len(z.e)
        next == [z.e[k] EXCEPT !.pl = first.pl, !.ps = PrevSize(first.pl)]
    IN  Incr([z EXCEPT !.e = SubSeq(z.e, 1, i - 1) \o (IF rest THEN <<next>> \o SubSeq(z.e, k + 1, Len(z.e)) ELSE <<>>),
                       !.bytes = @ - (tot - nextdiff),
                       !.tail = IF ~rest THEN Offset(z, i) - first.pl ELSE IF k = Len(z.e) THEN @ - tot ELSE @ - tot + nextdiff], i - k)
AndOk(r, ok) == [r EXCEPT !.ok = @ /\ ok]
AfterCut(d, i, tot, nextdiff) == AndOk(CascadeIf(d, i, nextdiff), tot >= nextdiff /\ d.tail <= d.bytes - EndSize)
ZlDeleteUpTo(z, i, k, tot, nextdiff) == AfterCut(CutEntries(z, i, k, z.e[i], tot, nextdiff), i, tot, nextdiff)
ZlDelete(z, i, num) ==
    LET n == IF num < Len(z.e) - i + 1 THEN num ELSE Len(z.e) - i + 1
        k == i + n
    IN  ZlDeleteUpTo(z, i, k, Offset(z, k) - Offset(z, i), IF k <= Len(z.e) THEN PrevSize(z.e[i].pl) - z.e[k].ps ELSE 0)

\* ziplistReplace: in place when the sizes agree
Reinsert(d, i, v) == AndOk(Insert(d.z, i, v), d.ok)
Replace(z, i, v) ==
    LET new == Entry(0, v)
    IN  IF Body(new) = Body(z.e[i]) THEN [z |-> [z EXCEPT !.e[i] = [@ EXCEPT !.enc = new.enc, !.data = new.data]], ok |-> TRUE]
        ELSE Reinsert(ZlDelete(z, i, 1), i, v)

\* ziplistMerge (neither list is empty)
Merge(a, b) ==
    LET y == [bytes |-> a.bytes + b.bytes - HeaderSize - EndSize,
              len |-> IF a.len + b.len < LenLimit THEN a.len + b.len ELSE LenLimit,
              tail |-> (a.bytes - EndSize) + (b.tail - HeaderSize), e |-> a.e \o b.e]
    IN  Cascade(y, AtOffset(a, a.tail))

ZLen(z) ==
    LET n == Len(z.e) IN
    IF z.len < LenLimit THEN [z |-> z, n |-> z.len] ELSE [z |-> [z EXCEPT !.len = IF n < LenLimit THEN n ELSE @], n |-> n]

\* ziplistIndex with a negative index, ziplistPrev: from the last entry backwards
RECURSIVE Backwards(_, _)
Backwards(z, off) ==
    LET x == z.e[AtOffset(z, off)]
    IN  IF off = z.bytes - EndSize THEN <<>> ELSE IF x.pl = 0 THEN <<Get(x)>> ELSE <<Get(x)>> \o Backwards(z, off - x.pl)

\* ziplistValidateIntegrity, deep
Validates(z) ==
    /\ z.bytes = Offset(z, Len(z.e) + 1) + EndSize /\ z.tail <= z.bytes - EndSize
    /\ \A i \in DOMAIN z.e : z.e[i].pl = (IF i = 1 THEN 0 ELSE Raw(z.e[i - 1]))
    /\ z.e # <<>> => z.tail = Offset(z, Len(z.e))
    /\ z.len # LenLimit => z.len = Len(z.e)

\* ziplistFind: from entry i on, every skip + 1 entries; 0 when there is none
RECURSIVE FindFrom(_, _, _, _)
FindFrom(z, i, v, skip) ==
    IF i > Len(z.e) THEN 0 ELSE IF Get(z.e[i]) = v THEN i ELSE FindFrom(z, i + skip + 1, v, skip)

\* ziplistRandomPairsUnique: draw[i] tells whether a number below the threshold is
\* drawn for pair i; a threshold of 1 leaves no choice.  The indexes of the pairs.
RECURSIVE PickUnique(_, _, _, _)
PickUnique(total, index, remaining, draw) ==
    IF remaining = 0 \/ index = total THEN <<>>
    ELSE IF draw[index + 1] \/ remaining = total - index THEN <<index + 1>> \o PickUnique(total, index + 1, remaining - 1, draw)
    ELSE PickUnique(total, index + 1, remaining, draw)

-----------------------------------------------------------------------------
Do(r) == zl' = r.z /\ zok' = (zok /\ r.ok)
Cutting(s, i, n) == SubSeq(s, 1, i - 1) \o SubSeq(s, i + n, Len(s))

ZlInit == zl = New /\ zmerge = New /\ zvals = <<>> /\ zpick = [q |-> "none"] /\ zok = TRUE
\* ziplistPush and ziplistInsert, ziplistDelete and ziplistDeleteRange, ziplistReplace
ZInsert(i, v) ==
    /\ Len(zl.e) < MaxEntries /\ i <= Len(zl.e) + 1 /\ Do(Insert(zl, i, v))
    /\ zvals' = InsertAt(zvals, i, v) /\ UNCHANGED <<zmerge, zpick>>
ZDelete(i, n) ==
    /\ i <= Len(zl.e) /\ Do(ZlDelete(zl, i, n)) /\ zvals' = Cutting(zvals, i, n) /\ UNCHANGED <<zmerge, zpick>>
ZReplace(i, v) ==
    /\ i <= Len(zl.e) /\ Do(Replace(zl, i, v)) /\ zvals' = [zvals EXCEPT ![i] = v] /\ UNCHANGED <<zmerge, zpick>>
\* Another list gets values at its end and is merged behind or before this one.
ZOther(v) ==
    /\ Len(zmerge.e) < 2 /\ UNCHANGED <<zl, zvals, zpick>>
    /\ \E r \in {Insert(zmerge, Len(zmerge.e) + 1, v)} : zmerge' = r.z /\ zok' = (zok /\ r.ok)
ZMerge(behind) ==
    LET other == [i \in DOMAIN zmerge.e |-> Get(zmerge.e[i])] IN
    /\ zl.e # <<>> /\ zmerge.e # <<>> /\ Len(zl.e) + Len(zmerge.e) <= MaxEntries
    /\ Do(IF behind THEN Merge(zl, zmerge) ELSE Merge(zmerge, zl))
    /\ zvals' = (IF behind THEN zvals \o other ELSE other \o zvals) /\ zmerge' = New /\ UNCHANGED zpick
ZLength ==
    /\ zl' = ZLen(zl).z /\ zpick' = [q |-> "len", n |-> ZLen(zl).n, of |-> zvals] /\ UNCHANGED <<zmerge, zvals, zok>>
ZFind(i, v, skip) ==
    /\ zpick' = [q |-> "find", n |-> FindFrom(zl, i, v, skip), i |-> i, v |-> v, skip |-> skip, of |-> zvals]
    /\ i <= Len(zl.e) /\ UNCHANGED <<zl, zmerge, zvals, zok>>
ZRandomPairs(count, draw) ==
    LET total == Len(zl.e) \div 2
        c == IF count > total THEN total ELSE count
    IN  /\ zpick' = [q |-> "pairs", n |-> c, got |-> PickUnique(total, 0, c, draw), of |-> zvals]
        /\ UNCHANGED <<zl, zmerge, zvals, zok>>

ZlNext ==
    \/ \E i \in 1..MaxEntries, v \in Values \cup (IF zl.e = <<>> THEN Integers0 ELSE {}) : ZInsert(i, v)
    \/ \E i \in 1..MaxEntries, v \in Values : ZReplace(i, v) \/ \E skip \in 0..1 : ZFind(i, v, skip)
    \/ \E i \in 1..MaxEntries, n \in 1..2 : ZDelete(i, n)
    \/ \E v \in Values : ZOther(v)
    \/ \E b \in BOOLEAN : ZMerge(b)
    \/ ZLength \/ \E c \in 1..2, draw \in [1..(MaxEntries \div 2) -> BOOLEAN] : ZRandomPairs(c, draw)
ZlSpec == ZlInit /\ [][ZlNext]_zlvars

-----------------------------------------------------------------------------
\* After every operation the list passes the deep check of ziplistValidateIntegrity and
\* no assertion of the code has failed, wherever the prevlen fields grow or shrink.
ZipValid == zok /\ Validates(zl) /\ Validates(zmerge)

\* The list read forwards and backwards has the values that were put in, integers as
\* they were at every boundary of their encodings.
ZipContents ==
    /\ [i \in DOMAIN zl.e |-> Get(zl.e[i])] = zvals
    /\ Backwards(zl, zl.tail) = Reverse(zvals)

\* Queries answer what the values say: the length, also when the 16 bit count is
\* exhausted; the first match at the stride; as many different pairs as asked for.
ZipAnswers ==
  LET a == zpick' IN
  CASE a.q = "len" -> a.n = Len(a.of)
    [] a.q = "find" ->
          LET hits == {j \in DOMAIN a.of : j >= a.i /\ (j - a.i) % (a.skip + 1) = 0 /\ a.of[j] = a.v}
          IN  IF hits = {} THEN a.n = 0 ELSE a.n \in hits /\ \A j \in hits : a.n <= j
    [] a.q = "pairs" -> Len(a.got) = a.n /\ \A j \in 1..(a.n - 1) : a.got[j] < a.got[j + 1]
    [] OTHER -> TRUE

-----------------------------------------------------------------------------
(***************************************************************************)
(* The listpack of stream nodes (redis-6.2.7/src/listpack.c), byte by byte:   *)
(* a header with the total of bytes and the number of elements, elements that  *)
(* end with their own length so that they can be walked backwards, an EOF      *)
(* byte.  A cursor p is used as callers do: they seek, step, insert, replace   *)
(* and delete at it and go on from the pointer lpInsert hands back.           *)
(***************************************************************************)
CONSTANTS
    LpValues,       \* <<"i", number>> or <<"s", length>>: a string of that many bytes Filler
    Filler,         \* the byte of strings: 255 looks like LP_EOF
    NumUnknown,     \* LP_HDR_NUMELE_UNKNOWN
    MaxLp           \* elements at most

VARIABLES
    lp,             \* the bytes
    lpp,            \* the cursor, an offset into lp, or 0 (NULL)
    lpvals, lpidx   \* the elements it stands for and the index of the cursor

lpvars == <<lp, lpp, lpvals, lpidx>>

HDR == 6
LP_EOF == 255
Bits(v, n) == (v \div (2 ^ n)) % 256
SumBytes(b) == FoldLeft(LAMBDA x, i : x + (b[i] * (256 ^ (i - 1))), 0, [i \in 1..Len(b) |-> i])

-----------------------------------------------------------------------------
(* The encoding *)

\* lpEncodeGetType and lpEncodeString: the bytes of an element
EncodeInt(v) ==
    IF v \in 0..127 THEN <<v>>
    ELSE IF v \in -4096..4095 THEN <<192 + (Bits(v, 8) % 32), Bits(v, 0)>>
    ELSE IF v \in -32768..32767 THEN <<241, Bits(v, 0), Bits(v, 8)>>
    ELSE IF v \in -8388608..8388607 THEN <<242, Bits(v, 0), Bits(v, 8), Bits(v, 16)>>
    ELSE <<243, Bits(v, 0), Bits(v, 8), Bits(v, 16), Bits(v, 24)>>
EncodeString(len) ==
    (IF len < 64 THEN <<128 + len>> ELSE IF len < 4096 THEN <<224 + (len \div 256), len % 256>>
     ELSE <<240, Bits(len, 0), Bits(len, 8), Bits(len, 16), Bits(len, 24)>>) \o [i \in 1..len |-> Filler]
Encode(e) == IF e[1] = "i" THEN EncodeInt(e[2]) ELSE EncodeString(e[2])

\* lpEncodeBacklen
BacklenSize(l) == IF l <= 127 THEN 1 ELSE IF l < 16383 THEN 2 ELSE IF l < 2097151 THEN 3 ELSE IF l < 268435455 THEN 4 ELSE 5
Backlen(l) == LET n == BacklenSize(l) IN [i \in 1..n |-> ((l \div (2 ^ (7 * (n - i)))) % 128) + (IF i = 1 THEN 0 ELSE 128)]
\* lpDecodeBacklen: the last byte is at p
RECURSIVE DecodeBacklen(_, _)
DecodeBacklen(b, p) == (b[p] % 128) + (IF b[p] < 128 THEN 0 ELSE 128 * DecodeBacklen(b, p - 1))

\* lpCurrentEncodedSizeUnsafe, lpCurrentEncodedSizeBytes
EncodedSize(b, p) ==
    LET x == b[p + 1] IN
    IF x < 128 THEN 1 ELSE IF x < 192 THEN 1 + (x % 64) ELSE IF x < 224 THEN 2
    ELSE IF x < 240 THEN 2 + ((x % 16) * 256) + b[p + 2]
    ELSE IF x = 240 THEN 5 + SumBytes(SubSeq(b, p + 2, p + 5))
    ELSE IF x = 241 THEN 3 ELSE IF x = 242 THEN 4 ELSE IF x = 243 THEN 5 ELSE IF x = LP_EOF THEN 1 ELSE 0
SizeBytes(b, p) == LET x == b[p + 1] IN IF x \in 224..239 THEN 2 ELSE IF x = 240 THEN 5 ELSE IF x \in 245..254 THEN 0 ELSE 1
Skip(b, p) == p + EncodedSize(b, p) + BacklenSize(EncodedSize(b, p))

Signed(b) == IF Last(b) >= 128 THEN -SumBytes([i \in 1..Len(b) |-> 255 - b[i]]) - 1 ELSE SumBytes(b)
LpGet(b, p) ==
    LET x == b[p + 1] IN
    IF x < 128 THEN <<"i", x>>
    ELSE IF x < 192 THEN <<"s", x % 64>>
    ELSE IF x < 224 THEN <<"i", LET u == ((x % 32) * 256) + b[p + 2] IN IF u >= 4096 THEN -(8191 - u) - 1 ELSE u>>
    ELSE IF x < 241 THEN <<"s", EncodedSize(b, p) - SizeBytes(b, p)>>
    ELSE <<"i", Signed(SubSeq(b, p + 2, p + EncodedSize(b, p)))>>

-----------------------------------------------------------------------------
(* Walking.  Pointers are offsets; 0 is NULL. *)

TotalBytes(b) == SumBytes(SubSeq(b, 1, 4))
NumElements(b) == SumBytes(SubSeq(b, 5, 6))
Header(total, num) == <<Bits(total, 0), Bits(total, 8), Bits(total, 16), Bits(total, 24), Bits(num, 0), Bits(num, 8)>>

\* lpValidateNext: the next entry (total - 1 at the EOF), or -1 when the entry is broken
ValidateNext(b, p) ==
    LET out(q) == q < HDR \/ q > Len(b) - 1
        size == EncodedSize(b, p)
        end == p + size + BacklenSize(size)
    IN  IF out(p) THEN -1 ELSE IF b[p + 1] = LP_EOF THEN p
        ELSE IF SizeBytes(b, p) = 0 \/ out(p + SizeBytes(b, p)) \/ out(end) THEN -1
        ELSE IF DecodeBacklen(b, end) # size THEN -1 ELSE end

LpFirst(b) == IF b[HDR + 1] = LP_EOF THEN 0 ELSE HDR
LpNextOf(b, p) == IF b[Skip(b, p) + 1] = LP_EOF THEN 0 ELSE Skip(b, p)
LpPrevOf(b, p) == IF p = HDR THEN 0 ELSE LET l == DecodeBacklen(b, p) IN p - l - BacklenSize(l)
LpLast(b) == LpPrevOf(b, TotalBytes(b) - 1)

\* lpLength counts when the header does not say
RECURSIVE CountFrom(_, _)
CountFrom(b, p) == IF p = 0 THEN 0 ELSE 1 + CountFrom(b, LpNextOf(b, p))
LpLength(b) == IF NumElements(b) # NumUnknown THEN NumElements(b) ELSE CountFrom(b, LpFirst(b))

RECURSIVE Steps(_, _, _)
Steps(b, p, n) == IF n = 0 \/ p = 0 THEN p ELSE IF n > 0 THEN Steps(b, LpNextOf(b, p), n - 1) ELSE Steps(b, LpPrevOf(b, p), n + 1)
LpSeek(b, index) ==
    LET n == NumElements(b)
        i == IF n # NumUnknown /\ index < 0 THEN n + index ELSE index
        forward == IF n # NumUnknown THEN i <= n \div 2 ELSE i >= 0
    IN  IF n # NumUnknown /\ i \notin 0..(n - 1) THEN 0
        ELSE IF forward THEN Steps(b, LpFirst(b), i)
        ELSE Steps(b, LpLast(b), (IF n # NumUnknown THEN i - n ELSE i) + 1)

-----------------------------------------------------------------------------
\* lpInsert with ele a sequence of one element, or none to delete: [b, new]
NewCount(b, num, ele, where) ==
    IF (where # "replace" \/ ele = <<>>) /\ num # NumUnknown THEN num + (IF ele # <<>> THEN 1 ELSE -1) ELSE num
LpInsert(b, ele, p, where) ==
    LET at == IF where = "after" THEN Skip(b, p) ELSE p
        enc == IF ele = <<>> THEN <<>> ELSE Encode(ele[1])
        entry == IF ele = <<>> THEN <<>> ELSE enc \o Backlen(Len(enc))
        replaced == IF where = "replace" \/ ele = <<>> THEN Skip(b, at) - at ELSE 0
        total == TotalBytes(b) + Len(entry) - replaced
        num == NewCount(b, NumElements(b), ele, where)
        new == Header(total, num) \o SubSeq(b, HDR + 1, at) \o entry \o SubSeq(b, at + replaced + 1, Len(b))
    IN  [b |-> new, new |-> IF ele = <<>> /\ new[at + 1] = LP_EOF THEN 0 ELSE at]

LpInit == lp = Header(HDR + 1, 0) \o <<LP_EOF>> /\ lpp = 0 /\ lpvals = <<>> /\ lpidx = 0

Append1(e) ==
    /\ Len(lpvals) < MaxLp
    /\ lp' = LpInsert(lp, <<e>>, TotalBytes(lp) - 1, "before").b
    /\ lpvals' = Append(lpvals, e) /\ lpp' = 0 /\ lpidx' = 0
Insert1(e, where) ==
    LET i == IF where = "after" THEN lpidx + 1 ELSE lpidx
    IN  /\ lpp # 0 /\ (where = "replace" \/ Len(lpvals) < MaxLp)
        /\ \E r \in {LpInsert(lp, <<e>>, lpp, where)} : lp' = r.b /\ lpp' = r.new
        /\ lpidx' = i
        /\ lpvals' = IF where = "replace" THEN [lpvals EXCEPT ![i] = e] ELSE InsertAt(lpvals, i, e)
Delete1 ==
    /\ lpp # 0
    /\ \E r \in {LpInsert(lp, <<>>, lpp, "replace")} : lp' = r.b /\ lpp' = r.new
    /\ lpvals' = RemoveAt(lpvals, lpidx)
    /\ lpidx' = IF lpidx = Len(lpvals) THEN 0 ELSE lpidx
Seek1(index) ==
    /\ lpp' = LpSeek(lp, index)
    /\ lpidx' = LET i == IF index < 0 THEN Len(lpvals) + index + 1 ELSE index + 1 IN IF i \in DOMAIN lpvals THEN i ELSE 0
    /\ UNCHANGED <<lp, lpvals>>
Step1(forward) ==
    /\ lpp # 0
    /\ lpp' = IF forward THEN LpNextOf(lp, lpp) ELSE LpPrevOf(lp, lpp)
    /\ lpidx' = IF forward THEN (IF lpidx = Len(lpvals) THEN 0 ELSE lpidx + 1) ELSE lpidx - 1
    /\ UNCHANGED <<lp, lpvals>>
\* lpLength writes the count back when it fits again
Length1 ==
    /\ NumElements(lp) = NumUnknown /\ LpLength(lp) < NumUnknown
    /\ lp' = Header(TotalBytes(lp), LpLength(lp)) \o SubSeq(lp, HDR + 1, Len(lp))
    /\ UNCHANGED <<lpp, lpvals, lpidx>>
LpNext ==
    \/ \E e \in LpValues : Append1(e) \/ \E where \in {"before", "after", "replace"} : Insert1(e, where)
    \/ Delete1 \/ Length1
    \/ \E i \in (-MaxLp - 1)..MaxLp : Seek1(i)
    \/ \E forward \in BOOLEAN : Step1(forward)
LpSpec == LpInit /\ [][LpNext]_lpvars

-----------------------------------------------------------------------------
RECURSIVE ValidFrom(_, _, _)
ValidFrom(b, p, n) == IF p = -1 THEN FALSE ELSE IF b[p + 1] = LP_EOF THEN p = Len(b) - 1 /\ NumElements(b) \in {NumUnknown, n} ELSE ValidFrom(b, ValidateNext(b, p), n + 1)
\* lpValidateIntegrity, deep
LpValidates(b) == TotalBytes(b) = Len(b) /\ b[Len(b)] = LP_EOF /\ ValidFrom(b, HDR, 0)

RECURSIVE Elements(_, _)
Elements(b, p) == IF p = 0 THEN <<>> ELSE <<LpGet(b, p)>> \o Elements(b, LpNextOf(b, p))

\* After any operations the bytes pass lpValidateIntegrity, walking them gives the
\* elements that were put in, in order, and lpLength their number.
LpContents == LpValidates(lp) /\ Elements(lp, LpFirst(lp)) = lpvals /\ LpLength(lp) = Len(lpvals)

\* The pointers that lpSeek, lpNext, lpPrev and lpInsert hand back are those of the
\* element meant, NULL when there is none.
LpCursor == IF lpidx = 0 THEN lpp = 0 ELSE lpp # 0 /\ lpp = Steps(lp, LpFirst(lp), lpidx - 1)
=============================================================================
