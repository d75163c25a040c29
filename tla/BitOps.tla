------------------------------- MODULE BitOps -------------------------------
(***************************************************************************)
(* The bit commands of Redis (bitops.c): SETBIT, GETBIT, BITOP, BITCOUNT,  *)
(* BITPOS and BITFIELD, with the loops that work on several bytes at a     *)
(* time and the overflow tests made in machine integers.                   *)
(*                                                                         *)
(* A string is a sequence of bytes and a byte a tuple of bits, the most    *)
(* significant one first.  The widths are constants: a byte has ByteBits   *)
(* bits, an unsigned long WordBytes bytes, an int64_t IntBits bits.        *)
(***************************************************************************)
EXTENDS Integers, FiniteSets, Sequences, SequencesExt

CONSTANTS
  BKeys,       \* names of keys
  BInit,       \* the values a key can have at the start
  ByteBits,    \* 8
  WordBytes,   \* sizeof(unsigned long)
  PopGroup,    \* bytes that redisPopcount counts at once (28)
  FastBytes,   \* bytes that BITOP's fast loop handles at once (4 longs)
  FastKeys,    \* the most keys of the fast loop (16)
  IntBits,     \* bits of an int64_t
  MaxBulk,     \* proto-max-bulk-len
  Offsets,     \* bit offsets given to SETBIT and GETBIT
  Ranges,      \* the optional range of BITCOUNT and BITPOS: <<>>, <<s>>, <<s, e>>
  SrcLists,    \* lists of source keys of BITOP
  Fields       \* lists of BITFIELD operations

VARIABLES bdb,    \* key -> [kind, s]: "none", "string" or another type
          bcall   \* the last command, its reply and whether dirty was raised

bvars == <<bdb, bcall>>

BoBit == {0, 1}
BoZeros(n) == [i \in 1..n |-> 0]
Least(S) == CHOOSE x \in S : \A y \in S : x <= y
Smaller(a, b) == IF a < b THEN a ELSE b
BoLarger(a, b) == IF a > b THEN a ELSE b
Missing == [kind |-> "none", s |-> <<>>]
Str(s) == [kind |-> "string", s |-> s]

(***************************************************************************)
(* Machine integers.                                                       *)
(***************************************************************************)
ToUnsigned(n) == n % 2^IntBits
ToSigned(n) == LET u == ToUnsigned(n) IN IF u >= 2^(IntBits - 1) THEN u - 2^IntBits ELSE u

-----------------------------------------------------------------------------
(***************************************************************************)
(* The loops.                                                              *)
(***************************************************************************)
BitsIn(s) == FoldLeft(LAMBDA n, byte : n + Cardinality({i \in 1..ByteBits : byte[i] = 1}), 0, s)

\* Bytes up to the first aligned address one by one, then groups whose sum is
\* kept in one byte, then the rest; al bytes come before the aligned address.
Popcount(s, al, group) ==
  LET h == Smaller(al, Len(s))
      g == (Len(s) - h) \div group
  IN  BitsIn(SubSeq(s, 1, h))
      + FoldLeft(LAMBDA n, k : n + (BitsIn(SubSeq(s, h + (k - 1) * group + 1, h + k * group)) % 2^ByteBits),
                 0, [k \in 1..g |-> k])
      + BitsIn(SubSeq(s, h + g * group + 1, Len(s)))

RedisPopcount(s, al) == Popcount(s, al, PopGroup)

\* Skips bytes, then words, that hold only the other bit, then looks into the
\* next word, padded with zeros.  -2 stands for the panic at the end.
Bitpos(s, bit, al, tail) ==
  LET skip == [i \in 1..ByteBits |-> 1 - bit]
      n == Smaller(al, Len(s))
      other == {i \in 1..n : s[i] # skip}
      h == IF other = {} THEN n ELSE Least(other) - 1
      words == IF other = {}
               THEN Cardinality({k \in 1..((Len(s) - h) \div WordBytes) :
                                   \A j \in 1..(k * WordBytes) : s[h + j] = skip})
               ELSE 0
      at == h + words * WordBytes
      word == [i \in 1..(WordBytes * ByteBits) |->
                 LET j == at + ((i - 1) \div ByteBits) + 1
                 IN  IF j <= Len(s) THEN s[j][((i - 1) % ByteBits) + 1] ELSE tail]
      found == {i \in DOMAIN word : word[i] = bit}
  IN  IF bit = 1 /\ found = {} THEN -1
      ELSE IF found = {} THEN -2 ELSE at * ByteBits + Least(found) - 1

RedisBitpos(s, bit, al) == Bitpos(s, bit, al, 0)

SetUnsignedBitfield(s, off, bits, value) ==
  FoldLeft(LAMBDA p, j : [p EXCEPT ![((off + j) \div ByteBits) + 1][((off + j) % ByteBits) + 1] =
                            (ToUnsigned(value) \div 2^(bits - 1 - j)) % 2],
           s, [j \in 1..bits |-> j - 1])

GetUnsignedBitfield(s, off, bits) ==
  FoldLeft(LAMBDA v, j : ToUnsigned(2 * v + s[((off + j) \div ByteBits) + 1][((off + j) % ByteBits) + 1]),
           0, [j \in 1..bits |-> j - 1])

GetSignedBitfield(s, off, bits) ==
  LET v == GetUnsignedBitfield(s, off, bits)
  IN  IF bits < IntBits /\ v >= 2^(bits - 1) THEN v - 2^bits ELSE ToSigned(v)

NoOverflow == [over |-> 0, limit |-> 0]

\* The overflow tests: what they answer and the value that replaces the result.
CheckUnsigned(value, incr, bits, ow) ==
  LET max == 2^bits - 1
      maxincr == ToSigned(max - value)
      minincr == ToSigned(-value)
      wrapped == ToUnsigned(value + incr) % 2^bits
  IN  IF value > max \/ (incr > 0 /\ incr > maxincr)
      THEN [over |-> 1, limit |-> IF ow = "wrap" THEN wrapped ELSE max]
      ELSE IF incr < 0 /\ incr < minincr
      THEN [over |-> -1, limit |-> IF ow = "wrap" THEN wrapped ELSE 0]
      ELSE NoOverflow

\* max - value and min - value overflow when value is far outside the field's
\* range: the build may wrap them (wraps) or compare as if they were exact.
CheckSignedIf(value, incr, bits, ow, wraps, narrow) ==
  LET max == 2^(bits - 1) - 1
      min == -max - 1
      Cut(n) == IF wraps THEN ToSigned(n) ELSE n
      maxincr == Cut(max - value)
      minincr == Cut(min - value)
      c == ToUnsigned(value + incr)
      wrapped == IF bits < IntBits
                 THEN LET l == c % 2^bits IN IF l >= 2^(bits - 1) THEN l - 2^bits ELSE l
                 ELSE ToSigned(c)
  IN  IF \/ value > max
         \/ narrow /\ incr > maxincr
         \/ value >= 0 /\ incr > 0 /\ incr > maxincr
      THEN [over |-> 1, limit |-> IF ow = "wrap" THEN wrapped ELSE max]
      ELSE IF \/ value < min
              \/ narrow /\ incr < minincr
              \/ value < 0 /\ incr < 0 /\ incr < minincr
      THEN [over |-> -1, limit |-> IF ow = "wrap" THEN wrapped ELSE min]
      ELSE NoOverflow

CheckSigned(value, incr, bits, ow, wraps) == CheckSignedIf(value, incr, bits, ow, wraps, bits # IntBits)

-----------------------------------------------------------------------------
(***************************************************************************)
(* The commands.  A reply is an error or a sequence of integers, <<>> for  *)
(* a null.                                                                 *)
(***************************************************************************)
Error == [err |-> TRUE, val |-> <<>>]
Number(n) == [err |-> FALSE, val |-> <<<<n>>>>]
OffsetOk(off) == off >= 0 /\ off \div ByteBits < MaxBulk
Grown(s, bytes) == s \o [i \in 1..BoLarger(0, bytes - Len(s)) |-> BoZeros(ByteBits)]

Replied(name, args, r, dirty) == bcall' = [name |-> name, args |-> args, reply |-> r, dirty |-> dirty]
Refused(name, args) == Replied(name, args, Error, 0) /\ UNCHANGED bdb

\* The string of key k, created or grown so that bit maxbit exists.
LookupStringForBit(k, maxbit) == Grown(bdb[k].s, (maxbit \div ByteBits) + 1)

SetBit(k, off, on) ==
  LET args == <<k, off, on>>
      s == LookupStringForBit(k, off)
      byte == (off \div ByteBits) + 1
      bit == (off % ByteBits) + 1
  IN  IF ~OffsetOk(off) \/ on \notin BoBit \/ bdb[k].kind = "other" THEN Refused("setbit", args)
      ELSE /\ bdb' = [bdb EXCEPT ![k] = Str([s EXCEPT ![byte][bit] = on])]
           /\ Replied("setbit", args, Number(s[byte][bit]), 1)

GetBit(k, off) ==
  LET args == <<k, off>>
      s == bdb[k].s
      byte == off \div ByteBits
  IN  IF ~OffsetOk(off) \/ bdb[k].kind = "other" THEN Refused("getbit", args)
      ELSE /\ UNCHANGED bdb
           /\ Replied("getbit", args,
                      Number(IF byte < Len(s) THEN s[byte + 1][(off % ByteBits) + 1] ELSE 0), 0)

ByteOp(op, a, b) ==
  [i \in 1..ByteBits |-> CASE op = "and" -> IF a[i] = 1 /\ b[i] = 1 THEN 1 ELSE 0
                           [] op = "or"  -> IF a[i] = 1 \/ b[i] = 1 THEN 1 ELSE 0
                           [] op = "xor" -> (a[i] + b[i]) % 2
                           [] OTHER      -> a[i]]
ByteNot(a) == [i \in 1..ByteBits |-> 1 - a[i]]

\* minlen as the loop over the keys computes it: a missing key sets it to 0.
MinLen(srcs) ==
  FoldLeft(LAMBDA m, j : IF bdb[srcs[j]].kind = "none" THEN 0
                         ELSE IF j = 1 \/ Len(bdb[srcs[j]].s) < m THEN Len(bdb[srcs[j]].s) ELSE m,
           0, [j \in 1..Len(srcs) |-> j])
BoMaxLen(srcs) == FoldLeft(LAMBDA m, k : BoLarger(m, Len(bdb[k].s)), 0, srcs)

\* Byte j of the result in the fast loop, which reads every source, and in the
\* byte loop, where a source that has ended counts as zeros and a byte that can
\* no longer change ends the loop over the sources.
FastByte(op, srcs, j) ==
  LET first == bdb[srcs[1]].s[j]
  IN  IF op = "not" THEN ByteNot(first)
      ELSE FoldLeft(LAMBDA a, k : ByteOp(op, a, bdb[k].s[j]), first, Tail(srcs))

SlowByte(op, srcs, j) ==
  LET At(k) == IF Len(bdb[k].s) < j THEN BoZeros(ByteBits) ELSE bdb[k].s[j]
      Done(a) == (op = "and" /\ a = BoZeros(ByteBits)) \/ (op = "or" /\ a = ByteNot(BoZeros(ByteBits)))
      first == IF op = "not" THEN ByteNot(At(srcs[1])) ELSE At(srcs[1])
  IN  FoldLeft(LAMBDA acc, k : IF acc.skip THEN acc
                               ELSE LET a == ByteOp(op, acc.a, At(k)) IN [a |-> a, skip |-> Done(a)],
               [a |-> first, skip |-> FALSE], Tail(srcs)).a

Combined(op, srcs, upto) ==
  LET fast == IF upto >= FastBytes /\ Len(srcs) <= FastKeys THEN (upto \div FastBytes) * FastBytes ELSE 0
  IN  [j \in 1..BoMaxLen(srcs) |-> IF j <= fast THEN FastByte(op, srcs, j) ELSE SlowByte(op, srcs, j)]

BitOp(op, dest, srcs) ==
  LET args == <<op, dest, srcs>>
      max == BoMaxLen(srcs)
  IN  IF (op = "not" /\ Len(srcs) # 1) \/ \E j \in DOMAIN srcs : bdb[srcs[j]].kind = "other"
      THEN Refused("bitop", args)
      ELSE /\ bdb' = [bdb EXCEPT ![dest] = IF max = 0 THEN Missing
                                           ELSE Str(Combined(op, srcs, MinLen(srcs)))]
           /\ Replied("bitop", args, Number(max),
                      IF max > 0 \/ bdb[dest].kind # "none" THEN 1 ELSE 0)

\* The byte range of BITCOUNT and BITPOS once clamped to the string.
Clamp(n, len) == BoLarger(0, IF n < 0 THEN len + n ELSE n)
Clamped(r, len) == IF r = <<>> THEN <<0, len - 1>>
                   ELSE <<Clamp(r[1], len), Smaller(len - 1, IF Len(r) = 1 THEN Clamp(len - 1, len) ELSE Clamp(r[2], len))>>
Slice(s, se) == SubSeq(s, se[1] + 1, se[2] + 1)

BitCount(k, r, al) ==
  LET args == <<k, r>>
      s == bdb[k].s
      se == Clamped(r, Len(s))
      count == IF \/ bdb[k].kind = "none" \/ se[1] > se[2]
                  \/ (r # <<>> /\ r[1] < 0 /\ r[2] < 0 /\ r[1] > r[2])
               THEN 0 ELSE RedisPopcount(Slice(s, se), al)
  IN  IF bdb[k].kind = "other" THEN Refused("bitcount", args)
      ELSE Replied("bitcount", args, Number(count), 0) /\ UNCHANGED bdb

BitPos(k, bit, r, al) ==
  LET args == <<k, bit, r>>
      s == bdb[k].s
      se == Clamped(r, Len(s))
      bytes == se[2] - se[1] + 1
      pos == RedisBitpos(Slice(s, se), bit, al)
      answer == IF bdb[k].kind = "none" THEN IF bit = 1 THEN -1 ELSE 0
                ELSE IF se[1] > se[2] THEN -1
                ELSE IF Len(r) = 2 /\ bit = 0 /\ pos = bytes * ByteBits THEN -1
                ELSE IF pos < 0 THEN pos ELSE pos + se[1] * ByteBits
  IN  IF bdb[k].kind = "other" \/ bit \notin BoBit THEN Refused("bitpos", args)
      ELSE Replied("bitpos", args, Number(answer), 0) /\ UNCHANGED bdb

-----------------------------------------------------------------------------
(***************************************************************************)
(* BITFIELD.  An operation is a record [op, sign, bits, hash, off, val,    *)
(* ow]; hash says that the offset was given as #off.                       *)
(***************************************************************************)
TypeOk(f) == f.bits >= 1 /\ f.bits <= (IF f.sign THEN IntBits ELSE IntBits - 1)
BitOffset(f) == IF f.hash THEN ToSigned(f.off * f.bits) ELSE f.off
FieldOk(f) == TypeOk(f) /\ OffsetOk(BitOffset(f))
Writes(ops) == SelectSeq(ops, LAMBDA f : f.op # "get")
HighestWrite(ops) == FoldLeft(LAMBDA h, f : BoLarger(h, BitOffset(f) + f.bits - 1), 0, Writes(ops))

Read(s, f) == IF f.sign THEN GetSignedBitfield(s, BitOffset(f), f.bits)
              ELSE GetUnsignedBitfield(s, BitOffset(f), f.bits)

Write(s, f, wraps) ==
  LET old == Read(s, f)
      base == IF f.op = "incrby" THEN old ELSE IF f.sign THEN f.val ELSE ToUnsigned(f.val)
      incr == IF f.op = "incrby" THEN f.val ELSE 0
      chk == IF f.sign THEN CheckSigned(base, incr, f.bits, f.ow, wraps)
             ELSE CheckUnsigned(base, incr, f.bits, f.ow)
      new == IF chk.over # 0 THEN chk.limit ELSE base + incr
  IN  IF chk.over # 0 /\ f.ow = "fail" THEN [s |-> s, r |-> <<>>]
      ELSE [s |-> SetUnsignedBitfield(s, BitOffset(f), f.bits, new),
            r |-> <<IF f.op = "incrby" THEN new ELSE old>>]

\* GET copies the bytes it needs to a zeroed buffer of one byte more than an
\* integer, so that reading past the end of the string gives zeros.
BoGet(s, f) ==
  LET byte == BitOffset(f) \div ByteBits
      buf == [i \in 1..((IntBits \div ByteBits) + 1) |->
                IF i + byte <= Len(s) THEN s[i + byte] ELSE BoZeros(ByteBits)]
      g == [f EXCEPT !.hash = FALSE, !.off = BitOffset(f) - byte * ByteBits]
  IN  [s |-> s, r |-> <<Read(buf, g)>>]

BitField(k, ops, ro, wraps) ==
  LET args == <<k, ops>>
      writes == Writes(ops)
      start == IF writes = <<>> THEN bdb[k].s ELSE LookupStringForBit(k, HighestWrite(ops))
      end == FoldLeft(LAMBDA a, f : LET x == IF f.op = "get" THEN BoGet(a.s, f) ELSE Write(a.s, f, wraps)
                                    IN  [s |-> x.s, val |-> Append(a.val, x.r)],
                      [s |-> start, val |-> <<>>], ops)
  IN  IF \/ \E i \in DOMAIN ops : ~FieldOk(ops[i])
         \/ bdb[k].kind = "other"
         \/ ro /\ writes # <<>>
      THEN Refused("bitfield", args)
      ELSE /\ bdb' = IF writes = <<>> THEN bdb ELSE [bdb EXCEPT ![k] = Str(end.s)]
           /\ Replied("bitfield", args, [err |-> FALSE, val |-> end.val], Len(writes))

-----------------------------------------------------------------------------
BoInit == /\ bdb \in [BKeys -> BInit]
          /\ bcall = [name |-> "start", args |-> <<>>, reply |-> Error, dirty |-> 0]

\* One command on a dataset: what a command does depends on nothing else.
BoNext ==
  /\ bcall.name = "start"
  /\ \/ \E k \in BKeys, off \in Offsets, on \in 0..2 : SetBit(k, off, on)
     \/ \E k \in BKeys, off \in Offsets : GetBit(k, off)
     \/ \E op \in {"and", "or", "xor", "not"}, dest \in BKeys, srcs \in SrcLists : BitOp(op, dest, srcs)
     \/ \E k \in BKeys, r \in {r \in Ranges : Len(r) # 1}, al \in 0..(WordBytes - 1) : BitCount(k, r, al)
     \/ \E k \in BKeys, bit \in 0..2, r \in Ranges, al \in 0..(WordBytes - 1) : BitPos(k, bit, r, al)
     \/ \E k \in BKeys, ops \in Fields, ro, wraps \in BOOLEAN : BitField(k, ops, ro, wraps)

BoSpec == BoInit /\ [][BoNext]_bvars

-----------------------------------------------------------------------------
(***************************************************************************)
(* The reference: a string is its length and the set of its one bits.      *)
(***************************************************************************)
OnesOf(s) == {i \in 0..(Len(s) * ByteBits - 1) : s[(i \div ByteBits) + 1][(i % ByteBits) + 1] = 1}
Is(v, ones, len) == Len(v.s) = len /\ OnesOf(v.s) = ones /\ v.kind = "string"
BytesFor(maxbit) == (maxbit \div ByteBits) + 1

RefRange(r, len) == IF r = <<>> THEN 0..(len - 1)
                    ELSE LET a == IF r[1] < 0 THEN BoLarger(0, len + r[1]) ELSE r[1]
                             b == IF Len(r) = 1 THEN len - 1
                                  ELSE IF r[2] < 0 THEN BoLarger(0, len + r[2]) ELSE r[2]
                         IN  {i \in 0..(len - 1) : a <= i /\ i <= b}
BitsOfBytes(B) == UNION {(i * ByteBits)..(i * ByteBits + ByteBits - 1) : i \in B}

\* What the field of one bits in ones stands for.
RefUnsigned(ones, off, bits) == FoldLeft(LAMBDA v, j : 2 * v + (IF off + j \in ones THEN 1 ELSE 0),
                                         0, [j \in 1..bits |-> j - 1])
RefRead(ones, f) ==
  LET off == IF f.hash THEN f.off * f.bits ELSE f.off
      u == RefUnsigned(ones, off, f.bits)
  IN  IF f.sign /\ off \in ones THEN u - 2^f.bits ELSE u

\* The value an operation stores: exact when it fits, else what the chosen
\* overflow behaviour says; <<>> when the operation fails.
RefStore(ones, f) ==
  LET lo == IF f.sign THEN -(2^(f.bits - 1)) ELSE 0
      hi == lo + 2^f.bits - 1
      exact == IF f.op = "incrby" THEN RefRead(ones, f) + f.val
               ELSE IF f.sign THEN f.val ELSE ToUnsigned(f.val)
  IN  IF lo <= exact /\ exact <= hi THEN <<exact>>
      ELSE CASE f.ow = "wrap" -> <<lo + ((exact - lo) % 2^f.bits)>>
             [] f.ow = "sat"  -> <<IF exact < lo THEN lo ELSE hi>>
             [] OTHER         -> <<>>

RefField(a, f) ==
  LET off == IF f.hash THEN f.off * f.bits ELSE f.off
      st == RefStore(a.ones, f)
      u == st[1] % 2^f.bits
      set == {off + j : j \in {j \in 0..(f.bits - 1) : (u \div 2^(f.bits - 1 - j)) % 2 = 1}}
  IN  IF f.op = "get" THEN [a EXCEPT !.val = Append(@, <<RefRead(a.ones, f)>>)]
      ELSE IF st = <<>> THEN [a EXCEPT !.val = Append(@, <<>>)]
      ELSE [ones |-> (a.ones \ (off..(off + f.bits - 1))) \union set,
            val |-> Append(a.val, <<IF f.op = "incrby" THEN st[1] ELSE RefRead(a.ones, f)>>)]

\* GETBIT, BITCOUNT and BITPOS answer from the bits themselves, whatever the
\* alignment of the string and however it falls into words and groups; BITPOS of
\* a 0 that is not there is the first bit after the string unless an end was given,
\* and 0 for a missing key.
BitReadsRight ==
  LET c == bcall' IN
  (c.name \in {"getbit", "bitcount", "bitpos"} /\ ~c.reply.err) =>
    LET v == bdb[c.args[1]]
        ones == OnesOf(v.s)
        n == c.reply.val[1][1]
    IN  CASE c.name = "getbit" -> n = IF c.args[2] \in ones THEN 1 ELSE 0
          [] c.name = "bitcount" ->
               n = IF Len(c.args[2]) = 2 /\ c.args[2][2] < 0 /\ c.args[2][1] < 0 /\ c.args[2][1] > c.args[2][2]
                   THEN 0 ELSE Cardinality(ones \cap BitsOfBytes(RefRange(c.args[2], Len(v.s))))
          [] c.name = "bitpos" ->
               LET B == RefRange(c.args[3], Len(v.s))
                   hits == IF c.args[2] = 1 THEN ones \cap BitsOfBytes(B) ELSE BitsOfBytes(B) \ ones
               IN  n = IF hits # {} THEN Least(hits)
                       ELSE IF c.args[2] = 0 /\ v.kind = "none" THEN 0
                       ELSE IF c.args[2] = 1 \/ Len(c.args[3]) = 2 THEN -1
                       ELSE IF B = {} THEN -1 ELSE Len(v.s) * ByteBits

\* BITOP stores, bit by bit, the operation on the sources read as if all were as
\* long as the longest, also when the destination is a source or some source is
\* missing, and removes the destination when there is nothing to store.
BitopRight ==
  LET c == bcall' IN
  (c.name = "bitop" /\ ~c.reply.err) =>
    LET srcs == c.args[3]
        S(j) == OnesOf(bdb[srcs[j]].s)
        len == c.reply.val[1][1]
        all == 0..(len * ByteBits - 1)
        want == {i \in all : CASE c.args[1] = "and" -> \A j \in DOMAIN srcs : i \in S(j)
                               [] c.args[1] = "or"  -> \E j \in DOMAIN srcs : i \in S(j)
                               [] c.args[1] = "xor" -> Cardinality({j \in DOMAIN srcs : i \in S(j)}) % 2 = 1
                               [] OTHER             -> i \notin S(1)}
    IN  /\ \A j \in DOMAIN srcs : Len(bdb[srcs[j]].s) <= len
        /\ \E j \in DOMAIN srcs : Len(bdb[srcs[j]].s) = len
        /\ IF len = 0 THEN bdb'[c.args[2]].kind = "none" ELSE Is(bdb'[c.args[2]], want, len)
        /\ (bdb' # bdb) => c.dirty > 0

\* SETBIT and BITFIELD change exactly the bits of the fields written, in order,
\* with the exact, wrapped, saturated or refused result; strings only grow, by
\* zeros, up to the last field written; every change is counted in dirty.
BitfieldRight ==
  LET c == bcall' IN
  (c.name \in {"setbit", "bitfield"} /\ ~c.reply.err) =>
    LET k == c.args[1]
        ops == IF c.name = "bitfield" THEN c.args[2]
               ELSE <<[op |-> "set", sign |-> FALSE, bits |-> 1, hash |-> FALSE,
                       off |-> c.args[2], val |-> c.args[3], ow |-> "wrap"]>>
        end == FoldLeft(RefField, [ones |-> OnesOf(bdb[k].s), val |-> <<>>], ops)
        top == HighestWrite(ops)
    IN  /\ c.reply.val = end.val
        /\ IF Writes(ops) = <<>> THEN bdb' = bdb
           ELSE Is(bdb'[k], end.ones, BoLarger(Len(bdb[k].s), BytesFor(top)))
        /\ (bdb' # bdb) => c.dirty > 0
=============================================================================
