---------------------------- MODULE HyperLogLog ----------------------------
(***************************************************************************)
(* PFADD, PFCOUNT and PFMERGE (redis-6.2.7/src/hyperloglog.c).  A value is     *)
(* sparse (runs of zeros and of equal registers) or dense (6 bits for each     *)
(* register, across byte boundaries) and caches its last count.  The hash is   *)
(* external: an element is the register it falls on and its pattern length.    *)
(* The estimate is a function of the histogram of the registers, which stands  *)
(* for it.                                                                   *)
(***************************************************************************)
EXTENDS Integers, Sequences, FiniteSets, SequencesExt

CONSTANTS
    HllKeys,
    HlElements,           \* <<register, count>>
    Counts,             \* 0 to HLL_Q + 1
    Regs,               \* HLL_REGISTERS, a multiple of 16
    ZeroMaxLen,         \* HLL_SPARSE_ZERO_MAX_LEN
    SparseMaxBytes,     \* hll_sparse_max_bytes, without the header
    MaxHllDirty

VARIABLES
    hll,                \* of each key: [enc, ops, bytes, cache, valid] or NoHll
    hreg,               \* the registers it stands for
    hcall,              \* the last command and its reply
    hdirty              \* server.dirty

hlvars == <<hll, hreg, hcall, hdirty>>

Index == 1..Regs         \* register i of the code is the (i+1)-th
ValMaxValue == 32
ValMaxLen == 4
NoHll == [enc |-> "none", ops |-> <<>>, bytes |-> <<>>, cache |-> <<>>, valid |-> FALSE]
Strict(s) == SubSeq(s, 1, Len(s))
Zeros == Strict([i \in Index |-> 0])
Histogram(r) == [v \in Counts |-> Cardinality({i \in Index : r[i] = v})]
Larger(a, b) == IF a > b THEN a ELSE b

-----------------------------------------------------------------------------
(* Dense: HLL_DENSE_GET_REGISTER, HLL_DENSE_SET_REGISTER.  One more byte is touched *)
(* than needed: the terminator of the string. *)

Byte0 == Strict([i \in 1..(((Regs * 6) \div 8) + 1) |-> 0])
DenseGet(b, i) == LET y == (i * 6) \div 8
                      fb == (i * 6) % 8
                  IN  ((b[y + 1] \div (2 ^ fb)) + (b[y + 2] * (2 ^ (8 - fb)))) % 64
DensePut(b, i, v) ==
    LET y == (i * 6) \div 8
        fb == (i * 6) % 8
        over == IF fb > 2 THEN fb - 2 ELSE 0
    IN  [b EXCEPT ![y + 1] = (@ % (2 ^ fb)) + ((v * (2 ^ fb)) % 256) + (IF fb = 0 THEN (@ \div 64) * 64 ELSE 0),
                  ![y + 2] = ((@ \div (2 ^ over)) * (2 ^ over)) + (v \div (2 ^ (8 - fb)))]
\* hllDenseRegHisto: sixteen registers from twelve bytes at a time
Sixteen(b, o) ==
    LET r(i) == b[o + i + 1]
        four(i) == <<r(i) % 64, ((r(i) \div 64) + (r(i + 1) * 4)) % 64, ((r(i + 1) \div 16) + (r(i + 2) * 16)) % 64, (r(i + 2) \div 4) % 64>>
    IN  four(0) \o four(3) \o four(6) \o four(9)
DenseHisto(b) ==
    LET all == FlattenSeq([j \in 1..(Regs \div 16) |-> Sixteen(b, 12 * (j - 1))])
    IN  [v \in Counts |-> Cardinality({i \in 1..Regs : all[i] = v})]

-----------------------------------------------------------------------------
(* Sparse: <<"z", len>> one byte, <<"x", len>> two, <<"v", len, value>> one *)

OpLen(op) == IF op[1] = "x" THEN 2 ELSE 1
OpVal(op) == IF op[1] = "v" THEN op[3] ELSE 0
HlSize(ops) == FoldLeft(LAMBDA n, op : n + OpLen(op), 0, ops)
ZeroRun(len) == IF len = 0 THEN <<>> ELSE IF len > ZeroMaxLen THEN <<<<"x", len>>>> ELSE <<<<"z", len>>>>
ValRun(v, len) == IF len = 0 THEN <<>> ELSE <<<<"v", len, v>>>>
First(ops, j) == FoldLeft(LAMBDA n, op : n + op[2], 0, SubSeq(ops, 1, j - 1))
SparseRegs(ops) == FoldLeft(LAMBDA r, op : r \o Strict([x \in 1..op[2] |-> OpVal(op)]), <<>>, ops)
\* hllSparseRegHisto
SparseHisto(ops) == [v \in Counts |-> FoldLeft(LAMBDA n, op : n + (IF OpVal(op) = v THEN op[2] ELSE 0), 0, ops)]
\* hllSparseToDense
ToDense(h) == IF h.enc = "dense" THEN h
              ELSE [h EXCEPT !.enc = "dense", !.ops = <<>>,
                             !.bytes = LET r == SparseRegs(h.ops) IN FoldLeft(LAMBDA b, i : DensePut(b, i - 1, r[i]), Byte0, [i \in Index |-> i])]

\* The end of hllSparseSet: five steps from the opcode before, adjacent values that are
\* equal become one
RECURSIVE Merged(_, _, _)
Merged(ops, p, scan) ==
    LET a == ops[p]
        b == ops[p + 1]
    IN  IF p > Len(ops) \/ scan = 0 THEN ops
        ELSE IF a[1] # "v" THEN Merged(ops, p + 1, scan - 1)
        ELSE IF p < Len(ops) /\ b[1] = "v" /\ OpVal(a) = OpVal(b) /\ a[2] + b[2] <= ValMaxLen
             THEN Merged(SubSeq(ops, 1, p - 1) \o <<<<"v", a[2] + b[2], a[3]>>>> \o SubSeq(ops, p + 2, Len(ops)), p, scan - 1)
        ELSE Merged(ops, p + 1, scan - 1)

DenseSet(h, i, n) == IF n > DenseGet(h.bytes, i) THEN [h |-> [h EXCEPT !.bytes = DensePut(@, i, n)], up |-> TRUE] ELSE [h |-> h, up |-> FALSE]
\* hllSparseSet: the run that holds the register is split in up to three
Split(op, first, i, n) ==
    LET before == i - first
        after == first + op[2] - 1 - i
    IN  IF op[1] = "v" THEN ValRun(op[3], before) \o ValRun(n, 1) \o ValRun(op[3], after)
        ELSE ZeroRun(before) \o ValRun(n, 1) \o ZeroRun(after)
SparseSet(h, i, n) ==
    LET j == CHOOSE x \in 1..Len(h.ops) : i >= First(h.ops, x) /\ i < First(h.ops, x) + h.ops[x][2]
        op == h.ops[j]
        seq == IF op[2] = 1 /\ op[1] # "x" THEN ValRun(n, 1) ELSE Split(op, First(h.ops, j), i, n)
        delta == HlSize(seq) - OpLen(op)
        new == SubSeq(h.ops, 1, j - 1) \o seq \o SubSeq(h.ops, j + 1, Len(h.ops))
    IN  IF n > ValMaxValue THEN DenseSet(ToDense(h), i, n)
        ELSE IF op[1] = "v" /\ op[3] >= n THEN [h |-> h, up |-> FALSE]
        ELSE IF delta > 0 /\ HlSize(h.ops) + delta > SparseMaxBytes THEN DenseSet(ToDense(h), i, n)
        ELSE [h |-> [h EXCEPT !.ops = Merged(new, IF j > 1 THEN j - 1 ELSE 1, 5), !.valid = FALSE, !.cache = <<>>], up |-> TRUE]
SetReg(h, i, n) == IF h.enc = "dense" THEN DenseSet(h, i, n) ELSE SparseSet(h, i, n)

-----------------------------------------------------------------------------
(* The commands *)

HlNew == [NoHll EXCEPT !.enc = "sparse", !.ops = <<<<"x", Regs>>>>]
Exists(k) == hll[k].enc # "none"
Object(k) == IF Exists(k) THEN hll[k] ELSE HlNew
\* hllMerge: the registers of a value
Registers(h) == IF h.enc = "none" THEN Zeros ELSE IF h.enc = "sparse" THEN SparseRegs(h.ops) ELSE Strict([i \in Index |-> DenseGet(h.bytes, i - 1)])
Union(rs) == FoldLeft(LAMBDA m, r : Strict([i \in Index |-> Larger(m[i], r[i])]), Zeros, rs)
MaxOf(ks) == LET s == SetToSeq(ks) IN Union([j \in 1..Len(s) |-> Registers(hll[s[j]])])
\* hllCount
HlCount(h) == IF h.enc = "dense" THEN DenseHisto(h.bytes) ELSE SparseHisto(h.ops)
Invalidate(h) == [h EXCEPT !.valid = FALSE, !.cache = <<>>]

HlInit == hll = [k \in HllKeys |-> NoHll] /\ hreg = [k \in HllKeys |-> Zeros] /\ hcall = [cmd |-> "none", ks |-> {}, reply |-> <<>>] /\ hdirty = 0

Told(cmd, ks, reply, dirty) == hcall' = [cmd |-> cmd, ks |-> ks, reply |-> reply] /\ hdirty' = (hdirty + dirty) % MaxHllDirty
Updated(s, n) == [h |-> s.h, n |-> n + (IF s.up THEN 1 ELSE 0)]
Pfadd(k, els) ==
    /\ \E r \in {FoldLeft(LAMBDA x, e : Updated(SetReg(x.h, e[1], e[2]), x.n), [h |-> Object(k), n |-> IF Exists(k) THEN 0 ELSE 1], els)} :
        /\ hll' = [hll EXCEPT ![k] = IF r.n > 0 THEN Invalidate(r.h) ELSE r.h]
        /\ Told("pfadd", {k}, <<IF r.n > 0 THEN 1 ELSE 0>>, r.n)
    /\ hreg' = [hreg EXCEPT ![k] = FoldLeft(LAMBDA g, e : [g EXCEPT ![e[1] + 1] = Larger(@, e[2])], @, els)]
\* PFCOUNT of one key answers from the cache, or fills it: a write
Pfcount(k) ==
    /\ hll' = IF Exists(k) /\ ~hll[k].valid THEN [hll EXCEPT ![k] = [@ EXCEPT !.valid = TRUE, !.cache = HlCount(hll[k])]] ELSE hll
    /\ Told("pfcount", {k}, IF ~Exists(k) THEN Histogram(Zeros) ELSE IF hll[k].valid THEN hll[k].cache ELSE HlCount(hll[k]),
            IF Exists(k) /\ ~hll[k].valid THEN 1 ELSE 0)
    /\ UNCHANGED hreg
\* ... of several keys: the maximum of their registers (hllRawRegHisto)
PfcountAll(ks) == Told("pfcount", ks, Histogram(MaxOf(ks)), 0) /\ UNCHANGED <<hll, hreg>>
Pfmerge(k, ks) ==
    LET max == MaxOf(ks \cup {k})
        dest == IF \E x \in ks \cup {k} : hll[x].enc = "dense" THEN ToDense(Object(k)) ELSE Object(k)
    IN  /\ hll' = [hll EXCEPT ![k] = Invalidate(FoldLeft(LAMBDA h, i : IF max[i] = 0 THEN h ELSE SetReg(h, i - 1, max[i]).h, dest, [i \in Index |-> i]))]
        /\ hreg' = [hreg EXCEPT ![k] = Union(<<@>> \o [j \in 1..Cardinality(ks) |-> hreg[SetToSeq(ks)[j]]])]
        /\ Told("pfmerge", {k}, <<>>, 1)

HlNext ==
    \/ \E k \in HllKeys, e \in HlElements : Pfadd(k, <<e>>)
    \/ \E k \in HllKeys, x \in HllKeys : Pfmerge(k, {x})
    \/ \E k \in HllKeys : Pfadd(k, <<>>) \/ Pfcount(k)
    \/ PfcountAll(HllKeys)
HlSpec == HlInit /\ [][HlNext]_hlvars

-----------------------------------------------------------------------------
\* Every value, sparse or dense, however it was split, joined, promoted and merged, has
\* in each register the longest pattern added to it; a sparse one keeps within the
\* sizes its bytes can hold.
HllRegisters ==
    \A k \in HllKeys :
        /\ Registers(hll[k]) = hreg[k]
        /\ hll[k].enc = "sparse" =>
            /\ First(hll[k].ops, Len(hll[k].ops) + 1) = Regs
            /\ HlSize(hll[k].ops) <= Larger(SparseMaxBytes, 2)
            /\ \A j \in DOMAIN hll[k].ops : LET op == hll[k].ops[j] IN
                 CASE op[1] = "v" -> op[2] <= ValMaxLen /\ op[3] \in 1..ValMaxValue [] op[1] = "z" -> op[2] <= ZeroMaxLen [] OTHER -> TRUE

\* PFCOUNT, from the cache or not, of one key or of several, answers with the count of
\* the registers as they are.
HllCountRight == hcall'.cmd = "pfcount" => hcall'.reply = Histogram(LET s == SetToSeq(hcall'.ks) IN Union([j \in 1..Len(s) |-> hreg[s[j]]]))

\* PFADD answers 1 exactly when it created the key or changed a register, and a command
\* that changes a value in any way counts as a write, so that replicas get it.
HllWritesTold ==
  /\ hcall'.cmd = "pfadd" => (hcall'.reply = <<1>> <=> \E k \in hcall'.ks : ~Exists(k) \/ hreg'[k] # hreg[k])
  /\ hll' # hll => hdirty' # hdirty
=============================================================================
