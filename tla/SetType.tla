------------------------------- MODULE SetType -------------------------------
(***************************************************************************)
(* Sets (redis-6.2.7/src/t_set.c) with their two encodings, the intset of   *)
(* intset.c (a sorted array whose integers all have the width the widest one *)
(* needs) and the hash table, on a master and on a replica that executes     *)
(* what the master propagates and may be configured with another            *)
(* set-max-intset-entries.                                                  *)
(*                                                                         *)
(* An element is a number: one of Text stands for a string that is not an    *)
(* integer, the others are integers, of which those between -Narrow and      *)
(* Narrow fit the narrow width.  A hash table is its set of elements; the    *)
(* order its iterator takes does not show in any result.                    *)
(***************************************************************************)
EXTENDS Integers, Sequences, FiniteSets, SequencesExt

CONSTANTS
    Key, SElem, Text, Narrow,
    MaxIntset, ReplMaxIntset,   \* set-max-intset-entries on either side
    MoveMul,                    \* SPOP_MOVE_STRATEGY_MUL
    MaxCount                    \* the greatest count given to SPOP and SRANDMEMBER

VARIABLES
    sdb, srepl,   \* the keys on the master and on the replica
    scall         \* the last command, with what SPOP or SRANDMEMBER returned

setvars == <<sdb, srepl, scall>>

IsInt(e) == e \notin Text
SetWidth(e) == IF e \in -Narrow .. Narrow THEN 1 ELSE 2

-----------------------------------------------------------------------------
(* intset.c                                                                  *)

intsetNew == [enc |-> "intset", width |-> 1, a |-> <<>>]

\* intsetSearch: the position of v, or where it would be inserted, by bisection
\* once v is known to lie inside.  (Positions are 1-based here.)
Bisect(a, v) ==
    LET f[lo \in 1 .. Len(a) + 1, hi \in 0 .. Len(a)] ==
            IF hi < lo THEN lo
            ELSE LET mid == (lo + hi) \div 2
                 IN  IF v > a[mid] THEN f[mid + 1, hi] ELSE IF v < a[mid] THEN f[lo, mid - 1] ELSE mid
    IN  f[1, Len(a)]

Search(a, v) ==
    IF a = <<>> THEN 1
    ELSE IF v > Last(a) THEN Len(a) + 1 ELSE IF v < a[1] THEN 1 ELSE Bisect(a, v)

intsetFind(is, v) ==
    SetWidth(v) <= is.width /\ LET p == Search(is.a, v) IN p <= Len(is.a) /\ is.a[p] = v

\* intsetUpgradeAndAdd: v is wider than all the others, so it goes to an end.
UpgradeAndAdd(is, v) ==
    [is EXCEPT !.width = SetWidth(v), !.a = IF v < 0 THEN <<v>> \o @ ELSE Append(@, v)]

intsetAdd(is, v) ==
    IF intsetFind(is, v) THEN is
    ELSE IF SetWidth(v) > is.width THEN UpgradeAndAdd(is, v)
    ELSE [is EXCEPT !.a = InsertAt(@, Search(@, v), v)]

intsetRemove(is, v) ==
    IF intsetFind(is, v) THEN [is EXCEPT !.a = RemoveAt(@, Search(@, v))] ELSE is

-----------------------------------------------------------------------------
(* The set type over both encodings.  NoKey is an absent key.                *)

NoKey == [enc |-> "none", width |-> 0, a |-> <<>>]
Ascending(es) == [j \in 1 .. Cardinality(es) |-> CHOOSE e \in es : Cardinality({f \in es : f < e}) = j - 1]
SetTable(es) == [enc |-> "ht", width |-> 0, a |-> Ascending(es)]

Members(o) == ToSet(o.a)
SetSize(o) == Len(o.a)

setTypeCreate(e) == IF IsInt(e) THEN intsetNew ELSE SetTable({})

setTypeIsMember(o, e) ==
    IF o.enc = "ht" THEN e \in Members(o) ELSE IsInt(e) /\ intsetFind(o, e)

\* setTypeAdd, and setTypeConvert when the intset cannot hold the element or
\* holds too many.
KeepIntset(o, is, max) == IF Len(is.a) > Len(o.a) /\ Len(is.a) > max THEN SetTable(Members(is)) ELSE is
setTypeAdd(o, e, max) ==
    IF o.enc = "ht" THEN SetTable(Members(o) \cup {e})
    ELSE IF ~IsInt(e) THEN SetTable(Members(o) \cup {e})
    ELSE KeepIntset(o, intsetAdd(o, e), max)

setTypeRemove(o, e) ==
    IF o.enc = "ht" THEN SetTable(Members(o) \ {e})
    ELSE IF IsInt(e) THEN intsetRemove(o, e) ELSE o

AddAll(o, es, max) == FoldLeft(LAMBDA s, e : setTypeAdd(s, e, max), o, es)
RemoveAll(o, es) == FoldLeft(setTypeRemove, o, es)

\* A set that became empty takes its key with it.
OrNoKey(o) == IF SetSize(o) = 0 THEN NoKey ELSE o

-----------------------------------------------------------------------------
(* The commands, as functions from one database to the next.                 *)

\* saddCommand, for a sequence of elements
Sadd(d, k, es, max) ==
    [d EXCEPT ![k] = AddAll(IF @ = NoKey THEN setTypeCreate(Head(es)) ELSE @, es, max)]

\* sremCommand: it stops when the set is empty.
Srem(d, k, es) == [d EXCEPT ![k] = IF @ = NoKey THEN @ ELSE OrNoKey(RemoveAll(@, es))]

\* smoveCommand
Smove(d, k, to, e, max) ==
    IF d[k] = NoKey \/ k = to \/ ~setTypeIsMember(d[k], e) THEN d
    ELSE Sadd(Srem(d, k, <<e>>), to, <<e>>, max)

\* sinterGenericCommand: the smallest set is walked, the others are probed.
Inter(sets, max) ==
    LET small == CHOOSE o \in ToSet(sets) : \A p \in ToSet(sets) : SetSize(o) <= SetSize(p)
        inAll(e) == \A o \in ToSet(sets) \ {small} : setTypeIsMember(o, e)
    IN  IF NoKey \in ToSet(sets) THEN NoKey ELSE AddAll(intsetNew, SelectSeq(small.a, inAll), max)

\* sunionDiffGenericCommand
SetUnion(sets, max) == FoldLeft(LAMBDA s, o : AddAll(s, o.a, max), intsetNew, sets)

\* The work of algorithm 1, half of what it looks like, against that of 2
AlgorithmOne(sets) ==
    LET work == FoldLeft(LAMBDA w, o : IF o = NoKey THEN w ELSE <<w[1] + SetSize(sets[1]), w[2] + SetSize(o)>>, <<0, 0>>, sets)
    IN  work[1] \div 2 <= work[2]

\* Mutant: algorithm 2 stops after the first set it subtracts.
DiffOfTwo(keys, sets, max) ==
    IF AlgorithmOne(sets) THEN AddAll(intsetNew, SelectSeq(sets[1].a, LAMBDA e : \A j \in 2 .. Len(sets) : ~setTypeIsMember(sets[j], e)), max)
    ELSE AddAll(intsetNew, sets[1].a, max)

\* Algorithm 1 tries the elements of the first set one by one; algorithm 2
\* removes those of the others from a copy of it.
Diff(keys, sets, max) ==
    LET kept(e) == \A j \in 2 .. Len(sets) :
                     sets[j] = NoKey \/ ~(keys[j] = keys[1] \/ setTypeIsMember(sets[j], e))
    IN  IF sets[1] = NoKey THEN intsetNew
        ELSE IF AlgorithmOne(sets) THEN AddAll(intsetNew, SelectSeq(sets[1].a, kept), max)
        ELSE FoldLeft(LAMBDA s, o : RemoveAll(s, o.a), AddAll(intsetNew, sets[1].a, max), Tail(sets))

StoreOp(op, d, keys, max) ==
    LET sets == [j \in DOMAIN keys |-> d[keys[j]]]
    IN  CASE op = "union" -> SetUnion(sets, max)
          [] op = "inter" -> Inter(sets, max)
          [] op = "diff"  -> Diff(keys, sets, max)

Execute(d, c, max) ==
    CASE c.cmd = "SADD"  -> Sadd(d, c.key, c.elems, max)
      [] c.cmd = "SREM"  -> Srem(d, c.key, c.elems)
      [] c.cmd = "SMOVE" -> Smove(d, c.key, c.to, c.elems[1], max)
      [] c.cmd = "STORE" -> [d EXCEPT ![c.to] = OrNoKey(StoreOp(c.op, d, c.keys, max))]
      [] c.cmd = "DEL"   -> [d EXCEPT ![c.key] = NoKey]
      [] c.cmd = "COPY"  -> IF d[c.key] = NoKey THEN d ELSE [d EXCEPT ![c.to] = d[c.key]]

\* A call that makes the database new and is propagated as cmds.
SetDo(new, cmds, call) ==
    /\ sdb' = new /\ scall' = call
    /\ srepl' = FoldLeft(LAMBDA d, c : Execute(d, c, ReplMaxIntset), srepl, cmds)

Verbatim(c) == SetDo(Execute(sdb, c, MaxIntset), <<c>>, c)

-----------------------------------------------------------------------------
SetInit ==
    /\ sdb = [k \in Key |-> NoKey] /\ srepl = [k \in Key |-> NoKey]
    /\ scall = [cmd |-> "NONE"]

\* A key may be given more than once.
SetKeyLists == {<<k, l>> : k, l \in Key} \cup {<<k, l, l, l>> : k, l \in Key}

OneOrTwo == {<<e>> : e \in SElem} \cup {es \in SElem \X SElem : es[1] > es[2]}

SADD == \E k \in Key, es \in OneOrTwo :
    Verbatim([cmd |-> "SADD", key |-> k, elems |-> es])

SREM == \E k \in Key, es \in OneOrTwo :
    Verbatim([cmd |-> "SREM", key |-> k, elems |-> es])

SMOVE == \E k, to \in Key, e \in SElem :
    Verbatim([cmd |-> "SMOVE", key |-> k, to |-> to, elems |-> <<e>>])

\* sinterstoreCommand, sunionstoreCommand, sdiffstoreCommand
STORE == \E op \in {"union", "inter", "diff"}, to \in Key, keys \in SetKeyLists :
    Verbatim([cmd |-> "STORE", op |-> op, keys |-> keys, to |-> to])

\* The random elements a command may draw, in the order drawn
Draws(o, n) == {s \in [1 .. n -> Members(o)] : IsInjective(s)}

Returns(cmd, k, count, es) == [cmd |-> cmd, key |-> k, count |-> count, ret |-> es]

\* spopCommand: propagated as the SREM of the element drawn
SPOP == \E k \in Key : sdb[k] # NoKey /\ \E s \in Draws(sdb[k], 1) :
    SetDo(Srem(sdb, k, s), <<[cmd |-> "SREM", key |-> k, elems |-> s]>>,
       Returns("SPOP", k, 1, ToSet(s)))

\* Mutant: what is propagated are the elements that remain.
SremRemaining(k, popped, kept) == <<[cmd |-> "SREM", key |-> k, elems |-> kept]>>

SremEach(k, popped, kept) == [j \in DOMAIN popped |-> [cmd |-> "SREM", key |-> k, elems |-> <<popped[j]>>]]

\* spopWithCountCommand: the whole set, as DEL; elements drawn and removed; or
\* elements drawn that are kept, in a set made anew, and the others returned.
SPOPCount == \E k \in Key, count \in 1 .. MaxCount :
    LET o == sdb[k]
        left == SetSize(o) - count
        got(es) == Returns("SPOP", k, count, es)
    IN  /\ o # NoKey
        /\ \/ count >= SetSize(o) /\ SetDo([sdb EXCEPT ![k] = NoKey], <<[cmd |-> "DEL", key |-> k]>>, got(Members(o)))
           \/ /\ left > 0 /\ left * MoveMul > count
              /\ \E s \in Draws(o, count) : SetDo(Srem(sdb, k, s), SremEach(k, s, RemoveAll(o, s).a), got(ToSet(s)))
           \/ /\ left > 0 /\ left * MoveMul <= count
              /\ \E s \in Draws(o, left) :
                   LET gone == RemoveAll(o, s)
                   IN  SetDo([sdb EXCEPT ![k] = AddAll(setTypeCreate(s[1]), s, MaxIntset)],
                          SremEach(k, gone.a, s), got(Members(gone)))

\* srandmemberWithCountCommand, for a positive count: all of the set, a copy of
\* it less random elements, or distinct elements drawn
SRANDMEMBER == \E k \in Key, count \in 1 .. MaxCount :
    LET o == sdb[k]
        got(es) == Returns("SRANDMEMBER", k, count, es)
    IN  /\ o # NoKey
        /\ UNCHANGED <<sdb, srepl>>
        /\ \/ count >= SetSize(o) /\ scall' = got(Members(o))
           \/ /\ count < SetSize(o) /\ count * 3 > SetSize(o)
              /\ \E s \in Draws(o, SetSize(o) - count) : scall' = got(Members(o) \ ToSet(s))
           \/ /\ count * 3 <= SetSize(o)
              /\ \E s \in Draws(o, count) : scall' = got(ToSet(s))

\* copyCommand with REPLACE, and setTypeDup: the copy has the encoding of the
\* original.
COPY == \E k, to \in Key :
    k # to /\ sdb[k] # NoKey /\ Verbatim([cmd |-> "COPY", key |-> k, to |-> to])

SetNext == SADD \/ SREM \/ SMOVE \/ STORE \/ SPOP \/ SPOPCount \/ SRANDMEMBER \/ COPY

SetSpec == SetInit /\ [][SetNext]_setvars

-----------------------------------------------------------------------------
\* Every command does, and answers, what the abstract sets do, whatever the
\* encodings and the strategy it chose.
Abstract == INSTANCE AbstractSets WITH val <- [k \in Key |-> Members(sdb[k])], call <- scall
ImplementsSets == Abstract!Spec

\* The replica has the master's sets after SPOP was propagated as SREM or DEL and
\* the other commands as they are, although the encodings may differ.
ReplicaHasSets == \A k \in Key : Members(srepl[k]) = Members(sdb[k])

\* A set has no empty key, and an intset is sorted, strictly, holds integers only
\* and not too many, each of which fits its width (intsetFind relies on it).
SetsWellFormed ==
    \A k \in Key : \A side \in {<<sdb[k], MaxIntset>>, <<srepl[k], ReplMaxIntset>>} :
        LET o == side[1]
        IN  /\ (o = NoKey) = (o.a = <<>>)
            /\ o.enc = "intset" => /\ \A j \in DOMAIN o.a : IsInt(o.a[j]) /\ SetWidth(o.a[j]) <= o.width
                                   /\ \A j \in 2 .. Len(o.a) : o.a[j - 1] < o.a[j]
                                   /\ Len(o.a) <= side[2]
=============================================================================
