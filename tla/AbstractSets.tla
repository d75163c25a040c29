---------------------------- MODULE AbstractSets ----------------------------
(***************************************************************************)
(* What the set commands promise: every key holds a set, the empty set when *)
(* the key does not exist, and what a command does and returns depends on    *)
(* those sets alone.  Encodings, and the strategies the commands choose      *)
(* between, do not show.                                                    *)
(***************************************************************************)
EXTENDS Integers, Sequences, FiniteSets

CONSTANT Key

VARIABLES
    val,   \* the set of each key
    call   \* the last command, and the elements it returned if it returns any

vars == <<val, call>>

Init == val = [k \in Key |-> {}] /\ call = [cmd |-> "NONE"]

Becomes(k, s) == val' = [val EXCEPT ![k] = s]
Elems(c) == {c.elems[j] : j \in DOMAIN c.elems}
Sets(c) == [j \in DOMAIN c.keys |-> val[c.keys[j]]]

\* ret: that many of the members, or all when there are fewer
SomeMembers(c) ==
    /\ c.ret \subseteq val[c.key]
    /\ Cardinality(c.ret) = c.count \/ (Cardinality(c.ret) < c.count /\ c.ret = val[c.key])

StoreResult(c) ==
    LET sets == Sets(c)
    IN  CASE c.op = "union" -> UNION {sets[j] : j \in DOMAIN sets}
          [] c.op = "inter" -> {e \in sets[1] : \A j \in DOMAIN sets : e \in sets[j]}
          [] c.op = "diff"  -> {e \in sets[1] : \A j \in 2 .. Len(sets) : e \notin sets[j]}

Effect(c) ==
    CASE c.cmd = "SADD" -> Becomes(c.key, val[c.key] \cup Elems(c))
      [] c.cmd = "SREM" -> Becomes(c.key, val[c.key] \ Elems(c))
      [] c.cmd = "SMOVE" -> IF c.elems[1] \in val[c.key] /\ c.to # c.key
                            THEN val' = [val EXCEPT ![c.key] = @ \ Elems(c), ![c.to] = @ \cup Elems(c)]
                            ELSE UNCHANGED val
      [] c.cmd = "STORE" -> Becomes(c.to, StoreResult(c))
      [] c.cmd = "COPY" -> Becomes(c.to, val[c.key])
      [] c.cmd = "SPOP" -> SomeMembers(c) /\ Becomes(c.key, val[c.key] \ c.ret)
      [] c.cmd = "SRANDMEMBER" -> SomeMembers(c) /\ UNCHANGED val
      [] OTHER -> FALSE

Next == Effect(call')

Spec == Init /\ [][Next]_vars
=============================================================================
