----------------------------- MODULE StreamGroups -----------------------------
(***************************************************************************)
(* A stream key and one of its consumer groups (redis-6.2.7/src/t_stream.c) *)
(* on a master, and on a replica (or an AOF) that executes the commands the *)
(* master propagates in place of the ones it was given: XADD with the ID    *)
(* generated and the trimming made exact, XCLAIM and XGROUP for XREADGROUP, *)
(* XCLAIM and XAUTOCLAIM.                                                   *)
(*                                                                         *)
(* An entry ID, the pair ms-seq, is a number; MaxId is the greatest one.    *)
(* Fields and values are left out, and so are delivery times and counts:    *)
(* reading the history changes them on the master only.  Which pending      *)
(* entries were idle long enough is a free choice.                          *)
(***************************************************************************)
EXTENDS Integers, Sequences, FiniteSets, SequencesExt

CONSTANTS
    Consumer, NoConsumer,
    MaxId,        \* the last possible ID
    NodeMax,      \* stream-node-max-entries of the master
    ReplNodeMax,  \* and of the replica
    IdleSets      \* the sets of IDs that may have been idle long enough when XAUTOCLAIM looks

VARIABLES
    master, replica,  \* the key on either side
    broken            \* history: "empty" if an XADD failed after it created the key, "lowered"
                      \* if XSETID went below a deleted entry, else "no"

stvars == <<master, replica, broken>>

Id == 0 .. MaxId
NoPel == [i \in Id |-> NoConsumer]
NoGroup == [exists |-> FALSE, last |-> 0, pel |-> NoPel, consumers |-> {}, own |-> [c \in Consumer |-> {}]]

\* streamNew; a key that does not exist looks the same but for exists.
NoStream == [exists |-> FALSE, nodes |-> <<>>, last |-> 0, group |-> NoGroup]

StInit == master = NoStream /\ replica = NoStream /\ broken = "no"

-----------------------------------------------------------------------------
(* The radix tree of listpacks: a sequence of nodes, each a sequence of
   entries, of which the deleted ones stay as tombstones.                    *)

Live(node) == {node[k].id : k \in {k \in DOMAIN node : ~node[k].del}}
Entries(s) == UNION {Live(s.nodes[k]) : k \in DOMAIN s.nodes}
Length(s) == Cardinality(Entries(s))

\* streamLastValidID
LastValid(s) == CHOOSE i \in Entries(s) : \A j \in Entries(s) : j <= i

\* streamAppendItem, for an ID above the last one
AppendItem(s, id, n) ==
    LET e == [id |-> id, del |-> FALSE]
        full == s.nodes = <<>> \/ Len(Last(s.nodes)) >= n
    IN  [s EXCEPT !.exists = TRUE, !.last = id,
                  !.nodes = IF full THEN Append(@, <<e>>)
                            ELSE [@ EXCEPT ![Len(@)] = Append(@, e)]]

\* streamDeleteItem and streamIteratorRemoveEntry: the last live entry of a
\* node takes the node with it.
DeleteItem(s, id) ==
    LET hit(node) == id \in Live(node)
        rest == SelectSeq(s.nodes, LAMBDA node : ~(hit(node) /\ Live(node) = {id}))
        mark(node) == [k \in DOMAIN node |-> [node[k] EXCEPT !.del = @ \/ node[k].id = id]]
    IN  [s EXCEPT !.nodes = [k \in DOMAIN rest |-> mark(rest[k])]]

\* Trimming inside a node deletes its first entries, by MAXLEN until len is down
\* to arg, by MINID up to the first one, deleted or not, that is not below arg.
TrimInside(node, strategy, arg, len) ==
    LET live(k) == Cardinality({j \in 1 .. k - 1 : ~node[j].del})
        dead(k) == IF strategy = "MAXLEN" THEN len - live(k) > arg ELSE \A j \in 1 .. k : node[j].id < arg
    IN  [k \in DOMAIN node |-> [node[k] EXCEPT !.del = @ \/ dead(k)]]

\* streamTrim.  A node goes as a whole if that leaves maxlen entries, or if its
\* last entry, a tombstone perhaps, is below minid; else the trimming ends
\* there, inside the node unless it is approximate.  limit 0 is no limit.
RECURSIVE TrimNodes(_, _, _, _, _, _, _)
TrimNodes(nodes, strategy, arg, approx, limit, len, deleted) ==
    IF nodes = <<>> \/ (strategy = "MAXLEN" /\ len <= arg) THEN nodes
    ELSE LET node == Head(nodes)
             n == Cardinality(Live(node))
             whole == IF strategy = "MAXLEN" THEN len - n >= arg ELSE Last(node).id < arg
         IN  IF limit # 0 /\ deleted + n > limit THEN nodes
             ELSE IF whole
             THEN TrimNodes(Tail(nodes), strategy, arg, approx, limit, len - n, deleted + n)
             ELSE IF approx THEN nodes
             ELSE <<TrimInside(node, strategy, arg, len)>> \o Tail(nodes)

Trim(s, t) ==
    IF t.strategy = "NONE" THEN s
    ELSE [s EXCEPT !.nodes = TrimNodes(@, t.strategy, t.arg, t.approx, t.limit, Length(s), 0)]

\* streamGetEdgeID of the first entry, deleted or not
FirstEdge(s) == IF s.nodes = <<>> THEN MaxId ELSE Head(Head(s.nodes)).id

\* streamRewriteApproxSpecifier and streamRewriteTrimArgument
RewriteTrim(s, t) ==
    IF ~t.approx THEN t
    ELSE [t EXCEPT !.approx = FALSE, !.limit = 0,
                   !.arg = IF t.strategy = "MAXLEN" THEN Length(s) ELSE FirstEdge(s)]

-----------------------------------------------------------------------------
(* Consumer groups: pel is the group's PEL with the consumer of each NACK,
   own the PELs of the consumers.                                            *)

\* streamLookupConsumer, creating it
WithConsumer(g, c) == [g EXCEPT !.consumers = @ \cup {c}]

\* Mutant: the entry stays in the PEL of its old owner.
AssignKeepsOld(g, id, c) == [WithConsumer(g, c) EXCEPT !.pel[id] = c, !.own[c] = @ \cup {id}]

\* A NACK for id goes to c, from whoever had it.
Assign(g, id, c) ==
    [WithConsumer(g, c) EXCEPT !.pel[id] = c,
        !.own = [d \in Consumer |-> IF d = c THEN g.own[d] \cup {id} ELSE g.own[d] \ {id}]]

RECURSIVE AssignAll(_, _, _)
AssignAll(g, ids, c) ==
    IF ids = {} THEN g
    ELSE LET i == CHOOSE i \in ids : TRUE IN AssignAll(Assign(g, i, c), ids \ {i}, c)

RaiseLast(g, last) == [g EXCEPT !.last = IF last > @ THEN last ELSE @]

\* xackCommand
Ack(g, ids) ==
    [g EXCEPT !.pel = [i \in Id |-> IF i \in ids THEN NoConsumer ELSE g.pel[i]],
              !.own = [c \in Consumer |-> g.own[c] \ {i \in ids : g.pel[i] = c}]]

\* streamDelConsumer
DelConsumer(g, c) ==
    [g EXCEPT !.pel = [i \in Id |-> IF i \in g.own[c] THEN NoConsumer ELSE g.pel[i]],
              !.own[c] = {}, !.consumers = @ \ {c}]

\* The IDs XCLAIM takes: those pending and idle long enough and, with FORCE,
\* those that are not pending but in the stream.
Claimable(s, ids, force, idle) ==
    {i \in ids : \/ s.group.pel[i] # NoConsumer /\ i \in idle
                 \/ s.group.pel[i] = NoConsumer /\ force /\ i \in Entries(s)}

\* xclaimCommand
Claim(s, c, ids, force, idle, last) ==
    [s EXCEPT !.group = AssignAll(RaiseLast(@, last), Claimable(s, ids, force, idle), c)]

-----------------------------------------------------------------------------
(* The commands the replica executes.                                        *)

Xadd(id, t) == [cmd |-> "XADD", id |-> id, trim |-> t]
Xtrim(t) == [cmd |-> "XTRIM", trim |-> t]
\* streamPropagateXCLAIM: FORCE, and the group's last ID
Xclaim(c, id, last) == [cmd |-> "XCLAIM", consumer |-> c, id |-> id, last |-> last]
\* streamPropagateGroupID
SetId(last) == [cmd |-> "SETID", last |-> last]
\* streamPropagateConsumerCreation
CreateConsumer(c) == [cmd |-> "CREATECONSUMER", consumer |-> c]
Other(name, x) == [cmd |-> name, arg |-> x]

StExecute(s, c, n) ==
    CASE c.cmd = "XADD" -> IF c.id > s.last THEN Trim(AppendItem(s, c.id, n), c.trim) ELSE s
      [] c.cmd = "XTRIM" -> Trim(s, c.trim)
      [] c.cmd = "XCLAIM" -> IF s.group.exists THEN Claim(s, c.consumer, {c.id}, TRUE, Id, c.last) ELSE s
      [] c.cmd = "SETID" -> [s EXCEPT !.group.last = c.last]
      [] c.cmd = "CREATECONSUMER" -> [s EXCEPT !.group = WithConsumer(@, c.consumer)]
      [] c.cmd = "DELCONSUMER" -> [s EXCEPT !.group = DelConsumer(@, c.arg)]
      [] c.cmd = "XDEL" -> DeleteItem(s, c.arg)
      [] c.cmd = "XACK" -> [s EXCEPT !.group = Ack(@, c.arg)]
      [] c.cmd = "XSETID" -> [s EXCEPT !.last = c.arg]
      [] c.cmd = "CREATE" -> [s EXCEPT !.exists = TRUE, !.group = [NoGroup EXCEPT !.exists = TRUE, !.last = c.arg]]
      [] c.cmd = "DESTROY" -> [s EXCEPT !.group = NoGroup]
      [] c.cmd = "DEL" -> NoStream

RECURSIVE Replay(_, _)
Replay(s, cmds) == IF cmds = <<>> THEN s ELSE Replay(StExecute(s, Head(cmds), ReplNodeMax), Tail(cmds))

\* The master's new state, and what it propagates.
Apply(new, cmds) == master' = new /\ replica' = Replay(replica, cmds)
Step(new, cmds) == Apply(new, cmds) /\ UNCHANGED broken

\* A command that is propagated as it was executed.
StVerbatim(c) == Step(StExecute(master, c, NodeMax), <<c>>)

-----------------------------------------------------------------------------
Trims ==
    {[strategy |-> "NONE", arg |-> 0, approx |-> FALSE, limit |-> 0]}
      \cup [strategy : {"MAXLEN", "MINID"}, arg : {1, 2, MaxId}, approx : {FALSE}, limit : {0}]
      \cup [strategy : {"MAXLEN", "MINID"}, arg : {1, 2, MaxId}, approx : {TRUE}, limit : {0, 1}]

\* xaddCommand: id is the one given, or generated (streamNextID) from a clock
\* behind or ahead of the last ID.
XADD(id, t) ==
    LET added == Trim(AppendItem(master, id, NodeMax), t)
    IN  /\ master.last < MaxId /\ id > master.last
        /\ Step(added, <<Xadd(id, RewriteTrim(added, t))>>)

\* xaddCommand, when the elements are larger than a listpack may be: the key
\* was created, and nothing is propagated.
XADDTooLarge ==
    /\ ~master.exists
    /\ master' = [master EXCEPT !.exists = TRUE]
    /\ broken' = "empty"
    /\ UNCHANGED replica

\* xtrimCommand: propagated only if something was deleted
XTRIM(t) ==
    LET new == Trim(master, t)
    IN  /\ master.exists /\ t.strategy # "NONE" /\ Length(new) < Length(master)
        /\ Step(new, <<Xtrim(RewriteTrim(new, t))>>)

\* xdelCommand
XDEL(id) == id \in Entries(master) /\ StVerbatim(Other("XDEL", id))

\* xsetidCommand
XSETID(id) ==
    /\ master.exists /\ id # master.last
    /\ Entries(master) # {} => id >= LastValid(master)
    /\ Apply([master EXCEPT !.last = id], <<Other("XSETID", id)>>)
    /\ broken' = IF \E k \in DOMAIN master.nodes : Last(master.nodes[k]).id > id THEN "lowered" ELSE "no"

\* xgroupCommand: CREATE with or without MKSTREAM, SETID, DESTROY,
\* CREATECONSUMER, DELCONSUMER
XGROUPCreate(id) == ~master.group.exists /\ StVerbatim(Other("CREATE", id))
XGROUPSetId(id) == master.group.exists /\ StVerbatim(SetId(id))
XGROUPDestroy == master.group.exists /\ StVerbatim(Other("DESTROY", 0))
XGROUPConsumer(c) ==
    /\ master.group.exists
    /\ IF c \in master.group.consumers THEN StVerbatim(Other("DELCONSUMER", c)) ELSE StVerbatim(CreateConsumer(c))

\* dbDelete of the key, by whatever command
DEL == master.exists /\ StVerbatim(Other("DEL", 0))

\* xreadCommand with GROUP and ">", and streamReplyWithRange: up to count of the
\* entries after the group's last ID, in order.
Undelivered(s) == {i \in Entries(s) : i > s.group.last}
AscendingIds(ids) == [j \in 1 .. Cardinality(ids) |-> CHOOSE i \in ids : Cardinality({k \in ids : k < i}) = j - 1]
FirstOf(ids, count) == {i \in ids : Cardinality({j \in ids : j < i}) < count}

XREADGROUP(c, count, noack) ==
    LET ids == FirstOf(Undelivered(master), count)
        seq == AscendingIds(ids)
        g == RaiseLast(WithConsumer(master.group, c), Last(seq))
        created == c \notin master.group.consumers
    IN  /\ master.group.exists /\ ids # {}
        /\ IF noack
           THEN Step([master EXCEPT !.group = g],
                     (IF created THEN <<CreateConsumer(c)>> ELSE <<>>) \o <<SetId(Last(seq))>>)
           ELSE Step([master EXCEPT !.group = AssignAll(g, ids, c)],
                     [k \in DOMAIN seq |-> Xclaim(c, seq[k], seq[k])])

\* xreadCommand with GROUP and an ID: the history of the consumer, which is
\* created if need be; nothing is propagated, unless it was with NOACK.
XREADGROUPHistory(c, noack) ==
    /\ master.group.exists /\ c \notin master.group.consumers
    /\ Step([master EXCEPT !.group = WithConsumer(@, c)], IF noack THEN <<CreateConsumer(c)>> ELSE <<>>)

\* XACK of any ID
XACK(id) == master.group.exists /\ master.group.pel[id] # NoConsumer /\ StVerbatim(Other("XACK", {id}))

\* xclaimCommand: each entry claimed is propagated, or else the last ID if it
\* moved.
XCLAIM(c, id, force, idle, last) ==
    LET new == Claim(master, c, {id}, force, idle, last)
        claimed == Claimable(master, {id}, force, idle)
    IN  /\ master.group.exists
        /\ Step(new, IF claimed # {} THEN <<Xclaim(c, id, new.group.last)>>
                     ELSE IF last > master.group.last THEN <<SetId(last)>> ELSE <<>>)

\* xautoclaimCommand: from start on, up to count of the pending entries that
\* are idle, whether or not they are still in the stream.
XAUTOCLAIM(c, start, count, idle) ==
    LET ids == FirstOf({i \in Id : i >= start /\ master.group.pel[i] # NoConsumer /\ i \in idle}, count)
        new == [master EXCEPT !.group = AssignAll(@, ids, c)]
        seq == AscendingIds(ids)
    IN  /\ master.group.exists /\ ids # {}
        /\ Step(new, [k \in DOMAIN seq |-> Xclaim(c, seq[k], new.group.last)])

\* Followed up to the first failed XADD, and one XADD past an XSETID below a
\* deleted entry.
Unbroken == broken = "no"

StNext ==
    \/ broken # "empty" /\ \E id \in Id \ {0}, t \in Trims : XADD(id, t)
    \/ Unbroken /\ XADDTooLarge
    \/ Unbroken /\ \E t \in Trims : XTRIM(t)
    \/ Unbroken /\ \E id \in Id : XDEL(id) \/ XSETID(id) \/ XGROUPCreate(id) \/ XGROUPSetId(id) \/ XACK(id)
    \/ Unbroken /\ (XGROUPDestroy \/ DEL)
    \/ Unbroken /\ \E c \in Consumer : XGROUPConsumer(c)
    \/ Unbroken /\ \E c \in Consumer, count \in 1 .. 2, noack \in BOOLEAN : XREADGROUP(c, count, noack)
    \/ Unbroken /\ \E c \in Consumer, noack \in BOOLEAN : XREADGROUPHistory(c, noack)
    \/ Unbroken /\ \E c \in Consumer, id \in Id, force \in BOOLEAN, idle \in {{}, Id}, last \in Id :
         XCLAIM(c, id, force, idle, last)
    \/ Unbroken /\ \E c \in Consumer, start \in Id, count \in 1 .. 2, idle \in IdleSets : XAUTOCLAIM(c, start, count, idle)

StSpec == StInit /\ [][StNext]_stvars

-----------------------------------------------------------------------------
\* The two PELs agree: an ID is in the PEL of a consumer exactly if the group's
\* NACK names that consumer, which exists (streamFreeNACK frees one NACK that
\* two radix trees point to).
PelsAgree ==
    \A s \in {master, replica} :
        LET g == s.group
        IN  /\ \A i \in Id, c \in Consumer : (i \in g.own[c]) = (g.pel[i] = c)
            /\ \A c \in Consumer : g.own[c] # {} => c \in g.consumers

\* Replication: the replica has the entries, the last IDs and the pending
\* entries of the master, and the consumers that have some (a consumer that
\* only read its empty history exists on the master alone).
SameStream(m, r) ==
    /\ m.exists = r.exists /\ Entries(m) = Entries(r) /\ m.last = r.last
    /\ m.group.exists = r.group.exists /\ m.group.last = r.group.last
    /\ m.group.pel = r.group.pel /\ r.group.consumers \subseteq m.group.consumers

ReplicaFollows == Unbroken => SameStream(master, replica)

=============================================================================
