----------------------------- MODULE Resharding ------------------------------
(***************************************************************************)
(* Moving a hash slot between two masters of a cluster while clients use it    *)
(* (redis-6.2.7/src/cluster.c): CLUSTER SETSLOT, MIGRATE and RESTORE-ASKING,   *)
(* getNodeByQuery with its MOVED, ASK and TRYAGAIN answers, the claims of      *)
(* slots carried by the cluster bus, restarts.  The slot goes from Src to Dst; *)
(* the administrator follows the steps of redis-cli, in any interleaving with  *)
(* clients, MIGRATE errors and packets.                                       *)
(***************************************************************************)
EXTENDS Integers, Sequences, FiniteSets

CONSTANTS
    SKey,                           \* the keys of the slot
    MaxSWrites, MaxSFaults          \* bounds: writes of clients; lost replies and restarts

ASSUME ReshardingAssumption == IsFiniteSet(SKey) /\ MaxSWrites \in Nat /\ MaxSFaults \in Nat

VARIABLES
    sowner,         \* server.cluster->slots[slot] in the view of a node
    smig, simp,     \* migrating_slots_to and importing_slots_from are set
    sepoch,         \* configEpoch of the nodes
    known,          \* the configEpochs of the other node that a node knows
    store,          \* the value of a key at a node, 0 if it has none
    mreq,           \* the MIGRATE in progress at Src: keys still to restore, replies to read
    sreq,           \* the client's request: where it goes next, and with ASKING?
    sans,           \* the answer of the last step
    truth,          \* what the last acknowledged write left in a key
    unsure,         \* keys of a MIGRATE whose reply was lost, which may be at both nodes
    plan,           \* the administrator's step
    nsw, nsf

svars == <<sowner, smig, simp, sepoch, known, store, mreq, sreq, sans, truth, unsure, plan, nsw, nsf>>

Src == "src"
Dst == "dst"
Master == {Src, Dst}
Other(n) == IF n = Src THEN Dst ELSE Src
NoReq == [op |-> "none", key |-> {}, at |-> Src, asking |-> FALSE]
NoMigrate == [on |-> FALSE, todo |-> <<>>, replies |-> <<>>]
NoAnswer == [op |-> "none", key |-> {}, val |-> <<>>]

SInit ==
    /\ sowner = [n \in Master |-> Src] /\ smig = [n \in Master |-> FALSE] /\ simp = [n \in Master |-> FALSE]
    /\ sepoch = [n \in Master |-> IF n = Src THEN 2 ELSE 1] /\ known = [n \in Master |-> sepoch[Other(n)]]
    /\ \E f \in [SKey -> {0, 1}] : truth = f /\ store = [n \in Master |-> [k \in SKey |-> IF n = Src THEN f[k] ELSE 0]]
    /\ mreq = NoMigrate /\ sreq = NoReq /\ sans = NoAnswer /\ unsure = {} /\ plan = "start" /\ nsw = 1 /\ nsf = 0

Held(n) == {k \in SKey : store[n][k] # 0}
\* Src is blocked while it waits for the replies to a MIGRATE.
Busy(n) == n = Src /\ mreq.on

-----------------------------------------------------------------------------
(* getNodeByQuery: what node n does with a request for keys ks *)
Migrating(n) == sowner[n] = n /\ smig[n]
Importing(n) == ~Migrating(n) /\ simp[n]
Missing(n, ks) == (Migrating(n) \/ Importing(n)) /\ ~(ks \subseteq Held(n))
RouteServesMissing(n, ks, asking) ==
    IF Migrating(n) /\ Missing(n, ks) THEN "ask"
    ELSE IF Importing(n) /\ asking THEN "serve"
    ELSE IF sowner[n] = n THEN "serve" ELSE "moved"
Route(n, ks, asking) ==
    IF Migrating(n) /\ Missing(n, ks) THEN "ask"
    ELSE IF Importing(n) /\ asking THEN (IF Cardinality(ks) > 1 /\ Missing(n, ks) THEN "tryagain" ELSE "serve")
    ELSE IF sowner[n] = n THEN "serve" ELSE "moved"

\* A client starts with any node.
Request ==
    /\ sreq = NoReq
    /\ \E n \in Master, op \in {"get", "set", "del"}, k \in SKey :
            /\ op # "get" => nsw < MaxSWrites
            /\ sreq' = [op |-> op, key |-> {k}, at |-> n, asking |-> FALSE]
    /\ sans' = NoAnswer
    /\ UNCHANGED <<sowner, smig, simp, sepoch, known, store, mreq, truth, unsure, plan, nsw, nsf>>
RequestMany ==
    /\ sreq = NoReq
    /\ \E n \in Master : sreq' = [op |-> "get", key |-> SKey, at |-> n, asking |-> FALSE]
    /\ sans' = NoAnswer
    /\ UNCHANGED <<sowner, smig, simp, sepoch, known, store, mreq, truth, unsure, plan, nsw, nsf>>

Process ==
    LET n == sreq.at
        r == Route(n, sreq.key, sreq.asking)
        write == sreq.op \in {"set", "del"}
        k == CHOOSE x \in sreq.key : TRUE
        v == IF sreq.op = "del" THEN 0 ELSE nsw + 1
    IN  /\ sreq # NoReq /\ ~Busy(n)
        /\ sreq' = IF r = "ask" THEN [sreq EXCEPT !.at = Other(n), !.asking = TRUE]
                   ELSE IF r = "moved" THEN [sreq EXCEPT !.at = sowner[n], !.asking = FALSE]
                   ELSE NoReq
        /\ IF r = "serve"
           THEN /\ sans' = [op |-> sreq.op, key |-> sreq.key, val |-> [x \in sreq.key |-> store[n][x]]]
                /\ IF write
                   THEN /\ store' = [store EXCEPT ![n][k] = v] /\ truth' = [truth EXCEPT ![k] = v] /\ nsw' = nsw + 1
                   ELSE UNCHANGED <<store, truth, nsw>>
           ELSE sans' = NoAnswer /\ UNCHANGED <<store, truth, nsw>>
        /\ UNCHANGED <<sowner, smig, simp, sepoch, known, mreq, unsure, plan, nsf>>

-----------------------------------------------------------------------------
(* MIGRATE ... KEYS: the RESTORE-ASKING commands are sent together *)
MigrateStart ==
    /\ plan = "migrating" /\ ~mreq.on /\ Held(Src) # {}
    /\ \E s \in {<<k>> : k \in Held(Src)} \cup {s \in [1..2 -> Held(Src)] : s[1] # s[2]} :
            mreq' = [on |-> TRUE, todo |-> [i \in 1..Len(s) |-> <<s[i], store[Src][s[i]]>>], replies |-> <<>>]
    /\ sans' = NoAnswer
    /\ UNCHANGED <<sowner, smig, simp, sepoch, known, store, sreq, truth, unsure, plan, nsw, nsf>>
\* RESTORE-ASKING at Dst: accepted there while it imports; an existing key is busy
Restore ==
    LET e == Head(mreq.todo)
        ok == Route(Dst, {e[1]}, TRUE) = "serve" /\ e[1] \notin Held(Dst)
    IN  /\ mreq.on /\ mreq.todo # <<>>
        /\ store' = IF ok THEN [store EXCEPT ![Dst][e[1]] = e[2]] ELSE store
        /\ mreq' = [mreq EXCEPT !.todo = Tail(@), !.replies = Append(@, <<e[1], ok>>)]
        /\ sans' = NoAnswer
        /\ UNCHANGED <<sowner, smig, simp, sepoch, known, sreq, truth, unsure, plan, nsw, nsf>>
AfterReply(k, ok) == IF ok THEN [store EXCEPT ![Src][k] = 0] ELSE store
ReadReplyOf ==
    LET r == Head(mreq.replies)
        rest == [mreq EXCEPT !.replies = Tail(@)]
    IN  /\ mreq.on /\ mreq.replies # <<>>
        /\ store' = AfterReply(r[1], r[2])
        /\ mreq' = IF rest.todo = <<>> /\ rest.replies = <<>> THEN NoMigrate ELSE rest
        /\ sans' = NoAnswer
        /\ UNCHANGED <<sowner, smig, simp, sepoch, known, sreq, truth, unsure, plan, nsw, nsf>>
\* A timeout or a broken socket: -IOERR; the keys not yet confirmed stay.  The one retry
\* of the code is a further MIGRATE.
MigrateFails ==
    /\ mreq.on /\ nsf < MaxSFaults /\ nsf' = nsf + 1
    /\ unsure' = unsure \cup {mreq.todo[i][1] : i \in 1..Len(mreq.todo)} \cup {mreq.replies[i][1] : i \in 1..Len(mreq.replies)}
    /\ mreq' = NoMigrate /\ sans' = NoAnswer
    /\ UNCHANGED <<sowner, smig, simp, sepoch, known, store, sreq, truth, plan, nsw>>

-----------------------------------------------------------------------------
(* CLUSTER SETSLOT, in the order of redis-cli *)
SetSlotImporting ==
    /\ plan = "start" /\ sowner[Dst] # Dst /\ simp' = [simp EXCEPT ![Dst] = TRUE] /\ plan' = "importing" /\ sans' = NoAnswer
    /\ UNCHANGED <<sowner, smig, sepoch, known, store, mreq, sreq, truth, unsure, nsw, nsf>>
SetSlotMigrating ==
    /\ plan = "importing" /\ ~Busy(Src) /\ sowner[Src] = Src
    /\ smig' = [smig EXCEPT ![Src] = TRUE] /\ plan' = "migrating" /\ sans' = NoAnswer
    /\ UNCHANGED <<sowner, simp, sepoch, known, store, mreq, sreq, truth, unsure, nsw, nsf>>
\* GETKEYSINSLOT returns no more keys
SlotIsEmpty ==
    /\ plan = "migrating" /\ ~Busy(Src) /\ Held(Src) = {} /\ plan' = "empty" /\ sans' = NoAnswer
    /\ UNCHANGED <<sowner, smig, simp, sepoch, known, store, mreq, sreq, truth, unsure, nsw, nsf>>
\* SETSLOT <slot> NODE Dst; a node that imported the slot takes a new configEpoch
SetSlotNodeAtDst ==
    LET bump == IF sepoch[Dst] > known[Dst] THEN sepoch[Dst] ELSE known[Dst] + 1 IN
    /\ plan = "empty" /\ sowner[Dst] # Dst
    /\ sowner' = [sowner EXCEPT ![Dst] = Dst]
    /\ sepoch' = IF simp[Dst] THEN [sepoch EXCEPT ![Dst] = bump] ELSE sepoch
    /\ simp' = [simp EXCEPT ![Dst] = FALSE] /\ sans' = NoAnswer
    /\ UNCHANGED <<smig, known, store, mreq, sreq, truth, unsure, plan, nsw, nsf>>
SetSlotNodeAtSrc ==
    /\ plan = "empty" /\ ~Busy(Src) /\ sowner[Src] = Src /\ Held(Src) = {}
    /\ sowner' = [sowner EXCEPT ![Src] = Dst] /\ smig' = [smig EXCEPT ![Src] = FALSE] /\ sans' = NoAnswer
    /\ UNCHANGED <<simp, sepoch, known, store, mreq, sreq, truth, unsure, plan, nsw, nsf>>

\* A PING or PONG of node Other(n): clusterUpdateSlotsConfigWith.  Keys of a slot
\* that is taken away are deleted (both nodes own other slots and stay masters).
Gossip(n) ==
    LET s == Other(n)
        claims == sowner[s] = s /\ sowner[n] # s /\ ~simp[n] /\ sepoch[n] < sepoch[s]
    IN  /\ ~Busy(n) /\ (claims \/ known[n] # sepoch[s])
        /\ known' = [known EXCEPT ![n] = sepoch[s]]
        /\ sowner' = IF claims THEN [sowner EXCEPT ![n] = s] ELSE sowner
        /\ store' = IF claims THEN [store EXCEPT ![n] = [k \in SKey |-> 0]] ELSE store
        /\ sans' = NoAnswer
        /\ UNCHANGED <<smig, simp, sepoch, mreq, sreq, truth, unsure, plan, nsw, nsf>>

\* A restart keeps data, slots and epochs; verifyClusterConfigWithData turns keys of
\* a slot of another node into an import.
RestartNode(n) ==
    /\ nsf < MaxSFaults /\ nsf' = nsf + 1 /\ ~Busy(n)
    /\ simp' = [simp EXCEPT ![n] = @ \/ (sowner[n] # n /\ Held(n) # {})]
    /\ sans' = NoAnswer
    /\ UNCHANGED <<sowner, smig, sepoch, known, store, mreq, sreq, truth, unsure, plan, nsw>>

SNext ==
    \/ Request \/ RequestMany \/ Process \/ MigrateStart \/ Restore \/ ReadReplyOf \/ MigrateFails
    \/ SetSlotImporting \/ SetSlotMigrating \/ SlotIsEmpty \/ SetSlotNodeAtDst \/ SetSlotNodeAtSrc
    \/ \E n \in Master : Gossip(n) \/ RestartNode(n)
SSpec == SInit /\ [][SNext]_svars /\ WF_svars(Process) /\ WF_svars(SetSlotNodeAtDst)
               /\ WF_svars(Restore) /\ WF_svars(ReadReplyOf)

-----------------------------------------------------------------------------
\* A client that follows the redirections reads what was last written, at every
\* moment of the migration: one key or several, at either node.  Keys of a MIGRATE
\* that ended with -IOERR may be at both nodes and are left out.
ReadsLastWrite ==
    sans.op = "get" => \A k \in sans.key \ unsure : sans.val[k] = truth[k]

\* MIGRATE deletes a key only when the other node has it, and a claim of the slot
\* deletes no key that is nowhere else: the last written value is always at a node, also
\* after a MIGRATE that failed half way.
NoKeyLost == \A k \in SKey : truth[k] # 0 => \E n \in Master : store[n][k] = truth[k]

\* A slot that moves serves every key: none is lost, and no answer is out of date
\* (getNodeByQuery, migrateCommand, CLUSTER SETSLOT).
ReshardingSafe == ReadsLastWrite /\ NoKeyLost

\* Once the slot is empty, a client is redirected only finitely often.
RequestEnds == (sreq # NoReq /\ plan = "empty") ~> sreq = NoReq
=============================================================================
