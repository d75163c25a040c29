------------------------ MODULE ClusterConfigProofs ------------------------
(***************************************************************************)
(* Proofs about ClusterConfig, for any set of nodes and slots and any       *)
(* number of packets, elections, takeovers and restarts: what a node        *)
(* believes about the cluster never contradicts itself.                     *)
(***************************************************************************)
EXTENDS ClusterConfig, TLAPS

\* The configuration of one node holds together: slots belong to masters, the node does
\* not replicate itself, and it voted in no epoch beyond its currentEpoch.
ViewSound(n, c) ==
  /\ c \in NodeConf
  /\ \A s \in Slot : c.slots[s] # None => c.slaveof[c.slots[s]] = None
  /\ c.slaveof[n] # n
  /\ c.lastVoteEpoch <= c.currentEpoch

\* A packet is from one node to another, and an UPDATE carries the claim of a node.
SoundPacket(p) ==
  /\ p \in Packet
  /\ p.sender # p.to
  /\ p.type = "UPDATE" => p.update \in Update

\* The inductive invariant.  The last vote is in nodes.conf with an epoch as large, which
\* is why a restart cannot put currentEpoch behind it.
ConfigInv ==
  /\ TypeOK
  /\ \A n \in Node : ViewSound(n, conf[n])
  /\ \A n \in Node : conf[n].lastVoteEpoch <= saved[n]
  /\ \A p \in net : SoundPacket(p)

-----------------------------------------------------------------------------
(* Facts about the operators.                                               *)

\* clusterBuildMessageHdr makes a packet from the configuration of its sender.
LEMMA HeaderSound ==
  ASSUME NEW n \in Node, NEW c \in NodeConf, NEW to \in Node, n # to,
         NEW type \in {"PING", "FAIL", "AUTH_REQUEST", "AUTH_ACK", "UPDATE"},
         NEW force \in BOOLEAN, NEW update \in Update \cup {None},
         type = "UPDATE" => update \in Update
  PROVE  SoundPacket(BuildMessageHdr(n, c, type, to, force, update))
<1> DEFINE master == IF c.slaveof[n] = None THEN n ELSE c.slaveof[n]
<1>1. c.slaveof[n] \in Node \cup {None} /\ master \in Node
  BY DEF NodeConf
<1>2. c.currentEpoch \in Nat /\ c.configEpoch[master] \in Nat
  BY <1>1 DEF NodeConf
<1>3. SlotsOf(c, master) \subseteq Slot
  BY DEF SlotsOf
<1> QED
  BY <1>1, <1>2, <1>3 DEF SoundPacket, Packet, BuildMessageHdr

\* clusterBroadcastMessage sends to the others.
LEMMA BroadcastSound ==
  ASSUME NEW n \in Node, NEW c \in NodeConf, NEW type \in {"PING", "AUTH_REQUEST"},
         NEW force \in BOOLEAN
  PROVE  \A p \in Broadcast(n, c, type, force) : SoundPacket(p)
<1> SUFFICES ASSUME NEW m \in Node \ {n}
             PROVE  SoundPacket(BuildMessageHdr(n, c, type, m, force, None))
  BY DEF Broadcast
<1> QED
  BY HeaderSound

\* The epochs of a packet move a node's epochs forward and nothing else.
LEMMA SeeEpochsSound ==
  ASSUME NEW n \in Node, NEW c, ViewSound(n, c), NEW p, SoundPacket(p)
  PROVE  /\ ViewSound(n, SeeEpochs(c, p))
         /\ SeeEpochs(c, p).lastVoteEpoch = c.lastVoteEpoch
<1> DEFINE d == SeeEpochs(c, p)
<1>1. /\ Larger(c.currentEpoch, p.currentEpoch) \in Nat
      /\ Larger(c.configEpoch[p.sender], p.configEpoch) \in Nat
      /\ c.lastVoteEpoch <= Larger(c.currentEpoch, p.currentEpoch)
  BY DEF ViewSound, SoundPacket, NodeConf, Packet, Larger
<1>2. /\ d \in NodeConf /\ d.slots = c.slots /\ d.slaveof = c.slaveof
      /\ d.lastVoteEpoch = c.lastVoteEpoch
      /\ d.currentEpoch = Larger(c.currentEpoch, p.currentEpoch)
  BY <1>1 DEF ViewSound, SoundPacket, NodeConf, Packet, SeeEpochs
<1> QED
  BY <1>1, <1>2 DEF ViewSound

\* A master that turned into a slave loses its slots with its role.
LEMMA SeeRoleSound ==
  ASSUME NEW n \in Node, NEW c, ViewSound(n, c), NEW p, SoundPacket(p), p.to = n
  PROVE  /\ ViewSound(n, SeeRole(c, p))
         /\ SeeRole(c, p).lastVoteEpoch = c.lastVoteEpoch
         /\ SeeRole(c, p).slaveof[p.sender] = p.slaveof
<1> DEFINE d == SeeRole(c, p)
           cleared == [s \in Slot |-> IF c.slots[s] = p.sender THEN None ELSE c.slots[s]]
<1>1. /\ p.sender \in Node /\ p.sender # n /\ p.slaveof \in Node \cup {None}
      /\ c \in NodeConf /\ None \notin Node
  BY ConfigAssumption DEF SoundPacket, Packet, ViewSound
<1>2. cleared \in [Slot -> Node \cup {None}]
  BY <1>1 DEF NodeConf
<1>3. /\ d \in NodeConf /\ d.slaveof = [c.slaveof EXCEPT ![p.sender] = p.slaveof]
      /\ d.lastVoteEpoch = c.lastVoteEpoch /\ d.currentEpoch = c.currentEpoch
      /\ d.slots = IF p.slaveof # None /\ c.slaveof[p.sender] = None THEN cleared
                   ELSE c.slots
  BY <1>1, <1>2 DEF NodeConf, SeeRole
<1>4. c.slaveof \in [Node -> Node \cup {None}] /\ c.slots \in [Slot -> Node \cup {None}]
  BY <1>1 DEF NodeConf
<1>5. ASSUME NEW s \in Slot, d.slots[s] # None
      PROVE  d.slaveof[d.slots[s]] = None
  <2>1. c.slots[s] # None /\ d.slots[s] = c.slots[s] /\ c.slaveof[c.slots[s]] = None
    BY <1>3, <1>5 DEF ViewSound
  <2>2. c.slots[s] \in Node
    BY <1>4, <2>1
  <2>3. CASE c.slots[s] = p.sender
    <3>1. p.slaveof = None
      BY <1>3, <1>5, <2>1, <2>3
    <3> QED
      BY <1>1, <1>3, <1>4, <2>1, <2>3, <3>1
  <2>4. CASE c.slots[s] # p.sender
    BY <1>3, <1>4, <2>1, <2>2, <2>4
  <2> QED
    BY <2>3, <2>4
<1>6. d.slaveof[n] # n /\ d.slaveof[p.sender] = p.slaveof
  BY <1>1, <1>3, <1>4 DEF ViewSound
<1>7. d.lastVoteEpoch <= d.currentEpoch
  BY <1>3 DEF ViewSound
<1> QED
  BY <1>3, <1>5, <1>6, <1>7 DEF ViewSound

\* clusterUpdateSlotsConfigWith gives slots to a master, and makes a node a slave of it
\* only when the node has no slot left.
LEMMA UpdateSlotsSound ==
  ASSUME NEW n \in Node, NEW c, ViewSound(n, c), NEW sender \in Node,
         c.slaveof[sender] = None, NEW epoch, NEW claimed
  PROVE  /\ ViewSound(n, UpdateSlotsConfigWith(n, c, sender, epoch, claimed))
         /\ UpdateSlotsConfigWith(n, c, sender, epoch, claimed).lastVoteEpoch
              = c.lastVoteEpoch
<1> DEFINE d == UpdateSlotsConfigWith(n, c, sender, epoch, claimed)
           curmaster == IF c.slaveof[n] = None THEN n ELSE c.slaveof[n]
           rebound == {s \in claimed : /\ c.slots[s] # sender
                                       /\ \/ c.slots[s] = None
                                          \/ c.configEpoch[c.slots[s]] < epoch}
           lost == {s \in rebound : c.slots[s] = curmaster}
           newslots == [s \in Slot |-> IF s \in rebound THEN sender ELSE c.slots[s]]
           new == [c EXCEPT !.slots = newslots]
<1>1. /\ c \in NodeConf /\ None \notin Node
      /\ c.slaveof \in [Node -> Node \cup {None}] /\ c.slots \in [Slot -> Node \cup {None}]
  BY ConfigAssumption DEF ViewSound, NodeConf
<1>2. newslots \in [Slot -> Node \cup {None}]
  BY <1>1
<1>3. /\ new \in NodeConf /\ new.slots = newslots /\ new.slaveof = c.slaveof
      /\ new.lastVoteEpoch = c.lastVoteEpoch /\ new.currentEpoch = c.currentEpoch
  <2> HIDE DEF newslots
  <2> QED
    BY <1>1, <1>2 DEF NodeConf
<1>4. \A s \in Slot : new.slots[s] # None => c.slaveof[new.slots[s]] = None
  BY <1>3 DEF ViewSound
<1>5. d = IF sender = n THEN c
          ELSE IF lost # {} /\ SlotsOf(new, curmaster) = {}
               THEN [new EXCEPT !.slaveof[n] = sender]
               ELSE new
  BY DEF UpdateSlotsConfigWith
<1> SUFFICES ViewSound(n, d) /\ d.lastVoteEpoch = c.lastVoteEpoch
  OBVIOUS
<1> HIDE DEF d, new, lost, newslots, rebound
<1>6. CASE sender = n
  BY <1>5, <1>6
<1>7. CASE sender # n /\ ~(lost # {} /\ SlotsOf(new, curmaster) = {})
  BY <1>1, <1>3, <1>4, <1>5, <1>7 DEF ViewSound
<1>8. CASE sender # n /\ SlotsOf(new, curmaster) = {} /\ lost # {}
  <2>1. d = [new EXCEPT !.slaveof[n] = sender]
    BY <1>5, <1>8
  <2>2. /\ d \in NodeConf /\ d.slots = new.slots
        /\ d.slaveof = [c.slaveof EXCEPT ![n] = sender]
        /\ d.lastVoteEpoch = c.lastVoteEpoch /\ d.currentEpoch = c.currentEpoch
    BY <1>1, <1>3, <2>1 DEF NodeConf
  <2>3. \A s \in Slot : new.slots[s] # n
    <3>1. SUFFICES ASSUME NEW s \in Slot, new.slots[s] = n PROVE FALSE
      OBVIOUS
    <3>2. c.slaveof[n] = None
      BY <1>1, <1>4, <3>1
    <3>3. s \in SlotsOf(new, curmaster)
      BY <3>1, <3>2 DEF SlotsOf
    <3> QED
      BY <1>8, <3>3
  <2>4. \A s \in Slot : d.slots[s] # None => d.slaveof[d.slots[s]] = None
    <3>1. SUFFICES ASSUME NEW s \in Slot, new.slots[s] # None
                   PROVE  d.slaveof[new.slots[s]] = None
      BY <2>2
    <3>2. new.slots[s] \in Node \ {n}
      BY <1>2, <1>3, <2>3, <3>1
    <3> QED
      BY <1>1, <1>4, <2>2, <3>1, <3>2
  <2>5. d.slaveof[n] # n
    BY <1>1, <1>8, <2>2
  <2> QED
    BY <2>2, <2>4, <2>5 DEF ViewSound
<1> QED
  BY <1>6, <1>7, <1>8

\* clusterHandleConfigEpochCollision moves epochs forward.
LEMMA CollisionSound ==
  ASSUME NEW n \in Node, NEW c, ViewSound(n, c), NEW p, SoundPacket(p)
  PROVE  /\ ViewSound(n, HandleConfigEpochCollision(n, c, p))
         /\ HandleConfigEpochCollision(n, c, p).lastVoteEpoch = c.lastVoteEpoch
<1> DEFINE d == [c EXCEPT !.currentEpoch = @ + 1, !.configEpoch[n] = c.currentEpoch + 1]
<1>1. /\ c \in NodeConf /\ c.currentEpoch + 1 \in Nat /\ c.lastVoteEpoch \in Nat
      /\ c.currentEpoch \in Nat
  BY DEF ViewSound, NodeConf
<1>2. /\ d \in NodeConf /\ d.slots = c.slots /\ d.slaveof = c.slaveof
      /\ d.lastVoteEpoch = c.lastVoteEpoch /\ d.currentEpoch = c.currentEpoch + 1
  BY <1>1 DEF NodeConf
<1>3. ViewSound(n, d)
  BY <1>1, <1>2 DEF ViewSound
<1>4. HandleConfigEpochCollision(n, c, p) \in {c, d}
  BY DEF HandleConfigEpochCollision
<1> HIDE DEF d
<1> QED
  BY <1>2, <1>3, <1>4

\* clusterFailoverReplaceYourMaster: the new master has the slots of a node that is none
\* of its slots' owner any more.
LEMMA ReplaceSound ==
  ASSUME NEW n \in Node, NEW c, ViewSound(n, c), c.slaveof[n] # None
  PROVE  /\ ViewSound(n, ReplaceYourMaster(n, c))
         /\ ReplaceYourMaster(n, c).lastVoteEpoch = c.lastVoteEpoch
<1> DEFINE d == ReplaceYourMaster(n, c)
           slots == [s \in Slot |-> IF c.slots[s] = c.slaveof[n] THEN n ELSE c.slots[s]]
<1>1. /\ c \in NodeConf /\ None \notin Node
      /\ c.slaveof \in [Node -> Node \cup {None}] /\ c.slots \in [Slot -> Node \cup {None}]
  BY ConfigAssumption DEF ViewSound, NodeConf
<1>2. slots \in [Slot -> Node \cup {None}]
  BY <1>1
<1>3. /\ d \in NodeConf /\ d.slaveof = [c.slaveof EXCEPT ![n] = None] /\ d.slots = slots
      /\ d.lastVoteEpoch = c.lastVoteEpoch /\ d.currentEpoch = c.currentEpoch
  BY <1>1, <1>2 DEF NodeConf, ReplaceYourMaster
<1>4. d.slaveof[n] = None
  BY <1>1, <1>3
<1>5. \A s \in Slot : d.slots[s] # None => d.slaveof[d.slots[s]] = None
  <2>1. SUFFICES ASSUME NEW s \in Slot, d.slots[s] # None
                 PROVE  d.slaveof[d.slots[s]] = None
    OBVIOUS
  <2>2. CASE d.slots[s] = n
    BY <1>4, <2>2
  <2>3. CASE d.slots[s] # n
    <3>1. d.slots[s] = c.slots[s]
      BY <1>3, <2>3
    <3>2. c.slots[s] \in Node /\ c.slaveof[c.slots[s]] = None
      BY <1>1, <2>1, <3>1 DEF ViewSound
    <3> QED
      BY <1>1, <1>3, <2>3, <3>1, <3>2
  <2> QED
    BY <2>2, <2>3
<1> QED
  BY <1>1, <1>3, <1>4, <1>5 DEF ViewSound

-----------------------------------------------------------------------------
(* The steps.                                                               *)

\* What a PING makes of a sound configuration is sound, collisions included.
LEMMA SeePingSound ==
  ASSUME ConfigInv, NEW p \in net
  PROVE  /\ p.to \in Node
         /\ ViewSound(p.to, SeePing(p.to, p))
         /\ SeePing(p.to, p).lastVoteEpoch = conf[p.to].lastVoteEpoch
<1> DEFINE n == p.to
           a == SeeEpochs(conf[n], p)
           c == SeeRole(a, p)
           d == UpdateSlotsConfigWith(n, c, p.sender, p.configEpoch, p.slots)
<1>1. n \in Node /\ p.sender \in Node /\ SoundPacket(p) /\ ViewSound(n, conf[n])
  BY DEF ConfigInv, SoundPacket, Packet
<1>2. ViewSound(n, a) /\ a.lastVoteEpoch = conf[n].lastVoteEpoch
  BY <1>1, SeeEpochsSound
<1>3. /\ ViewSound(n, c) /\ c.lastVoteEpoch = conf[n].lastVoteEpoch
      /\ c.slaveof[p.sender] = p.slaveof
  <2> HIDE DEF a
  <2> QED
    BY <1>1, <1>2, SeeRoleSound
<1>4. p.slaveof = None => ViewSound(n, d) /\ d.lastVoteEpoch = conf[n].lastVoteEpoch
  <2> HIDE DEF c
  <2> QED
    BY <1>1, <1>3, UpdateSlotsSound
<1>5. SeePing(n, p) = IF DirtySlots(c, p) /\ p.slaveof = None THEN d ELSE c
  BY DEF SeePing
<1> HIDE DEF c, d
<1> QED
  BY <1>1, <1>3, <1>4, <1>5

\* The UPDATE a PING is answered with is about a node of the view it comes from.
LEMMA UpdateForSound ==
  ASSUME ConfigInv, NEW p \in net
  PROVE  \A q \in UpdateFor(p.to, p) : SoundPacket(q)
<1> DEFINE c == SeePing(p.to, p)
           about(s) == [node |-> c.slots[s], configEpoch |-> c.configEpoch[c.slots[s]],
                        slots |-> SlotsOf(c, c.slots[s])]
<1>1. /\ p.to \in Node /\ p.sender \in Node /\ p.sender # p.to
      /\ p.slots \subseteq Slot
  BY DEF ConfigInv, SoundPacket, Packet
<1>2. c \in NodeConf
  BY SeePingSound DEF ViewSound
<1>3. ASSUME NEW s \in Outdated(c, p)
      PROVE  SoundPacket(BuildMessageHdr(p.to, c, "UPDATE", p.sender, FALSE, about(s)))
  <2> HIDE DEF c
  <2>1. c.slots[s] \in Node
    BY <1>1, <1>2, <1>3 DEF Outdated, NodeConf
  <2>2. c.configEpoch[c.slots[s]] \in Nat
    BY <1>2, <2>1 DEF NodeConf
  <2>3. SlotsOf(c, c.slots[s]) \subseteq Slot
    BY DEF SlotsOf
  <2>4. about(s) \in Update
    BY <2>1, <2>2, <2>3 DEF Update
  <2> HIDE DEF about
  <2> QED
    BY <1>1, <1>2, <2>4, HeaderSound
<1>4. ASSUME NEW q \in UpdateFor(p.to, p)
      PROVE  \E s \in Outdated(c, p) :
               q = BuildMessageHdr(p.to, c, "UPDATE", p.sender, FALSE, about(s))
  BY <1>4 DEF UpdateFor
<1> HIDE DEF c, about
<1> QED
  BY <1>3, <1>4

\* A node that adopts a sound configuration, whatever was saved of it, can still be
\* restarted into a sound one.
LEMMA AdoptSound ==
  ASSUME ConfigInv, NEW n \in Node, NEW c, ViewSound(n, c), Adopt(n, c),
         auth' \in [Node -> NodeAuth],
         won' \subseteq [node : Node, epoch : Nat, stale : BOOLEAN],
         forgotten' \subseteq Node \X Nat, faults' \in 0..MaxFaults,
         \A p \in net' : SoundPacket(p)
  PROVE  ConfigInv'
<1>1. /\ conf \in [Node -> NodeConf] /\ saved \in [Node -> Nat]
      /\ conf' = [conf EXCEPT ![n] = c] /\ c \in NodeConf
  BY DEF ConfigInv, TypeOK, Adopt, ViewSound
<1>2. \A m \in Node : ViewSound(m, conf'[m])
  BY <1>1 DEF ConfigInv
<1>3. CASE [c EXCEPT !.currentEpoch = 0] # [conf[n] EXCEPT !.currentEpoch = 0]
  <2>1. saved' = [saved EXCEPT ![n] = c.currentEpoch] /\ c.currentEpoch \in Nat
    BY <1>1, <1>3 DEF Adopt, NodeConf
  <2>2. saved' \in [Node -> Nat] /\ \A m \in Node : conf'[m].lastVoteEpoch <= saved'[m]
    BY <1>1, <2>1 DEF ConfigInv, ViewSound
  <2> QED
    BY <1>1, <1>2, <2>2 DEF ConfigInv, TypeOK, SoundPacket
<1>4. CASE [c EXCEPT !.currentEpoch = 0] = [conf[n] EXCEPT !.currentEpoch = 0]
  <2>1. saved' = saved
    BY <1>1, <1>4 DEF Adopt
  <2>2. c.lastVoteEpoch = conf[n].lastVoteEpoch
    <3>1. /\ [c EXCEPT !.currentEpoch = 0].lastVoteEpoch = c.lastVoteEpoch
          /\ [conf[n] EXCEPT !.currentEpoch = 0].lastVoteEpoch = conf[n].lastVoteEpoch
      BY <1>1 DEF NodeConf
    <3> QED
      BY <1>4, <3>1
  <2>3. \A m \in Node : conf'[m].lastVoteEpoch <= saved'[m]
    BY <1>1, <2>1, <2>2 DEF ConfigInv
  <2> QED
    BY <1>1, <1>2, <2>1, <2>3 DEF ConfigInv, TypeOK, SoundPacket
<1> QED
  BY <1>3, <1>4

\* The facts about the state that most steps need.
LEMMA InvFacts ==
  ASSUME ConfigInv
  PROVE  /\ conf \in [Node -> NodeConf] /\ saved \in [Node -> Nat]
         /\ auth \in [Node -> NodeAuth]
         /\ won \subseteq [node : Node, epoch : Nat, stale : BOOLEAN]
         /\ forgotten \subseteq Node \X Nat /\ faults \in 0..MaxFaults
         /\ \A n \in Node : ViewSound(n, conf[n]) /\ conf[n].lastVoteEpoch <= saved[n]
         /\ \A p \in net : /\ SoundPacket(p) /\ p.to \in Node /\ p.sender \in Node
                           /\ p.sender # p.to
                           /\ ViewSound(p.to, SeeEpochs(conf[p.to], p))
<1>1. \A p \in net : SoundPacket(p) /\ p.to \in Node /\ p.sender \in Node /\ p.sender # p.to
  BY DEF ConfigInv, SoundPacket, Packet
<1>2. \A p \in net : ViewSound(p.to, SeeEpochs(conf[p.to], p))
  BY <1>1, SeeEpochsSound DEF ConfigInv
<1> QED
  BY <1>1, <1>2 DEF ConfigInv, TypeOK

\* A PING or a FAIL changes only what is in flight.
LEMMA SendKeeps ==
  ASSUME ConfigInv, NEW n \in Node, NEW m \in Node, SendPing(n, m) \/ SendFail(n, m)
  PROVE  ConfigInv'
<1>1. PICK type \in {"PING", "FAIL"} :
        /\ m # n
        /\ net' = net \cup {BuildMessageHdr(n, conf[n], type, m, FALSE, None)}
        /\ UNCHANGED <<conf, saved, auth, won, forgotten, faults>>
  BY DEF SendPing, SendFail
<1>2. SoundPacket(BuildMessageHdr(n, conf[n], type, m, FALSE, None))
  BY <1>1, InvFacts, HeaderSound
<1>3. \A p \in net' : SoundPacket(p)
  BY <1>1, <1>2, InvFacts
<1> QED
  BY <1>1, <1>3 DEF ConfigInv, TypeOK, SoundPacket

\* Packets that only carry epochs and claims.
LEMMA GossipKeeps ==
  ASSUME ConfigInv, NEW p \in net, ReceivePing(p) \/ ReceiveFail(p) \/ DenyVote(p)
  PROVE  ConfigInv'
<1>1. CASE ReceivePing(p)
  <2> DEFINE c == SeePing(p.to, p)
             d == HandleConfigEpochCollision(p.to, c, p)
  <2>1. p.to \in Node /\ ViewSound(p.to, c)
    BY SeePingSound
  <2>2. ViewSound(p.to, d)
    <3> HIDE DEF c
    <3> QED
      BY <2>1, InvFacts, CollisionSound
  <2>3. \A q \in net' : SoundPacket(q)
    BY <1>1, UpdateForSound, InvFacts DEF ReceivePing
  <2>4. Adopt(p.to, d) /\ UNCHANGED <<auth, won, forgotten, faults>>
    BY <1>1 DEF ReceivePing
  <2> HIDE DEF d
  <2> QED
    BY <2>1, <2>2, <2>3, <2>4, InvFacts, AdoptSound
<1>2. CASE ReceiveFail(p) \/ DenyVote(p)
  <2> DEFINE d == SeeEpochs(conf[p.to], p)
  <2>1. /\ Adopt(p.to, d) /\ UNCHANGED <<auth, won, forgotten, faults>>
        /\ net' = net \ {p}
    BY <1>2 DEF ReceiveFail, DenyVote
  <2>2. p.to \in Node /\ ViewSound(p.to, d)
    BY InvFacts
  <2> HIDE DEF d
  <2> QED
    BY <2>1, <2>2, InvFacts, AdoptSound
<1> QED
  BY <1>1, <1>2

\* An UPDATE about a node makes it a master before it gets slots.
LEMMA UpdateKeeps ==
  ASSUME ConfigInv, NEW p \in net, ReceiveUpdate(p)
  PROVE  ConfigInv'
<1> DEFINE n == p.to
           u == p.update
           c == SeeEpochs(conf[n], p)
           known == [c EXCEPT !.slaveof[u.node] = None, !.configEpoch[u.node] = u.configEpoch]
           upd == UpdateSlotsConfigWith(n, known, u.node, u.configEpoch, u.slots)
           d == IF c.configEpoch[u.node] >= u.configEpoch THEN c ELSE upd
<1>1. n \in Node /\ ViewSound(n, c)
  BY InvFacts
<1>2. u.node \in Node /\ u.configEpoch \in Nat
  BY InvFacts DEF ReceiveUpdate, SoundPacket, Update
<1> HIDE DEF c, u, n
<1>3. ViewSound(n, known) /\ known.slaveof[u.node] = None
  <2>1. /\ c \in NodeConf /\ c.slaveof \in [Node -> Node \cup {None}]
        /\ c.slots \in [Slot -> Node \cup {None}] /\ None \notin Node
    BY <1>1, ConfigAssumption DEF ViewSound, NodeConf
  <2>2. /\ known \in NodeConf /\ known.slots = c.slots
        /\ known.slaveof = [c.slaveof EXCEPT ![u.node] = None]
        /\ known.lastVoteEpoch = c.lastVoteEpoch /\ known.currentEpoch = c.currentEpoch
    BY <1>2, <2>1 DEF NodeConf
  <2> HIDE DEF known
  <2>3. \A s \in Slot : known.slots[s] # None => known.slaveof[known.slots[s]] = None
    BY <1>1, <1>2, <2>1, <2>2 DEF ViewSound
  <2>4. known.slaveof[n] # n /\ known.slaveof[u.node] = None
    BY <1>1, <1>2, <2>1, <2>2 DEF ViewSound
  <2> QED
    BY <1>1, <2>2, <2>3, <2>4 DEF ViewSound
<1>4. ViewSound(n, upd)
  <2> HIDE DEF known
  <2> QED
    BY <1>1, <1>2, <1>3, UpdateSlotsSound
<1>5. /\ Adopt(n, d) /\ UNCHANGED <<auth, won, forgotten, faults>>
      /\ net' = net \ {p}
  BY DEF ReceiveUpdate, n, u, c
<1> HIDE DEF upd
<1>6. ViewSound(n, d)
  BY <1>1, <1>4
<1> HIDE DEF d
<1> QED
  BY <1>1, <1>5, <1>6, InvFacts, AdoptSound

\* A vote is remembered in the epoch it is given in, and its packet is well formed.
LEMMA VoteCast ==
  ASSUME ConfigInv, NEW p \in net
  PROVE  LET c == SeeEpochs(conf[p.to], p)
             v == [c EXCEPT !.lastVoteEpoch = c.currentEpoch]
         IN  /\ ViewSound(p.to, v)
             /\ SoundPacket(BuildMessageHdr(p.to, v, "AUTH_ACK", p.sender, FALSE, None))
<1> DEFINE c == SeeEpochs(conf[p.to], p)
           v == [c EXCEPT !.lastVoteEpoch = c.currentEpoch]
<1>1. p.to \in Node /\ p.sender \in Node /\ p.sender # p.to /\ ViewSound(p.to, c)
  BY InvFacts
<1> HIDE DEF c
<1>2. c \in NodeConf /\ c.currentEpoch \in Nat
  BY <1>1 DEF ViewSound, NodeConf
<1>3. /\ v \in NodeConf /\ v.slots = c.slots /\ v.slaveof = c.slaveof
      /\ v.lastVoteEpoch = c.currentEpoch /\ v.currentEpoch = c.currentEpoch
  BY <1>2 DEF NodeConf
<1> HIDE DEF v
<1>4. ViewSound(p.to, v)
  BY <1>1, <1>2, <1>3 DEF ViewSound
<1>5. SoundPacket(BuildMessageHdr(p.to, v, "AUTH_ACK", p.sender, FALSE, None))
  BY <1>1, <1>3, HeaderSound
<1> QED
  BY <1>4, <1>5 DEF c, v

\* A master votes.
LEMMA VoteKeeps ==
  ASSUME ConfigInv, NEW p \in net, Vote(p)
  PROVE  ConfigInv'
<1> DEFINE c == SeeEpochs(conf[p.to], p)
           v == [c EXCEPT !.lastVoteEpoch = c.currentEpoch]
           ack == BuildMessageHdr(p.to, v, "AUTH_ACK", p.sender, FALSE, None)
<1>1. /\ Adopt(p.to, v) /\ UNCHANGED <<auth, won, forgotten, faults>>
      /\ net' = (net \ {p}) \cup {ack}
  BY DEF Vote
<1>2. ViewSound(p.to, v) /\ SoundPacket(ack)
  BY VoteCast
<1> HIDE DEF v, ack
<1>3. \A q \in net' : SoundPacket(q)
  BY <1>1, <1>2, InvFacts
<1> QED
  BY <1>1, <1>2, <1>3, InvFacts, AdoptSound

\* A vote arrives.
LEMMA AuthAckKeeps ==
  ASSUME ConfigInv, NEW p \in net, ReceiveAuthAck(p)
  PROVE  ConfigInv'
<1> DEFINE c == SeeEpochs(conf[p.to], p)
<1>1. /\ Adopt(p.to, c) /\ UNCHANGED <<won, forgotten, faults>> /\ net' = net \ {p}
      /\ auth' = auth \/ auth' = [auth EXCEPT ![p.to].count = @ + 1]
  BY DEF ReceiveAuthAck
<1>2. p.to \in Node /\ ViewSound(p.to, c) /\ auth \in [Node -> NodeAuth]
  BY InvFacts
<1> HIDE DEF c
<1>3. auth' \in [Node -> NodeAuth]
  <2>1. auth[p.to].count + 1 \in Nat /\ auth[p.to] \in NodeAuth
    BY <1>2 DEF NodeAuth
  <2> QED
    BY <1>1, <1>2, <2>1 DEF NodeAuth
<1> QED
  BY <1>1, <1>2, <1>3, InvFacts, AdoptSound

\* An election is set up.
LEMMA ScheduleKeeps ==
  ASSUME ConfigInv, NEW n \in Node, ScheduleElection(n)
  PROVE  ConfigInv'
<1>1. /\ auth' = [auth EXCEPT ![n].count = 0, ![n].sent = FALSE, ![n].stale = FALSE]
      /\ net' \subseteq net \cup Broadcast(n, conf[n], "PING", FALSE)
      /\ UNCHANGED <<conf, saved, won, forgotten, faults>>
  BY DEF ScheduleElection
<1>2. auth' \in [Node -> NodeAuth]
  <2>1. auth \in [Node -> NodeAuth] /\ auth[n] \in NodeAuth
    BY InvFacts
  <2> DEFINE a == [auth[n] EXCEPT !.count = 0, !.sent = FALSE, !.stale = FALSE]
  <2>2. a \in NodeAuth
    BY <2>1 DEF NodeAuth
  <2>3. auth' = [auth EXCEPT ![n] = a]
    BY <1>1, <2>1
  <2> HIDE DEF a
  <2> QED
    BY <2>1, <2>2, <2>3
<1>3. \A p \in net' : SoundPacket(p)
  BY <1>1, InvFacts, BroadcastSound
<1> QED
  BY <1>1, <1>2, <1>3 DEF ConfigInv, TypeOK, SoundPacket

\* Votes are asked for, in a new epoch that is saved at once.
LEMMA RequestKeeps ==
  ASSUME ConfigInv, NEW n \in Node, NEW force \in BOOLEAN, RequestFailoverAuth(n, force)
  PROVE  ConfigInv'
<1> DEFINE c == [conf[n] EXCEPT !.currentEpoch = @ + 1]
<1>1. /\ conf' = [conf EXCEPT ![n] = c] /\ saved' = [saved EXCEPT ![n] = c.currentEpoch]
      /\ auth' = [auth EXCEPT ![n] = [sent |-> TRUE, epoch |-> c.currentEpoch,
                                      count |-> @.count, stale |-> @.count > 0]]
      /\ net' = net \cup Broadcast(n, c, "AUTH_REQUEST", force)
      /\ UNCHANGED <<won, forgotten, faults>>
  BY DEF RequestFailoverAuth
<1>2. conf \in [Node -> NodeConf] /\ ViewSound(n, conf[n]) /\ conf[n] \in NodeConf
  BY InvFacts
<1>3. conf[n].currentEpoch \in Nat /\ conf[n].lastVoteEpoch \in Nat
  BY <1>2 DEF NodeConf
<1>4. conf[n].currentEpoch + 1 \in Nat /\ conf[n].lastVoteEpoch <= conf[n].currentEpoch + 1
  BY <1>2, <1>3 DEF ViewSound
<1>5. /\ c \in NodeConf /\ c.slots = conf[n].slots /\ c.slaveof = conf[n].slaveof
      /\ c.lastVoteEpoch = conf[n].lastVoteEpoch /\ c.currentEpoch = conf[n].currentEpoch + 1
  BY <1>2, <1>4 DEF NodeConf
<1> HIDE DEF c
<1>6. ViewSound(n, c) /\ c.currentEpoch \in Nat /\ c.lastVoteEpoch <= c.currentEpoch
  BY <1>2, <1>4, <1>5 DEF ViewSound
<1>7. \A m \in Node : ViewSound(m, conf'[m]) /\ conf'[m].lastVoteEpoch <= saved'[m]
  BY <1>1, <1>2, <1>6, InvFacts
<1>8. auth' \in [Node -> NodeAuth]
  <2>1. auth \in [Node -> NodeAuth] /\ auth[n].count \in Nat
    BY InvFacts DEF NodeAuth
  <2>2. (auth[n].count > 0) \in BOOLEAN
    OBVIOUS
  <2>3. [sent |-> TRUE, epoch |-> c.currentEpoch, count |-> auth[n].count,
         stale |-> auth[n].count > 0] \in NodeAuth
    BY <1>6, <2>1, <2>2 DEF NodeAuth
  <2> QED
    BY <1>1, <2>1, <2>3
<1>9. \A p \in net' : SoundPacket(p)
  BY <1>1, <1>5, InvFacts, BroadcastSound
<1>10. conf' \in [Node -> NodeConf] /\ saved' \in [Node -> Nat]
  BY <1>1, <1>5, <1>6, InvFacts
<1> QED
  BY <1>1, <1>7, <1>8, <1>9, <1>10, InvFacts DEF ConfigInv, TypeOK, SoundPacket

\* An election is won.
LEMMA WinKeeps ==
  ASSUME ConfigInv, NEW n \in Node, WinElection(n)
  PROVE  ConfigInv'
<1> DEFINE own == Larger(conf[n].configEpoch[n], auth[n].epoch)
           b == [conf[n] EXCEPT !.configEpoch[n] = own]
           c == ReplaceYourMaster(n, b)
<1>1. /\ conf[n].slaveof[n] # None /\ Adopt(n, c) /\ UNCHANGED <<auth, forgotten, faults>>
      /\ net' = net \cup Broadcast(n, c, "PING", FALSE)
      /\ won' = won \cup {[node |-> n, epoch |-> auth[n].epoch, stale |-> auth[n].stale]}
  BY DEF WinElection, CanFailover
<1>2. ViewSound(n, conf[n]) /\ auth[n] \in NodeAuth
  BY InvFacts
<1>3. own \in Nat /\ conf[n] \in NodeConf
  BY <1>2 DEF ViewSound, NodeConf, NodeAuth, Larger
<1> HIDE DEF own
<1>4. /\ b \in NodeConf /\ b.slots = conf[n].slots /\ b.slaveof = conf[n].slaveof
      /\ b.lastVoteEpoch = conf[n].lastVoteEpoch /\ b.currentEpoch = conf[n].currentEpoch
  BY <1>3 DEF NodeConf
<1> HIDE DEF b
<1>5. ViewSound(n, b)
  BY <1>2, <1>4 DEF ViewSound
<1>6. ViewSound(n, c) /\ c \in NodeConf
  <2>1. b.slaveof[n] # None
    BY <1>1, <1>4
  <2>2. ViewSound(n, c)
    BY <1>5, <2>1, ReplaceSound
  <2> HIDE DEF c
  <2> QED
    BY <2>2 DEF ViewSound
<1> HIDE DEF c
<1>7. \A p \in net' : SoundPacket(p)
  <2>1. \A p \in net : SoundPacket(p)
    BY InvFacts
  <2>2. \A p \in Broadcast(n, c, "PING", FALSE) : SoundPacket(p)
    BY <1>6, BroadcastSound
  <2> QED
    BY <1>1, <2>1, <2>2
<1>8. won' \subseteq [node : Node, epoch : Nat, stale : BOOLEAN]
  BY <1>1, <1>2, InvFacts DEF NodeAuth
<1>9. /\ auth' \in [Node -> NodeAuth] /\ forgotten' \subseteq Node \X Nat
      /\ faults' \in 0..MaxFaults
  BY <1>1, InvFacts
<1> QED
  BY <1>1, <1>6, <1>7, <1>8, <1>9, AdoptSound

\* CLUSTER FAILOVER TAKEOVER.
LEMMA TakeoverKeeps ==
  ASSUME ConfigInv, NEW n \in Node, Takeover(n)
  PROVE  ConfigInv'
<1> DEFINE old == conf[n]
           next == old.currentEpoch + 1
           up == [old EXCEPT !.currentEpoch = next, !.configEpoch[n] = next]
<1>1. PICK b \in {old, up} :
        /\ old.slaveof[n] # None /\ Adopt(n, ReplaceYourMaster(n, b))
        /\ net' = net \cup Broadcast(n, ReplaceYourMaster(n, b), "PING", FALSE)
        /\ UNCHANGED <<auth, won, forgotten>>
  BY DEF Takeover
<1>2. faults' \in 0..MaxFaults
  <2>1. faults \in 0..MaxFaults
    BY InvFacts
  <2>2. faults < MaxFaults /\ faults' = faults + 1
    BY DEF Takeover, Fault
  <2> QED
    BY <2>1, <2>2, ConfigAssumption
<1>3. ViewSound(n, old)
  BY InvFacts
<1>4. next \in Nat /\ old.currentEpoch <= next
  BY <1>3 DEF ViewSound, NodeConf
<1>5. ViewSound(n, up) /\ up.slaveof = old.slaveof
  <2> HIDE DEF old, next
  <2>1. old \in NodeConf /\ old.currentEpoch \in Nat /\ old.lastVoteEpoch \in Nat
    BY <1>3 DEF ViewSound, NodeConf
  <2>2. /\ up \in NodeConf /\ up.slots = old.slots /\ up.slaveof = old.slaveof
        /\ up.lastVoteEpoch = old.lastVoteEpoch /\ up.currentEpoch = next
    BY <1>4, <2>1 DEF NodeConf
  <2> QED
    BY <1>3, <1>4, <2>1, <2>2 DEF ViewSound
<1>6. ViewSound(n, b) /\ b.slaveof[n] # None
  <2> HIDE DEF old, up
  <2> QED
    BY <1>1, <1>3, <1>5
<1>7. ViewSound(n, ReplaceYourMaster(n, b)) /\ ReplaceYourMaster(n, b) \in NodeConf
  BY <1>6, ReplaceSound DEF ViewSound
<1>8. \A p \in net' : SoundPacket(p)
  BY <1>1, <1>7, InvFacts, BroadcastSound
<1> QED
  BY <1>1, <1>2, <1>7, <1>8, InvFacts, AdoptSound

\* clusterLoadConfig restores a currentEpoch that is not behind the last vote.
LEMMA ReloadKeeps ==
  ASSUME ConfigInv, NEW n \in Node, Reload(n), UNCHANGED <<saved, won>>, Fault,
         \A p \in net' : SoundPacket(p), forgotten' \subseteq Node \X Nat
  PROVE  ConfigInv'
<1> DEFINE epochs == {saved[n]} \cup {conf[n].configEpoch[m] : m \in Node}
<1>1. PICK max \in epochs : /\ \A e \in epochs : e <= max
                            /\ conf' = [conf EXCEPT ![n].currentEpoch = max]
  BY DEF Reload
<1>2. /\ conf \in [Node -> NodeConf] /\ saved \in [Node -> Nat] /\ ViewSound(n, conf[n])
      /\ conf[n] \in NodeConf /\ conf[n].lastVoteEpoch <= saved[n]
      /\ auth \in [Node -> NodeAuth]
  BY InvFacts
<1>3. epochs \subseteq Nat
  BY <1>2 DEF NodeConf
<1>4. max \in Nat /\ saved[n] <= max
  BY <1>1, <1>3
<1> HIDE DEF epochs
<1>5. conf[n].lastVoteEpoch \in Nat /\ saved[n] \in Nat
  BY <1>2 DEF NodeConf
<1>6. conf[n].lastVoteEpoch <= max
  BY <1>2, <1>4, <1>5
<1> DEFINE d == [conf[n] EXCEPT !.currentEpoch = max]
<1>7. /\ d \in NodeConf /\ d.slots = conf[n].slots /\ d.slaveof = conf[n].slaveof
      /\ d.lastVoteEpoch = conf[n].lastVoteEpoch /\ d.currentEpoch = max
  BY <1>2, <1>4 DEF NodeConf
<1>8. conf' = [conf EXCEPT ![n] = d]
  BY <1>1, <1>2
<1> HIDE DEF d
<1>9. ViewSound(n, d)
  BY <1>2, <1>6, <1>7 DEF ViewSound
<1>10. \A m \in Node : ViewSound(m, conf'[m]) /\ conf'[m].lastVoteEpoch <= saved'[m]
  BY <1>2, <1>7, <1>8, <1>9, InvFacts
<1>11. conf' \in [Node -> NodeConf] /\ saved' \in [Node -> Nat]
  BY <1>2, <1>7, <1>8
<1>12. auth' \in [Node -> NodeAuth]
  <2>1. [sent |-> FALSE, epoch |-> 0, count |-> 0, stale |-> FALSE] \in NodeAuth
    BY DEF NodeAuth
  <2> QED
    BY <1>2, <2>1 DEF Reload
<1>13. faults' \in 0..MaxFaults
  BY InvFacts, ConfigAssumption DEF Fault
<1> QED
  BY <1>10, <1>11, <1>12, <1>13, InvFacts DEF ConfigInv, TypeOK, SoundPacket

\* A restart, also one that forgets a vote.
LEMMA RestartKeeps ==
  ASSUME ConfigInv,
         (\E n \in Node : Restart(n)) \/ (\E p \in net : VoteThenDie(p))
  PROVE  ConfigInv'
<1>1. ASSUME NEW n \in Node, Restart(n) PROVE ConfigInv'
  <2>1. /\ Reload(n) /\ UNCHANGED <<saved, won>> /\ Fault /\ net' \subseteq net
        /\ forgotten' = forgotten
    BY <1>1 DEF Restart
  <2> QED
    BY <2>1, InvFacts, ReloadKeeps
<1>2. ASSUME NEW p \in net, VoteThenDie(p) PROVE ConfigInv'
  <2> DEFINE c == SeeEpochs(conf[p.to], p)
             v == [c EXCEPT !.lastVoteEpoch = c.currentEpoch]
             ack == BuildMessageHdr(p.to, v, "AUTH_ACK", p.sender, FALSE, None)
  <2>1. /\ Reload(p.to) /\ UNCHANGED <<saved, won>> /\ Fault /\ net' \subseteq net \cup {ack}
        /\ forgotten' = forgotten \cup {<<p.to, c.currentEpoch>>}
    BY <1>2 DEF VoteThenDie
  <2>2. SoundPacket(ack)
    BY VoteCast
  <2>3. ViewSound(p.to, c) /\ p.to \in Node
    BY InvFacts
  <2> HIDE DEF ack, c
  <2>4. c.currentEpoch \in Nat
    BY <2>3 DEF ViewSound, NodeConf
  <2>5. (\A q \in net' : SoundPacket(q)) /\ forgotten' \subseteq Node \X Nat
    BY <2>1, <2>2, <2>3, <2>4, InvFacts
  <2> QED
    BY <2>1, <2>3, <2>5, ReloadKeeps
<1> QED
  BY <1>1, <1>2

-----------------------------------------------------------------------------
(* The theorems.                                                            *)

LEMMA ConfigInvInit == Init => ConfigInv
<1> SUFFICES ASSUME Init PROVE ConfigInv
  OBVIOUS
<1> DEFINE c0(n) == [currentEpoch  |-> FirstEpoch,
                     lastVoteEpoch |-> 0,
                     configEpoch   |-> [m \in Node |->
                                          IF m = n \/ InitSlaveof[m] = None
                                          THEN InitEpoch[m]
                                          ELSE InitEpoch[InitSlaveof[m]]],
                     slaveof       |-> InitSlaveof,
                     slots         |-> InitOwner]
<1>1. conf = [n \in Node |-> c0(n)]
  BY DEF Init
<1>2. ASSUME NEW n \in Node PROVE ViewSound(n, c0(n))
  <2>1. c0(n).configEpoch \in [Node -> Nat]
    BY ConfigAssumption
  <2>2. InitOwner \in [Slot -> Node \cup {None}]
    BY ConfigAssumption
  <2>3. c0(n) \in NodeConf
    BY <2>1, <2>2, ConfigAssumption DEF NodeConf
  <2>4. 0 <= FirstEpoch
    BY ConfigAssumption
  <2> QED
    BY <2>3, <2>4, ConfigAssumption DEF ViewSound
<1>3. \A n \in Node : c0(n).currentEpoch = FirstEpoch /\ c0(n).lastVoteEpoch = 0
  OBVIOUS
<1> HIDE DEF c0
<1>4. conf \in [Node -> NodeConf] /\ \A n \in Node : ViewSound(n, conf[n])
  BY <1>1, <1>2 DEF ViewSound
<1>5. saved \in [Node -> Nat] /\ \A n \in Node : conf[n].lastVoteEpoch <= saved[n]
  BY <1>1, <1>3, ConfigAssumption DEF Init
<1>6. auth \in [Node -> NodeAuth]
  BY DEF Init, NodeAuth
<1> QED
  BY <1>4, <1>5, <1>6, ConfigAssumption DEF Init, ConfigInv, TypeOK

LEMMA ConfigInvStep == ConfigInv /\ [Next]_vars => ConfigInv'
<1> SUFFICES ASSUME ConfigInv, [Next]_vars PROVE ConfigInv'
  OBVIOUS
<1>1. CASE \E n, m \in Node : SendPing(n, m) \/ SendFail(n, m)
  BY <1>1, SendKeeps
<1>2. CASE \E p \in net : Receive(p)
  BY <1>2, GossipKeeps, UpdateKeeps, VoteKeeps, AuthAckKeeps DEF Receive
<1>3. CASE \E n \in Node : ScheduleElection(n)
  BY <1>3, ScheduleKeeps
<1>4. CASE \E n \in Node, force \in BOOLEAN : RequestFailoverAuth(n, force)
  BY <1>4, RequestKeeps
<1>5. CASE \E n \in Node : WinElection(n)
  BY <1>5, WinKeeps
<1>6. CASE \E n \in Node : Takeover(n)
  BY <1>6, TakeoverKeeps
<1>7. CASE (\E n \in Node : Restart(n)) \/ (\E p \in net : VoteThenDie(p))
  BY <1>7, RestartKeeps
<1>8. CASE UNCHANGED vars
  BY <1>8 DEF vars, ConfigInv, TypeOK, SoundPacket
<1> QED
  BY <1>1, <1>2, <1>3, <1>4, <1>5, <1>6, <1>7, <1>8 DEF Next

LEMMA ConfigInvUse == ConfigInv => ViewsSound /\ TypeOK
<1> SUFFICES ASSUME ConfigInv PROVE ViewsSound
  BY DEF ConfigInv
<1>1. \A n \in Node : ViewSound(n, conf[n])
  BY InvFacts
<1>2. OwnerIsMaster
  BY <1>1 DEF OwnerIsMaster, ViewSound
<1>3. SlaveServesNothing
  <2>1. SUFFICES ASSUME NEW n \in Node, conf[n].slaveof[n] # None
                 PROVE  SlotsOf(conf[n], n) = {} /\ conf[n].slaveof[n] # n
    BY DEF SlaveServesNothing
  <2>2. \A s \in Slot : conf[n].slots[s] # n
    BY <1>1, <2>1, ConfigAssumption DEF ViewSound
  <2> QED
    BY <1>1, <2>2 DEF SlotsOf, ViewSound
<1>4. VoteNotAhead
  BY <1>1 DEF VoteNotAhead, ViewSound
<1> QED
  BY <1>2, <1>3, <1>4 DEF ViewsSound

\* Whatever packets a node reads, in whatever order, through failovers, takeovers,
\* configEpoch collisions and restarts, in its view every slot belongs to a master, a
\* slave serves nothing and does not replicate itself, and its last vote is not ahead of
\* its currentEpoch (clusterUpdateSlotsConfigWith, clusterSetMaster, clusterLoadConfig).
THEOREM ClusterViewsSound == Spec => []ViewsSound
  BY ConfigInvInit, ConfigInvStep, ConfigInvUse, PTL DEF Spec

\* Every variable keeps its type: epochs, owners and packets stay well formed.
THEOREM ClusterTypes == Spec => []TypeOK
  BY ConfigInvInit, ConfigInvStep, ConfigInvUse, PTL DEF Spec
=============================================================================
