----------------------- MODULE SentinelElectionProofs -----------------------
(***************************************************************************)
(* Proofs about SentinelElection, for any number of Sentinels, any quorum   *)
(* and any number of epochs, restarts and failed writes: a Sentinel gives   *)
(* one vote in an epoch, and one Sentinel at most is elected in it.         *)
(***************************************************************************)
EXTENDS SentinelElection, FiniteSetTheorems, TLAPS

\* The fields of a Sentinel.
SentinelFields ==
  [epoch : Epoch, leader : Candidate, leader_epoch : Epoch, state : State,
   failover_epoch : Epoch, force : BOOLEAN]

\* A vote of s for c.
VoteOf(s, epoch, c) == [voter |-> s, epoch |-> epoch, leader |-> c]

\* A Sentinel that has not lost a vote has voted in no epoch later than leader_epoch.
VotesBehind ==
  \A v \in votes : v.voter \notin seforgotten => v.epoch <= sent[v.voter].leader_epoch

\* The leader a Sentinel remembers is one it voted for, in leader_epoch.
RememberedIsCast ==
  \A s \in Sentinel :
    sent[s].leader # Nobody => VoteOf(s, sent[s].leader_epoch, sent[s].leader) \in votes

\* More than half of the Sentinels voted for c.
MajorityFor(c, epoch, cast) ==
  \E Q \in SUBSET Sentinel :
    /\ 2 * Cardinality(Q) > Cardinality(Sentinel)
    /\ \A q \in Q : VoteOf(q, epoch, c) \in cast

\* Who won by the votes of its epoch has the votes of a majority.
WonByMajority ==
  \A a \in sewon : a.counted = a.epoch => MajorityFor(a.leader, a.epoch, votes)

\* The inductive invariant.
ElectionInv ==
  SeTypeOK /\ VotesBehind /\ OneVotePerEpoch /\ RememberedIsCast /\ WonByMajority

-----------------------------------------------------------------------------
(* Facts about the operators.                                               *)

\* sentinelVoteLeader leaves leader and leader_epoch alone, or raises leader_epoch to
\* the epoch asked for and remembers the one voted for.
LEMMA VoteLeader ==
  ASSUME NEW m \in SentinelFields, NEW e \in Epoch, NEW c \in Sentinel
  PROVE  LET new == sentinelVoteLeader(m, e, c) IN
         /\ new \in SentinelFields
         /\ new.state = m.state /\ new.failover_epoch = m.failover_epoch /\ new.force = m.force
         /\ \/ new.leader = m.leader /\ new.leader_epoch = m.leader_epoch
            \/ new.leader = c /\ new.leader_epoch > m.leader_epoch
<1>1. Epoch \subseteq Nat
  BY ElectionAssumption DEF Epoch
<1> DEFINE r == Raised(m, e)
<1>2. /\ r \in SentinelFields /\ r.state = m.state /\ r.failover_epoch = m.failover_epoch
      /\ r.force = m.force /\ r.leader = m.leader /\ r.leader_epoch = m.leader_epoch
  BY DEF Raised, SentinelFields
<1>3. c \in Candidate
  BY DEF Candidate
<1>4. r.epoch >= e
  BY <1>1 DEF Raised, SentinelFields
<1> HIDE DEF r
<1>5. CASE SeMayVote(r, e)
  <2>0. r.epoch \in Nat /\ r.leader_epoch \in Nat /\ e \in Nat
    BY <1>1, <1>2 DEF SentinelFields
  <2>1. r.epoch > r.leader_epoch
    BY <2>0, <1>4, <1>5 DEF SeMayVote
  <2>2. sentinelVoteLeader(m, e, c) = [r EXCEPT !.leader = c, !.leader_epoch = r.epoch]
    BY <1>5 DEF sentinelVoteLeader, r
  <2>3. QED
    BY <1>1, <1>2, <1>3, <2>1, <2>2 DEF SentinelFields
<1>6. CASE ~SeMayVote(r, e)
  <2>1. sentinelVoteLeader(m, e, c) = r
    BY <1>6 DEF sentinelVoteLeader, r
  <2>2. QED
    BY <1>2, <2>1
<1>7. QED
  BY <1>5, <1>6

\* Writing the file keeps the types of what is on disk.
LEMMA FlushType ==
  ASSUME SeTypeOK, NEW s \in Sentinel, NEW new \in SentinelFields, sentinelFlushConfig(s, new)
  PROVE  /\ file' \in [Sentinel -> [epoch : Epoch, leader_epoch : Epoch]]
         /\ sefaults' \in 0 .. SeMaxFaults
<1>1. new.epoch \in Epoch /\ new.leader_epoch \in Epoch
  BY DEF SentinelFields
<1>2. CASE file' = [file EXCEPT ![s] = [epoch |-> new.epoch, leader_epoch |-> new.leader_epoch]] /\ sefaults' = sefaults
  BY <1>1, <1>2 DEF SeTypeOK
<1>3. CASE sefaults < SeMaxFaults /\ sefaults' = sefaults + 1 /\ file' = file
  BY <1>3, ElectionAssumption DEF SeTypeOK
<1>4. QED
  BY <1>2, <1>3 DEF sentinelFlushConfig

\* A majority stays one when votes are added.
LEMMA MajorityStays ==
  ASSUME NEW c, NEW e, NEW V, NEW W, V \subseteq W, MajorityFor(c, e, V)
  PROVE  MajorityFor(c, e, W)
BY DEF MajorityFor

\* Two majorities of one epoch share a voter.
LEMMA MajoritiesMeet ==
  ASSUME NEW c, NEW d, NEW e, NEW V, MajorityFor(c, e, V), MajorityFor(d, e, V)
  PROVE  \E q \in Sentinel : VoteOf(q, e, c) \in V /\ VoteOf(q, e, d) \in V
<1>1. PICK P \in SUBSET Sentinel : 2 * Cardinality(P) > Cardinality(Sentinel) /\ \A q \in P : VoteOf(q, e, c) \in V
  BY DEF MajorityFor
<1>2. PICK Q \in SUBSET Sentinel : 2 * Cardinality(Q) > Cardinality(Sentinel) /\ \A q \in Q : VoteOf(q, e, d) \in V
  BY DEF MajorityFor
<1>3. IsFiniteSet(Sentinel) /\ IsFiniteSet(P) /\ IsFiniteSet(Q)
  BY ElectionAssumption, FS_Subset
<1>4. Cardinality(P) \in Nat /\ Cardinality(Q) \in Nat /\ Cardinality(Sentinel) \in Nat
  BY <1>3, FS_CardinalityType
<1>5. Cardinality(P) + Cardinality(Q) > Cardinality(Sentinel)
  BY <1>1, <1>2, <1>4
<1>6. P \cap Q # {}
  BY <1>3, <1>5, FS_MajoritiesIntersect
<1>7. QED
  BY <1>1, <1>2, <1>6

\* A Sentinel that finds itself the leader, counting the votes of the failover's epoch,
\* has a majority of them: its own included, if it voted for itself.
LEMMA LeaderHasMajority ==
  ASSUME SeTypeOK, NEW s \in Sentinel, NEW e \in Epoch, NEW r \in Reports(s, e),
         NEW w \in Sentinel, NEW new \in SentinelFields, new.failover_epoch = e,
         IsLeader(s, r, w, new),
         NEW cast, votes \subseteq cast,
         new.leader = s /\ new.leader_epoch = e => VoteOf(s, e, s) \in cast
  PROVE  MajorityFor(s, e, cast)
<1> DEFINE mine == {new.leader} \cap (IF new.leader_epoch = new.failover_epoch THEN Sentinel ELSE {})
           R == {v \in r : v.leader = s}
           P == {v.voter : v \in R}
           own == mine \cap {s}
           Q == P \cup own
<1>1. /\ r \subseteq votes /\ r \subseteq SeVote
      /\ \A v \in r : v.voter # s /\ v.epoch = e
      /\ \A v, x \in r : v.voter = x.voter => v = x
  BY DEF Reports, SeTypeOK
<1>2. P \subseteq Sentinel /\ s \notin P /\ Q \subseteq Sentinel
  BY <1>1 DEF SeVote
<1>3. IsFiniteSet(P) /\ IsFiniteSet(Sentinel) /\ Cardinality(Sentinel) \in Nat /\ Cardinality(P) \in Nat
  BY <1>2, ElectionAssumption, FS_Subset, FS_CardinalityType
<1>4. Cardinality(R) <= Cardinality(P) /\ Cardinality(R) \in Nat
  <2> DEFINE f == [v \in R |-> v.voter]
  <2>1. f \in [R -> P] /\ \A v, x \in R : f[v] = f[x] => v = x
    BY <1>1
  <2> HIDE DEF f
  <2>2. f \in Injection(R, P)
    BY <2>1 DEF Injection, IsInjective
  <2>3. QED
    BY <1>3, <2>2, FS_Injection, FS_CardinalityType
<1>5. /\ IsFiniteSet(own) /\ Cardinality(own) \in Nat
      /\ Cardinality(Q) = Cardinality(P) + Cardinality(own)
  <2>1. CASE own = {}
    <3>1. Q = P
      BY <2>1
    <3>2. IsFiniteSet(own) /\ Cardinality(own) = 0
      BY <2>1, FS_EmptySet
    <3>3. Cardinality(Q) = Cardinality(P)
      BY <3>1
    <3> HIDE DEF own, P, Q
    <3>4. QED
      BY <3>2, <3>3, <1>3
  <2>2. CASE own = {s}
    <3>1. Cardinality(own) = 1 /\ IsFiniteSet(own)
      BY <2>2, FS_Singleton
    <3>2. Cardinality(Q) = Cardinality(P) + 1
      BY <2>2, <1>2, <1>3, FS_AddElement
    <3>3. QED
      BY <3>1, <3>2
  <2>3. QED
    BY <2>1, <2>2
<1>6. Enough(Cardinality(R) + Cardinality(own))
  BY DEF IsLeader, VotesFor
<1>7. 2 * Cardinality(Q) > Cardinality(Sentinel)
  <2>1. Cardinality(R) + Cardinality(own) >= Cardinality(Sentinel) \div 2 + 1
    BY <1>6 DEF Enough
  <2>2. QED
    BY <1>3, <1>4, <1>5, <2>1
<1>8. \A q \in Q : VoteOf(q, e, s) \in cast
  <2>1. ASSUME NEW q \in P PROVE VoteOf(q, e, s) \in cast
    BY <2>1, <1>1 DEF SeVote, VoteOf
  <2>2. ASSUME NEW q \in own PROVE VoteOf(q, e, s) \in cast
    BY <2>2
  <2>3. QED
    BY <2>1, <2>2
<1>9. QED
  BY <1>2, <1>7, <1>8 DEF MajorityFor

-----------------------------------------------------------------------------
(* The inductive step, action by action.                                    *)

\* Casting or refusing a vote (Voted) keeps what is said of votes: a new vote is of a
\* later epoch than every vote the Sentinel is known to have given.
LEMMA VotedKeeps ==
  ASSUME ElectionInv, NEW s \in Sentinel, NEW m \in SentinelFields, NEW e \in Epoch,
         NEW c \in Sentinel, NEW last \in SentinelFields,
         m.leader = sent[s].leader, m.leader_epoch = sent[s].leader_epoch,
         Voted(s, sentinelVoteLeader(m, e, c)),
         last.leader = sentinelVoteLeader(m, e, c).leader,
         last.leader_epoch = sentinelVoteLeader(m, e, c).leader_epoch,
         sent' = [sent EXCEPT ![s] = last], seforgotten' = seforgotten
  PROVE  /\ votes \subseteq votes' /\ votes' \subseteq SeVote
         /\ file' \in [Sentinel -> [epoch : Epoch, leader_epoch : Epoch]]
         /\ sefaults' \in 0 .. SeMaxFaults
         /\ sent' \in [Sentinel -> SentinelFields]
         /\ VotesBehind' /\ OneVotePerEpoch' /\ RememberedIsCast'
<1> DEFINE new == sentinelVoteLeader(m, e, c)
<1>1. /\ new \in SentinelFields
      /\ \/ new.leader = m.leader /\ new.leader_epoch = m.leader_epoch
         \/ new.leader = c /\ new.leader_epoch > m.leader_epoch
  BY VoteLeader
<1>2. Voted(s, new) /\ last.leader = new.leader /\ last.leader_epoch = new.leader_epoch
  OBVIOUS
<1> HIDE DEF new
<1>3. SeTypeOK /\ sent \in [Sentinel -> SentinelFields] /\ votes \subseteq SeVote
  BY DEF ElectionInv, SeTypeOK, SentinelFields
<1>4. sent' \in [Sentinel -> SentinelFields]
  BY <1>3
<1>5. /\ file' \in [Sentinel -> [epoch : Epoch, leader_epoch : Epoch]]
      /\ sefaults' \in 0 .. SeMaxFaults
  <2>1. CASE sentinelFlushConfig(s, new)
    BY <1>1, <1>3, <2>1, FlushType
  <2>2. CASE UNCHANGED <<file, sefaults>>
    BY <1>3, <2>2 DEF SeTypeOK
  <2>3. QED
    BY <1>2, <2>1, <2>2 DEF Voted
<1>6. Epoch \subseteq Nat
  BY ElectionAssumption DEF Epoch
<1>7. CASE new.leader = m.leader /\ new.leader_epoch = m.leader_epoch
  <2>1. votes' = votes
    BY <1>2, <1>7 DEF Voted
  <2>2. \A q \in Sentinel : sent'[q].leader = sent[q].leader /\ sent'[q].leader_epoch = sent[q].leader_epoch
    BY <1>2, <1>3, <1>7
  <2>3. VotesBehind'
    BY <2>1, <2>2, <1>3 DEF ElectionInv, VotesBehind, SeVote
  <2>4. OneVotePerEpoch'
    BY <2>1 DEF ElectionInv, OneVotePerEpoch
  <2>5. RememberedIsCast'
    BY <2>1, <2>2 DEF ElectionInv, RememberedIsCast, VoteOf
  <2>6. QED
    BY <1>3, <1>4, <1>5, <2>1, <2>3, <2>4, <2>5
<1>8. CASE new.leader = c /\ new.leader_epoch > m.leader_epoch
  <2> DEFINE cast == VoteOf(s, new.leader_epoch, c)
  <2>1. m.leader_epoch \in Nat /\ new.leader_epoch \in Nat /\ new.leader_epoch \in Epoch
    BY <1>1, <1>6 DEF SentinelFields
  <2>2. new.leader_epoch # sent[s].leader_epoch
    BY <1>8, <2>1
  <2>3. votes' = votes \cup {cast}
    BY <1>2, <1>8, <2>2 DEF Voted, VoteOf
  <2>4. cast \in SeVote /\ cast.voter = s /\ cast.epoch = new.leader_epoch /\ cast.leader = c
    BY <2>1 DEF SeVote, VoteOf
  <2> HIDE DEF cast
  <2>5. /\ sent'[s].leader_epoch = new.leader_epoch /\ sent'[s].leader = c
        /\ \A q \in Sentinel \ {s} : sent'[q] = sent[q]
    BY <1>2, <1>3, <1>8
  <2>6. \A v \in votes : v.voter = s /\ s \notin seforgotten => v.epoch < new.leader_epoch
    <3> SUFFICES ASSUME NEW v \in votes, v.voter = s, s \notin seforgotten
                 PROVE  v.epoch < new.leader_epoch
      OBVIOUS
    <3>1. v.epoch \in Nat
      BY <1>3, <1>6 DEF SeVote
    <3>2. v.epoch <= m.leader_epoch
      BY DEF ElectionInv, VotesBehind
    <3>3. QED
      BY <1>8, <2>1, <3>1, <3>2
  <2>7. VotesBehind'
    <3> SUFFICES ASSUME NEW v \in votes', v.voter \notin seforgotten'
                 PROVE  v.epoch <= sent'[v.voter].leader_epoch
      BY DEF VotesBehind
    <3>1. CASE v = cast
      BY <3>1, <2>1, <2>4, <2>5
    <3>2. CASE v \in votes /\ v.voter = s
      <4>1. v.epoch \in Nat
        BY <3>2, <1>3, <1>6 DEF SeVote
      <4>2. QED
        BY <3>2, <4>1, <2>1, <2>5, <2>6
    <3>3. CASE v \in votes /\ v.voter # s
      BY <3>3, <2>5, <1>3 DEF ElectionInv, VotesBehind, SeVote
    <3>4. QED
      BY <2>3, <3>1, <3>2, <3>3
  <2>8. OneVotePerEpoch'
    <3> SUFFICES ASSUME NEW v \in votes', NEW w \in votes', v.voter = w.voter, v.epoch = w.epoch,
                        v.voter \notin seforgotten'
                 PROVE  v.leader = w.leader
      BY DEF OneVotePerEpoch
    <3>1. CASE v \in votes /\ w \in votes
      BY <3>1 DEF ElectionInv, OneVotePerEpoch
    <3>2. CASE v = cast /\ w = cast
      BY <3>2
    <3>3. CASE v = cast /\ w \in votes
      <4>1. w.epoch \in Nat /\ w.epoch < new.leader_epoch
        BY <3>3, <1>3, <1>6, <2>4, <2>6 DEF SeVote
      <4>2. QED
        BY <3>3, <4>1, <2>1, <2>4
    <3>4. CASE w = cast /\ v \in votes
      <4>1. v.epoch \in Nat /\ v.epoch < new.leader_epoch
        BY <3>4, <1>3, <1>6, <2>4, <2>6 DEF SeVote
      <4>2. QED
        BY <3>4, <4>1, <2>1, <2>4
    <3>5. QED
      BY <2>3, <3>1, <3>2, <3>3, <3>4
  <2>9. RememberedIsCast'
    <3>1. VoteOf(s, sent'[s].leader_epoch, sent'[s].leader) = cast
      BY <2>5 DEF cast
    <3>2. \A q \in Sentinel \ {s} : sent'[q].leader # Nobody
              => VoteOf(q, sent'[q].leader_epoch, sent'[q].leader) \in votes'
      BY <2>3, <2>5 DEF ElectionInv, RememberedIsCast
    <3>3. QED
      BY <3>1, <3>2, <2>3 DEF RememberedIsCast, VoteOf
  <2>10. QED
    BY <1>3, <1>4, <1>5, <2>3, <2>4, <2>7, <2>8, <2>9
<1>9. QED
  BY <1>1, <1>7, <1>8

\* A timer tick.
LEMMA TimerKeeps ==
  ASSUME ElectionInv, NEW s \in Sentinel, NEW start \in BOOLEAN, Timer(s, start)
  PROVE  ElectionInv'
<1>1. SeTypeOK /\ sent \in [Sentinel -> SentinelFields] /\ votes \subseteq SeVote /\ Epoch \subseteq Nat
  BY ElectionAssumption DEF ElectionInv, SeTypeOK, SentinelFields, Epoch
<1> DEFINE m == IF start THEN sentinelStartFailover(sent[s]) ELSE sent[s]
<1>2. /\ m \in SentinelFields
      /\ m.leader = sent[s].leader /\ m.leader_epoch = sent[s].leader_epoch
  <2>1. CASE start
    <3>1. sent[s].epoch \in Nat /\ sent[s].epoch + 1 \in Epoch
      BY <1>1, <2>1, ElectionAssumption DEF Timer, SentinelFields, Epoch
    <3>2. QED
      BY <1>1, <2>1, <3>1 DEF sentinelStartFailover, SentinelFields, State
  <2>2. CASE ~start
    BY <1>1, <2>2
  <2>3. QED
    BY <2>1, <2>2
<1>3. /\ IF m.state = "WAIT_START" THEN WaitStart(s, m, start)
         ELSE asked' = asked \cup Asked(s, m) /\ UNCHANGED <<sent, file, votes, sewon, sefaults>>
      /\ UNCHANGED seforgotten
  BY DEF Timer
<1> HIDE DEF m
<1>4. \A x \in SentinelFields : Asked(s, x) \subseteq Request
  BY DEF Asked, Request, SentinelFields
<1>5. CASE m.state = "WAIT_START"
  <2>1. WaitStart(s, m, start)
    BY <1>3, <1>5
  <2> DEFINE Counts(r, w) ==
          LET new == sentinelVoteLeader(m, m.failover_epoch, w)
              leads == IsLeader(s, r, w, new)
          IN  \E next \in IF leads \/ m.force THEN {"SELECT_SLAVE"}
                          ELSE IF start THEN {"WAIT_START"} ELSE {"WAIT_START", "NONE"} :
                LET last == [new EXCEPT !.state = next, !.force = next # "NONE" /\ @]
                IN  /\ Voted(s, new)
                    /\ sent' = [sent EXCEPT ![s] = last]
                    /\ asked' = asked \cup Asked(s, last)
                    /\ sewon' = IF leads
                                THEN sewon \cup {[leader |-> s, epoch |-> m.failover_epoch, counted |-> m.epoch]}
                                ELSE sewon
  <2>2. PICK r \in Reports(s, m.epoch) : \E w \in IF r = {} THEN {s} ELSE MostVoted(r) : Counts(r, w)
    BY <2>1 DEF WaitStart
  <2>2a. PICK w \in IF r = {} THEN {s} ELSE MostVoted(r) : Counts(r, w)
    BY <2>2
  <2>3. w \in Sentinel
    BY <1>1 DEF MostVoted, Reports, SeVote
  <2>4. m.epoch \in Epoch /\ m.failover_epoch \in Epoch
    BY <1>2 DEF SentinelFields
  <2> DEFINE new == sentinelVoteLeader(m, m.failover_epoch, w)
             leads == IsLeader(s, r, w, new)
             win == [leader |-> s, epoch |-> m.failover_epoch, counted |-> m.epoch]
  <2>5. PICK next \in State :
          /\ Voted(s, new)
          /\ sent' = [sent EXCEPT ![s] = [new EXCEPT !.state = next, !.force = next # "NONE" /\ @]]
          /\ asked' = asked \cup Asked(s, [new EXCEPT !.state = next, !.force = next # "NONE" /\ @])
          /\ sewon' = IF leads THEN sewon \cup {win} ELSE sewon
    BY <2>2a DEF State
  <2> DEFINE last == [new EXCEPT !.state = next, !.force = next # "NONE" /\ @]
  <2>6. new \in SentinelFields /\ new.failover_epoch = m.failover_epoch
    BY <1>2, <2>3, <2>4, VoteLeader
  <2>7. last \in SentinelFields /\ last.leader = new.leader /\ last.leader_epoch = new.leader_epoch
    <3> HIDE DEF new
    <3>1. QED
      BY <2>6 DEF SentinelFields
  <2>8. sent' = [sent EXCEPT ![s] = last] /\ asked' = asked \cup Asked(s, last)
    BY <2>5
  <2> HIDE DEF last
  <2>9. /\ votes \subseteq votes' /\ votes' \subseteq SeVote
        /\ file' \in [Sentinel -> [epoch : Epoch, leader_epoch : Epoch]]
        /\ sefaults' \in 0 .. SeMaxFaults
        /\ sent' \in [Sentinel -> SentinelFields]
        /\ VotesBehind' /\ OneVotePerEpoch' /\ RememberedIsCast'
    BY <1>2, <1>3, <2>3, <2>4, <2>5, <2>7, <2>8, VotedKeeps
  <2> HIDE DEF new
  <2>10. SeTypeOK'
    <3>1. asked' \subseteq Request
      BY <1>1, <1>4, <2>7, <2>8 DEF SeTypeOK
    <3>2. sewon' \subseteq [leader : Sentinel, epoch : Epoch, counted : Epoch]
      BY <1>1, <2>4, <2>5 DEF SeTypeOK
    <3>3. seforgotten' \subseteq Sentinel
      BY <1>1, <1>3 DEF SeTypeOK
    <3>4. QED
      BY <2>9, <3>1, <3>2, <3>3 DEF SeTypeOK, SentinelFields
  <2>11. WonByMajority'
    <3> SUFFICES ASSUME NEW a \in sewon', a.counted = a.epoch
                 PROVE  MajorityFor(a.leader, a.epoch, votes')
      BY DEF WonByMajority
    <3>1. CASE a \in sewon
      <4>1. MajorityFor(a.leader, a.epoch, votes)
        BY <3>1 DEF ElectionInv, WonByMajority
      <4>2. QED
        BY <4>1, <2>9, MajorityStays
    <3>2. CASE leads /\ a = win
      <4>1. m.epoch = m.failover_epoch /\ a.leader = s /\ a.epoch = m.failover_epoch
        BY <3>2
      <4>2. r \in Reports(s, m.failover_epoch)
        BY <4>1
      <4>3. ASSUME new.leader = s, new.leader_epoch = m.failover_epoch
            PROVE  VoteOf(s, m.failover_epoch, s) \in votes'
        <5>1. sent'[s].leader = s /\ sent'[s].leader_epoch = m.failover_epoch
          BY <1>1, <2>7, <2>8, <4>3
        <5>2. s # Nobody
          BY ElectionAssumption
        <5>3. QED
          BY <2>9, <5>1, <5>2 DEF RememberedIsCast
      <4>4. IsLeader(s, r, w, new)
        BY <3>2
      <4>5. new.leader = s /\ new.leader_epoch = m.failover_epoch => VoteOf(s, m.failover_epoch, s) \in votes'
        BY <4>3
      <4>6. SeTypeOK /\ votes \subseteq votes'
        BY <1>1, <2>9
      <4>7. MajorityFor(s, m.failover_epoch, votes')
        BY <2>3, <2>4, <2>6, <4>2, <4>4, <4>5, <4>6, LeaderHasMajority, Zenon
      <4>8. QED
        BY <4>1, <4>7
    <3>3. QED
      BY <2>5, <3>1, <3>2
  <2>12. QED
    BY <2>9, <2>10, <2>11 DEF ElectionInv
<1>6. CASE m.state # "WAIT_START"
  <2>1. asked' = asked \cup Asked(s, m) /\ UNCHANGED <<sent, file, votes, sewon, sefaults, seforgotten>>
    BY <1>3, <1>6
  <2>2. SeTypeOK'
    BY <1>1, <1>2, <1>4, <2>1 DEF SeTypeOK
  <2>3. VotesBehind' /\ OneVotePerEpoch' /\ RememberedIsCast' /\ WonByMajority'
    BY <2>1 DEF ElectionInv, VotesBehind, OneVotePerEpoch, RememberedIsCast, WonByMajority, MajorityFor, VoteOf
  <2>4. QED
    BY <2>2, <2>3 DEF ElectionInv
<1>7. QED
  BY <1>5, <1>6

\* A request for a vote.
LEMMA IsMasterDownKeeps ==
  ASSUME ElectionInv, NEW s \in Sentinel, NEW p \in asked, IsMasterDown(s, p)
  PROVE  ElectionInv'
<1>1. SeTypeOK /\ sent \in [Sentinel -> SentinelFields]
  BY DEF ElectionInv, SeTypeOK, SentinelFields
<1>2. p.epoch \in Epoch /\ p.from \in Sentinel
  BY <1>1 DEF SeTypeOK, Request
<1> DEFINE new == sentinelVoteLeader(sent[s], p.epoch, p.from)
<1>3. /\ Voted(s, new) /\ sent' = [sent EXCEPT ![s] = new]
      /\ asked' = asked /\ sewon' = sewon /\ seforgotten' = seforgotten
  BY DEF IsMasterDown
<1>4. new \in SentinelFields
  BY <1>1, <1>2, VoteLeader
<1>5. /\ votes \subseteq votes' /\ votes' \subseteq SeVote
      /\ file' \in [Sentinel -> [epoch : Epoch, leader_epoch : Epoch]]
      /\ sefaults' \in 0 .. SeMaxFaults
      /\ sent' \in [Sentinel -> SentinelFields]
      /\ VotesBehind' /\ OneVotePerEpoch' /\ RememberedIsCast'
  BY <1>1, <1>2, <1>3, <1>4, VotedKeeps
<1> HIDE DEF new
<1>6. SeTypeOK'
  BY <1>1, <1>3, <1>5 DEF SeTypeOK, SentinelFields
<1>7. WonByMajority'
  BY <1>3, <1>5, MajorityStays DEF ElectionInv, WonByMajority
<1>8. QED
  BY <1>5, <1>6, <1>7 DEF ElectionInv

\* The other steps cast no vote.  A restart is where a vote could be lost: it reads
\* leader_epoch back, or the Sentinel is in seforgotten.
LEMMA OthersKeep ==
  ASSUME ElectionInv, NEW s \in Sentinel,
         \/ \E t \in Sentinel, e \in Epoch : ReceiveHelloEpoch(s, t, e)
         \/ ForceFailover(s) \/ FailoverEnds(s) \/ SeRestart(s)
  PROVE  ElectionInv'
<1>1. /\ SeTypeOK /\ sent \in [Sentinel -> SentinelFields] /\ votes \subseteq SeVote /\ Epoch \subseteq Nat
      /\ sefaults \in 0 .. SeMaxFaults
  BY ElectionAssumption DEF ElectionInv, SeTypeOK, SentinelFields, Epoch
<1>2. votes' = votes /\ sewon' = sewon /\ asked' = asked
  BY DEF ReceiveHelloEpoch, ForceFailover, FailoverEnds, SeRestart
<1>3. /\ sent' \in [Sentinel -> SentinelFields]
      /\ file' \in [Sentinel -> [epoch : Epoch, leader_epoch : Epoch]]
      /\ sefaults' \in 0 .. SeMaxFaults /\ seforgotten' \subseteq Sentinel
      /\ \A q \in Sentinel : sent'[q].leader_epoch # sent[q].leader_epoch =>
             q = s /\ (sent'[q].leader_epoch > sent[q].leader_epoch \/ s \in seforgotten')
      /\ \A q \in Sentinel : sent'[q].leader # Nobody =>
             sent'[q].leader = sent[q].leader /\ sent'[q].leader_epoch = sent[q].leader_epoch
      /\ seforgotten \subseteq seforgotten'
  <2>1. CASE \E t \in Sentinel, e \in Epoch : ReceiveHelloEpoch(s, t, e)
    <3>1. PICK t \in Sentinel, e \in Epoch : ReceiveHelloEpoch(s, t, e)
      BY <2>1
    <3> DEFINE new == [sent[s] EXCEPT !.epoch = e]
    <3>2. /\ new \in SentinelFields /\ new.leader = sent[s].leader
          /\ new.leader_epoch = sent[s].leader_epoch
      BY <1>1 DEF SentinelFields
    <3>3. sentinelFlushConfig(s, new) /\ sent' = [sent EXCEPT ![s] = new] /\ seforgotten' = seforgotten
      BY <3>1 DEF ReceiveHelloEpoch
    <3> HIDE DEF new
    <3>4. QED
      BY <1>1, <3>2, <3>3, FlushType DEF SeTypeOK
  <2>2. CASE ForceFailover(s)
    <3>1. sent[s].epoch \in Nat /\ sent[s].epoch + 1 \in Epoch
      BY <1>1, <2>2, ElectionAssumption DEF ForceFailover, SentinelFields, Epoch
    <3> DEFINE new == [sentinelStartFailover(sent[s]) EXCEPT !.force = TRUE]
    <3>2. /\ new \in SentinelFields /\ new.leader = sent[s].leader
          /\ new.leader_epoch = sent[s].leader_epoch
      BY <1>1, <3>1 DEF SentinelFields, sentinelStartFailover, State
    <3>3. sent' = [sent EXCEPT ![s] = new] /\ UNCHANGED <<file, sefaults, seforgotten>>
      BY <1>1, <2>2 DEF ForceFailover
    <3> HIDE DEF new
    <3>4. QED
      BY <1>1, <3>2, <3>3 DEF SeTypeOK
  <2>3. CASE FailoverEnds(s)
    <3>1. PICK leader \in {Nobody, sent[s].leader} :
            sent' = [sent EXCEPT ![s].state = "NONE", ![s].force = FALSE, ![s].leader = leader]
      BY <2>3 DEF FailoverEnds
    <3>2. leader \in Candidate
      BY <1>1, <3>1 DEF SentinelFields, Candidate
    <3> DEFINE new == [sent[s] EXCEPT !.state = "NONE", !.force = FALSE, !.leader = leader]
    <3>3. new \in SentinelFields /\ new.leader = leader /\ new.leader_epoch = sent[s].leader_epoch
      BY <1>1, <3>2 DEF SentinelFields, State
    <3>4. sent' = [sent EXCEPT ![s] = new] /\ UNCHANGED <<file, sefaults, seforgotten>>
      BY <1>1, <2>3, <3>1 DEF FailoverEnds
    <3> HIDE DEF new
    <3>5. \A q \in Sentinel : sent'[q] = IF q = s THEN new ELSE sent[q]
      BY <1>1, <3>4
    <3>6. new.leader = Nobody \/ new.leader = sent[s].leader
      BY <3>3
    <3>7. sent' \in [Sentinel -> SentinelFields]
      BY <1>1, <3>3, <3>4
    <3>8. QED
      BY <1>1, <3>3, <3>4, <3>5, <3>6, <3>7 DEF SeTypeOK
  <2>4. CASE SeRestart(s)
    <3>1. file[s].epoch \in Epoch /\ file[s].leader_epoch \in Epoch
      BY <1>1 DEF SeTypeOK
    <3>0. 0 \in Epoch /\ Nobody \in Candidate /\ "NONE" \in State
      BY ElectionAssumption DEF Epoch, Candidate, State
    <3>2. /\ Reloaded(s) \in SentinelFields /\ Reloaded(s).leader = Nobody
          /\ Reloaded(s).leader_epoch = file[s].leader_epoch
      BY <3>0, <3>1 DEF Reloaded, SentinelFields
    <3>3. /\ sefaults < SeMaxFaults /\ sefaults' = sefaults + 1 /\ file' = file
          /\ sent' = [sent EXCEPT ![s] = Reloaded(s)]
          /\ seforgotten' = IF file[s].leader_epoch < sent[s].leader_epoch THEN seforgotten \cup {s} ELSE seforgotten
      BY <2>4 DEF SeRestart
    <3>4. file[s].leader_epoch \in Nat /\ sent[s].leader_epoch \in Nat
      BY <1>1, <3>1 DEF SentinelFields
    <3>5. /\ sent' \in [Sentinel -> SentinelFields] /\ sent'[s].leader = Nobody
          /\ sent'[s].leader_epoch = file[s].leader_epoch
          /\ \A q \in Sentinel \ {s} : sent'[q] = sent[q]
      BY <1>1, <3>2, <3>3
    <3>6. sefaults' \in 0 .. SeMaxFaults
      <4>1. sefaults \in 0 .. SeMaxFaults /\ SeMaxFaults \in Nat
        BY <1>1, ElectionAssumption
      <4>2. sefaults < SeMaxFaults /\ sefaults' = sefaults + 1
        BY <3>3
      <4>3. QED
        BY <4>1, <4>2
    <3>7. /\ file' \in [Sentinel -> [epoch : Epoch, leader_epoch : Epoch]]
          /\ seforgotten' \subseteq Sentinel /\ seforgotten \subseteq seforgotten'
      BY <1>1, <3>3 DEF SeTypeOK
    <3>8. sent'[s].leader_epoch # sent[s].leader_epoch =>
            sent'[s].leader_epoch > sent[s].leader_epoch \/ s \in seforgotten'
      BY <3>3, <3>4, <3>5
    <3>9. QED
      BY <3>5, <3>6, <3>7, <3>8
  <2>5. QED
    BY <2>1, <2>2, <2>3, <2>4
<1>4. SeTypeOK'
  BY <1>1, <1>2, <1>3 DEF SeTypeOK, SentinelFields
<1>5. VotesBehind'
  <2> SUFFICES ASSUME NEW v \in votes, v.voter \notin seforgotten'
               PROVE  v.epoch <= sent'[v.voter].leader_epoch
    BY <1>2 DEF VotesBehind
  <2>1. /\ v.voter \in Sentinel /\ v.epoch \in Nat
        /\ sent[v.voter].leader_epoch \in Nat /\ sent'[v.voter].leader_epoch \in Nat
    BY <1>1, <1>3 DEF SeVote, SentinelFields
  <2>2. v.epoch <= sent[v.voter].leader_epoch
    BY <1>3 DEF ElectionInv, VotesBehind
  <2>3. sent'[v.voter].leader_epoch >= sent[v.voter].leader_epoch
    BY <1>3, <2>1
  <2>4. QED
    BY <2>1, <2>2, <2>3
<1>6. OneVotePerEpoch'
  BY <1>2, <1>3 DEF ElectionInv, OneVotePerEpoch
<1>7. RememberedIsCast'
  BY <1>2, <1>3 DEF ElectionInv, RememberedIsCast
<1>8. WonByMajority'
  BY <1>2 DEF ElectionInv, WonByMajority, MajorityFor
<1>9. QED
  BY <1>4, <1>5, <1>6, <1>7, <1>8 DEF ElectionInv

-----------------------------------------------------------------------------
\* The invariant holds initially.
LEMMA ElectionInvInit == SeInit => ElectionInv
<1> SUFFICES ASSUME SeInit PROVE ElectionInv
  OBVIOUS
<1>1. SeTypeOK
  BY ElectionAssumption DEF SeInit, SeTypeOK, Epoch, Candidate, State
<1>2. QED
  BY <1>1 DEF SeInit, ElectionInv, VotesBehind, OneVotePerEpoch, RememberedIsCast, WonByMajority

\* Every step keeps it.
LEMMA ElectionInvStep == ElectionInv /\ [SeNext]_sevars => ElectionInv'
<1> SUFFICES ASSUME ElectionInv, [SeNext]_sevars PROVE ElectionInv'
  OBVIOUS
<1>1. CASE UNCHANGED sevars
  BY <1>1 DEF sevars, ElectionInv, SeTypeOK, VotesBehind, OneVotePerEpoch, RememberedIsCast, WonByMajority, MajorityFor
<1>2. CASE \E s \in Sentinel, start \in BOOLEAN : Timer(s, start)
  BY <1>2, TimerKeeps
<1>3. CASE \E s \in Sentinel, p \in asked : IsMasterDown(s, p)
  BY <1>3, IsMasterDownKeeps
<1>4. CASE \E s, t \in Sentinel, e \in Epoch : ReceiveHelloEpoch(s, t, e)
  BY <1>4, OthersKeep
<1>5. CASE \E s \in Sentinel : ForceFailover(s) \/ FailoverEnds(s) \/ SeRestart(s)
  BY <1>5, OthersKeep
<1>6. QED
  BY <1>1, <1>2, <1>3, <1>4, <1>5 DEF SeNext

\* It gives the promise: two winners of an epoch have a common voter.
LEMMA ElectionInvUse == ElectionInv => AtMostOneLeader
<1> SUFFICES ASSUME ElectionInv PROVE OneLeaderPerEpoch
  BY DEF ElectionInv, AtMostOneLeader
<1> SUFFICES ASSUME NEW a \in sewon, NEW b \in sewon, a.epoch = b.epoch, a.counted = a.epoch,
                    b.counted = b.epoch, seforgotten = {}
             PROVE  a.leader = b.leader
  BY DEF OneLeaderPerEpoch
<1>1. MajorityFor(a.leader, a.epoch, votes) /\ MajorityFor(b.leader, a.epoch, votes)
  BY DEF ElectionInv, WonByMajority
<1>2. PICK q \in Sentinel : VoteOf(q, a.epoch, a.leader) \in votes /\ VoteOf(q, a.epoch, b.leader) \in votes
  BY <1>1, MajoritiesMeet
<1>3. QED
  BY <1>2 DEF ElectionInv, OneVotePerEpoch, VoteOf

\* sentinelVoteLeader and sentinelGetLeader, for any number of Sentinels: at most one
\* leader is elected in an epoch by votes of that epoch, and nobody votes twice in it,
\* whatever requests are late, lost or repeated and whoever restarts.
THEOREM SentinelsElectOne == SeSpec => []AtMostOneLeader
<1>1. SeInit => ElectionInv
  BY ElectionInvInit
<1>2. ElectionInv /\ [SeNext]_sevars => ElectionInv'
  BY ElectionInvStep
<1>3. ElectionInv => AtMostOneLeader
  BY ElectionInvUse
<1>4. QED
  BY <1>1, <1>2, <1>3, PTL DEF SeSpec

\* The type invariant of the election.
THEOREM ElectionTypes == SeSpec => []SeTypeOK
<1>1. ElectionInv => SeTypeOK
  BY DEF ElectionInv
<1>2. QED
  BY <1>1, ElectionInvInit, ElectionInvStep, PTL DEF SeSpec

=============================================================================
