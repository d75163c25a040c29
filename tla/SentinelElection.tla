--------------------------- MODULE SentinelElection ---------------------------
(***************************************************************************)
(* How the Sentinels of redis-6.2.7/src/sentinel.c elect, for an epoch, the *)
(* one that fails a master over: the timer from the start of a failover to  *)
(* the end of WAIT_START, the vote in IS-MASTER-DOWN-BY-ADDR and its reply, *)
(* the epoch carried by hello messages, SENTINEL FAILOVER, and a restart    *)
(* from the configuration file.  What the elected Sentinel then does is     *)
(* SentinelFailover.                                                        *)
(*                                                                         *)
(* One master is monitored, and its address does not change here.  Whether  *)
(* a Sentinel finds it O_DOWN is a free choice: the reports behind it may   *)
(* be stale or lost.  Clocks are abstract: a deadline the code compares     *)
(* with mstime() may or may not have passed.                                *)
(*                                                                         *)
(* The network is a set of requests: one may be delivered at any later      *)
(* time, more than once (it is repeated every second) or never.  A reply    *)
(* tells the vote its sender last cast; as it may be late, lost or dropped  *)
(* after five ask periods, what a Sentinel keeps of another one is some     *)
(* vote of it, or nothing.                                                  *)
(***************************************************************************)
EXTENDS Integers, FiniteSets

CONSTANTS
    Sentinel,    \* the Sentinels, identified by their run id
    Quorum,      \* master->quorum of "sentinel monitor"
    Nobody,      \* NULL, or "*" on the wire
    SeMaxEpoch,  \* bound on the epochs started
    SeMaxFaults  \* bound on restarts and on failed writes of the config file

ASSUME ElectionAssumption ==
    /\ IsFiniteSet(Sentinel) /\ Sentinel # {} /\ Nobody \notin Sentinel
    /\ Quorum \in Nat \ {0}
    /\ SeMaxEpoch \in Nat /\ SeMaxFaults \in Nat

VARIABLES
    sent,       \* each Sentinel: sentinel.current_epoch and the master's fields
    file,       \* current-epoch and leader-epoch in the configuration file
    asked,      \* IS-MASTER-DOWN-BY-ADDR requests with a run id ever sent
    votes,      \* history: the votes cast
    sewon,       \* history: the elections won by counting votes
    seforgotten, \* history: Sentinels whose restart lost a vote
    sefaults

sevars == <<sent, file, asked, votes, sewon, seforgotten, sefaults>>

Epoch == 0 .. SeMaxEpoch
Candidate == Sentinel \cup {Nobody}
State == {"NONE", "WAIT_START", "SELECT_SLAVE"}
Request == [from : Sentinel, epoch : Epoch]
SeVote == [voter : Sentinel, epoch : Epoch, leader : Sentinel]

SeInit ==
    /\ sent = [s \in Sentinel |->
                 [epoch |-> 0, leader |-> Nobody, leader_epoch |-> 0,
                  state |-> "NONE", failover_epoch |-> 0, force |-> FALSE]]
    /\ file = [s \in Sentinel |-> [epoch |-> 0, leader_epoch |-> 0]]
    /\ asked = {} /\ votes = {} /\ sewon = {} /\ seforgotten = {} /\ sefaults = 0

-----------------------------------------------------------------------------
(* Writing the configuration file: on an error sentinelFlushConfig only logs,
   and the Sentinel goes on with what it has in memory.                      *)
sentinelFlushConfig(s, new) ==
    \/ /\ file' = [file EXCEPT ![s] = [epoch |-> new.epoch, leader_epoch |-> new.leader_epoch]]
       /\ sefaults' = sefaults
    \/ /\ sefaults < SeMaxFaults
       /\ sefaults' = sefaults + 1
       /\ file' = file

\* The test of sentinelVoteLeader, after current_epoch was raised.
SeMayVote(m, epoch) == m.leader_epoch < epoch /\ m.epoch <= epoch

Raised(m, epoch) == [m EXCEPT !.epoch = IF epoch > @ THEN epoch ELSE @]

\* sentinelVoteLeader: the state of a Sentinel asked to vote for runid.
sentinelVoteLeader(m, epoch, runid) ==
    LET r == Raised(m, epoch)
    IN  IF SeMayVote(r, epoch)
        THEN [r EXCEPT !.leader = runid, !.leader_epoch = r.epoch]
        ELSE r

\* s takes the state new, which is flushed if the epoch or the vote moved.
Voted(s, new) ==
    LET old == sent[s]
        moved == <<new.epoch, new.leader_epoch>> # <<old.epoch, old.leader_epoch>>
    IN  /\ IF moved THEN sentinelFlushConfig(s, new) ELSE UNCHANGED <<file, sefaults>>
        /\ votes' = IF new.leader_epoch = old.leader_epoch /\ new.leader = old.leader THEN votes
                    ELSE votes \cup {[voter |-> s, epoch |-> new.leader_epoch, leader |-> new.leader]}

-----------------------------------------------------------------------------
(* sentinelGetLeader(master, master->failover_epoch).                        *)

\* What s may keep in master->sentinels: of each other Sentinel one of its
\* votes (sentinelReceiveIsMasterDownReply), or none, for no reply came or it
\* was dropped (sentinelAskMasterStateToOtherSentinels).  Only the votes of
\* the current epoch are counted, so a report is a set with at most one vote.
Reports(s, epoch) ==
    {r \in SUBSET {v \in votes : v.voter # s /\ v.epoch = epoch} :
        \A v, w \in r : v.voter = w.voter => v = w}

VotesFor(r, c) == Cardinality({v \in r : v.leader = c})

\* Dictionary order decides between candidates with the same count.
MostVoted(r) == {v.leader : v \in {v \in r : \A d \in Sentinel : VotesFor(r, d) <= VotesFor(r, v.leader)}}

\* voters_quorum, and the configured quorum if that is larger.
Enough(n) == n >= Cardinality(Sentinel) \div 2 + 1 /\ n >= Quorum

\* After its own vote (new), s counts: the most voted w of the others, unless
\* its own vote, if it is of the failover's epoch, puts another one ahead.
IsLeader(s, r, w, new) ==
    LET mine == {new.leader} \cap (IF new.leader_epoch = new.failover_epoch THEN Sentinel ELSE {})
        total(c) == VotesFor(r, c) + Cardinality(mine \cap {c})
        best == {c \in mine : total(c) > VotesFor(r, w)}
    IN  /\ IF best # {} THEN best = {s} ELSE w = s /\ r # {}
        /\ Enough(total(s))

-----------------------------------------------------------------------------
(* sentinelTimer -> sentinelHandleRedisInstance, for the master.             *)

\* sentinelStartFailover: the new epoch is not written to the file here.
sentinelStartFailover(m) ==
    [m EXCEPT !.state = "WAIT_START", !.epoch = @ + 1, !.failover_epoch = m.epoch + 1]

\* sentinelAskMasterStateToOtherSentinels: a vote is asked for while a failover
\* is in progress, for the epoch current at that moment.
Asked(s, m) == IF m.state = "NONE" THEN {} ELSE {[from |-> s, epoch |-> m.epoch]}

\* sentinelFailoverWaitStart: after the count the leader, or a forced failover,
\* goes on to SELECT_SLAVE; the others wait, or give up when the election timed
\* out.
WaitStart(s, m, start) ==
    \E r \in Reports(s, m.epoch) :
      \E w \in IF r = {} THEN {s} ELSE MostVoted(r) :
        LET new == sentinelVoteLeader(m, m.failover_epoch, w)
            leads == IsLeader(s, r, w, new)
        IN  \E next \in IF leads \/ m.force THEN {"SELECT_SLAVE"}
                        ELSE IF start THEN {"WAIT_START"} ELSE {"WAIT_START", "NONE"} :
              LET last == [new EXCEPT !.state = next, !.force = next # "NONE" /\ @]
              IN  /\ Voted(s, new)
                  /\ sent' = [sent EXCEPT ![s] = last]
                  /\ asked' = asked \cup Asked(s, last)
                  /\ sewon' = IF leads
                              THEN sewon \cup {[leader |-> s, epoch |-> m.failover_epoch, counted |-> m.epoch]}
                              ELSE sewon

\* A timer tick: possibly a new failover, the state machine, the requests.
\* start: the master is O_DOWN and the last attempt is old enough for
\* sentinelStartFailoverIfNeeded.  The requests sent right after the start are
\* repeated by the ones that end the tick.
Timer(s, start) ==
    LET m == IF start THEN sentinelStartFailover(sent[s]) ELSE sent[s]
    IN  /\ start => sent[s].state = "NONE" /\ sent[s].epoch < SeMaxEpoch
        /\ IF m.state = "WAIT_START"
           THEN WaitStart(s, m, start)
           ELSE /\ asked' = asked \cup Asked(s, m)
                /\ UNCHANGED <<sent, file, votes, sewon, sefaults>>
        /\ UNCHANGED seforgotten

-----------------------------------------------------------------------------
(* SENTINEL IS-MASTER-DOWN-BY-ADDR with a run id, at the Sentinel asked: the
   vote, which the reply tells (see Reports).                                *)
IsMasterDown(s, p) ==
    LET new == sentinelVoteLeader(sent[s], p.epoch, p.from)
    IN  /\ p \in asked /\ p.from # s
        /\ Voted(s, new)
        /\ sent' = [sent EXCEPT ![s] = new]
        /\ UNCHANGED <<asked, sewon, seforgotten>>

\* sentinelProcessHelloMessage: a hello published by t when its epoch was e.
ReceiveHelloEpoch(s, t, e) ==
    LET new == [sent[s] EXCEPT !.epoch = e]
    IN  /\ s # t /\ e <= sent[t].epoch /\ e > sent[s].epoch
        /\ sentinelFlushConfig(s, new)
        /\ sent' = [sent EXCEPT ![s] = new]
        /\ UNCHANGED <<asked, votes, sewon, seforgotten>>

\* SENTINEL FAILOVER: no agreement of the others is asked for.
ForceFailover(s) ==
    /\ sent[s].state = "NONE" /\ sent[s].epoch < SeMaxEpoch
    /\ sent' = [sent EXCEPT ![s] = [sentinelStartFailover(@) EXCEPT !.force = TRUE]]
    /\ UNCHANGED <<file, asked, votes, sewon, seforgotten, sefaults>>

\* The failover ends (SentinelFailover): sentinelAbortFailover or
\* sentinelResetMaster; leader_epoch survives, so does the vote's refusal.
FailoverEnds(s) ==
    /\ sent[s].state = "SELECT_SLAVE"
    /\ \E leader \in {Nobody, sent[s].leader} :
         sent' = [sent EXCEPT ![s].state = "NONE", ![s].force = FALSE, ![s].leader = leader]
    /\ UNCHANGED <<file, asked, votes, sewon, seforgotten, sefaults>>

\* Mutant: the leader epoch is not read back.
ReloadedWithoutVote(s) ==
    [epoch |-> file[s].epoch, leader |-> Nobody, leader_epoch |-> 0,
     state |-> "NONE", failover_epoch |-> 0, force |-> FALSE]

\* sentinelHandleConfiguration: current-epoch and leader-epoch are read back,
\* the leader voted for is not in the file.
Reloaded(s) ==
    [epoch |-> file[s].epoch, leader |-> Nobody,
     leader_epoch |-> file[s].leader_epoch,
     state |-> "NONE", failover_epoch |-> 0, force |-> FALSE]

\* A crash and a restart.
SeRestart(s) ==
    /\ sefaults < SeMaxFaults
    /\ sefaults' = sefaults + 1
    /\ sent' = [sent EXCEPT ![s] = Reloaded(s)]
    /\ seforgotten' = IF file[s].leader_epoch < sent[s].leader_epoch THEN seforgotten \cup {s} ELSE seforgotten
    /\ UNCHANGED <<file, asked, votes, sewon>>

-----------------------------------------------------------------------------
SeNext ==
    \/ \E s \in Sentinel, start \in BOOLEAN : Timer(s, start)
    \/ \E s \in Sentinel, p \in asked : IsMasterDown(s, p)
    \/ \E s, t \in Sentinel, e \in Epoch : ReceiveHelloEpoch(s, t, e)
    \/ \E s \in Sentinel : ForceFailover(s) \/ FailoverEnds(s) \/ SeRestart(s)

SeSpec == SeInit /\ [][SeNext]_sevars

-----------------------------------------------------------------------------
SeTypeOK ==
    /\ sent \in [Sentinel -> [epoch : Epoch, leader : Candidate,
                              leader_epoch : Epoch, state : State,
                              failover_epoch : Epoch, force : BOOLEAN]]
    /\ file \in [Sentinel -> [epoch : Epoch, leader_epoch : Epoch]]
    /\ asked \subseteq Request
    /\ votes \subseteq SeVote
    /\ sewon \subseteq [leader : Sentinel, epoch : Epoch, counted : Epoch]
    /\ seforgotten \subseteq Sentinel
    /\ sefaults \in 0 .. SeMaxFaults

\* sentinelVoteLeader: a Sentinel votes for one leader in an epoch, across
\* restarts too (the vote is on disk before the reply leaves), unless the
\* write of the configuration file failed and the restart lost it.
OneVotePerEpoch ==
    \A v, w \in votes :
        v.voter = w.voter /\ v.epoch = w.epoch /\ v.voter \notin seforgotten => v.leader = w.leader

\* sentinelGetLeader: two Sentinels do not lead the failovers of one epoch,
\* as long as each of them counted the votes of that epoch and no vote was
\* forgotten.  (It counts the votes it has, of whatever epoch it is in.)
OneLeaderPerEpoch ==
    \A a, b \in sewon :
        /\ a.epoch = b.epoch /\ a.counted = a.epoch /\ b.counted = b.epoch
        /\ seforgotten = {}
        => a.leader = b.leader

\* Together: at most one Sentinel leads the failover of an epoch, and the votes it was
\* elected with are the only ones of their voters (sentinelVoteLeader, sentinelGetLeader).
AtMostOneLeader == OneVotePerEpoch /\ OneLeaderPerEpoch

=============================================================================
