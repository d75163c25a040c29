----------------------- MODULE SentinelFailoverProofs -----------------------
(***************************************************************************)
(* Proofs about SentinelFailover, for any number of Sentinels and replicas and*)
(* any number of epochs, restarts and lost messages: Sentinels that know the*)
(* same configuration epoch name the same master.                          *)
(***************************************************************************)
EXTENDS SentinelFailover, FiniteSetTheorems, TLAPS

\* The states in which a failover has not yet given its epoch to a configuration.
Leading == {"SELECT_SLAVE", "SEND_SLAVEOF_NOONE", "WAIT_PROMOTION"}

MasterFields ==
  [addr : Instance, config_epoch : 0 .. LastEpoch, epoch : 0 .. LastEpoch,
   state : States, failover_epoch : 0 .. LastEpoch,
   promoted : Instance \cup {Nothing}, flags : [Instance -> Flags]]

\* promoted_slave is there when the state needs it, and reconfiguration flags only in
\* RECONF_SLAVES.
MasterSound(m) ==
  /\ (m.promoted # Nothing) =
       (m.state \in {"SEND_SLAVEOF_NOONE", "WAIT_PROMOTION", "RECONF_SLAVES"})
  /\ m.promoted # m.addr
  /\ m.state # "RECONF_SLAVES" => m.flags = NoFlags

\* Configurations have epochs of elections that were won.
ConfigsWon == \A s \in Overseer : sen[s].config_epoch \in used \cup {0}

\* A failover under way has an epoch that was won, ...
FailoverWon == \A s \in Overseer : sen[s].state # "NONE" => sen[s].failover_epoch \in used

\* ... that no other failover under way has, ...
FailoversApart ==
  \A s, t \in Overseer :
    s # t /\ sen[s].state # "NONE" /\ sen[t].state # "NONE"
      => sen[s].failover_epoch # sen[t].failover_epoch

\* ... and that no configuration has before the promotion is seen.
EpochUnspent ==
  \A s, t \in Overseer :
    sen[s].state \in Leading => sen[t].config_epoch # sen[s].failover_epoch

\* The inductive invariant.
FailoverInv ==
  /\ SfTypeOK
  /\ \A s \in Overseer : MasterSound(sen[s])
  /\ ConfigsWon /\ FailoverWon /\ FailoversApart /\ EpochUnspent
  /\ OneMasterPerConfigEpoch

\* What a step may make of one Sentinel, the others and the epochs won being left alone:
\* its failover goes on or is given up, and its configuration keeps its address.
Follows(s, m) ==
  /\ m \in MasterFields /\ MasterSound(m)
  /\ m.config_epoch = sen[s].config_epoch
  /\ CurrentAddress(m) = CurrentAddress(sen[s])
  /\ m.state # "NONE" => sen[s].state # "NONE" /\ m.failover_epoch = sen[s].failover_epoch
  /\ m.state \in Leading => sen[s].state \in Leading

LEMMA FollowsKeeps ==
  ASSUME FailoverInv, NEW s \in Overseer, NEW m, Follows(s, m),
         sen' = [sen EXCEPT ![s] = m],
         role' \in [Instance -> Instance \cup {Nothing}], UNCHANGED <<used, stuck>>
  PROVE  FailoverInv'
<1>1. sen' \in [Overseer -> MasterFields] /\ sen \in [Overseer -> MasterFields]
  BY DEF FailoverInv, SfTypeOK, MasterFields, Follows
<1>2. sen'[s] = m /\ \A t \in Overseer : t # s => sen'[t] = sen[t]
  BY <1>1
<1>3. SfTypeOK'
  BY <1>1 DEF FailoverInv, SfTypeOK, MasterFields
<1>4. \A t \in Overseer : MasterSound(sen'[t])
  BY <1>2 DEF FailoverInv, Follows
<1>5. \A t \in Overseer : /\ sen'[t].config_epoch = sen[t].config_epoch
                          /\ CurrentAddress(sen'[t]) = CurrentAddress(sen[t])
                          /\ sen'[t].state # "NONE" => /\ sen[t].state # "NONE"
                                                       /\ sen'[t].failover_epoch = sen[t].failover_epoch
                          /\ sen'[t].state \in Leading => sen[t].state \in Leading
  BY <1>2 DEF Follows
<1>6. "NONE" \notin Leading
  BY DEF Leading
<1>7. ConfigsWon' /\ FailoverWon' /\ FailoversApart'
  BY <1>5 DEF FailoverInv, ConfigsWon, FailoverWon, FailoversApart
<1>8. EpochUnspent'
  BY <1>5, <1>6 DEF FailoverInv, EpochUnspent
<1>9. OneMasterPerConfigEpoch'
  <2>1. ASSUME NEW a \in Overseer, NEW b \in Overseer, ~stuck',
               sen'[a].config_epoch = sen'[b].config_epoch
        PROVE  CurrentAddress(sen'[a]) = CurrentAddress(sen'[b])
    BY <2>1, <1>5 DEF FailoverInv, OneMasterPerConfigEpoch
  <2>. QED
    BY <2>1 DEF OneMasterPerConfigEpoch, CurrentAddress
<1>10. (\A t \in Overseer : MasterSound(sen[t]))'
  BY <1>4 DEF MasterSound, NoFlags
<1>. QED
  BY <1>3, <1>7, <1>8, <1>9, <1>10 DEF FailoverInv

\* sentinelSendSlaveOf leaves each instance with a master, or none.
LEMMA SlaveOfTypes ==
  ASSUME SfTypeOK, NEW to, NEW master \in Instance \cup {Nothing}, SendSlaveOf(to, master)
  PROVE  role' \in [Instance -> Instance \cup {Nothing}]
BY DEF SfTypeOK, SendSlaveOf

\* What the invariant says of one Sentinel.
LEMMA SentinelFacts ==
  ASSUME FailoverInv, NEW s \in Overseer
  PROVE  /\ sen[s] \in MasterFields /\ MasterSound(sen[s])
         /\ sen \in [Overseer -> MasterFields]
         /\ NoFlags \in [Instance -> Flags]
BY DEF FailoverInv, SfTypeOK, MasterFields, NoFlags, Flags

\* Giving up before the promotion was seen.
LEMMA AbortFollows ==
  ASSUME FailoverInv, NEW s \in Overseer, sen[s].state \in Leading
  PROVE  Follows(s, Abort(sen[s]))
<1> DEFINE m == sen[s]
           n == Abort(m)
<1>1. m \in MasterFields /\ MasterSound(m) /\ m.state # "RECONF_SLAVES"
  BY SentinelFacts DEF Leading
<1>2. /\ n \in MasterFields /\ n.state = "NONE" /\ n.promoted = Nothing /\ n.addr = m.addr
      /\ n.flags = m.flags /\ n.config_epoch = m.config_epoch
  BY <1>1 DEF Abort, MasterFields, States
<1>3. MasterSound(n)
  BY <1>1, <1>2, FailoverAssumption DEF MasterSound, MasterFields
<1>. QED
  BY <1>1, <1>2, <1>3 DEF Follows, CurrentAddress, Leading

\* Taking the current address as the master's address: the end of a failover, a restart.
LEMMA ChangeFollows ==
  ASSUME FailoverInv, NEW s \in Overseer, NEW n,
         n = ChangeAddress(sen[s], CurrentAddress(sen[s]))
         \/ n = [ChangeAddress(sen[s], CurrentAddress(sen[s])) EXCEPT !.failover_epoch = 0]
  PROVE  Follows(s, n)
<1> DEFINE m == sen[s]
           a == CurrentAddress(m)
<1>1. m \in MasterFields /\ MasterSound(m) /\ NoFlags \in [Instance -> Flags]
  BY SentinelFacts
<1>2. a \in Instance
  BY <1>1 DEF CurrentAddress, MasterSound, MasterFields
<1>3. /\ n \in MasterFields /\ n.state = "NONE" /\ n.promoted = Nothing /\ n.addr = a
      /\ n.flags = NoFlags /\ n.config_epoch = m.config_epoch
  <2>1. 0 \in 0 .. LastEpoch
    BY FailoverAssumption
  <2> DEFINE c == ChangeAddress(m, a)
  <2>2. /\ c \in MasterFields /\ c.state = "NONE" /\ c.promoted = Nothing /\ c.addr = a
        /\ c.flags = NoFlags /\ c.config_epoch = m.config_epoch
    BY <1>1, <1>2 DEF ChangeAddress, MasterFields, States
  <2>3. CASE n = c
    BY <2>2, <2>3
  <2>4. CASE n = [c EXCEPT !.failover_epoch = 0]
    <3> HIDE DEF c
    <3>. QED
      BY <2>1, <2>2, <2>4 DEF MasterFields
  <2>. QED
    BY <2>3, <2>4
<1>4. MasterSound(n)
  BY <1>2, <1>3, FailoverAssumption DEF MasterSound
<1>. QED
  BY <1>3, <1>4 DEF Follows, CurrentAddress, Leading

\* Only the reconfiguration flags change, in RECONF_SLAVES.
LEMMA FlagsFollow ==
  ASSUME FailoverInv, NEW s \in Overseer, sen[s].state = "RECONF_SLAVES",
         NEW f \in [Instance -> Flags]
  PROVE  Follows(s, [sen[s] EXCEPT !.flags = f])
<1> DEFINE m == sen[s]
           n == [m EXCEPT !.flags = f]
<1>1. m \in MasterFields /\ MasterSound(m)
  BY SentinelFacts
<1>2. /\ n \in MasterFields /\ n.state = m.state /\ n.promoted = m.promoted /\ n.addr = m.addr
      /\ n.failover_epoch = m.failover_epoch /\ n.config_epoch = m.config_epoch
  BY <1>1 DEF MasterFields
<1>3. MasterSound(n)
  BY <1>1, <1>2 DEF MasterSound
<1>. QED
  BY <1>2, <1>3 DEF Follows, CurrentAddress

\* The failover goes on to the next state before the promotion, perhaps with a slave.
LEMMA ForwardFollows ==
  ASSUME FailoverInv, NEW s \in Overseer, sen[s].state \in Leading,
         NEW n \in MasterFields, MasterSound(n), n.state \in Leading,
         n.addr = sen[s].addr, n.config_epoch = sen[s].config_epoch,
         n.failover_epoch = sen[s].failover_epoch
  PROVE  Follows(s, n)
BY DEF Follows, CurrentAddress, Leading

LEMMA StateMachineKeeps ==
  ASSUME FailoverInv, NEW s \in Overseer, StateMachine(s)
  PROVE  FailoverInv'
<1> DEFINE m == sen[s]
<1>1. /\ m \in MasterFields /\ MasterSound(m) /\ sen \in [Overseer -> MasterFields]
      /\ SfTypeOK /\ role \in [Instance -> Instance \cup {Nothing}]
  BY SentinelFacts DEF FailoverInv, SfTypeOK
<1>2. CASE SelectSlave(s)
  <2>1. m.state \in Leading /\ UNCHANGED <<role, used, stuck>>
    BY <1>2 DEF SelectSlave, Leading
  <2>2. CASE sen' = [sen EXCEPT ![s] = Abort(@)]
    BY <2>1, <2>2, <1>1, AbortFollows, FollowsKeeps
  <2>3. CASE \E i \in Slaves(m) :
               sen' = [sen EXCEPT ![s].state = "SEND_SLAVEOF_NOONE", ![s].promoted = i]
    <3>1. PICK i \in Slaves(m) :
               sen' = [sen EXCEPT ![s].state = "SEND_SLAVEOF_NOONE", ![s].promoted = i]
      BY <2>3
    <3> DEFINE n == [m EXCEPT !.state = "SEND_SLAVEOF_NOONE", !.promoted = i]
    <3>2. sen' = [sen EXCEPT ![s] = n]
      BY <3>1, <1>1
    <3>3. /\ n \in MasterFields /\ n.state = "SEND_SLAVEOF_NOONE" /\ n.promoted = i
          /\ n.addr = m.addr /\ n.flags = m.flags /\ n.config_epoch = m.config_epoch
          /\ n.failover_epoch = m.failover_epoch
      BY <1>1 DEF MasterFields, States, Slaves
    <3>4. MasterSound(n)
      <4>1. m.state # "RECONF_SLAVES" /\ m.flags = NoFlags
        BY <1>1, <1>2 DEF SelectSlave, MasterSound
      <4>. QED
        BY <3>3, <4>1, FailoverAssumption DEF MasterSound, Slaves
    <3>5. Follows(s, n)
      BY <3>3, <3>4, <2>1, ForwardFollows DEF Leading
    <3>. QED
      BY <3>2, <3>5, <2>1, <1>1, FollowsKeeps
  <2>. QED
    BY <1>2, <2>2, <2>3 DEF SelectSlave
<1>3. CASE SendSlaveOfNoOne(s)
  <2> DEFINE n == [m EXCEPT !.state = "WAIT_PROMOTION"]
  <2>1. m.state = "SEND_SLAVEOF_NOONE" /\ UNCHANGED <<used, stuck>>
        /\ sen' = [sen EXCEPT ![s] = n]
    BY <1>3, <1>1 DEF SendSlaveOfNoOne
  <2>2. role' \in [Instance -> Instance \cup {Nothing}]
    BY <1>3, <1>1, SlaveOfTypes DEF SendSlaveOfNoOne
  <2>3. /\ n \in MasterFields /\ n.state = "WAIT_PROMOTION" /\ n.promoted = m.promoted
        /\ n.addr = m.addr /\ n.flags = m.flags /\ n.config_epoch = m.config_epoch
        /\ n.failover_epoch = m.failover_epoch
    BY <1>1 DEF MasterFields, States
  <2>4. MasterSound(n)
    BY <1>1, <2>1, <2>3 DEF MasterSound
  <2>5. Follows(s, n)
    BY <2>1, <2>3, <2>4, ForwardFollows DEF Leading
  <2>. QED
    BY <2>1, <2>2, <2>5, FollowsKeeps
<1>4. CASE PromotionTimeout(s)
  BY <1>4, <1>1, AbortFollows, FollowsKeeps DEF PromotionTimeout, Leading
<1>5. ASSUME NEW timeout \in BOOLEAN, NEW down \in SUBSET Instance, DetectEnd(s, timeout, down)
      PROVE  FailoverInv'
  <2>1. /\ m.state = "RECONF_SLAVES" /\ UNCHANGED <<used, stuck>>
        /\ sen' = [sen EXCEPT ![s] = ChangeAddress(m, m.promoted)]
    BY <1>5 DEF DetectEnd
  <2>2. CurrentAddress(m) = m.promoted
    BY <2>1 DEF CurrentAddress
  <2>3. m.promoted \in Instance \cup {Nothing}
    BY <1>1 DEF MasterFields
  <2>4. role' \in [Instance -> Instance \cup {Nothing}]
    BY <1>5, <1>1, <2>3, SlaveOfTypes DEF DetectEnd
  <2>5. Follows(s, ChangeAddress(m, m.promoted))
    BY <2>2, ChangeFollows
  <2>. QED
    BY <2>1, <2>4, <2>5, FollowsKeeps
<1>. QED
  BY <1>2, <1>3, <1>4, <1>5 DEF StateMachine

LEMMA RebootKeeps ==
  ASSUME FailoverInv, NEW s \in Overseer, Reboot(s)
  PROVE  FailoverInv'
<1>1. role \in [Instance -> Instance \cup {Nothing}]
  BY DEF FailoverInv, SfTypeOK
<1>2. sen \in [Overseer -> MasterFields]
  BY SentinelFacts
<1> DEFINE n == [ChangeAddress(sen[s], CurrentAddress(sen[s])) EXCEPT !.failover_epoch = 0]
<1>3. sen' = [sen EXCEPT ![s] = n] /\ UNCHANGED <<role, used, stuck>>
  BY <1>2 DEF Reboot
<1>4. Follows(s, n)
  BY ChangeFollows
<1>. QED
  BY <1>1, <1>3, <1>4, FollowsKeeps

LEMMA ReconfKeeps ==
  ASSUME FailoverInv, NEW s \in Overseer, NEW expired \in SUBSET Instance,
         NEW to \in SUBSET Instance, ReconfSlaves(s, expired, to)
  PROVE  FailoverInv'
<1> DEFINE m == sen[s]
           f == [i \in Instance |->
                  ((m.flags[i] \ (IF i \in expired THEN {"SENT"} ELSE {}))
                     \cup (IF i \in expired THEN {"DONE"} ELSE {})) \cup (IF i \in to THEN {"SENT"} ELSE {})]
<1>1. m \in MasterFields /\ SfTypeOK
  BY SentinelFacts DEF FailoverInv
<1>2. f \in [Instance -> Flags]
  BY <1>1 DEF MasterFields, Flags
<1>3. /\ m.state = "RECONF_SLAVES" /\ SendSlaveOf(to, m.promoted) /\ UNCHANGED <<used, stuck>>
      /\ sen' = [sen EXCEPT ![s] = [m EXCEPT !.flags = f]]
  BY DEF ReconfSlaves, Reconfigured
<1>4. role' \in [Instance -> Instance \cup {Nothing}]
  BY <1>1, <1>3, SlaveOfTypes DEF MasterFields
<1> HIDE DEF f
<1>5. Follows(s, [m EXCEPT !.flags = f])
  BY <1>2, <1>3, FlagsFollow
<1>. QED
  BY <1>3, <1>4, <1>5, FollowsKeeps

\* An election won: its epoch is new, so that neither a failover nor a configuration has it.
LEMMA ElectedKeeps ==
  ASSUME FailoverInv, NEW s \in Overseer, Elected(s)
  PROVE  FailoverInv'
<1> DEFINE m == sen[s]
           e == m.epoch + 1
           n == [m EXCEPT !.state = "SELECT_SLAVE", !.epoch = e, !.failover_epoch = e]
<1>1. m \in MasterFields /\ MasterSound(m) /\ sen \in [Overseer -> MasterFields]
  BY SentinelFacts
<1>2. /\ m.state = "NONE" /\ e <= LastEpoch /\ e \notin used
      /\ sen' = [sen EXCEPT ![s] = n] /\ used' = used \cup {e} /\ UNCHANGED <<role, stuck>>
  BY <1>1 DEF Elected
<1>3. e \in 1 .. LastEpoch /\ e \in 0 .. LastEpoch /\ e # 0
  BY <1>1, <1>2, FailoverAssumption DEF MasterFields
<1> HIDE DEF e
<1>4. /\ n \in MasterFields /\ n.state = "SELECT_SLAVE" /\ n.failover_epoch = e
      /\ n.config_epoch = m.config_epoch /\ n.addr = m.addr /\ n.promoted = m.promoted
      /\ n.flags = m.flags
  BY <1>1, <1>3 DEF MasterFields, States
<1> HIDE DEF n
<1>5. MasterSound(n)
  BY <1>1, <1>2, <1>4 DEF MasterSound
<1>6. CurrentAddress(n) = CurrentAddress(m)
  BY <1>2, <1>4 DEF CurrentAddress
<1>7. sen'[s] = n /\ \A t \in Overseer : t # s => sen'[t] = sen[t]
  BY <1>1, <1>2
<1>8. SfTypeOK'
  BY <1>1, <1>2, <1>3, <1>4 DEF FailoverInv, SfTypeOK, MasterFields
<1>9. (\A t \in Overseer : MasterSound(sen[t]))'
  <2>1. \A t \in Overseer : MasterSound(sen'[t])
    BY <1>5, <1>7 DEF FailoverInv
  <2>. QED
    BY <2>1 DEF MasterSound, NoFlags
<1>10. \A t \in Overseer : /\ sen'[t].config_epoch = sen[t].config_epoch
                           /\ CurrentAddress(sen'[t]) = CurrentAddress(sen[t])
                           /\ sen[t].config_epoch # e
  BY <1>2, <1>3, <1>4, <1>6, <1>7 DEF FailoverInv, ConfigsWon
<1>11. ConfigsWon' /\ FailoverWon'
  BY <1>2, <1>4, <1>7, <1>10 DEF FailoverInv, ConfigsWon, FailoverWon
<1>12. FailoversApart'
  <2>1. \A t \in Overseer : t # s /\ sen[t].state # "NONE" => sen[t].failover_epoch # e
    BY <1>2 DEF FailoverInv, FailoverWon
  <2>. QED
    BY <2>1, <1>4, <1>7 DEF FailoverInv, FailoversApart
<1>13. EpochUnspent'
  BY <1>4, <1>7, <1>10 DEF FailoverInv, EpochUnspent
<1>14. OneMasterPerConfigEpoch'
  <2>1. \A a, b \in Overseer : ~stuck' /\ sen'[a].config_epoch = sen'[b].config_epoch
          => CurrentAddress(sen'[a]) = CurrentAddress(sen'[b])
    BY <1>2, <1>10 DEF FailoverInv, OneMasterPerConfigEpoch
  <2>. QED
    BY <2>1 DEF OneMasterPerConfigEpoch, CurrentAddress
<1>. QED
  BY <1>8, <1>9, <1>11, <1>12, <1>13, <1>14 DEF FailoverInv

\* The promotion is seen: the configuration takes the epoch of the failover, which no
\* configuration had before.
LEMMA PromotedKeeps ==
  ASSUME FailoverInv, NEW s \in Overseer, NEW i \in Instance, InfoPromoted(s, i)
  PROVE  FailoverInv'
<1> DEFINE m == sen[s]
           n == [m EXCEPT !.config_epoch = m.failover_epoch, !.state = "RECONF_SLAVES"]
<1>1. m \in MasterFields /\ MasterSound(m) /\ sen \in [Overseer -> MasterFields]
  BY SentinelFacts
<1>2. /\ m.state = "WAIT_PROMOTION" /\ UNCHANGED <<role, used, stuck>>
      /\ sen' = [sen EXCEPT ![s] = n]
  BY <1>1 DEF InfoPromoted, PromotionSeen
<1>4. /\ n \in MasterFields /\ n.state = "RECONF_SLAVES" /\ n.failover_epoch = m.failover_epoch
      /\ n.config_epoch = m.failover_epoch /\ n.addr = m.addr /\ n.promoted = m.promoted
  BY <1>1 DEF MasterFields, States
<1> HIDE DEF n
<1>5. MasterSound(n)
  BY <1>1, <1>2, <1>4 DEF MasterSound
<1>7. sen'[s] = n /\ \A t \in Overseer : t # s => sen'[t] = sen[t]
  BY <1>1, <1>2
<1>8. SfTypeOK'
  BY <1>1, <1>2, <1>4 DEF FailoverInv, SfTypeOK, MasterFields
<1>9. (\A t \in Overseer : MasterSound(sen[t]))'
  <2>1. \A t \in Overseer : MasterSound(sen'[t])
    BY <1>5, <1>7 DEF FailoverInv
  <2>. QED
    BY <2>1 DEF MasterSound, NoFlags
<1>10. m.state \in Leading /\ m.state # "NONE"
  BY <1>2 DEF Leading
<1>11. ConfigsWon' /\ FailoverWon'
  BY <1>2, <1>4, <1>7, <1>10 DEF FailoverInv, ConfigsWon, FailoverWon
<1>12. FailoversApart'
  BY <1>4, <1>7, <1>10 DEF FailoverInv, FailoversApart
<1>13. EpochUnspent'
  <2>1. "RECONF_SLAVES" \notin Leading /\ "NONE" \notin Leading
    BY DEF Leading
  <2>2. ASSUME NEW a \in Overseer, NEW b \in Overseer, sen'[a].state \in Leading
        PROVE  sen'[b].config_epoch # sen'[a].failover_epoch
    <3>1. a # s /\ sen'[a] = sen[a] /\ sen[a].state # "NONE"
      BY <2>1, <2>2, <1>4, <1>7
    <3>2. CASE b = s
      BY <3>1, <3>2, <1>4, <1>7, <1>10 DEF FailoverInv, FailoversApart
    <3>3. CASE b # s
      BY <3>1, <3>3, <1>7, <2>2 DEF FailoverInv, EpochUnspent
    <3>. QED
      BY <3>2, <3>3
  <2>. QED
    BY <2>2 DEF EpochUnspent
<1>14. OneMasterPerConfigEpoch'
  <2>1. \A t \in Overseer : sen[t].config_epoch # m.failover_epoch
    BY <1>10 DEF FailoverInv, EpochUnspent
  <2>2. \A a, b \in Overseer : ~stuck' /\ sen'[a].config_epoch = sen'[b].config_epoch
          => CurrentAddress(sen'[a]) = CurrentAddress(sen'[b])
    BY <2>1, <1>2, <1>4, <1>7 DEF FailoverInv, OneMasterPerConfigEpoch
  <2>. QED
    BY <2>2 DEF OneMasterPerConfigEpoch, CurrentAddress
<1>. QED
  BY <1>8, <1>9, <1>11, <1>12, <1>13, <1>14 DEF FailoverInv

\* sentinelRefreshInstanceInfo.
LEMMA InfoKeeps ==
  ASSUME FailoverInv, NEW s \in Overseer, NEW i \in Instance, Info(s, i)
  PROVE  FailoverInv'
<1> DEFINE m == sen[s]
<1>1. /\ m \in MasterFields /\ MasterSound(m) /\ sen \in [Overseer -> MasterFields]
      /\ role \in [Instance -> Instance \cup {Nothing}]
  BY SentinelFacts DEF FailoverInv, SfTypeOK
<1>2. CASE InfoPromoted(s, i)
  BY <1>2, PromotedKeeps
<1>3. CASE InfoMisconfigured(s, i)
  <2>1. UNCHANGED <<sen, used, stuck>> /\ role' = [role EXCEPT ![i] = m.addr]
    BY <1>3 DEF InfoMisconfigured
  <2>2. role' \in [Instance -> Instance \cup {Nothing}]
    BY <2>1, <1>1 DEF MasterFields
  <2>3. SfTypeOK'
    BY <2>1, <2>2 DEF FailoverInv, SfTypeOK
  <2>4. (\A t \in Overseer : MasterSound(sen[t]))'
    BY <2>1 DEF FailoverInv, MasterSound, NoFlags
  <2>5. (ConfigsWon /\ FailoverWon /\ FailoversApart /\ EpochUnspent)'
    BY <2>1 DEF FailoverInv, ConfigsWon, FailoverWon, FailoversApart, EpochUnspent
  <2>6. OneMasterPerConfigEpoch'
    BY <2>1 DEF FailoverInv, OneMasterPerConfigEpoch, CurrentAddress
  <2>. QED
    BY <2>3, <2>4, <2>5, <2>6 DEF FailoverInv
<1>4. ASSUME NEW up \in BOOLEAN, NEW fix \in BOOLEAN, InfoReconf(s, i, up, fix)
      PROVE  FailoverInv'
  <2> DEFINE f == m.flags[i]
             g == IF "SENT" \in f /\ role[i] = m.promoted THEN (f \ {"SENT"}) \cup {"INPROG"} ELSE f
             h == IF "INPROG" \in g /\ up THEN (g \ {"INPROG"}) \cup {"DONE"} ELSE g
             n == [m.flags EXCEPT ![i] = h]
  <2>1. /\ f \cap {"SENT", "INPROG"} # {} /\ UNCHANGED <<used, stuck>>
        /\ role' = IF fix THEN [role EXCEPT ![i] = m.addr] ELSE role
        /\ sen' = [sen EXCEPT ![s].flags[i] = h]
    BY <1>4 DEF InfoReconf
  <2>2. role' \in [Instance -> Instance \cup {Nothing}]
    BY <2>1, <1>1 DEF MasterFields
  <2>3. m.state = "RECONF_SLAVES"
    BY <2>1, <1>1 DEF MasterSound, NoFlags
  <2>4. f \in Flags
    BY <1>1 DEF MasterFields
  <2>5. g \in Flags
    BY <2>4 DEF Flags
  <2>6. h \in Flags
    <3> HIDE DEF g
    <3>. QED
      BY <2>5 DEF Flags
  <2> HIDE DEF h
  <2>7. n \in [Instance -> Flags] /\ sen' = [sen EXCEPT ![s] = [m EXCEPT !.flags = n]]
    BY <2>1, <2>6, <1>1 DEF MasterFields
  <2> HIDE DEF n
  <2>8. Follows(s, [m EXCEPT !.flags = n])
    BY <2>3, <2>7, FlagsFollow
  <2>. QED
    BY <2>1, <2>2, <2>7, <2>8, FollowsKeeps
<1>. QED
  BY <1>2, <1>3, <1>4 DEF Info

\* A hello whose configuration is newer: it is taken over with its address, or the
\* Sentinel is stuck in a failover of its own from the same address.
LEMMA NewerHelloKeeps ==
  ASSUME FailoverInv, NEW s \in Overseer, NEW t \in Overseer, ReceiveHello(s, t),
         Newer(sen[s].config_epoch, sen[t].config_epoch)
  PROVE  FailoverInv'
<1> DEFINE m == sen[s]
           h == sen[t]
           addr == CurrentAddress(h)
           k == IF h.epoch > m.epoch THEN h.epoch ELSE m.epoch
           c == [[m EXCEPT !.epoch = k] EXCEPT !.config_epoch = h.config_epoch]
           n == IF addr # m.addr THEN ChangeAddress(c, addr) ELSE c
<1>1. /\ m \in MasterFields /\ MasterSound(m) /\ h \in MasterFields /\ MasterSound(h)
      /\ sen \in [Overseer -> MasterFields] /\ NoFlags \in [Instance -> Flags]
  BY SentinelFacts
<1>2. /\ s # t /\ sen' = [sen EXCEPT ![s] = n] /\ UNCHANGED <<role, used>>
      /\ stuck' = (stuck \/ (addr = m.addr /\ m.state # "NONE"))
  <2>1. [m EXCEPT !.epoch = IF h.epoch > @ THEN h.epoch ELSE @] = [m EXCEPT !.epoch = k]
    BY <1>1 DEF MasterFields
  <2>. QED
    BY <2>1 DEF ReceiveHello
<1>3. addr \in Instance
  BY <1>1 DEF CurrentAddress, MasterSound, MasterFields
<1>4. k \in 0 .. LastEpoch /\ h.config_epoch \in 0 .. LastEpoch
  BY <1>1 DEF MasterFields
<1> HIDE DEF addr, k
<1>5. /\ c \in MasterFields /\ c.config_epoch = h.config_epoch /\ c.addr = m.addr
      /\ c.state = m.state /\ c.failover_epoch = m.failover_epoch /\ c.promoted = m.promoted
      /\ c.flags = m.flags
  BY <1>1, <1>4 DEF MasterFields
<1> HIDE DEF c
<1>6. /\ n \in MasterFields /\ MasterSound(n) /\ n.config_epoch = h.config_epoch
      /\ n.state # "NONE" => n.state = m.state /\ n.failover_epoch = m.failover_epoch
      /\ ~stuck' => CurrentAddress(n) = addr
  <2>1. CASE addr # m.addr
    <3>1. /\ n \in MasterFields /\ n.config_epoch = h.config_epoch /\ n.addr = addr
          /\ n.state = "NONE" /\ n.promoted = Nothing /\ n.flags = NoFlags
      BY <1>1, <1>3, <1>5, <2>1 DEF ChangeAddress, MasterFields, States
    <3>2. MasterSound(n)
      BY <3>1, <1>3, FailoverAssumption DEF MasterSound
    <3>. QED
      BY <3>1, <3>2 DEF CurrentAddress
  <2>2. CASE addr = m.addr
    <3>1. n = c
      BY <2>2
    <3>2. MasterSound(c)
      BY <1>1, <1>5 DEF MasterSound
    <3>3. ~stuck' => CurrentAddress(c) = addr
      BY <1>2, <1>5, <2>2 DEF CurrentAddress
    <3>. QED
      BY <1>5, <3>1, <3>2, <3>3
  <2>. QED
    BY <2>1, <2>2
<1> HIDE DEF n
<1>7. sen'[s] = n /\ \A u \in Overseer : u # s => sen'[u] = sen[u]
  BY <1>1, <1>2
<1>8. SfTypeOK'
  <2>1. stuck' \in BOOLEAN
    BY <1>2 DEF FailoverInv, SfTypeOK
  <2>. QED
    BY <1>1, <1>2, <1>6, <2>1 DEF FailoverInv, SfTypeOK, MasterFields
<1>9. (\A u \in Overseer : MasterSound(sen[u]))'
  <2>1. \A u \in Overseer : MasterSound(sen'[u])
    BY <1>6, <1>7 DEF FailoverInv
  <2>. QED
    BY <2>1 DEF MasterSound, NoFlags
<1>10. /\ \A u \in Overseer : \E w \in Overseer : sen'[u].config_epoch = sen[w].config_epoch
       /\ \A u \in Overseer : sen'[u].state # "NONE"
            => sen'[u].state = sen[u].state /\ sen'[u].failover_epoch = sen[u].failover_epoch
  BY <1>6, <1>7
<1>11. ConfigsWon' /\ FailoverWon' /\ FailoversApart'
  BY <1>2, <1>10 DEF FailoverInv, ConfigsWon, FailoverWon, FailoversApart
<1>12. EpochUnspent'
  <2>1. "NONE" \notin Leading
    BY DEF Leading
  <2>. QED
    BY <1>10, <2>1 DEF FailoverInv, EpochUnspent
<1>13. OneMasterPerConfigEpoch'
  <2>1. ASSUME NEW a \in Overseer, NEW b \in Overseer, ~stuck',
               sen'[a].config_epoch = sen'[b].config_epoch
        PROVE  CurrentAddress(sen'[a]) = CurrentAddress(sen'[b])
    <3>1. ~stuck
      BY <2>1, <1>2
    <3>2. \A u \in Overseer : \E w \in Overseer :
             /\ sen'[u].config_epoch = sen[w].config_epoch
             /\ CurrentAddress(sen'[u]) = CurrentAddress(sen[w])
      BY <2>1, <1>6, <1>7 DEF addr
    <3>. QED
      BY <2>1, <3>1, <3>2 DEF FailoverInv, OneMasterPerConfigEpoch
  <2>. QED
    BY <2>1 DEF OneMasterPerConfigEpoch, CurrentAddress
<1>. QED
  BY <1>8, <1>9, <1>11, <1>12, <1>13 DEF FailoverInv

\* A hello whose configuration is not newer: only the epoch may be raised.
LEMMA OtherHelloKeeps ==
  ASSUME FailoverInv, NEW s \in Overseer, NEW t \in Overseer, ReceiveHello(s, t),
         ~Newer(sen[s].config_epoch, sen[t].config_epoch)
  PROVE  FailoverInv'
<1> DEFINE m == sen[s]
           h == sen[t]
           k == IF h.epoch > m.epoch THEN h.epoch ELSE m.epoch
           n == [m EXCEPT !.epoch = k]
<1>1. /\ m \in MasterFields /\ MasterSound(m) /\ h \in MasterFields
      /\ role \in [Instance -> Instance \cup {Nothing}] /\ stuck \in BOOLEAN
  BY SentinelFacts DEF FailoverInv, SfTypeOK
<1>2. sen' = [sen EXCEPT ![s] = n] /\ UNCHANGED <<role, used, stuck>>
  <2>1. [m EXCEPT !.epoch = IF h.epoch > @ THEN h.epoch ELSE @] = n
    BY <1>1 DEF MasterFields
  <2>2. stuck' = stuck
    BY <1>1 DEF ReceiveHello
  <2>. QED
    BY <2>1, <2>2 DEF ReceiveHello
<1>3. k \in 0 .. LastEpoch
  BY <1>1 DEF MasterFields
<1> HIDE DEF k
<1>4. /\ n \in MasterFields /\ n.config_epoch = m.config_epoch /\ n.addr = m.addr
      /\ n.state = m.state /\ n.failover_epoch = m.failover_epoch /\ n.promoted = m.promoted
      /\ n.flags = m.flags
  BY <1>1, <1>3 DEF MasterFields
<1>5. MasterSound(n)
  BY <1>1, <1>4 DEF MasterSound
<1>6. Follows(s, n)
  BY <1>4, <1>5 DEF Follows, CurrentAddress
<1>. QED
  BY <1>1, <1>2, <1>6, FollowsKeeps

LEMMA FailoverInvInit == SfInit => FailoverInv
<1> SUFFICES ASSUME SfInit PROVE FailoverInv
  OBVIOUS
<1>1. SfTypeOK
  <2> DEFINE m == [addr |-> First, config_epoch |-> 0, epoch |-> 0, state |-> "NONE",
                   failover_epoch |-> 0, promoted |-> Nothing, flags |-> NoFlags]
  <2>1. 0 \in 0 .. LastEpoch
    BY FailoverAssumption
  <2>2. NoFlags \in [Instance -> Flags]
    BY DEF NoFlags, Flags
  <2>3. m \in MasterFields
    BY <2>1, <2>2, FailoverAssumption DEF MasterFields, States
  <2>4. sen = [s \in Overseer |-> m]
    BY DEF SfInit
  <2> HIDE DEF m
  <2>5. sen \in [Overseer -> MasterFields]
    BY <2>3, <2>4
  <2>6. role \in [Instance -> Instance \cup {Nothing}] /\ used \subseteq 1 .. LastEpoch /\ stuck \in BOOLEAN
    BY FailoverAssumption DEF SfInit
  <2>. QED
    BY <2>5, <2>6 DEF SfTypeOK, MasterFields
<1>2. \A s \in Overseer : MasterSound(sen[s])
  BY FailoverAssumption DEF SfInit, MasterSound
<1>3. ConfigsWon /\ FailoverWon /\ FailoversApart /\ EpochUnspent
  BY DEF SfInit, ConfigsWon, FailoverWon, FailoversApart, EpochUnspent, Leading
<1>4. OneMasterPerConfigEpoch
  BY DEF SfInit, OneMasterPerConfigEpoch, CurrentAddress
<1>. QED
  BY <1>1, <1>2, <1>3, <1>4 DEF FailoverInv

LEMMA FailoverInvStep == FailoverInv /\ [SfNext]_sfvars => FailoverInv'
<1> SUFFICES ASSUME FailoverInv, [SfNext]_sfvars PROVE FailoverInv'
  OBVIOUS
<1>1. ASSUME NEW s \in Overseer, Elected(s) \/ StateMachine(s) \/ Reboot(s)
      PROVE  FailoverInv'
  BY <1>1, ElectedKeeps, StateMachineKeeps, RebootKeeps
<1>2. ASSUME NEW s \in Overseer, NEW expired \in SUBSET Instance, NEW to \in SUBSET Instance,
             ReconfSlaves(s, expired, to)
      PROVE  FailoverInv'
  BY <1>2, ReconfKeeps
<1>3. ASSUME NEW s \in Overseer, NEW i \in Instance, Info(s, i)
      PROVE  FailoverInv'
  BY <1>3, InfoKeeps
<1>4. ASSUME NEW s \in Overseer, NEW t \in Overseer, ReceiveHello(s, t)
      PROVE  FailoverInv'
  BY <1>4, NewerHelloKeeps, OtherHelloKeeps
<1>5. CASE UNCHANGED sfvars
  <2>1. UNCHANGED <<sen, role, used, stuck>>
    BY <1>5 DEF sfvars
  <2>2. SfTypeOK' /\ (\A s \in Overseer : MasterSound(sen[s]))'
    BY <2>1 DEF FailoverInv, SfTypeOK, MasterSound, NoFlags
  <2>3. (ConfigsWon /\ FailoverWon /\ FailoversApart /\ EpochUnspent)'
    BY <2>1 DEF FailoverInv, ConfigsWon, FailoverWon, FailoversApart, EpochUnspent
  <2>4. OneMasterPerConfigEpoch'
    BY <2>1 DEF FailoverInv, OneMasterPerConfigEpoch, CurrentAddress
  <2>. QED
    BY <2>2, <2>3, <2>4 DEF FailoverInv
<1>. QED
  BY <1>1, <1>2, <1>3, <1>4, <1>5 DEF SfNext

LEMMA FailoverInvUse == FailoverInv => SentinelsAgree
<1> SUFFICES ASSUME FailoverInv PROVE PromotedWhenUsed
  BY DEF FailoverInv, SentinelsAgree
<1>1. ASSUME NEW s \in Overseer
      PROVE  InProgress(sen[s]) # {} => sen[s].state = "RECONF_SLAVES"
  BY DEF FailoverInv, MasterSound, InProgress, NoFlags, Slaves
<1>. QED
  BY <1>1 DEF FailoverInv, MasterSound, PromotedWhenUsed

\* Among any number of Sentinels and instances, whatever hellos and SLAVEOFs are lost and
\* whoever restarts: a configuration epoch names one master (as long as no Sentinel took
\* an epoch without its address), and no Sentinel reads a promoted_slave it does not have
\* (sentinelFailoverStateMachine, sentinelProcessHelloMessage, sentinelRefreshInstanceInfo).
THEOREM SentinelsAgreed == SfSpec => []SentinelsAgree
<1>1. SfInit => FailoverInv
  BY FailoverInvInit
<1>2. FailoverInv /\ [SfNext]_sfvars => FailoverInv'
  BY FailoverInvStep
<1>3. FailoverInv => SentinelsAgree
  BY FailoverInvUse
<1>. QED
  BY <1>1, <1>2, <1>3, PTL DEF SfSpec
=============================================================================
