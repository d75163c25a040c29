----------------------- MODULE FailureDetectionProofs -----------------------
(***************************************************************************)
(* Proofs about FailureDetection, for any number of masters, any node timeout*)
(* and whatever links are cut: a master cut off from the majority stops, and*)
(* FAIL takes the reports of a majority.                                   *)
(***************************************************************************)
EXTENDS FailureDetection, FiniteSetTheorems, TLAPS

FlagNames == {"ok", "pfail", "fail"}

Typed ==
  /\ view \in [FMaster -> [FMaster -> FlagNames]]
  /\ quiet \in [FMaster -> [FMaster -> Nat]]
  /\ ping \in [FMaster -> [FMaster -> Nat \cup {Never}]]
  /\ report \in [FMaster -> [FMaster -> [FMaster -> Nat]]]
  /\ cstate \in [FMaster -> {"ok", "fail"}]
  /\ suspect \in [FMaster -> [FMaster -> Nat]]
  /\ alone \in [FMaster -> Nat]

\* Half a timeout: how long a link is silent before a ping is sent.
Half == T \div 2

\* The masters n has no link to.
Unreached(n) == {m \in FMaster : m # n /\ ~Up(n, m)}

\* clusterUpdateState ran since the flags last changed: a node whose flags leave it
\* without a majority does not serve.
StoppedByFlags == \A n \in FMaster : Reachable(n, view[n]) < Quorum => cstate[n] = "fail"

AloneCounts == \A n \in FMaster : ReachesMajority(n) => alone[n] = 0

\* How far n has got with a node it has no link to: nothing is heard, then a ping is
\* pending, then the node is flagged.
Silent(n, m) ==
  /\ quiet[n][m] >= alone[n] \/ quiet[n][m] > T
  /\ alone[n] > Half + 1 \/ (alone[n] = Half + 1 /\ n \in ran)
       => ping[n][m] # Never /\ (ping[n][m] + Half + 1 >= alone[n] \/ ping[n][m] > T)
  /\ alone[n] > Half + T + 2 \/ (alone[n] = Half + T + 2 /\ n \in ran)
       => view[n][m] # "ok"

\* The masters n has been cut off from all the time are too many for a majority to be left.
CutOff ==
  \A n \in FMaster : ~ReachesMajority(n)
    => \E D \in SUBSET Unreached(n) :
         /\ Cardinality(FMaster) - Cardinality(D) < Quorum
         /\ \A m \in D : Silent(n, m)

\* Who flags a node suspects it now, ...
SuspectNow == \A r, m \in FMaster : view[r][m] # "ok" => suspect[r][m] = 0

\* ... and who is on record as having reported it, another node, suspected it since.
ReportBacked ==
  \A n, m, r \in FMaster :
    report[n][m][r] <= Validity => r # n /\ suspect[r][m] <= report[n][m][r]

\* The inductive invariant.
DetectionInv ==
  Typed /\ StoppedByFlags /\ AloneCounts /\ CutOff /\ SuspectNow /\ ReportBacked

-----------------------------------------------------------------------------
LEMMA HalfFacts == /\ T \in Nat /\ Half \in Nat /\ Half <= T
                   /\ Validity \in Nat /\ Old \in Nat /\ Old > Validity
                   /\ Long \in Nat /\ Long = Validity + Half + 2 /\ Long >= Half + T + 2
                   /\ Quorum \in Nat /\ Never \notin Nat /\ Cardinality(FMaster) \in Nat
                   /\ FMaster # {} => Quorum <= Cardinality(FMaster)
<1>1. T \in Nat /\ Cardinality(FMaster) \in Nat
  BY FdAssumption, FS_CardinalityType
<1>2. Half \in Nat /\ Half <= T
  BY <1>1 DEF Half
<1>3. FMaster # {} => Cardinality(FMaster) # 0
  BY FdAssumption, FS_EmptySet
<1>4. Quorum \in Nat /\ (FMaster # {} => Quorum <= Cardinality(FMaster))
  BY <1>1, <1>3 DEF Quorum
<1>5. Validity \in Nat /\ Old \in Nat /\ Old > Validity /\ Validity >= T
  BY <1>1 DEF Validity, Old
<1>6. Long = Validity + Half + 2
  BY DEF Long, Half
<1>7. Long \in Nat /\ Long >= Half + T + 2
  BY <1>1, <1>2, <1>5, <1>6
<1>8. Never \notin Nat
  BY DEF Never
<1>. QED
  BY <1>1, <1>2, <1>4, <1>5, <1>6, <1>7, <1>8

\* Ages grow by at most one, and no further than needed.
LEMMA OlderFacts ==
  ASSUME NEW a \in Nat, NEW last \in Nat
  PROVE  /\ Older(a, last) \in Nat
         /\ Older(a, last) = IF a >= last THEN a ELSE a + 1
BY DEF Older, Never

\* What is left of the masters without those of D.
LEMMA WithoutThem ==
  ASSUME NEW D \in SUBSET FMaster, NEW S \in SUBSET FMaster, D \cap S = {}
  PROVE  /\ IsFiniteSet(S) /\ IsFiniteSet(D)
         /\ Cardinality(S) \in Nat /\ Cardinality(D) \in Nat
         /\ Cardinality(S) <= Cardinality(FMaster) - Cardinality(D)
<1>1. IsFiniteSet(FMaster) /\ Cardinality(FMaster) \in Nat
  BY FdAssumption, FS_CardinalityType
<1>2. IsFiniteSet(D) /\ IsFiniteSet(S) /\ Cardinality(D) \in Nat /\ Cardinality(S) \in Nat
  BY <1>1, FS_Subset, FS_CardinalityType
<1>3. Cardinality(D \cup S) = Cardinality(D) + Cardinality(S)
  BY <1>2, FS_Union, FS_EmptySet
<1>4. Cardinality(D \cup S) <= Cardinality(FMaster)
  BY <1>1, FS_Subset
<1>. QED
  BY <1>1, <1>2, <1>3, <1>4

\* Who reaches no majority has no link to too many.
LEMMA UnreachedMany ==
  ASSUME NEW n \in FMaster, ~ReachesMajority(n)
  PROVE  Cardinality(FMaster) - Cardinality(Unreached(n)) < Quorum
<1> DEFINE S == {m \in FMaster : m = n \/ Up(n, m)}
<1>1. IsFiniteSet(FMaster) /\ Cardinality(FMaster) \in Nat /\ Quorum \in Nat
  BY FdAssumption, FS_CardinalityType, HalfFacts
<1>2. Unreached(n) = FMaster \ S /\ S \subseteq FMaster
  BY DEF Unreached
<1>3. Cardinality(FMaster \ S) = Cardinality(FMaster) - Cardinality(FMaster \cap S)
  BY <1>1, FS_Difference
<1>4. FMaster \cap S = S
  OBVIOUS
<1>5. Cardinality(S) \in Nat
  BY <1>1, FS_Subset, FS_CardinalityType
<1>6. ~(Cardinality(S) >= Quorum)
  BY DEF ReachesMajority
<1> HIDE DEF S
<1>. QED
  BY <1>1, <1>2, <1>3, <1>4, <1>5, <1>6

\* The invariant says of a step that leaves the links and the count of ticks alone what it
\* takes to keep CutOff: to hear nothing, to keep pings pending and flags set where no
\* link is.
LEMMA CutOffKept ==
  ASSUME CutOff, UNCHANGED <<cut, alone>>,
         \A n \in FMaster : \A m \in Unreached(n) : Silent(n, m) => Silent(n, m)'
  PROVE  CutOff'
<1>1. \A n \in FMaster : ReachesMajority(n)' <=> ReachesMajority(n)
  BY DEF ReachesMajority, Up
<1>2. \A n \in FMaster : Unreached(n)' = Unreached(n)
  BY DEF Unreached, Up
<1> SUFFICES ASSUME NEW n \in FMaster, ~ReachesMajority(n)
             PROVE  \E D \in SUBSET Unreached(n) :
                       /\ Cardinality(FMaster) - Cardinality(D) < Quorum
                       /\ \A m \in D : Silent(n, m)'
  BY <1>1, <1>2 DEF CutOff
<1>3. PICK D \in SUBSET Unreached(n) :
         /\ Cardinality(FMaster) - Cardinality(D) < Quorum
         /\ \A m \in D : Silent(n, m)
  BY DEF CutOff
<1>. QED
  BY <1>3

\* clusterUpdateState with flags that leave no majority.
LEMMA StateOfMinority ==
  ASSUME NEW n \in FMaster, NEW v, Reachable(n, v) < Quorum
  PROVE  StateOf(n, v) = "fail"
BY DEF StateOf, NewState

LEMMA StateOfType ==
  ASSUME Typed, NEW n \in FMaster, NEW v
  PROVE  StateOf(n, v) \in {"ok", "fail"}
BY DEF StateOf, NewState, Typed

\* clusterCron.
LEMMA CronKeeps ==
  ASSUME DetectionInv, NEW n \in FMaster, Cron(n)
  PROVE  DetectionInv'
<1>1. PICK early \in SUBSET {m \in Peers(n) : ping[n][m] = Never /\ ~Up(n, m)} :
        LET sent == [m \in FMaster |-> IF m = n \/ ping[n][m] # Never THEN ping[n][m]
                                       ELSE IF m \in early \/ quiet[n][m] > T \div 2 THEN 0 ELSE Never]
            v == [m \in FMaster |-> IF m # n /\ TimedOut(n, m, sent[m]) THEN "pfail" ELSE view[n][m]]
            update == v # view[n] \/ cstate[n] = "fail"
        IN  /\ n \notin ran /\ ran' = ran \cup {n}
            /\ ping' = [ping EXCEPT ![n] = sent] /\ view' = [view EXCEPT ![n] = v]
            /\ cstate' = [cstate EXCEPT ![n] = IF update THEN StateOf(n, v) ELSE @]
            /\ minority' = [minority EXCEPT ![n] = IF update THEN InMinority(n, v) ELSE @]
            /\ suspect' = [suspect EXCEPT ![n] = [m \in FMaster |-> IF v[m] # "ok" THEN 0 ELSE @[m]]]
            /\ UNCHANGED <<quiet, report, failAge, cut, alone, ncuts>>
  BY DEF Cron
<1> DEFINE sent == [m \in FMaster |-> IF m = n \/ ping[n][m] # Never THEN ping[n][m]
                                       ELSE IF m \in early \/ quiet[n][m] > T \div 2 THEN 0 ELSE Never]
           v == [m \in FMaster |-> IF m # n /\ TimedOut(n, m, sent[m]) THEN "pfail" ELSE view[n][m]]
           new == IF v # view[n] \/ cstate[n] = "fail" THEN StateOf(n, v) ELSE cstate[n]
           sus == [m \in FMaster |-> IF v[m] # "ok" THEN 0 ELSE suspect[n][m]]
<1>2. Typed /\ StoppedByFlags /\ AloneCounts /\ CutOff /\ SuspectNow /\ ReportBacked
  BY DEF DetectionInv
<1>3. /\ n \notin ran /\ ran' = ran \cup {n}
      /\ ping' = [ping EXCEPT ![n] = sent] /\ view' = [view EXCEPT ![n] = v]
      /\ cstate' = [cstate EXCEPT ![n] = new]
      /\ suspect' = [suspect EXCEPT ![n] = sus]
      /\ UNCHANGED <<quiet, report, cut, alone>>
  BY <1>1, <1>2 DEF Typed
<1>4. \A m \in FMaster : /\ sent[m] = IF m = n \/ ping[n][m] # Never THEN ping[n][m]
                                      ELSE IF m \in early \/ quiet[n][m] > Half THEN 0 ELSE Never
                         /\ sent[m] \in Nat \cup {Never}
  BY <1>2 DEF Typed, Half
<1>5. sent \in [FMaster -> Nat \cup {Never}]
  BY <1>4
<1> HIDE DEF sent
<1>6. \A m \in FMaster : /\ v[m] = IF m # n /\ TimedOut(n, m, sent[m]) THEN "pfail" ELSE view[n][m]
                         /\ v[m] \in FlagNames
  BY <1>2 DEF Typed, FlagNames
<1>7. v \in [FMaster -> FlagNames]
  BY <1>6
<1> HIDE DEF v
<1>8. sus \in [FMaster -> Nat] /\ \A m \in FMaster : sus[m] = IF v[m] # "ok" THEN 0 ELSE suspect[n][m]
  BY <1>2 DEF Typed
<1> HIDE DEF sus
<1>9. new \in {"ok", "fail"}
  BY <1>2, StateOfType DEF Typed
<1>10. Reachable(n, v) < Quorum => new = "fail"
  BY <1>2, StateOfMinority DEF StoppedByFlags
<1> HIDE DEF new
<1>11. /\ view'[n] = v /\ ping'[n] = sent /\ cstate'[n] = new /\ suspect'[n] = sus
       /\ \A x \in FMaster : x # n => /\ view'[x] = view[x] /\ ping'[x] = ping[x]
                                      /\ cstate'[x] = cstate[x] /\ suspect'[x] = suspect[x]
  BY <1>2, <1>3 DEF Typed
<1>12. Typed'
  BY <1>2, <1>3, <1>5, <1>7, <1>8, <1>9 DEF Typed
<1>13. StoppedByFlags'
  <2>1. \A x \in FMaster : Reachable(x, view'[x]) < Quorum => cstate'[x] = "fail"
    BY <1>2, <1>10, <1>11 DEF StoppedByFlags
  <2>. QED
    BY <2>1 DEF StoppedByFlags, Reachable, Quorum
<1>14. AloneCounts'
  BY <1>2, <1>3 DEF AloneCounts, ReachesMajority, Up
<1>15. CutOff'
  <2> SUFFICES ASSUME NEW x \in FMaster, NEW m \in Unreached(x), Silent(x, m)
               PROVE  Silent(x, m)'
    BY <1>2, <1>3, CutOffKept
  <2>1. m \in FMaster /\ m # x
    BY DEF Unreached
  <2>2. CASE x # n
    BY <2>1, <2>2, <1>3, <1>11 DEF Silent, Half
  <2>3. CASE x = n
    <3>1. /\ n \notin ran /\ n \in ran' /\ ping'[n][m] = sent[m] /\ view'[n][m] = v[m]
          /\ quiet'[n][m] = quiet[n][m] /\ alone'[n] = alone[n]
      BY <1>3, <1>11
    <3>2. /\ quiet[n][m] \in Nat /\ alone[n] \in Nat /\ ping[n][m] \in Nat \cup {Never}
          /\ T \in Nat /\ Half \in Nat /\ Half <= T /\ Never \notin Nat
      BY <2>1, <1>2, HalfFacts DEF Typed
    <3>3. quiet[n][m] >= alone[n] \/ quiet[n][m] > T
      BY <2>3 DEF Silent
    <3>4. alone[n] > Half + 1 => ping[n][m] # Never /\ (ping[n][m] + Half + 1 >= alone[n] \/ ping[n][m] > T)
      BY <2>3 DEF Silent
    <3>5. alone[n] > Half + T + 2 => view[n][m] # "ok"
      BY <2>3 DEF Silent
    <3>6. alone[n] >= Half + 1
            => sent[m] # Never /\ (sent[m] + Half + 1 >= alone[n] \/ sent[m] > T)
      <4>1. CASE ping[n][m] # Never
        <5>1. sent[m] = ping[n][m] /\ ping[n][m] \in Nat
          BY <4>1, <3>2, <1>4, <2>1
        <5>. QED
          BY <5>1, <3>2, <3>4, <4>1
      <4>2. CASE ping[n][m] = Never
        <5>1. alone[n] >= Half + 1 => alone[n] = Half + 1 /\ quiet[n][m] > Half
          BY <4>2, <3>2, <3>3, <3>4
        <5>2. quiet[n][m] > Half => sent[m] = 0
          BY <4>2, <1>4, <2>1, <2>3
        <5>. QED
          BY <5>1, <5>2, <3>2
      <4>. QED
        BY <4>1, <4>2
    <3>7. alone[n] >= Half + T + 2 => v[m] # "ok"
      <4>1. ASSUME alone[n] >= Half + T + 2, view[n][m] = "ok"
            PROVE  TimedOut(n, m, sent[m])
        <5>1. sent[m] \in Nat \cup {Never}
          BY <1>4, <2>1
        <5>2. sent[m] # Never /\ (sent[m] + Half + 1 >= alone[n] \/ sent[m] > T)
          BY <4>1, <3>2, <3>6
        <5>3. sent[m] > T /\ quiet[n][m] > T
          BY <5>1, <5>2, <4>1, <3>2, <3>3
        <5>. QED
          BY <5>2, <5>3, <4>1 DEF TimedOut
      <4>. QED
        BY <4>1, <1>6, <2>1, <2>3
    <3>8. /\ alone'[n] > Half + 1 \/ (alone'[n] = Half + 1 /\ n \in ran') => alone[n] >= Half + 1
          /\ alone'[n] > Half + T + 2 \/ (alone'[n] = Half + T + 2 /\ n \in ran') => alone[n] >= Half + T + 2
      BY <3>1, <3>2
    <3>9. Half' = Half
      BY DEF Half
    <3>. QED
      BY <3>1, <3>3, <3>6, <3>7, <3>8, <3>9, <2>3 DEF Silent
  <2>. QED
    BY <2>2, <2>3
<1>16. SuspectNow'
  BY <1>2, <1>8, <1>11 DEF SuspectNow
<1>17. ReportBacked'
  <2>1. \A r, m \in FMaster : suspect'[r][m] <= suspect[r][m] /\ suspect'[r][m] \in Nat /\ suspect[r][m] \in Nat
    <3>1. \A r, m \in FMaster : suspect[r][m] \in Nat
      BY <1>2 DEF Typed
    <3>2. ASSUME NEW r \in FMaster, NEW m \in FMaster
          PROVE  suspect'[r][m] = 0 \/ suspect'[r][m] = suspect[r][m]
      BY <1>8, <1>11
    <3>. QED
      BY <3>1, <3>2
  <2>2. \A a, b, c \in FMaster : report[a][b][c] \in Nat
    BY <1>2 DEF Typed
  <2>. QED
    BY <2>1, <2>2, <1>2, <1>3 DEF ReportBacked, Validity
<1>. QED
  BY <1>12, <1>13, <1>14, <1>15, <1>16, <1>17 DEF DetectionInv

\* A tick.
LEMMA TickKeeps ==
  ASSUME DetectionInv, Tick
  PROVE  DetectionInv'
<1>1. Typed /\ StoppedByFlags /\ AloneCounts /\ CutOff /\ SuspectNow /\ ReportBacked
  BY DEF DetectionInv
<1>2. /\ T \in Nat /\ Half \in Nat /\ Half <= T /\ Validity \in Nat /\ Old \in Nat /\ Old > Validity
      /\ Long \in Nat /\ Long = Validity + Half + 2 /\ Long >= Half + T + 2 /\ Never \notin Nat
      /\ T + 1 \in Nat
  BY HalfFacts
<1>3. /\ ran = FMaster /\ ran' = {} /\ UNCHANGED <<view, cstate, cut>>
      /\ quiet' = [n \in FMaster |-> [m \in FMaster |-> IF n = m THEN 0 ELSE Older(quiet[n][m], T + 1)]]
      /\ ping' = [n \in FMaster |-> [m \in FMaster |-> Older(ping[n][m], T + 1)]]
      /\ report' = [n \in FMaster |-> [m \in FMaster |-> [r \in FMaster |-> Older(report[n][m][r], Old)]]]
      /\ suspect' = [n \in FMaster |-> [m \in FMaster |-> IF view[n][m] # "ok" THEN 0 ELSE Older(suspect[n][m], Long)]]
      /\ alone' = [n \in FMaster |-> IF ReachesMajority(n) THEN 0 ELSE Older(alone[n], Long)]
  BY DEF Tick
<1>4. \A n, m \in FMaster : /\ quiet[n][m] \in Nat /\ ping[n][m] \in Nat \cup {Never}
                            /\ suspect[n][m] \in Nat /\ alone[n] \in Nat
                            /\ \A r \in FMaster : report[n][m][r] \in Nat
  BY <1>1 DEF Typed
<1>5. \A n, m \in FMaster : /\ quiet'[n][m] = IF n = m THEN 0 ELSE Older(quiet[n][m], T + 1)
                            /\ quiet'[n][m] \in Nat
  BY <1>2, <1>3, <1>4, OlderFacts
<1>6. \A n, m \in FMaster : ping'[n][m] = Older(ping[n][m], T + 1)
  BY <1>3
<1>7. \A n, m \in FMaster : ping'[n][m] \in Nat \cup {Never}
  <2> SUFFICES ASSUME NEW n \in FMaster, NEW m \in FMaster
               PROVE  Older(ping[n][m], T + 1) \in Nat \cup {Never}
    BY <1>6
  <2>1. CASE ping[n][m] = Never
    BY <2>1 DEF Older
  <2>2. CASE ping[n][m] \in Nat
    BY <2>2, <1>2, OlderFacts
  <2>. QED
    BY <2>1, <2>2, <1>4
<1>8. \A n, m, r \in FMaster : /\ report'[n][m][r] = Older(report[n][m][r], Old)
                               /\ report'[n][m][r] \in Nat
  BY <1>2, <1>3, <1>4, OlderFacts
<1>9. \A n, m \in FMaster : /\ suspect'[n][m] = IF view[n][m] # "ok" THEN 0 ELSE Older(suspect[n][m], Long)
                            /\ suspect'[n][m] \in Nat
  BY <1>2, <1>3, <1>4, OlderFacts
<1>10. \A n \in FMaster : /\ alone'[n] = IF ReachesMajority(n) THEN 0 ELSE Older(alone[n], Long)
                          /\ alone'[n] \in Nat
  BY <1>2, <1>3, <1>4, OlderFacts
<1>11. Typed'
  <2>1. quiet' \in [FMaster -> [FMaster -> Nat]]
    BY <1>3, <1>5
  <2>2. ping' \in [FMaster -> [FMaster -> Nat \cup {Never}]]
    BY <1>3, <1>7
  <2>3. report' \in [FMaster -> [FMaster -> [FMaster -> Nat]]]
    BY <1>3, <1>8
  <2>4. suspect' \in [FMaster -> [FMaster -> Nat]] /\ alone' \in [FMaster -> Nat]
    BY <1>3, <1>9, <1>10
  <2>. QED
    BY <1>1, <1>3, <2>1, <2>2, <2>3, <2>4 DEF Typed
<1>12. StoppedByFlags'
  BY <1>1, <1>3 DEF StoppedByFlags, Reachable, Quorum
<1>13. \A n \in FMaster : ReachesMajority(n)' <=> ReachesMajority(n)
  BY <1>3 DEF ReachesMajority, Up
<1>14. AloneCounts'
  BY <1>10, <1>13 DEF AloneCounts
<1>15. SuspectNow'
  BY <1>3, <1>9 DEF SuspectNow
<1>16. ReportBacked'
  <2> SUFFICES ASSUME NEW n \in FMaster, NEW m \in FMaster, NEW r \in FMaster,
                      report'[n][m][r] <= Validity
               PROVE  r # n /\ suspect'[r][m] <= report'[n][m][r]
    BY DEF ReportBacked, Validity
  <2> DEFINE a == report[n][m][r]
             b == suspect[r][m]
  <2>1. a \in Nat /\ b \in Nat /\ report'[n][m][r] = Older(a, Old)
        /\ suspect'[r][m] = IF view[r][m] # "ok" THEN 0 ELSE Older(b, Long)
    BY <1>4, <1>8, <1>9
  <2>2. a <= Validity => r # n /\ b <= a
    BY <1>1 DEF ReportBacked
  <2> HIDE DEF a, b
  <2>3. Older(a, Old) = (IF a >= Old THEN a ELSE a + 1) /\ Older(b, Long) = IF b >= Long THEN b ELSE b + 1
    BY <2>1, <1>2, OlderFacts
  <2>4. a < Validity /\ report'[n][m][r] = a + 1
    BY <2>1, <2>3, <1>2
  <2>5. Older(b, Long) <= a + 1 /\ 0 <= a + 1
    BY <2>1, <2>2, <2>3, <2>4, <1>2
  <2>. QED
    BY <2>1, <2>2, <2>4, <2>5, <1>2
<1>17. CutOff'
  <2>1. \A n \in FMaster : Unreached(n)' = Unreached(n)
    BY <1>3 DEF Unreached, Up
  <2> SUFFICES ASSUME NEW n \in FMaster, ~ReachesMajority(n)
               PROVE  \E D \in SUBSET Unreached(n) :
                         /\ Cardinality(FMaster) - Cardinality(D) < Quorum
                         /\ \A m \in D : Silent(n, m)'
    BY <1>13, <2>1 DEF CutOff
  <2>2. PICK D \in SUBSET Unreached(n) :
           /\ Cardinality(FMaster) - Cardinality(D) < Quorum
           /\ \A m \in D : Silent(n, m)
    BY <1>1 DEF CutOff
  <2> SUFFICES ASSUME NEW m \in D PROVE Silent(n, m)'
    BY <2>2
  <2>3. m \in FMaster /\ m # n /\ Silent(n, m) /\ n \in ran /\ n \notin ran'
    BY <2>2, <1>3 DEF Unreached
  <2> DEFINE a == alone[n]
             q == quiet[n][m]
             p == ping[n][m]
  <2>4. a \in Nat /\ q \in Nat /\ p \in Nat \cup {Never} /\ T + 1 \in Nat
    BY <1>2, <1>4, <2>3
  <2>5. /\ q >= a \/ q > T
        /\ a >= Half + 1 => p # Never /\ (p + Half + 1 >= a \/ p > T)
        /\ a >= Half + T + 2 => view[n][m] # "ok"
    BY <2>3, <2>4, <1>2 DEF Silent
  <2>6. /\ alone'[n] = Older(a, Long) /\ quiet'[n][m] = Older(q, T + 1)
        /\ ping'[n][m] = Older(p, T + 1) /\ view'[n][m] = view[n][m]
    BY <1>3, <1>5, <1>6, <1>10, <2>3
  <2> HIDE DEF a, q, p
  <2>7. /\ Older(a, Long) = IF a >= Long THEN a ELSE a + 1
        /\ Older(q, T + 1) = IF q >= T + 1 THEN q ELSE q + 1
        /\ p # Never => p \in Nat /\ Older(p, T + 1) = IF p >= T + 1 THEN p ELSE p + 1
    BY <1>2, <2>4, OlderFacts
  <2>8. Older(q, T + 1) >= Older(a, Long) \/ Older(q, T + 1) > T
    BY <2>4, <2>5, <2>7, <1>2
  <2>9. Older(a, Long) > Half + 1 => a >= Half + 1
    BY <2>4, <2>7, <1>2
  <2>10. Older(a, Long) > Half + 1
          => Older(p, T + 1) # Never
             /\ (Older(p, T + 1) + Half + 1 >= Older(a, Long) \/ Older(p, T + 1) > T)
    BY <2>4, <2>5, <2>7, <2>9, <1>2
  <2>11. Older(a, Long) > Half + T + 2 => view[n][m] # "ok"
    BY <2>4, <2>5, <2>7, <1>2
  <2>12. Half' = Half
    BY DEF Half
  <2>. QED
    BY <2>3, <2>6, <2>8, <2>10, <2>11, <2>12 DEF Silent
<1>. QED
  BY <1>11, <1>12, <1>14, <1>15, <1>16, <1>17 DEF DetectionInv

\* A node that has not been alone for a tick has nothing to show for it.
LEMMA NotYetSilent ==
  ASSUME Typed, NEW n \in FMaster, NEW m \in FMaster, alone[n] = 0
  PROVE  Silent(n, m)
BY HalfFacts DEF Typed, Silent

\* Links going down.
LEMMA CutKeeps ==
  ASSUME DetectionInv, Cut
  PROVE  DetectionInv'
<1>1. Typed /\ StoppedByFlags /\ AloneCounts /\ CutOff /\ SuspectNow /\ ReportBacked
  BY DEF DetectionInv
<1>2. cut \subseteq cut' /\ UNCHANGED <<view, quiet, ping, report, cstate, ran, suspect, alone>>
  BY DEF Cut
<1>3. Typed' /\ SuspectNow' /\ ReportBacked' /\ StoppedByFlags'
  BY <1>1, <1>2 DEF Typed, SuspectNow, ReportBacked, StoppedByFlags, Reachable, Quorum, Validity
<1>4. \A n \in FMaster : ReachesMajority(n)' => ReachesMajority(n)
  <2> SUFFICES ASSUME NEW n \in FMaster, ReachesMajority(n)' PROVE ReachesMajority(n)
    OBVIOUS
  <2> DEFINE S == {m \in FMaster : m = n \/ {n, m} \notin cut}
             R == {m \in FMaster : m = n \/ {n, m} \notin cut'}
  <2>1. R \subseteq S /\ S \subseteq FMaster
    BY <1>2
  <2>2. IsFiniteSet(S) /\ IsFiniteSet(R)
    BY <2>1, FdAssumption, FS_Subset
  <2>3. Cardinality(R) <= Cardinality(S) /\ Cardinality(R) \in Nat /\ Cardinality(S) \in Nat
    BY <2>1, <2>2, FS_Subset, FS_CardinalityType
  <2>4. Cardinality(R) >= Quorum
    BY DEF ReachesMajority, Up
  <2> HIDE DEF R, S
  <2>5. Cardinality(S) >= Quorum
    BY <2>3, <2>4, HalfFacts
  <2>. QED
    BY <2>5 DEF ReachesMajority, Up, S
<1>5. AloneCounts'
  BY <1>1, <1>2, <1>4 DEF AloneCounts
<1>6. \A n \in FMaster : Unreached(n) \subseteq Unreached(n)'
  BY <1>2 DEF Unreached, Up
<1>7. \A n, m \in FMaster : Silent(n, m)' <=> Silent(n, m)
  BY <1>2 DEF Silent, Half
<1>8. CutOff'
  <2> SUFFICES ASSUME NEW n \in FMaster, ~ReachesMajority(n)'
               PROVE  \E D \in SUBSET Unreached(n)' :
                         /\ Cardinality(FMaster) - Cardinality(D) < Quorum
                         /\ \A m \in D : Silent(n, m)
    BY <1>7 DEF CutOff, Unreached
  <2>1. CASE ~ReachesMajority(n)
    BY <2>1, <1>1, <1>6 DEF CutOff
  <2>2. CASE ReachesMajority(n)
    <3>1. \A m \in Unreached(n)' : Silent(n, m)
      BY <2>2, <1>1, NotYetSilent DEF AloneCounts, Unreached
    <3>2. Cardinality(FMaster) - Cardinality(Unreached(n)') < Quorum
      <4> DEFINE S == {m \in FMaster : m = n \/ {n, m} \notin cut'}
      <4>1. Unreached(n)' = FMaster \ S /\ S \subseteq FMaster
        BY DEF Unreached, Up
      <4>2. Cardinality(FMaster \ S) = Cardinality(FMaster) - Cardinality(FMaster \cap S)
        BY FdAssumption, FS_Difference
      <4>3. FMaster \cap S = S
        OBVIOUS
      <4>4. Cardinality(S) \in Nat
        BY FdAssumption, FS_Subset, FS_CardinalityType
      <4>5. ~(Cardinality(S) >= Quorum)
        BY DEF ReachesMajority, Up
      <4> HIDE DEF S
      <4>. QED
        BY <4>1, <4>2, <4>3, <4>4, <4>5, HalfFacts
    <3>. QED
      BY <3>1, <3>2
  <2>. QED
    BY <2>1, <2>2
<1>. QED
  BY <1>3, <1>5, <1>8 DEF DetectionInv

\* All links come back: everyone reaches everyone.
LEMMA HealKeeps ==
  ASSUME DetectionInv, Heal
  PROVE  DetectionInv'
<1>1. Typed /\ StoppedByFlags /\ SuspectNow /\ ReportBacked
  BY DEF DetectionInv
<1>2. /\ cut' = {} /\ alone' = [n \in FMaster |-> 0]
      /\ UNCHANGED <<view, quiet, ping, report, cstate, ran, suspect>>
  BY DEF Heal
<1>3. Typed' /\ SuspectNow' /\ ReportBacked' /\ StoppedByFlags'
  BY <1>1, <1>2 DEF Typed, SuspectNow, ReportBacked, StoppedByFlags, Reachable, Quorum, Validity
<1>4. AloneCounts'
  BY <1>2 DEF AloneCounts
<1>5. \A n \in FMaster : ReachesMajority(n)'
  <2> SUFFICES ASSUME NEW n \in FMaster PROVE ReachesMajority(n)'
    OBVIOUS
  <2>1. {m \in FMaster : m = n \/ {n, m} \notin cut'} = FMaster
    BY <1>2
  <2>2. Cardinality(FMaster) >= Quorum
    BY HalfFacts
  <2>. QED
    BY <2>1, <2>2 DEF ReachesMajority, Up
<1>6. CutOff'
  BY <1>5 DEF CutOff
<1>. QED
  BY <1>3, <1>4, <1>6 DEF DetectionInv

\* What a gossip section may do to the flags of its reader: make a PFAIL a FAIL, with the
\* reports of a majority.
LEMMA GossipFlags ==
  ASSUME NEW x \in FMaster, NEW s \in FMaster, NEW v \in [FMaster -> FlagNames]
  PROVE  /\ AfterGossip(x, s, v) \in [FMaster -> FlagNames]
         /\ \A y \in FMaster :
              \/ AfterGossip(x, s, v)[y] = v[y]
              \/ /\ AfterGossip(x, s, v)[y] = "fail" /\ y # x /\ y # s /\ view[s][y] # "ok"
                 /\ FailureQuorum(x, y, v[y], Reported(x, s, y))
BY DEF AfterGossip, FlagNames

\* An answer clears no flag but the answering node's, and sets none.
LEMMA PongFlags ==
  ASSUME Typed, NEW x \in FMaster, NEW s \in FMaster
  PROVE  /\ AfterPong(x, s) \in [FMaster -> FlagNames]
         /\ \A y \in FMaster : y # s => AfterPong(x, s)[y] = view[x][y]
         /\ AfterPong(x, s)[s] \in {"ok", view[x][s]}
BY DEF AfterPong, Typed, FlagNames

\* Why a node is marked FAIL by x reading the section of s: the section flags it, x has
\* it as PFAIL and holds reports of enough others.
Justified(x, s, y) ==
  /\ y # x /\ y # s /\ view[s][y] # "ok" /\ view[x][y] = "pfail"
  /\ Cardinality({r \in FMaster : Reported(x, s, y)[r] <= Validity}) + 1 >= Quorum

\* The flags after a PING and its PONG, and the FAIL messages they cause.
LEMMA ExchangeFlags ==
  ASSUME Typed, NEW n \in FMaster, NEW m \in FMaster, Exchange(n, m)
  PROVE  /\ view' \in [FMaster -> [FMaster -> FlagNames]]
         /\ \A z, y \in FMaster : view'[z][y] = "ok" => view[z][y] = "ok" \/ (z = n /\ y = m)
         /\ \A z, y \in FMaster : view'[z][y] = "fail" /\ (\A x \in FMaster : view[x][y] # "fail")
              => Justified(m, n, y) \/ Justified(n, m, y)
         /\ \A z \in FMaster : cstate'[z] = IF view'[z] # view[z] THEN StateOf(z, view'[z]) ELSE cstate[z]
         /\ suspect' = [z \in FMaster |-> [y \in FMaster |-> IF view'[z][y] # "ok" THEN 0 ELSE suspect[z][y]]]
         /\ cstate' \in [FMaster -> {"ok", "fail"}]
<1> DEFINE atM == AfterGossip(m, n, view[m])
           atN == AfterGossip(n, m, AfterPong(n, m))
           new(x) == IF x = m THEN atM ELSE IF x = n THEN atN ELSE view[x]
           failing(x) == {y \in FMaster : new(x)[y] = "fail" /\ view[x][y] # "fail"}
           told(z) == UNION {IF x # z /\ Up(x, z) THEN failing(x) ELSE {} : x \in {n, m}}
           final == [z \in FMaster |-> [y \in FMaster |-> IF y # z /\ y \in told(z) THEN "fail" ELSE new(z)[y]]]
<1>1. /\ n # m /\ view' = final
      /\ cstate' = [z \in FMaster |-> IF final[z] # view[z] THEN StateOf(z, final[z]) ELSE cstate[z]]
      /\ suspect' = [z \in FMaster |-> [y \in FMaster |-> IF final[z][y] # "ok" THEN 0 ELSE suspect[z][y]]]
  BY DEF Exchange
<1>2. \A z \in FMaster : view[z] \in [FMaster -> FlagNames]
  BY DEF Typed
<1>3. atM \in [FMaster -> FlagNames] /\ \A y \in FMaster : atM[y] = view[m][y] \/ (atM[y] = "fail" /\ Justified(m, n, y))
  <2>1. \A y \in FMaster : FailureQuorum(m, y, view[m][y], Reported(m, n, y))
           => view[m][y] = "pfail" /\ Cardinality({r \in FMaster : Reported(m, n, y)[r] <= Validity}) + 1 >= Quorum
    BY DEF FailureQuorum
  <2>2. /\ atM \in [FMaster -> FlagNames]
        /\ \A y \in FMaster :
              \/ atM[y] = view[m][y]
              \/ /\ atM[y] = "fail" /\ y # m /\ y # n /\ view[n][y] # "ok"
                 /\ FailureQuorum(m, y, view[m][y], Reported(m, n, y))
    BY <1>2, GossipFlags
  <2> HIDE DEF atM
  <2>. QED
    BY <2>1, <2>2 DEF Justified
<1>4. atN \in [FMaster -> FlagNames]
      /\ \A y \in FMaster : \/ atN[y] = view[n][y]
                            \/ y = m /\ atN[y] = "ok"
                            \/ atN[y] = "fail" /\ Justified(n, m, y)
  <2> DEFINE v == AfterPong(n, m)
  <2>1. /\ v \in [FMaster -> FlagNames] /\ v[m] \in {"ok", view[n][m]}
        /\ \A y \in FMaster : y # m => v[y] = view[n][y]
    BY PongFlags
  <2> HIDE DEF v
  <2>2. \A y \in FMaster : FailureQuorum(n, y, v[y], Reported(n, m, y))
           => v[y] = "pfail" /\ Cardinality({r \in FMaster : Reported(n, m, y)[r] <= Validity}) + 1 >= Quorum
    BY DEF FailureQuorum
  <2>3. /\ AfterGossip(n, m, v) \in [FMaster -> FlagNames]
        /\ \A y \in FMaster :
              \/ AfterGossip(n, m, v)[y] = v[y]
              \/ /\ AfterGossip(n, m, v)[y] = "fail" /\ y # n /\ y # m /\ view[m][y] # "ok"
                 /\ FailureQuorum(n, y, v[y], Reported(n, m, y))
    BY <2>1, GossipFlags
  <2>4. atN = AfterGossip(n, m, v)
    BY DEF v
  <2>. QED
    BY <2>1, <2>2, <2>3, <2>4 DEF Justified
<1> HIDE DEF atM, atN
<1>5. \A z \in FMaster : /\ new(z) \in [FMaster -> FlagNames]
                         /\ \A y \in FMaster : \/ new(z)[y] = view[z][y]
                                               \/ z = n /\ y = m /\ new(z)[y] = "ok"
                                               \/ new(z)[y] = "fail" /\ (Justified(m, n, y) \/ Justified(n, m, y))
  BY <1>2, <1>3, <1>4
<1> HIDE DEF new
<1>6. \A z \in FMaster : \A y \in told(z) : y \in FMaster /\ (Justified(m, n, y) \/ Justified(n, m, y))
  <2> SUFFICES ASSUME NEW z \in FMaster, NEW y \in told(z)
               PROVE  y \in FMaster /\ (Justified(m, n, y) \/ Justified(n, m, y))
    OBVIOUS
  <2>1. PICK x \in {n, m} : y \in failing(x)
    OBVIOUS
  <2>. QED
    BY <2>1, <1>5
<1> HIDE DEF told
<1>7. \A z, y \in FMaster : /\ final[z][y] = IF y # z /\ y \in told(z) THEN "fail" ELSE new(z)[y]
                            /\ final[z][y] \in FlagNames
  BY <1>5 DEF FlagNames
<1>8. final \in [FMaster -> [FMaster -> FlagNames]]
  BY <1>7
<1> HIDE DEF final
<1>9. \A z, y \in FMaster : final[z][y] = "ok" => view[z][y] = "ok" \/ (z = n /\ y = m)
  BY <1>5, <1>7
<1>10. \A z, y \in FMaster : final[z][y] = "fail" /\ (\A x \in FMaster : view[x][y] # "fail")
              => Justified(m, n, y) \/ Justified(n, m, y)
  BY <1>5, <1>6, <1>7
<1>11. cstate' \in [FMaster -> {"ok", "fail"}]
  BY <1>1, StateOfType DEF Typed
<1>12. \A z \in FMaster : cstate'[z] = IF view'[z] # view[z] THEN StateOf(z, view'[z]) ELSE cstate[z]
  BY <1>1
<1>. QED
  BY <1>1, <1>8, <1>9, <1>10, <1>11, <1>12

\* Failure reports after a PING and its PONG: a report is as before, taken back, or made
\* now by the other side, which flags the node and goes on flagging it.
LEMMA ExchangeReports ==
  ASSUME Typed, NEW n \in FMaster, NEW m \in FMaster, Exchange(n, m)
  PROVE  /\ report' \in [FMaster -> [FMaster -> [FMaster -> Nat]]]
         /\ \A a, y, r \in FMaster :
              \/ report'[a][y][r] = report[a][y][r]
              \/ report'[a][y][r] = Old
              \/ /\ report'[a][y][r] = 0 /\ view[r][y] # "ok" /\ a # r /\ y # a /\ y # r
<1> DEFINE repN == [y \in FMaster |-> IF y \in {n, m} THEN report[n][y] ELSE Reported(n, m, y)]
           repM == [y \in FMaster |-> IF y \in {n, m} THEN report[m][y] ELSE Reported(m, n, y)]
<1>1. n # m /\ report' = [report EXCEPT ![n] = repN, ![m] = repM]
  BY DEF Exchange, Typed
<1>2. /\ report'[n] = repN /\ report'[m] = repM
      /\ \A a \in FMaster \ {n, m} : report'[a] = report[a]
  BY <1>1 DEF Typed
<1>3. \A x, s, y \in FMaster : /\ Reported(x, s, y) \in [FMaster -> Nat]
                               /\ \A r \in FMaster : r # s => Reported(x, s, y)[r] = report[x][y][r]
                               /\ Reported(x, s, y)[s] = IF view[s][y] = "ok" THEN Old ELSE 0
  <2> SUFFICES ASSUME NEW x \in FMaster, NEW s \in FMaster, NEW y \in FMaster
               PROVE  /\ Reported(x, s, y) \in [FMaster -> Nat]
                      /\ \A r \in FMaster : r # s => Reported(x, s, y)[r] = report[x][y][r]
                      /\ Reported(x, s, y)[s] = IF view[s][y] = "ok" THEN Old ELSE 0
    OBVIOUS
  <2>1. report[x][y] \in [FMaster -> Nat]
    BY DEF Typed
  <2>2. (IF view[s][y] = "ok" THEN Old ELSE 0) \in Nat
    BY HalfFacts
  <2>3. Reported(x, s, y) = [report[x][y] EXCEPT ![s] = IF view[s][y] = "ok" THEN Old ELSE 0]
    BY DEF Reported
  <2>4. QED
    BY <2>1, <2>2, <2>3
<1>4. /\ repN \in [FMaster -> [FMaster -> Nat]] /\ repM \in [FMaster -> [FMaster -> Nat]]
  BY <1>3 DEF Typed
<1>5. report' \in [FMaster -> [FMaster -> [FMaster -> Nat]]]
  BY <1>1, <1>4 DEF Typed
<1>6. ASSUME NEW a \in FMaster, NEW y \in FMaster, NEW r \in FMaster
      PROVE  \/ report'[a][y][r] = report[a][y][r]
             \/ report'[a][y][r] = Old
             \/ report'[a][y][r] = 0 /\ view[r][y] # "ok" /\ a # r /\ y # a /\ y # r
  <2>1. CASE a = n
    <3>1. report'[a][y] = IF y \in {n, m} THEN report[n][y] ELSE Reported(n, m, y)
      BY <2>1, <1>2
    <3> DEFINE R == Reported(n, m, y)
    <3>2. /\ r # m => R[r] = report[n][y][r]
          /\ R[m] = IF view[m][y] = "ok" THEN Old ELSE 0
      BY <1>3
    <3> HIDE DEF R
    <3>3. CASE y \in {n, m}
      BY <3>1, <3>3, <2>1
    <3>4. CASE y \notin {n, m}
      <4>1. report'[a][y] = R
        BY <3>1, <3>4 DEF R
      <4>. QED
        BY <4>1, <3>2, <3>4, <2>1, <1>1
    <3>. QED
      BY <3>3, <3>4
  <2>2. CASE a = m
    <3>1. report'[a][y] = IF y \in {n, m} THEN report[m][y] ELSE Reported(m, n, y)
      BY <2>2, <1>2
    <3> DEFINE R == Reported(m, n, y)
    <3>2. /\ r # n => R[r] = report[m][y][r]
          /\ R[n] = IF view[n][y] = "ok" THEN Old ELSE 0
      BY <1>3
    <3> HIDE DEF R
    <3>3. CASE y \in {n, m}
      BY <3>1, <3>3, <2>2
    <3>4. CASE y \notin {n, m}
      <4>1. report'[a][y] = R
        BY <3>1, <3>4 DEF R
      <4>. QED
        BY <4>1, <3>2, <3>4, <2>2, <1>1
    <3>. QED
      BY <3>3, <3>4
  <2>3. CASE a \notin {n, m}
    BY <2>3, <1>2
  <2>. QED
    BY <2>1, <2>2, <2>3
<1>. QED
  BY <1>5, <1>6

LEMMA ExchangeKeeps ==
  ASSUME DetectionInv, NEW n \in FMaster, NEW m \in FMaster, Exchange(n, m)
  PROVE  DetectionInv'
<1>1. Typed /\ StoppedByFlags /\ AloneCounts /\ CutOff /\ SuspectNow /\ ReportBacked
  BY DEF DetectionInv
<1>2. /\ n # m /\ Up(n, m) /\ UNCHANGED <<cut, ran, alone>>
      /\ quiet' = [quiet EXCEPT ![n][m] = 0, ![m][n] = 0] /\ ping' = [ping EXCEPT ![n][m] = Never]
  BY DEF Exchange
<1>3. /\ view' \in [FMaster -> [FMaster -> FlagNames]]
      /\ \A z, y \in FMaster : view'[z][y] = "ok" => view[z][y] = "ok" \/ (z = n /\ y = m)
      /\ \A z \in FMaster : cstate'[z] = IF view'[z] # view[z] THEN StateOf(z, view'[z]) ELSE cstate[z]
      /\ suspect' = [z \in FMaster |-> [y \in FMaster |-> IF view'[z][y] # "ok" THEN 0 ELSE suspect[z][y]]]
      /\ cstate' \in [FMaster -> {"ok", "fail"}]
  BY <1>1, ExchangeFlags
<1>4. report' \in [FMaster -> [FMaster -> [FMaster -> Nat]]]
  BY <1>1, ExchangeReports
<1> DEFINE Change(a, y, r) ==
              \/ report'[a][y][r] = report[a][y][r]
              \/ report'[a][y][r] = Old
              \/ report'[a][y][r] = 0 /\ view[r][y] # "ok" /\ a # r /\ y # a /\ y # r
<1>4a. \A a, y, r \in FMaster : Change(a, y, r)
  BY <1>1, ExchangeReports
<1> HIDE DEF Change
<1>5. Typed'
  <2>1. quiet' \in [FMaster -> [FMaster -> Nat]] /\ ping' \in [FMaster -> [FMaster -> Nat \cup {Never}]]
    BY <1>1, <1>2 DEF Typed
  <2>2. suspect' \in [FMaster -> [FMaster -> Nat]]
    <3>1. \A z, y \in FMaster : suspect[z][y] \in Nat
      BY <1>1 DEF Typed
    <3>2. \A z, y \in FMaster : (IF view'[z][y] # "ok" THEN 0 ELSE suspect[z][y]) \in Nat
      BY <3>1
    <3>3. suspect' = [z \in FMaster |-> [y \in FMaster |-> IF view'[z][y] # "ok" THEN 0 ELSE suspect[z][y]]]
      BY <1>3
    <3>. QED
      BY <3>2, <3>3
  <2>. QED
    BY <1>1, <1>2, <1>3, <1>4, <2>1, <2>2 DEF Typed
<1>6. StoppedByFlags'
  <2>1. ASSUME NEW z \in FMaster, Reachable(z, view'[z]) < Quorum
        PROVE  cstate'[z] = "fail"
    <3>1. cstate'[z] = IF view'[z] # view[z] THEN StateOf(z, view'[z]) ELSE cstate[z]
      BY <1>3
    <3>2. StateOf(z, view'[z]) = "fail"
      BY <2>1, StateOfMinority
    <3>3. view'[z] = view[z] => cstate[z] = "fail"
      BY <2>1, <1>1 DEF StoppedByFlags
    <3>. QED
      BY <3>1, <3>2, <3>3
  <2>. QED
    BY <2>1 DEF StoppedByFlags, Reachable, Quorum
<1>7. AloneCounts'
  BY <1>1, <1>2 DEF AloneCounts, ReachesMajority, Up
<1>8. CutOff'
  <2> SUFFICES ASSUME NEW x \in FMaster, NEW y \in Unreached(x), Silent(x, y)
               PROVE  Silent(x, y)'
    BY <1>1, <1>2, CutOffKept
  <2>1. y \in FMaster /\ ~(x = n /\ y = m) /\ ~(x = m /\ y = n)
    <3>1. {x, y} \in cut /\ y \in FMaster
      BY DEF Unreached, Up
    <3>2. {n, m} \notin cut /\ {m, n} = {n, m}
      BY <1>2 DEF Up
    <3>. QED
      BY <3>1, <3>2
  <2>2. quiet'[x][y] = quiet[x][y] /\ ping'[x][y] = ping[x][y]
    BY <1>1, <1>2, <2>1 DEF Typed
  <2>3. view'[x][y] = "ok" => view[x][y] = "ok"
    BY <1>3, <2>1
  <2>. QED
    BY <1>2, <2>2, <2>3 DEF Silent, Half
<1>9. SuspectNow'
  BY <1>3 DEF SuspectNow
<1>10. ReportBacked'
  <2> SUFFICES ASSUME NEW a \in FMaster, NEW y \in FMaster, NEW r \in FMaster,
                      report'[a][y][r] <= Validity
               PROVE  r # a /\ suspect'[r][y] <= report'[a][y][r]
    BY DEF ReportBacked, Validity
  <2>1. /\ suspect'[r][y] = IF view'[r][y] # "ok" THEN 0 ELSE suspect[r][y]
        /\ suspect[r][y] \in Nat /\ report[a][y][r] \in Nat
    <3>1. suspect'[r][y] = IF view'[r][y] # "ok" THEN 0 ELSE suspect[r][y]
      BY <1>3
    <3>. QED
      BY <3>1, <1>1 DEF Typed
  <2>2. \/ report'[a][y][r] = report[a][y][r]
        \/ report'[a][y][r] = Old
        \/ report'[a][y][r] = 0 /\ view[r][y] # "ok" /\ a # r /\ y # a /\ y # r
    <3>1. Change(a, y, r)
      BY <1>4a
    <3>. QED
      BY <3>1 DEF Change
  <2>3. /\ report[a][y][r] <= Validity => r # a /\ suspect[r][y] <= report[a][y][r]
        /\ view[r][y] # "ok" => suspect[r][y] = 0
    BY <1>1 DEF ReportBacked, SuspectNow
  <2> DEFINE p == report[a][y][r]
             q == report'[a][y][r]
             b == suspect[r][y]
             c == suspect'[r][y]
  <2>4. p \in Nat /\ b \in Nat /\ c \in {0, b} /\ q <= Validity
    BY <2>1
  <2>5. \/ q = p /\ (p <= Validity => r # a /\ b <= p)
        \/ q = Old
        \/ q = 0 /\ a # r /\ b = 0
    BY <2>2, <2>3
  <2> SUFFICES r # a /\ c <= q
    OBVIOUS
  <2> HIDE DEF p, q, b, c
  <2>. QED
    BY <2>4, <2>5, HalfFacts
<1>. QED
  BY <1>5, <1>6, <1>7, <1>8, <1>9, <1>10 DEF DetectionInv

-----------------------------------------------------------------------------
LEMMA DetectionInvInit == FdInit => DetectionInv
<1> SUFFICES ASSUME FdInit PROVE DetectionInv
  OBVIOUS
<1>1. Typed
  BY HalfFacts DEF FdInit, Typed, FlagNames, Never
<1>2. StoppedByFlags
  <2> SUFFICES ASSUME NEW n \in FMaster PROVE ~(Reachable(n, view[n]) < Quorum)
    BY DEF StoppedByFlags
  <2>1. {m \in FMaster : m = n \/ view[n][m] = "ok"} = FMaster
    BY DEF FdInit
  <2>2. Reachable(n, view[n]) = Cardinality(FMaster)
    BY <2>1 DEF Reachable
  <2>. QED
    BY <2>2, HalfFacts
<1>3. \A n \in FMaster : ReachesMajority(n)
  <2> SUFFICES ASSUME NEW n \in FMaster PROVE ReachesMajority(n)
    OBVIOUS
  <2>1. {m \in FMaster : m = n \/ {n, m} \notin cut} = FMaster
    BY DEF FdInit
  <2>2. Cardinality(FMaster) >= Quorum
    BY HalfFacts
  <2>. QED
    BY <2>1, <2>2 DEF ReachesMajority, Up
<1>4. AloneCounts /\ CutOff
  BY <1>3 DEF FdInit, AloneCounts, CutOff
<1>5. SuspectNow /\ ReportBacked
  BY HalfFacts DEF FdInit, SuspectNow, ReportBacked
<1>. QED
  BY <1>1, <1>2, <1>4, <1>5 DEF DetectionInv

LEMMA DetectionInvStep == DetectionInv /\ [FdNext]_fdvars => DetectionInv'
<1> SUFFICES ASSUME DetectionInv, [FdNext]_fdvars PROVE DetectionInv'
  OBVIOUS
<1>1. CASE UNCHANGED fdvars
  <2>1. UNCHANGED <<view, quiet, ping, report, cstate, cut, ran, suspect, alone>>
    BY <1>1 DEF fdvars
  <2>2. Typed' /\ StoppedByFlags' /\ AloneCounts' /\ SuspectNow' /\ ReportBacked'
    BY <2>1 DEF DetectionInv, Typed, StoppedByFlags, AloneCounts, SuspectNow, ReportBacked,
                Reachable, Quorum, ReachesMajority, Up, Validity
  <2>3. ASSUME NEW n \in FMaster, NEW m \in FMaster, Silent(n, m)
        PROVE  Silent(n, m)'
    <3>1. /\ quiet'[n][m] = quiet[n][m] /\ ping'[n][m] = ping[n][m] /\ view'[n][m] = view[n][m]
          /\ alone'[n] = alone[n] /\ ran' = ran /\ Half' = Half
      BY <2>1 DEF Half
    <3>. QED
      BY <2>3, <3>1 DEF Silent
  <2>4. CutOff'
    BY <2>1, <2>3, CutOffKept DEF DetectionInv, Unreached
  <2>. QED
    BY <2>2, <2>4 DEF DetectionInv
<1>. QED
  BY <1>1, ExchangeKeeps, CronKeeps, TickKeeps, CutKeeps, HealKeeps DEF FdNext

LEMMA DetectionInvUse == DetectionInv => MinorityStops
<1> SUFFICES ASSUME DetectionInv, NEW n \in FMaster,
                    ~ReachesMajority(n), alone[n] > T + (T \div 2) + 2
             PROVE  cstate[n] = "fail"
  BY DEF MinorityStops
<1>1. PICK D \in SUBSET Unreached(n) : /\ Cardinality(FMaster) - Cardinality(D) < Quorum
                                       /\ \A m \in D : Silent(n, m)
  BY DEF DetectionInv, CutOff
<1>2. alone[n] > Half + T + 2
  BY HalfFacts DEF Half, DetectionInv, Typed
<1>3. \A m \in D : m \in FMaster /\ m # n /\ view[n][m] # "ok"
  BY <1>1, <1>2 DEF Silent, Unreached
<1> DEFINE S == {m \in FMaster : m = n \/ view[n][m] = "ok"}
<1>4. D \cap S = {} /\ D \in SUBSET FMaster /\ S \in SUBSET FMaster
  BY <1>3
<1>5. /\ Cardinality(S) \in Nat /\ Cardinality(D) \in Nat
      /\ Cardinality(S) <= Cardinality(FMaster) - Cardinality(D)
  BY <1>4, WithoutThem
<1>6. Reachable(n, view[n]) = Cardinality(S)
  BY DEF Reachable
<1> HIDE DEF S
<1>7. Cardinality(FMaster) - Cardinality(D) < Quorum
  BY <1>1
<1>8. Reachable(n, view[n]) < Quorum
  BY <1>5, <1>6, <1>7, HalfFacts
<1>. QED
  BY <1>8 DEF DetectionInv, StoppedByFlags

\* A master marked FAIL when nobody had it so was suspected by a majority.
LEMMA JustifiedByMajority ==
  ASSUME DetectionInv, NEW x \in FMaster, NEW s \in FMaster, NEW y \in FMaster, x # s,
         Justified(x, s, y)
  PROVE  Cardinality({z \in FMaster : suspect[z][y] <= Validity}) >= Quorum
<1> DEFINE R == {r \in FMaster : Reported(x, s, y)[r] <= Validity}
           S == {z \in FMaster : suspect[z][y] <= Validity}
<1>1. /\ T \div 2 \in Nat /\ Validity \in Nat /\ Old > Validity /\ Quorum \in Nat
  BY HalfFacts DEF Half
<1>2. Typed /\ SuspectNow /\ ReportBacked
  BY DEF DetectionInv
<1>3. \A z \in FMaster : suspect[z][y] \in Nat /\ report[x][y][z] \in Nat
  BY <1>2 DEF Typed
<1>4. /\ Reported(x, s, y)[s] = IF view[s][y] = "ok" THEN Old ELSE 0
      /\ \A r \in FMaster : r # s => Reported(x, s, y)[r] = report[x][y][r]
  BY <1>2 DEF Reported, Typed
<1>5. suspect[s][y] = 0 /\ suspect[x][y] = 0
  BY <1>2 DEF Justified, SuspectNow
<1>6. x \in S
  BY <1>1, <1>5
<1>7. \A r \in R : r # x /\ r \in S
  <2> SUFFICES ASSUME NEW r \in R PROVE r # x /\ r \in S
    OBVIOUS
  <2>1. CASE r = s
    BY <2>1, <1>1, <1>5
  <2>2. CASE r # s
    <3>1. r \in FMaster /\ report[x][y][r] <= Validity
      BY <2>2, <1>4
    <3>2. r # x /\ suspect[r][y] <= report[x][y][r]
      BY <3>1, <1>2 DEF ReportBacked
    <3>3. suspect[r][y] <= Validity
      BY <3>1, <3>2, <1>1, <1>3
    <3>. QED
      BY <3>1, <3>2, <3>3
  <2>. QED
    BY <2>1, <2>2
<1>8. IsFiniteSet(R) /\ IsFiniteSet(S)
  BY FdAssumption, FS_Subset
<1>9. Cardinality(R) + 1 >= Quorum
  BY DEF Justified
<1> HIDE DEF R, S
<1>10. Cardinality(R \cup {x}) = Cardinality(R) + 1 /\ IsFiniteSet(R \cup {x})
  BY <1>7, <1>8, FS_AddElement
<1>11. R \cup {x} \subseteq S
  BY <1>6, <1>7
<1>12. Cardinality(R \cup {x}) <= Cardinality(S) /\ Cardinality(R) \in Nat /\ Cardinality(S) \in Nat
  BY <1>8, <1>10, <1>11, FS_Subset, FS_CardinalityType
<1>13. Cardinality(S) >= Quorum
  BY <1>1, <1>9, <1>10, <1>12
<1>. QED
  BY <1>13 DEF S

LEMMA FailStep == DetectionInv /\ [FdNext]_fdvars => [FailByMajority]_fdvars
<1> SUFFICES ASSUME DetectionInv, FdNext PROVE FailByMajority
  OBVIOUS
<1> SUFFICES ASSUME NEW z \in FMaster, NEW y \in FMaster, view'[z][y] = "fail",
                    \A x \in FMaster : view[x][y] # "fail"
             PROVE  Cardinality({x \in FMaster : suspect[x][y] <= Validity}) >= Quorum
  BY DEF FailByMajority
<1>1. Typed
  BY DEF DetectionInv
<1>2. ASSUME NEW n \in FMaster, NEW m \in FMaster, Exchange(n, m)
      PROVE  \E x, s \in FMaster : x # s /\ Justified(x, s, y)
  <2>1. n # m
    BY <1>2 DEF Exchange
  <2>2. Justified(m, n, y) \/ Justified(n, m, y)
    BY <1>1, <1>2, ExchangeFlags
  <2>. QED
    BY <2>1, <2>2
<1>3. ASSUME NEW n \in FMaster, Cron(n) PROVE FALSE
  <2>1. PICK sent : view' = [view EXCEPT ![n] =
           [m \in FMaster |-> IF m # n /\ TimedOut(n, m, sent[m]) THEN "pfail" ELSE view[n][m]]]
    BY <1>3 DEF Cron
  <2>2. view'[z][y] \in {"pfail", view[z][y]}
    BY <2>1, <1>1 DEF Typed
  <2>. QED
    BY <2>2
<1>4. ASSUME Tick \/ Cut \/ Heal PROVE FALSE
  BY <1>4 DEF Tick, Cut, Heal
<1>5. \E x, s \in FMaster : x # s /\ Justified(x, s, y)
  BY <1>2, <1>3, <1>4 DEF FdNext
<1>. QED
  BY <1>5, JustifiedByMajority

\* In a cluster of any size and with any node timeout, whatever links go down and come
\* back: a master that reaches no majority stops serving at most a timeout, half a timeout
\* and two ticks later (clusterCron, clusterUpdateState).
THEOREM MinorityStopsServing == FdSpec => []MinorityStops
<1>1. FdInit => DetectionInv
  BY DetectionInvInit
<1>2. DetectionInv /\ [FdNext]_fdvars => DetectionInv'
  BY DetectionInvStep
<1>3. DetectionInv => MinorityStops
  BY DetectionInvUse
<1>. QED
  BY <1>1, <1>2, <1>3, PTL DEF FdSpec

\* ... and no master is marked FAIL unless a majority of the masters suspected it within
\* the validity of a failure report (markNodeAsFailingIfNeeded).
THEOREM FailNeedsMajority == FdSpec => [][FailByMajority]_fdvars
<1>1. FdInit => DetectionInv
  BY DetectionInvInit
<1>2. DetectionInv /\ [FdNext]_fdvars => DetectionInv'
  BY DetectionInvStep
<1>3. DetectionInv /\ [FdNext]_fdvars => [FailByMajority]_fdvars
  BY FailStep
<1>. QED
  BY <1>1, <1>2, <1>3, PTL DEF FdSpec
=============================================================================
