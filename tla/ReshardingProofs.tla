-------------------------- MODULE ReshardingProofs --------------------------
(***************************************************************************)
(* Proofs about Resharding, for any number of keys, writes, failed MIGRATEs*)
(* and restarts: while a slot moves no key is lost and no answer is out of date.*)
(***************************************************************************)
EXTENDS Resharding, FiniteSetTheorems, TLAPS

ReshardTypes ==
  /\ sowner \in [Master -> Master] /\ smig \in [Master -> BOOLEAN] /\ simp \in [Master -> BOOLEAN]
  /\ sepoch \in [Master -> Nat] /\ known \in [Master -> Nat]
  /\ store \in [Master -> [SKey -> Nat]] /\ truth \in [SKey -> Nat] /\ unsure \in SUBSET SKey
  /\ mreq \in [on : BOOLEAN, todo : Seq(SKey \X Nat), replies : Seq(SKey \X BOOLEAN)]
  /\ sreq \in [op : {"none", "get", "set", "del"}, key : SUBSET SKey, at : Master, asking : BOOLEAN]
  /\ plan \in {"start", "importing", "migrating", "empty"} /\ nsw \in Nat

\* How far the slot has moved: the marks of the nodes follow the administrator's steps,
\* and the new owner has the larger configEpoch.
SlotMoves ==
  /\ ~smig[Dst] /\ ~simp[Src] /\ sepoch[Src] = 2 /\ known[Dst] = 2
  /\ sowner[Src] = Dst => plan = "empty"
  /\ sowner[Dst] = Dst => plan = "empty" /\ sepoch[Dst] > 2
  /\ sowner[Src] = Src => (smig[Src] <=> plan \in {"migrating", "empty"})
  /\ sowner[Dst] = Src /\ plan # "start" => simp[Dst]
  /\ plan # "migrating" => ~mreq.on
  /\ ~mreq.on => mreq.todo = <<>> /\ mreq.replies = <<>>

\* Keys are at Dst only once the migration began, and none is left at Src when it ended.
KeysMove ==
  /\ plan = "empty" => \A k \in SKey : store[Src][k] = 0
  /\ plan \in {"start", "importing"} => \A k \in SKey : store[Dst][k] = 0

\* What is under way in a MIGRATE: each key once, at Src until the reply is read, and at
\* Dst when the reply says so.
Flights ==
  /\ \A i \in DOMAIN mreq.todo :
       mreq.todo[i][2] = store[Src][mreq.todo[i][1]] /\ mreq.todo[i][2] # 0
  /\ \A i \in DOMAIN mreq.replies : mreq.replies[i][2] =>
       /\ store[Src][mreq.replies[i][1]] # 0
       /\ store[Dst][mreq.replies[i][1]] = store[Src][mreq.replies[i][1]]
  /\ \A i, j \in DOMAIN mreq.todo : i # j => mreq.todo[i][1] # mreq.todo[j][1]
  /\ \A i, j \in DOMAIN mreq.replies : i # j => mreq.replies[i][1] # mreq.replies[j][1]
  /\ \A i \in DOMAIN mreq.todo, j \in DOMAIN mreq.replies : mreq.todo[i][1] # mreq.replies[j][1]

\* A client that was sent to Dst with ASKING asks for a key that is no longer at Src;
\* writes are of one key.
Askers ==
  /\ sreq.asking => /\ sreq.at = Dst /\ plan \in {"migrating", "empty"}
                    /\ \E k \in sreq.key : store[Src][k] = 0
  /\ sreq.op \in {"set", "del"} => \E k \in SKey : sreq.key = {k}

\* Where the last written value is: at Src as long as Src has the key, at Dst afterwards.
\* A key of a MIGRATE that failed may have been deleted at Src and be left over at Dst.
Whereabouts ==
  \A k \in SKey :
    /\ store[Src][k] # 0 => truth[k] = store[Src][k]
    /\ store[Src][k] = 0 => truth[k] = store[Dst][k] \/ (k \in unsure /\ truth[k] = 0)

\* A key is at both nodes only while a MIGRATE is about to delete it, or after one failed.
TwiceInFlight ==
  \A k \in SKey :
    k \notin unsure /\ store[Src][k] # 0 /\ store[Dst][k] # 0
      => \E i \in DOMAIN mreq.replies : mreq.replies[i] = <<k, TRUE>>

\* The inductive invariant.
ReshardInv ==
  /\ ReshardTypes /\ SlotMoves /\ KeysMove /\ Flights /\ Askers
  /\ Whereabouts /\ TwiceInFlight /\ ReadsLastWrite

-----------------------------------------------------------------------------
LEMMA TwoMasters == /\ Master = {Src, Dst} /\ Src # Dst /\ Src \in Master /\ Dst \in Master
                    /\ Other(Src) = Dst /\ Other(Dst) = Src
BY DEF Master, Src, Dst, Other

\* The conjuncts of the invariant, one by one.
LEMMA ReshardFacts ==
  ASSUME ReshardInv
  PROVE  /\ ReshardTypes /\ SlotMoves /\ KeysMove /\ Flights /\ Askers
         /\ Whereabouts /\ TwiceInFlight /\ ReadsLastWrite
BY DEF ReshardInv

\* A step that gives no answer shows no old value.
LEMMA NothingRead == sans' = NoAnswer => ReadsLastWrite'
BY DEF NoAnswer, ReadsLastWrite

\* What a node that serves a request knows of it: Src has all the keys, or the migration
\* has not begun; at Dst the migration has ended, or the client was sent there.
LEMMA ServedWhere ==
  ASSUME ReshardInv, Route(sreq.at, sreq.key, sreq.asking) = "serve"
  PROVE  /\ sreq.at = Src => \/ plan \in {"start", "importing"}
                             \/ \A x \in sreq.key : store[Src][x] # 0
         /\ sreq.at = Dst => \/ plan = "empty"
                             \/ /\ sreq.asking
                                /\ Cardinality(sreq.key) > 1 => \A x \in sreq.key : store[Dst][x] # 0
<1>1. ReshardTypes /\ SlotMoves /\ KeysMove
  BY ReshardFacts
<1>2. /\ sreq.key \in SUBSET SKey /\ sowner \in [Master -> Master]
      /\ smig[Src] \in BOOLEAN /\ simp[Dst] \in BOOLEAN
  BY <1>1, TwoMasters DEF ReshardTypes
<1>3. ASSUME sreq.at = Src
      PROVE  plan \in {"start", "importing"} \/ \A x \in sreq.key : store[Src][x] # 0
  <2>1. ~Importing(Src) /\ sowner[Src] \in Master
    BY <1>1, <1>2, TwoMasters DEF SlotMoves, Importing
  <2>2. CASE Migrating(Src)
    <3>1. ~Missing(Src, sreq.key)
      BY <1>3, <2>2 DEF Route
    <3>. QED
      BY <3>1, <2>2, <1>2 DEF Missing, Held
  <2>3. CASE ~Migrating(Src)
    <3>1. sowner[Src] = Src
      BY <1>3, <2>1, <2>3 DEF Route
    <3>2. ~smig[Src]
      BY <3>1, <2>3 DEF Migrating
    <3>3. plan \notin {"migrating", "empty"}
      BY <3>1, <3>2, <1>1 DEF SlotMoves
    <3>. QED
      BY <3>3, <1>1 DEF ReshardTypes
  <2>. QED
    BY <2>2, <2>3
<1>4. ASSUME sreq.at = Dst
      PROVE  \/ plan = "empty"
             \/ /\ sreq.asking
                /\ Cardinality(sreq.key) > 1 => \A x \in sreq.key : store[Dst][x] # 0
  <2>1. ~Migrating(Dst)
    BY <1>1 DEF SlotMoves, Migrating
  <2>2. CASE Importing(Dst) /\ sreq.asking
    <3>1. ~(Cardinality(sreq.key) > 1 /\ Missing(Dst, sreq.key))
      BY <1>4, <2>1, <2>2 DEF Route
    <3>2. ~Missing(Dst, sreq.key) => \A x \in sreq.key : store[Dst][x] # 0
      BY <2>2, <1>2 DEF Missing, Held
    <3>. QED
      BY <3>1, <3>2, <2>2
  <2>3. CASE ~(Importing(Dst) /\ sreq.asking)
    <3>1. sowner[Dst] = Dst
      BY <1>4, <2>1, <2>3 DEF Route
    <3>. QED
      BY <3>1, <1>1 DEF SlotMoves
  <2>. QED
    BY <2>2, <2>3
<1>. QED
  BY <1>3, <1>4

\* What is read is the last written value.
LEMMA ServedCurrent ==
  ASSUME ReshardInv, Route(sreq.at, sreq.key, sreq.asking) = "serve",
         NEW x \in sreq.key, x \notin unsure
  PROVE  store[sreq.at][x] = truth[x]
<1>1. /\ ReshardTypes /\ SlotMoves /\ KeysMove /\ Flights /\ Askers
      /\ Whereabouts /\ TwiceInFlight
  BY ReshardFacts
<1>2. x \in SKey /\ sreq.key \in SUBSET SKey /\ sreq.at \in {Src, Dst} /\ plan \in {"start", "importing", "migrating", "empty"}
  BY <1>1, TwoMasters DEF ReshardTypes
<1>3. /\ store[Src][x] # 0 => truth[x] = store[Src][x]
      /\ store[Src][x] = 0 => truth[x] = store[Dst][x]
  BY <1>1, <1>2 DEF Whereabouts
<1>4. CASE sreq.at = Src
  <2>1. CASE plan \in {"start", "importing"}
    BY <2>1, <1>1, <1>2, <1>3, <1>4 DEF KeysMove
  <2>2. CASE store[Src][x] # 0
    BY <2>2, <1>3, <1>4
  <2>. QED
    BY <2>1, <2>2, <1>4, ServedWhere
<1>5. CASE sreq.at = Dst
  <2>1. CASE plan = "empty"
    BY <2>1, <1>1, <1>2, <1>3, <1>5 DEF KeysMove
  <2>2. CASE sreq.asking /\ (Cardinality(sreq.key) > 1 => \A y \in sreq.key : store[Dst][y] # 0)
    <3>1. PICK k \in sreq.key : store[Src][k] = 0
      BY <2>2, <1>1 DEF Askers
    <3>2. CASE \A y \in sreq.key : store[Dst][y] # 0
      <4>1. store[Src][x] # 0 => store[Dst][x] = store[Src][x]
        <5> SUFFICES ASSUME store[Src][x] # 0 PROVE store[Dst][x] = store[Src][x]
          OBVIOUS
        <5>1. PICK i \in DOMAIN mreq.replies : mreq.replies[i] = <<x, TRUE>>
          BY <3>2, <1>1, <1>2 DEF TwiceInFlight
        <5>2. mreq.replies[i][1] = x /\ mreq.replies[i][2]
          BY <5>1
        <5>. QED
          BY <5>1, <5>2, <1>1 DEF Flights
      <4>. QED
        BY <4>1, <1>3, <1>5
    <3>3. CASE ~(Cardinality(sreq.key) > 1)
      <4>1. IsFiniteSet(sreq.key)
        BY <1>2, ReshardingAssumption, FS_Subset
      <4>2. Cardinality(sreq.key) \in Nat /\ Cardinality(sreq.key) # 0
        BY <4>1, FS_CardinalityType, FS_EmptySet
      <4>3. Cardinality(sreq.key) = 1
        BY <4>2, <3>3
      <4>4. x = k
        BY <4>1, <4>3, FS_Singleton
      <4>. QED
        BY <4>4, <3>1, <1>3, <1>5
    <3>. QED
      BY <3>2, <3>3, <2>2
  <2>. QED
    BY <2>1, <2>2, <1>5, ServedWhere
<1>. QED
  BY <1>2, <1>4, <1>5

\* The parts of the invariant about keys and a MIGRATE, under steps that leave those alone.
LEMMA KeysStay ==
  ASSUME ReshardInv, UNCHANGED <<store, truth, unsure, mreq>>
  PROVE  Flights' /\ Whereabouts' /\ TwiceInFlight'
<1>1. Flights /\ Whereabouts /\ TwiceInFlight
  BY ReshardFacts
<1>2. Flights'
  BY <1>1 DEF Flights, Src, Dst
<1>3. Whereabouts' /\ TwiceInFlight'
  BY <1>1 DEF Whereabouts, TwiceInFlight, Src, Dst
<1>. QED
  BY <1>2, <1>3

\* ... and about the slot.
LEMMA SlotStays ==
  ASSUME ReshardInv, UNCHANGED <<sowner, smig, simp, sepoch, known, plan, mreq>>
  PROVE  SlotMoves'
<1>1. SlotMoves
  BY ReshardFacts
<1>. QED
  BY <1>1 DEF SlotMoves, Src, Dst

LEMMA NoReqType ==
  /\ NoReq \in [op : {"none", "get", "set", "del"}, key : SUBSET SKey, at : Master, asking : BOOLEAN]
  /\ NoReq.op = "none" /\ NoReq.asking = FALSE
BY TwoMasters DEF NoReq

\* A request is begun.
LEMMA AskKeeps ==
  ASSUME ReshardInv, Request \/ RequestMany
  PROVE  ReshardInv'
<1>1. ReshardTypes /\ KeysMove
  BY ReshardFacts
<1>2. /\ UNCHANGED <<sowner, smig, simp, sepoch, known, store, mreq, truth, unsure, plan, nsw>>
      /\ sans' = NoAnswer
  BY DEF Request, RequestMany
<1>3. /\ sreq' \in [op : {"none", "get", "set", "del"}, key : SUBSET SKey, at : Master, asking : BOOLEAN]
      /\ sreq'.asking = FALSE
      /\ sreq'.op \in {"set", "del"} => \E k \in SKey : sreq'.key = {k}
  <2>1. CASE Request
    <3>1. PICK n \in Master, op \in {"get", "set", "del"}, k \in SKey :
             sreq' = [op |-> op, key |-> {k}, at |-> n, asking |-> FALSE]
      BY <2>1 DEF Request
    <3>. QED
      BY <3>1
  <2>2. CASE RequestMany
    <3>1. PICK n \in Master : sreq' = [op |-> "get", key |-> SKey, at |-> n, asking |-> FALSE]
      BY <2>2 DEF RequestMany
    <3>. QED
      BY <3>1
  <2>. QED
    BY <2>1, <2>2
<1>4. ReshardTypes'
  BY <1>1, <1>2, <1>3 DEF ReshardTypes
<1>5. KeysMove' /\ Askers'
  BY <1>1, <1>2, <1>3 DEF KeysMove, Askers, Src, Dst
<1>. QED
  BY <1>2, <1>4, <1>5, KeysStay, SlotStays, NothingRead DEF ReshardInv

\* A node redirects a client, or answers TRYAGAIN.
LEMMA RedirectKeeps ==
  ASSUME ReshardInv, Process, Route(sreq.at, sreq.key, sreq.asking) # "serve"
  PROVE  ReshardInv'
<1> DEFINE n == sreq.at
           r == Route(n, sreq.key, sreq.asking)
<1>1. ReshardTypes /\ KeysMove /\ SlotMoves /\ Askers
  BY ReshardFacts
<1>2. /\ UNCHANGED <<sowner, smig, simp, sepoch, known, store, mreq, truth, unsure, plan, nsw>>
      /\ sans' = NoAnswer
      /\ sreq' = IF r = "ask" THEN [sreq EXCEPT !.at = Other(n), !.asking = TRUE]
                 ELSE IF r = "moved" THEN [sreq EXCEPT !.at = sowner[n], !.asking = FALSE]
                 ELSE NoReq
  BY DEF Process
<1>3. n \in {Src, Dst} /\ sowner[n] \in Master /\ Other(n) \in Master
      /\ sreq \in [op : {"none", "get", "set", "del"}, key : SUBSET SKey, at : Master, asking : BOOLEAN]
  BY <1>1, TwoMasters DEF ReshardTypes
<1>4. r = "ask" => n = Src /\ plan \in {"migrating", "empty"} /\ \E k \in sreq.key : store[Src][k] = 0
  <2> SUFFICES ASSUME r = "ask"
               PROVE  n = Src /\ plan \in {"migrating", "empty"} /\ \E k \in sreq.key : store[Src][k] = 0
    OBVIOUS
  <2>1. Migrating(n) /\ Missing(n, sreq.key)
    BY DEF Route
  <2>2. sowner[n] = n /\ smig[n] /\ ~(sreq.key \subseteq Held(n))
    BY <2>1 DEF Migrating, Missing
  <2>3. n = Src
    BY <2>2, <1>1, <1>3 DEF SlotMoves
  <2>4. plan \in {"migrating", "empty"}
    BY <2>2, <2>3, <1>1 DEF SlotMoves
  <2>5. \E k \in sreq.key : store[Src][k] = 0
    BY <2>2, <2>3, <1>3 DEF Held
  <2>. QED
    BY <2>3, <2>4, <2>5
<1> HIDE DEF n, r
<1>5. /\ sreq' \in [op : {"none", "get", "set", "del"}, key : SUBSET SKey, at : Master, asking : BOOLEAN]
      /\ Askers'
  <2>1. CASE r = "ask"
    <3>1. /\ sreq' \in [op : {"none", "get", "set", "del"}, key : SUBSET SKey, at : Master, asking : BOOLEAN]
          /\ sreq'.at = Dst /\ sreq'.key = sreq.key /\ sreq'.op = sreq.op
      BY <1>2, <1>3, <1>4, <2>1, TwoMasters
    <3>2. Askers'
      BY <3>1, <1>1, <1>2, <1>4, <2>1 DEF Askers, Src, Dst
    <3>. QED
      BY <3>1, <3>2
  <2>2. CASE r = "moved"
    <3>1. /\ sreq' \in [op : {"none", "get", "set", "del"}, key : SUBSET SKey, at : Master, asking : BOOLEAN]
          /\ sreq'.asking = FALSE /\ sreq'.key = sreq.key /\ sreq'.op = sreq.op
      BY <1>2, <1>3, <2>2
    <3>2. Askers'
      BY <3>1, <1>1, <1>2 DEF Askers
    <3>. QED
      BY <3>1, <3>2
  <2>3. CASE r \notin {"ask", "moved"}
    BY <1>2, <2>3, NoReqType DEF Askers
  <2>. QED
    BY <2>1, <2>2, <2>3
<1>6. ReshardTypes'
  BY <1>1, <1>2, <1>5 DEF ReshardTypes
<1>7. KeysMove'
  BY <1>1, <1>2 DEF KeysMove, Src, Dst
<1>. QED
  BY <1>2, <1>5, <1>6, <1>7, KeysStay, SlotStays, NothingRead DEF ReshardInv

\* A GET is answered.
LEMMA GetKeeps ==
  ASSUME ReshardInv, Process, Route(sreq.at, sreq.key, sreq.asking) = "serve",
         sreq.op \notin {"set", "del"}
  PROVE  ReshardInv'
<1>1. ReshardTypes /\ KeysMove
  BY ReshardFacts
<1>2. /\ UNCHANGED <<sowner, smig, simp, sepoch, known, store, mreq, truth, unsure, plan, nsw>>
      /\ sreq' = NoReq
      /\ sans' = [op |-> sreq.op, key |-> sreq.key, val |-> [x \in sreq.key |-> store[sreq.at][x]]]
  BY DEF Process
<1>3. ReshardTypes'
  BY <1>1, <1>2, NoReqType DEF ReshardTypes
<1>4. KeysMove' /\ Askers'
  BY <1>1, <1>2, NoReqType DEF KeysMove, Askers, Src, Dst
<1>5. \A x \in sreq.key \ unsure : store[sreq.at][x] = truth[x]
  BY ServedCurrent
<1>6. ReadsLastWrite'
  BY <1>2, <1>5 DEF ReadsLastWrite
<1>. QED
  BY <1>2, <1>3, <1>4, <1>6, KeysStay, SlotStays DEF ReshardInv

\* A key is written or deleted.
LEMMA WriteKeeps ==
  ASSUME ReshardInv, Process, Route(sreq.at, sreq.key, sreq.asking) = "serve",
         sreq.op \in {"set", "del"}
  PROVE  ReshardInv'
<1> DEFINE n == sreq.at
           v == IF sreq.op = "del" THEN 0 ELSE nsw + 1
<1>1. /\ ReshardTypes /\ SlotMoves /\ KeysMove /\ Flights /\ Askers
      /\ Whereabouts /\ TwiceInFlight
  BY ReshardFacts
<1>2. PICK k \in SKey : sreq.key = {k}
  BY <1>1 DEF Askers
<1>3. /\ UNCHANGED <<sowner, smig, simp, sepoch, known, mreq, unsure, plan>>
      /\ sreq' = NoReq /\ sans'.op # "get" /\ ~Busy(n)
      /\ store' = [store EXCEPT ![n][k] = v] /\ truth' = [truth EXCEPT ![k] = v] /\ nsw' = nsw + 1
  <2>1. (CHOOSE x \in sreq.key : TRUE) = k
    BY <1>2
  <2>2. /\ UNCHANGED <<sowner, smig, simp, sepoch, known, mreq, unsure, plan>> /\ ~Busy(n)
        /\ sreq' = NoReq
        /\ sans' = [op |-> sreq.op, key |-> sreq.key, val |-> [x \in sreq.key |-> store[sreq.at][x]]]
    BY DEF Process
  <2>3. sans'.op # "get"
    BY <2>2
  <2>4. /\ store' = [store EXCEPT ![n][CHOOSE x \in sreq.key : TRUE] = v]
        /\ truth' = [truth EXCEPT ![CHOOSE x \in sreq.key : TRUE] = v] /\ nsw' = nsw + 1
    BY DEF Process
  <2>. QED
    BY <2>1, <2>2, <2>3, <2>4
<1>4. /\ n \in {Src, Dst} /\ v \in Nat /\ nsw + 1 \in Nat
      /\ store \in [Master -> [SKey -> Nat]] /\ truth \in [SKey -> Nat]
  BY <1>1, TwoMasters DEF ReshardTypes
<1> HIDE DEF v
<1>5. /\ store' \in [Master -> [SKey -> Nat]] /\ truth' \in [SKey -> Nat]
      /\ store'[n][k] = v /\ truth'[k] = v
      /\ \A x \in SKey : x # k => truth'[x] = truth[x]
      /\ \A m \in Master, x \in SKey : ~(m = n /\ x = k) => store'[m][x] = store[m][x]
  BY <1>3, <1>4, TwoMasters
<1>6. ReshardTypes'
  BY <1>1, <1>3, <1>4, <1>5, NoReqType DEF ReshardTypes
<1>7. Askers' /\ ReadsLastWrite'
  BY <1>3, NoReqType DEF Askers, ReadsLastWrite
<1>8. SlotMoves'
  BY <1>3, SlotStays
<1>9. plan \in {"start", "importing", "migrating", "empty"}
  BY <1>1 DEF ReshardTypes
<1>10. CASE n = Src
  <2>1. plan \in {"start", "importing"} \/ store[Src][k] # 0
    BY <1>2, <1>10, ServedWhere
  <2>2. mreq.todo = <<>> /\ mreq.replies = <<>>
    BY <1>1, <1>3, <1>10 DEF Busy, SlotMoves
  <2>3. Flights'
    <3>1. DOMAIN mreq'.todo = {} /\ DOMAIN mreq'.replies = {}
      BY <2>2, <1>3
    <3>. QED
      BY <3>1 DEF Flights
  <2>4. plan # "empty"
    BY <2>1, <1>1 DEF KeysMove
  <2>5. KeysMove'
    BY <2>4, <1>1, <1>3, <1>5, <1>10, TwoMasters DEF KeysMove, Src, Dst
  <2>6. store[Dst][k] # 0 => k \in unsure
    <3>1. plan \in {"start", "importing"} => store[Dst][k] = 0
      BY <1>1 DEF KeysMove
    <3>2. store[Src][k] # 0 /\ store[Dst][k] # 0 => k \in unsure
      BY <2>2, <1>1 DEF TwiceInFlight
    <3>. QED
      BY <2>1, <3>1, <3>2
  <2>7. /\ store'[Dst][k] = store[Dst][k] /\ store'[Src][k] = v
        /\ \A x \in SKey : x # k => /\ store'[Src][x] = store[Src][x]
                                    /\ store'[Dst][x] = store[Dst][x] /\ truth'[x] = truth[x]
    BY <1>5, <1>10, TwoMasters
  <2>8. \A x \in SKey : /\ store'[Src][x] # 0 => truth'[x] = store'[Src][x]
                        /\ store'[Src][x] = 0 => truth'[x] = store'[Dst][x] \/ (x \in unsure /\ truth'[x] = 0)
    BY <2>6, <2>7, <1>1, <1>5 DEF Whereabouts
  <2>9. Whereabouts'
    BY <2>8, <1>3 DEF Whereabouts, Src, Dst
  <2>10. \A x \in SKey : x \notin unsure /\ store'[Src][x] # 0 /\ store'[Dst][x] # 0
           => \E i \in DOMAIN mreq.replies : mreq.replies[i] = <<x, TRUE>>
    BY <2>6, <2>7, <1>1 DEF TwiceInFlight
  <2>11. TwiceInFlight'
    BY <2>10, <1>3 DEF TwiceInFlight, Src, Dst
  <2>. QED
    BY <2>3, <2>5, <2>9, <2>11, <1>6, <1>7, <1>8 DEF ReshardInv
<1>11. CASE n = Dst
  <2>1. plan \in {"migrating", "empty"} /\ store[Src][k] = 0
    <3>1. CASE plan = "empty"
      BY <3>1, <1>1 DEF KeysMove
    <3>2. CASE sreq.asking
      BY <3>2, <1>1, <1>2 DEF Askers
    <3>. QED
      BY <3>1, <3>2, <1>11, ServedWhere
  <2>2. /\ store'[Dst][k] = v /\ store'[Src] = store[Src]
        /\ \A x \in SKey : x # k => store'[Dst][x] = store[Dst][x] /\ truth'[x] = truth[x]
    BY <1>3, <1>4, <1>5, <1>11, TwoMasters
  <2>3. KeysMove'
    BY <2>1, <2>2, <1>1, <1>3 DEF KeysMove, Src, Dst
  <2>4. Flights'
    <3>1. \A i \in DOMAIN mreq.replies : mreq.replies[i] \in SKey \X BOOLEAN
      BY <1>1 DEF ReshardTypes
    <3>2. \A i \in DOMAIN mreq.replies : mreq.replies[i][2] =>
            /\ store'[Src][mreq.replies[i][1]] # 0
            /\ store'[Dst][mreq.replies[i][1]] = store'[Src][mreq.replies[i][1]]
      <4> SUFFICES ASSUME NEW i \in DOMAIN mreq.replies, mreq.replies[i][2]
                   PROVE  /\ store'[Src][mreq.replies[i][1]] # 0
                          /\ store'[Dst][mreq.replies[i][1]] = store'[Src][mreq.replies[i][1]]
        OBVIOUS
      <4> DEFINE x == mreq.replies[i][1]
      <4>1. store[Src][x] # 0 /\ store[Dst][x] = store[Src][x]
        BY <1>1 DEF Flights
      <4>2. x \in SKey
        BY <3>1
      <4> HIDE DEF x
      <4>3. store'[Src][x] # 0 /\ store'[Dst][x] = store'[Src][x]
        BY <4>1, <4>2, <2>1, <2>2
      <4>. QED
        BY <4>3 DEF x
    <3>3. /\ \A i \in DOMAIN mreq.todo :
               mreq.todo[i][2] = store'[Src][mreq.todo[i][1]] /\ mreq.todo[i][2] # 0
          /\ \A i, j \in DOMAIN mreq.todo : i # j => mreq.todo[i][1] # mreq.todo[j][1]
          /\ \A i, j \in DOMAIN mreq.replies : i # j => mreq.replies[i][1] # mreq.replies[j][1]
          /\ \A i \in DOMAIN mreq.todo, j \in DOMAIN mreq.replies : mreq.todo[i][1] # mreq.replies[j][1]
      BY <2>2, <1>1 DEF Flights
    <3>4. mreq' = mreq
      BY <1>3
    <3>5. /\ \A i \in DOMAIN mreq'.todo :
               mreq'.todo[i][2] = store'[Src][mreq'.todo[i][1]] /\ mreq'.todo[i][2] # 0
          /\ \A i \in DOMAIN mreq'.replies : mreq'.replies[i][2] =>
               /\ store'[Src][mreq'.replies[i][1]] # 0
               /\ store'[Dst][mreq'.replies[i][1]] = store'[Src][mreq'.replies[i][1]]
      BY <3>2, <3>3, <3>4
    <3>6. /\ \A i, j \in DOMAIN mreq'.todo : i # j => mreq'.todo[i][1] # mreq'.todo[j][1]
          /\ \A i, j \in DOMAIN mreq'.replies : i # j => mreq'.replies[i][1] # mreq'.replies[j][1]
          /\ \A i \in DOMAIN mreq'.todo, j \in DOMAIN mreq'.replies : mreq'.todo[i][1] # mreq'.replies[j][1]
      BY <3>3, <3>4
    <3>. QED
      BY <3>5, <3>6 DEF Flights, Src, Dst
  <2>5. \A x \in SKey : /\ store'[Src][x] # 0 => truth'[x] = store'[Src][x]
                        /\ store'[Src][x] = 0 => truth'[x] = store'[Dst][x] \/ (x \in unsure /\ truth'[x] = 0)
    BY <2>1, <2>2, <1>1, <1>5 DEF Whereabouts
  <2>6. Whereabouts'
    BY <2>5, <1>3 DEF Whereabouts, Src, Dst
  <2>7. \A x \in SKey : x \notin unsure /\ store'[Src][x] # 0 /\ store'[Dst][x] # 0
           => \E i \in DOMAIN mreq.replies : mreq.replies[i] = <<x, TRUE>>
    BY <2>1, <2>2, <1>1 DEF TwiceInFlight
  <2>8. TwiceInFlight'
    BY <2>7, <1>3 DEF TwiceInFlight, Src, Dst
  <2>. QED
    BY <2>3, <2>4, <2>6, <2>8, <1>6, <1>7, <1>8 DEF ReshardInv
<1>. QED
  BY <1>4, <1>10, <1>11

-----------------------------------------------------------------------------
\* A MIGRATE is begun.
LEMMA MigrateStartKeeps ==
  ASSUME ReshardInv, MigrateStart
  PROVE  ReshardInv'
<1>1. /\ ReshardTypes /\ SlotMoves /\ KeysMove /\ Flights /\ Askers
      /\ Whereabouts /\ TwiceInFlight
  BY ReshardFacts
<1>2. /\ UNCHANGED <<sowner, smig, simp, sepoch, known, store, sreq, truth, unsure, plan, nsw>>
      /\ sans' = NoAnswer /\ plan = "migrating" /\ ~mreq.on
  BY DEF MigrateStart
<1>3. mreq.replies = <<>>
  BY <1>1, <1>2 DEF SlotMoves
<1>4. PICK s \in {<<k>> : k \in Held(Src)} \cup {t \in [1..2 -> Held(Src)] : t[1] # t[2]} :
        mreq' = [on |-> TRUE, todo |-> [i \in 1..Len(s) |-> <<s[i], store[Src][s[i]]>>], replies |-> <<>>]
  BY DEF MigrateStart
<1>5. /\ Len(s) \in {1, 2} /\ \A i \in 1..Len(s) : s[i] \in Held(Src)
      /\ \A i, j \in 1..Len(s) : i # j => s[i] # s[j]
  <2>1. CASE s \in {<<k>> : k \in Held(Src)}
    <3>1. PICK k \in Held(Src) : s = <<k>>
      BY <2>1
    <3>2. Len(s) = 1 /\ s[1] = k /\ 1..1 = {1}
      BY <3>1
    <3>. QED
      BY <3>2
  <2>2. CASE s \in {t \in [1..2 -> Held(Src)] : t[1] # t[2]}
    <3>1. s \in [1..2 -> Held(Src)] /\ s[1] # s[2] /\ 1..2 = {1, 2}
      BY <2>2
    <3>2. Len(s) = 2
      <4>1. s = <<s[1], s[2]>>
        BY <3>1
      <4>2. Len(<<s[1], s[2]>>) = 2
        OBVIOUS
      <4>. QED
        BY <4>1, <4>2
    <3>. QED
      BY <3>1, <3>2
  <2>. QED
    BY <2>1, <2>2, <1>4
<1> DEFINE todo == [i \in 1..Len(s) |-> <<s[i], store[Src][s[i]]>>]
<1>6. \A i \in 1..Len(s) : s[i] \in SKey /\ store[Src][s[i]] # 0 /\ store[Src][s[i]] \in Nat
  BY <1>1, <1>5, TwoMasters DEF Held, ReshardTypes
<1>7. /\ todo \in Seq(SKey \X Nat) /\ DOMAIN todo = 1..Len(s)
      /\ \A i \in 1..Len(s) : todo[i][1] = s[i] /\ todo[i][2] = store[Src][s[i]]
  <2>1. \A i \in 1..Len(s) : <<s[i], store[Src][s[i]]>> \in SKey \X Nat
    BY <1>6
  <2>2. todo \in [1..Len(s) -> SKey \X Nat]
    BY <2>1
  <2>3. Len(s) \in Nat
    BY <1>5
  <2>. QED
    BY <2>2, <2>3
<1>8. mreq'.on = TRUE /\ mreq'.todo = todo /\ mreq'.replies = <<>>
      /\ mreq' \in [on : BOOLEAN, todo : Seq(SKey \X Nat), replies : Seq(SKey \X BOOLEAN)]
  BY <1>4, <1>7
<1> HIDE DEF todo
<1>9. ReshardTypes'
  BY <1>1, <1>2, <1>8 DEF ReshardTypes
<1>10. SlotMoves'
  BY <1>1, <1>2, <1>8 DEF SlotMoves, Src, Dst
<1>11. KeysMove' /\ Askers' /\ Whereabouts'
  BY <1>1, <1>2 DEF KeysMove, Askers, Whereabouts, Src, Dst
<1>12. Flights'
  <2>1. /\ \A i \in DOMAIN mreq'.todo : /\ mreq'.todo[i][2] = store'[Src][mreq'.todo[i][1]]
                                        /\ mreq'.todo[i][2] # 0
        /\ \A i, j \in DOMAIN mreq'.todo : i # j => mreq'.todo[i][1] # mreq'.todo[j][1]
    <3>1. /\ \A i \in DOMAIN todo : todo[i][2] = store[Src][todo[i][1]] /\ todo[i][2] # 0
          /\ \A i, j \in DOMAIN todo : i # j => todo[i][1] # todo[j][1]
      BY <1>5, <1>6, <1>7
    <3>. QED
      BY <3>1, <1>2, <1>8 DEF Src
  <2>2. DOMAIN mreq'.replies = {}
    BY <1>8
  <2>. QED
    BY <2>1, <2>2 DEF Flights, Src, Dst
<1>13. TwiceInFlight'
  BY <1>1, <1>2, <1>3, <1>8 DEF TwiceInFlight, Src, Dst
<1>. QED
  BY <1>2, <1>9, <1>10, <1>11, <1>12, <1>13, NothingRead DEF ReshardInv

\* The elements of the rest of a sequence.
LEMMA TailShifts ==
  ASSUME NEW S, NEW q \in Seq(S), q # <<>>
  PROVE  /\ \A i \in DOMAIN Tail(q) : i \in Nat /\ i + 1 \in DOMAIN q /\ i + 1 # 1 /\ Tail(q)[i] = q[i + 1]
         /\ \A i \in DOMAIN q : i # 1 => i - 1 \in DOMAIN Tail(q) /\ Tail(q)[i - 1] = q[i]
<1>1. Len(q) \in Nat /\ Len(q) # 0 /\ DOMAIN q = 1..Len(q)
  OBVIOUS
<1>2. /\ Len(Tail(q)) = Len(q) - 1 /\ DOMAIN Tail(q) = 1..(Len(q) - 1)
      /\ \A i \in 1..(Len(q) - 1) : Tail(q)[i] = q[i + 1]
  BY <1>1
<1>. QED
  BY <1>1, <1>2

LEMMA HeadFirst ==
  ASSUME NEW S, NEW q \in Seq(S), q # <<>>
  PROVE  1 \in DOMAIN q /\ q[1] = Head(q) /\ q[1] \in S
<1>1. Len(q) \in Nat /\ Len(q) # 0 /\ DOMAIN q = 1..Len(q)
  OBVIOUS
<1>. QED
  BY <1>1

\* The next key is restored at Dst, or refused there.
LEMMA RestoreKeeps ==
  ASSUME ReshardInv, Restore
  PROVE  ReshardInv'
<1> DEFINE k == Head(mreq.todo)[1]
           w == Head(mreq.todo)[2]
           ok == Route(Dst, {k}, TRUE) = "serve" /\ k \notin Held(Dst)
<1>1. /\ ReshardTypes /\ SlotMoves /\ KeysMove /\ Flights /\ Askers
      /\ Whereabouts /\ TwiceInFlight
  BY ReshardFacts
<1>2. /\ UNCHANGED <<sowner, smig, simp, sepoch, known, sreq, truth, unsure, plan, nsw>>
      /\ sans' = NoAnswer /\ mreq.on /\ mreq.todo # <<>>
      /\ store' = IF ok THEN [store EXCEPT ![Dst][k] = w] ELSE store
      /\ mreq' = [mreq EXCEPT !.todo = Tail(mreq.todo), !.replies = Append(mreq.replies, <<k, ok>>)]
  BY DEF Restore
<1>3. /\ mreq \in [on : BOOLEAN, todo : Seq(SKey \X Nat), replies : Seq(SKey \X BOOLEAN)]
      /\ store \in [Master -> [SKey -> Nat]]
  BY <1>1 DEF ReshardTypes
<1>4. ok \in BOOLEAN
  OBVIOUS
<1>5. /\ 1 \in DOMAIN mreq.todo /\ mreq.todo[1] = Head(mreq.todo)
      /\ mreq.todo[1][1] = k /\ mreq.todo[1][2] = w /\ k \in SKey /\ w \in Nat
  <2>1. mreq.todo \in Seq(SKey \X Nat)
    BY <1>3
  <2>2. 1 \in DOMAIN mreq.todo /\ mreq.todo[1] = Head(mreq.todo) /\ mreq.todo[1] \in SKey \X Nat
    BY <2>1, <1>2, HeadFirst
  <2>. QED
    BY <2>2
<1>6. ok => store[Dst][k] = 0
  BY <1>5 DEF Held
<1>7. store[Src][k] = w /\ w # 0
  BY <1>1, <1>5 DEF Flights
<1> HIDE DEF k, w, ok
<1>8. /\ mreq' \in [on : BOOLEAN, todo : Seq(SKey \X Nat), replies : Seq(SKey \X BOOLEAN)]
      /\ mreq'.on = mreq.on /\ mreq'.todo = Tail(mreq.todo) /\ mreq'.replies = Append(mreq.replies, <<k, ok>>)
  <2>1. Tail(mreq.todo) \in Seq(SKey \X Nat)
    BY <1>2, <1>3
  <2>2. Append(mreq.replies, <<k, ok>>) \in Seq(SKey \X BOOLEAN)
    BY <1>3, <1>4, <1>5
  <2>. QED
    BY <2>1, <2>2, <1>2, <1>3
<1>9. \A i \in DOMAIN mreq'.todo : i \in Nat /\ i + 1 \in DOMAIN mreq.todo /\ i + 1 # 1 /\ mreq'.todo[i] = mreq.todo[i + 1]
  <2>1. mreq.todo \in Seq(SKey \X Nat) /\ mreq.todo # <<>>
    BY <1>2, <1>3
  <2>2. \A i \in DOMAIN Tail(mreq.todo) : /\ i \in Nat /\ i + 1 \in DOMAIN mreq.todo /\ i + 1 # 1
                                          /\ Tail(mreq.todo)[i] = mreq.todo[i + 1]
    <3> DEFINE q == mreq.todo
    <3>1. q \in Seq(SKey \X Nat) /\ q # <<>>
      BY <2>1
    <3> HIDE DEF q
    <3>2. \A i \in DOMAIN Tail(q) : i \in Nat /\ i + 1 \in DOMAIN q /\ i + 1 # 1 /\ Tail(q)[i] = q[i + 1]
      BY <3>1, TailShifts
    <3>. QED
      BY <3>2 DEF q
  <2>. QED
    BY <2>2, <1>8
<1>10. \A i \in DOMAIN mreq'.replies :
         \/ i \in DOMAIN mreq.replies /\ mreq'.replies[i] = mreq.replies[i]
         \/ i = Len(mreq.replies) + 1 /\ mreq'.replies[i] = <<k, ok>>
  BY <1>3, <1>8
<1>11. /\ store' \in [Master -> [SKey -> Nat]] /\ store'[Src] = store[Src]
       /\ \A x \in SKey : x # k => store'[Dst][x] = store[Dst][x]
       /\ ok => store'[Dst][k] = w
       /\ ~ok => store'[Dst][k] = store[Dst][k]
  BY <1>2, <1>3, <1>5, TwoMasters
<1>12. plan = "migrating"
  BY <1>1, <1>2 DEF SlotMoves
<1>13. ReshardTypes'
  BY <1>1, <1>2, <1>8, <1>11 DEF ReshardTypes
<1>14. SlotMoves'
  BY <1>1, <1>2, <1>8 DEF SlotMoves, Src, Dst
<1>15. KeysMove' /\ Askers'
  BY <1>1, <1>2, <1>11, <1>12 DEF KeysMove, Askers, Src, Dst
<1>16. Flights'
  <2>0. /\ \A i \in DOMAIN mreq.todo :
             mreq.todo[i][2] = store[Src][mreq.todo[i][1]] /\ mreq.todo[i][2] # 0
        /\ \A i \in DOMAIN mreq.replies : mreq.replies[i][2] =>
             /\ store[Src][mreq.replies[i][1]] # 0
             /\ store[Dst][mreq.replies[i][1]] = store[Src][mreq.replies[i][1]]
        /\ \A i, j \in DOMAIN mreq.todo : i # j => mreq.todo[i][1] # mreq.todo[j][1]
        /\ \A i, j \in DOMAIN mreq.replies : i # j => mreq.replies[i][1] # mreq.replies[j][1]
        /\ \A i \in DOMAIN mreq.todo, j \in DOMAIN mreq.replies : mreq.todo[i][1] # mreq.replies[j][1]
    BY <1>1 DEF Flights
  <2>a. /\ \A j \in DOMAIN mreq.replies : mreq.replies[j][1] # k /\ mreq.replies[j][1] \in SKey
        /\ \A j \in DOMAIN mreq.todo : j # 1 => mreq.todo[j][1] # k
    <3>1. \A j \in DOMAIN mreq.replies : mreq.replies[j][1] \in SKey
      BY <1>3
    <3>. QED
      BY <3>1, <2>0, <1>5
  <2>1. \A i \in DOMAIN mreq'.todo :
          mreq'.todo[i][2] = store'[Src][mreq'.todo[i][1]] /\ mreq'.todo[i][2] # 0
    BY <2>0, <1>9, <1>11
  <2>2. \A i \in DOMAIN mreq'.replies : mreq'.replies[i][2] =>
          /\ store'[Src][mreq'.replies[i][1]] # 0
          /\ store'[Dst][mreq'.replies[i][1]] = store'[Src][mreq'.replies[i][1]]
    <3> SUFFICES ASSUME NEW i \in DOMAIN mreq'.replies, mreq'.replies[i][2]
                 PROVE  /\ store'[Src][mreq'.replies[i][1]] # 0
                        /\ store'[Dst][mreq'.replies[i][1]] = store'[Src][mreq'.replies[i][1]]
      OBVIOUS
    <3>1. CASE i \in DOMAIN mreq.replies /\ mreq'.replies[i] = mreq.replies[i]
      <4> DEFINE x == mreq.replies[i][1]
      <4>1. store[Src][x] # 0 /\ store[Dst][x] = store[Src][x]
        BY <3>1, <2>0
      <4>2. x \in SKey /\ x # k
        BY <3>1, <2>a
      <4>3. x = mreq'.replies[i][1]
        BY <3>1
      <4> HIDE DEF x
      <4>4. store'[Src][x] # 0 /\ store'[Dst][x] = store'[Src][x]
        BY <4>1, <4>2, <1>11
      <4>. QED
        BY <4>3, <4>4
    <3>2. CASE mreq'.replies[i] = <<k, ok>>
      BY <3>2, <1>7, <1>11
    <3>. QED
      BY <3>1, <3>2, <1>10
  <2>3. \A i, j \in DOMAIN mreq'.todo : i # j => mreq'.todo[i][1] # mreq'.todo[j][1]
    <3> SUFFICES ASSUME NEW i \in DOMAIN mreq'.todo, NEW j \in DOMAIN mreq'.todo, i # j
                 PROVE  mreq'.todo[i][1] # mreq'.todo[j][1]
      OBVIOUS
    <3>1. i + 1 # j + 1
      BY <1>9
    <3>. QED
      BY <3>1, <2>0, <1>9
  <2>4. \A i, j \in DOMAIN mreq'.replies : i # j => mreq'.replies[i][1] # mreq'.replies[j][1]
    <3> SUFFICES ASSUME NEW i \in DOMAIN mreq'.replies, NEW j \in DOMAIN mreq'.replies, i # j
                 PROVE  mreq'.replies[i][1] # mreq'.replies[j][1]
      OBVIOUS
    <3>. QED
      BY <2>0, <2>a, <1>10
  <2>5. \A i \in DOMAIN mreq'.todo, j \in DOMAIN mreq'.replies : mreq'.todo[i][1] # mreq'.replies[j][1]
    BY <2>0, <2>a, <1>9, <1>10
  <2>. QED
    BY <2>1, <2>2, <2>3, <2>4, <2>5 DEF Flights, Src, Dst
<1>17. Whereabouts'
  <2>1. \A x \in SKey : /\ store'[Src][x] # 0 => truth[x] = store'[Src][x]
                        /\ store'[Src][x] = 0 => truth[x] = store'[Dst][x] \/ (x \in unsure /\ truth[x] = 0)
    BY <1>1, <1>7, <1>11 DEF Whereabouts
  <2>. QED
    BY <2>1, <1>2 DEF Whereabouts, Src, Dst
<1>18. TwiceInFlight'
  <2>1. \A i \in DOMAIN mreq.replies : i \in DOMAIN mreq'.replies /\ mreq'.replies[i] = mreq.replies[i]
    BY <1>3, <1>8
  <2>2. Len(mreq.replies) + 1 \in DOMAIN mreq'.replies /\ mreq'.replies[Len(mreq.replies) + 1] = <<k, ok>>
    BY <1>3, <1>8
  <2>3. ASSUME NEW x \in SKey, x \notin unsure, store'[Src][x] # 0, store'[Dst][x] # 0
        PROVE  \E i \in DOMAIN mreq'.replies : mreq'.replies[i] = <<x, TRUE>>
    <3>1. CASE x = k /\ ok
      <4>1. <<k, ok>> = <<x, TRUE>>
        BY <3>1, <1>4
      <4>. QED
        BY <4>1, <2>2
    <3>2. CASE ~(x = k /\ ok)
      <4>1. store[Src][x] # 0 /\ store[Dst][x] # 0
        BY <3>2, <2>3, <1>11
      <4>. QED
        BY <4>1, <2>1, <2>3, <1>1 DEF TwiceInFlight
    <3>. QED
      BY <3>1, <3>2
  <2>. QED
    BY <2>3, <1>2 DEF TwiceInFlight, Src, Dst
<1>. QED
  BY <1>2, <1>13, <1>14, <1>15, <1>16, <1>17, <1>18, NothingRead DEF ReshardInv

\* The next reply is read: a key that was restored is deleted at Src.
LEMMA ReplyKeeps ==
  ASSUME ReshardInv, ReadReplyOf
  PROVE  ReshardInv'
<1> DEFINE q == mreq.replies
           k == Head(mreq.replies)[1]
           ok == Head(mreq.replies)[2]
<1>1. /\ ReshardTypes /\ SlotMoves /\ KeysMove /\ Flights /\ Askers
      /\ Whereabouts /\ TwiceInFlight
  BY ReshardFacts
<1>2. /\ UNCHANGED <<sowner, smig, simp, sepoch, known, sreq, truth, unsure, plan, nsw>>
      /\ sans' = NoAnswer /\ mreq.on /\ mreq.replies # <<>>
      /\ store' = IF ok THEN [store EXCEPT ![Src][k] = 0] ELSE store
      /\ \/ /\ mreq' = NoMigrate
            /\ mreq.todo = <<>> /\ Tail(mreq.replies) = <<>>
         \/ mreq' = [mreq EXCEPT !.replies = Tail(mreq.replies)]
  <2>1. [mreq EXCEPT !.replies = Tail(mreq.replies)].todo = mreq.todo
    BY <1>1 DEF ReshardTypes
  <2>2. [mreq EXCEPT !.replies = Tail(mreq.replies)].replies = Tail(mreq.replies)
    BY <1>1 DEF ReshardTypes
  <2>. QED
    BY <2>1, <2>2 DEF ReadReplyOf, AfterReply
<1>3. /\ mreq \in [on : BOOLEAN, todo : Seq(SKey \X Nat), replies : Seq(SKey \X BOOLEAN)]
      /\ store \in [Master -> [SKey -> Nat]]
  BY <1>1 DEF ReshardTypes
<1>4. q \in Seq(SKey \X BOOLEAN) /\ q # <<>> /\ k = Head(q)[1] /\ ok = Head(q)[2]
  BY <1>2, <1>3
<1>5. /\ mreq'.todo = mreq.todo /\ mreq'.replies = Tail(q)
      /\ mreq' \in [on : BOOLEAN, todo : Seq(SKey \X Nat), replies : Seq(SKey \X BOOLEAN)]
      /\ ~mreq'.on => mreq'.todo = <<>> /\ mreq'.replies = <<>>
  <2>1. CASE mreq' = NoMigrate /\ mreq.todo = <<>> /\ Tail(mreq.replies) = <<>>
    BY <2>1 DEF NoMigrate
  <2>2. CASE mreq' = [mreq EXCEPT !.replies = Tail(mreq.replies)]
    <3>1. Tail(q) \in Seq(SKey \X BOOLEAN)
      BY <1>4
    <3>. QED
      BY <2>2, <3>1, <1>2, <1>3
  <2>. QED
    BY <2>1, <2>2, <1>2
<1>6. /\ \A i \in DOMAIN mreq.todo : mreq.todo[i][1] \in SKey
      /\ \A i \in DOMAIN q : q[i][1] \in SKey /\ q[i][2] \in BOOLEAN
  BY <1>3
<1>7a. \A i \in DOMAIN mreq.todo :
         mreq.todo[i][2] = store[Src][mreq.todo[i][1]] /\ mreq.todo[i][2] # 0
  BY <1>1 DEF Flights
<1>7b. \A i \in DOMAIN q : q[i][2] => store[Src][q[i][1]] # 0 /\ store[Dst][q[i][1]] = store[Src][q[i][1]]
  BY <1>1 DEF Flights
<1>7c. \A i, j \in DOMAIN mreq.todo : i # j => mreq.todo[i][1] # mreq.todo[j][1]
  BY <1>1 DEF Flights
<1>7d. \A i, j \in DOMAIN q : i # j => q[i][1] # q[j][1]
  BY <1>1 DEF Flights
<1>7e. \A i \in DOMAIN mreq.todo, j \in DOMAIN q : mreq.todo[i][1] # q[j][1]
  BY <1>1 DEF Flights
<1>8. \A x \in SKey : x \notin unsure /\ store[Src][x] # 0 /\ store[Dst][x] # 0
                        => \E i \in DOMAIN q : q[i] = <<x, TRUE>>
  BY <1>1 DEF TwiceInFlight
<1> HIDE DEF q, k, ok
<1>9. 1 \in DOMAIN q /\ q[1][1] = k /\ q[1][2] = ok /\ k \in SKey
  <2>1. 1 \in DOMAIN q /\ q[1] = Head(q)
    BY <1>4, HeadFirst
  <2>. QED
    BY <2>1, <1>4, <1>6
<1>10. /\ \A i \in DOMAIN Tail(q) : i \in Nat /\ i + 1 \in DOMAIN q /\ i + 1 # 1 /\ Tail(q)[i] = q[i + 1]
       /\ \A i \in DOMAIN q : i # 1 => i - 1 \in DOMAIN Tail(q) /\ Tail(q)[i - 1] = q[i]
  BY <1>4, TailShifts
<1>11. /\ store' \in [Master -> [SKey -> Nat]] /\ store'[Dst] = store[Dst]
       /\ \A x \in SKey : x # k => store'[Src][x] = store[Src][x]
       /\ ok => store'[Src][k] = 0
       /\ ~ok => store' = store
  BY <1>2, <1>3, <1>9, TwoMasters
<1>12. plan = "migrating"
  BY <1>1, <1>2 DEF SlotMoves
<1>13. ReshardTypes'
  BY <1>1, <1>2, <1>5, <1>11 DEF ReshardTypes
<1>14. SlotMoves'
  BY <1>1, <1>2, <1>5, <1>12 DEF SlotMoves, Src, Dst
<1>15. KeysMove'
  BY <1>2, <1>12 DEF KeysMove
<1>16. Askers'
  <2>1. \A x \in SKey : store[Src][x] = 0 => store'[Src][x] = 0
    BY <1>11
  <2>2. sreq.key \in SUBSET SKey
    BY <1>1 DEF ReshardTypes
  <2>3. (\E x \in sreq.key : store[Src][x] = 0) => \E x \in sreq.key : store'[Src][x] = 0
    BY <2>1, <2>2
  <2>. QED
    BY <2>3, <1>1, <1>2 DEF Askers, Src, Dst
<1>17. Flights'
  <2>1. \A i \in DOMAIN mreq.todo : store'[Src][mreq.todo[i][1]] = store[Src][mreq.todo[i][1]]
    <3> SUFFICES ASSUME NEW i \in DOMAIN mreq.todo
                 PROVE  store'[Src][mreq.todo[i][1]] = store[Src][mreq.todo[i][1]]
      OBVIOUS
    <3>1. mreq.todo[i][1] \in SKey /\ mreq.todo[i][1] # k
      BY <1>6, <1>7e, <1>9
    <3>. QED
      BY <3>1, <1>11
  <2>2. \A i \in DOMAIN Tail(q) : /\ store'[Src][Tail(q)[i][1]] = store[Src][Tail(q)[i][1]]
                                  /\ store'[Dst][Tail(q)[i][1]] = store[Dst][Tail(q)[i][1]]
    <3> SUFFICES ASSUME NEW i \in DOMAIN Tail(q)
                 PROVE  /\ store'[Src][Tail(q)[i][1]] = store[Src][Tail(q)[i][1]]
                        /\ store'[Dst][Tail(q)[i][1]] = store[Dst][Tail(q)[i][1]]
      OBVIOUS
    <3>1. i + 1 \in DOMAIN q /\ i + 1 # 1 /\ Tail(q)[i] = q[i + 1]
      BY <1>10
    <3>2. q[i + 1][1] # k /\ q[i + 1][1] \in SKey
      BY <3>1, <1>6, <1>7d, <1>9
    <3>. QED
      BY <3>1, <3>2, <1>11
  <2>3. \A i \in DOMAIN mreq.todo :
           mreq.todo[i][2] = store'[Src][mreq.todo[i][1]] /\ mreq.todo[i][2] # 0
    BY <2>1, <1>7a
  <2>4. \A i \in DOMAIN Tail(q) : Tail(q)[i][2] =>
           store'[Src][Tail(q)[i][1]] # 0 /\ store'[Dst][Tail(q)[i][1]] = store'[Src][Tail(q)[i][1]]
    <3> SUFFICES ASSUME NEW i \in DOMAIN Tail(q), Tail(q)[i][2]
                 PROVE  /\ store'[Src][Tail(q)[i][1]] # 0
                        /\ store'[Dst][Tail(q)[i][1]] = store'[Src][Tail(q)[i][1]]
      OBVIOUS
    <3>1. i + 1 \in DOMAIN q /\ Tail(q)[i] = q[i + 1]
      BY <1>10
    <3>2. store[Src][q[i + 1][1]] # 0 /\ store[Dst][q[i + 1][1]] = store[Src][q[i + 1][1]]
      BY <3>1, <1>7b
    <3>3. store[Src][Tail(q)[i][1]] # 0 /\ store[Dst][Tail(q)[i][1]] = store[Src][Tail(q)[i][1]]
      BY <3>1, <3>2
    <3>. QED
      BY <3>3, <2>2
  <2>5. \A i, j \in DOMAIN Tail(q) : i # j => Tail(q)[i][1] # Tail(q)[j][1]
    <3> SUFFICES ASSUME NEW i \in DOMAIN Tail(q), NEW j \in DOMAIN Tail(q), i # j
                 PROVE  Tail(q)[i][1] # Tail(q)[j][1]
      OBVIOUS
    <3>1. /\ i + 1 \in DOMAIN q /\ j + 1 \in DOMAIN q /\ i + 1 # j + 1
          /\ Tail(q)[i] = q[i + 1] /\ Tail(q)[j] = q[j + 1]
      BY <1>10
    <3>. QED
      BY <3>1, <1>7d
  <2>6. \A i \in DOMAIN mreq.todo, j \in DOMAIN Tail(q) : mreq.todo[i][1] # Tail(q)[j][1]
    <3> SUFFICES ASSUME NEW i \in DOMAIN mreq.todo, NEW j \in DOMAIN Tail(q)
                 PROVE  mreq.todo[i][1] # Tail(q)[j][1]
      OBVIOUS
    <3>1. j + 1 \in DOMAIN q /\ Tail(q)[j] = q[j + 1]
      BY <1>10
    <3>. QED
      BY <3>1, <1>7e
  <2>7. mreq'.todo = mreq.todo /\ mreq'.replies = Tail(q)
    BY <1>5
  <2>8. /\ \A i \in DOMAIN mreq'.todo :
             mreq'.todo[i][2] = store'[Src][mreq'.todo[i][1]] /\ mreq'.todo[i][2] # 0
        /\ \A i \in DOMAIN mreq'.replies : mreq'.replies[i][2] =>
             /\ store'[Src][mreq'.replies[i][1]] # 0
             /\ store'[Dst][mreq'.replies[i][1]] = store'[Src][mreq'.replies[i][1]]
    BY <2>3, <2>4, <2>7
  <2>9. /\ \A i, j \in DOMAIN mreq'.todo : i # j => mreq'.todo[i][1] # mreq'.todo[j][1]
        /\ \A i, j \in DOMAIN mreq'.replies : i # j => mreq'.replies[i][1] # mreq'.replies[j][1]
        /\ \A i \in DOMAIN mreq'.todo, j \in DOMAIN mreq'.replies : mreq'.todo[i][1] # mreq'.replies[j][1]
    BY <2>5, <2>6, <2>7, <1>7c
  <2>. QED
    BY <2>8, <2>9 DEF Flights, Src, Dst
<1>18. Whereabouts'
  <2>1. ok => truth[k] = store[Dst][k]
    BY <1>1, <1>7b, <1>9 DEF Whereabouts
  <2>2. \A x \in SKey : /\ store'[Src][x] # 0 => truth[x] = store'[Src][x]
                        /\ store'[Src][x] = 0 => truth[x] = store'[Dst][x] \/ (x \in unsure /\ truth[x] = 0)
    BY <2>1, <1>1, <1>11 DEF Whereabouts
  <2>. QED
    BY <2>2, <1>2 DEF Whereabouts, Src, Dst
<1>19. TwiceInFlight'
  <2>1. ASSUME NEW x \in SKey, x \notin unsure, store'[Src][x] # 0, store'[Dst][x] # 0
        PROVE  \E i \in DOMAIN Tail(q) : Tail(q)[i] = <<x, TRUE>>
    <3>1. ~(x = k /\ ok) /\ store[Src][x] # 0 /\ store[Dst][x] # 0
      BY <2>1, <1>11
    <3>2. PICK i \in DOMAIN q : q[i] = <<x, TRUE>>
      BY <2>1, <3>1, <1>8
    <3>3. q[i][1] = x /\ q[i][2] = TRUE
      BY <3>2
    <3>4. i # 1
      BY <3>1, <3>3, <1>9
    <3>. QED
      BY <3>2, <3>4, <1>10
  <2>. QED
    BY <2>1, <1>2, <1>5 DEF TwiceInFlight, Src, Dst
<1>. QED
  BY <1>2, <1>13, <1>14, <1>15, <1>16, <1>17, <1>18, <1>19, NothingRead DEF ReshardInv

\* A MIGRATE fails: its keys are no longer known to be at one node.
LEMMA MigrateFailsKeeps ==
  ASSUME ReshardInv, MigrateFails
  PROVE  ReshardInv'
<1> DEFINE more == {mreq.todo[i][1] : i \in 1..Len(mreq.todo)} \cup {mreq.replies[i][1] : i \in 1..Len(mreq.replies)}
<1>1. /\ ReshardTypes /\ SlotMoves /\ KeysMove /\ Askers /\ Whereabouts /\ TwiceInFlight
  BY ReshardFacts
<1>2. /\ UNCHANGED <<sowner, smig, simp, sepoch, known, store, sreq, truth, plan, nsw>>
      /\ sans' = NoAnswer /\ mreq' = NoMigrate /\ unsure' = unsure \cup more
  BY DEF MigrateFails
<1>3. /\ mreq' \in [on : BOOLEAN, todo : Seq(SKey \X Nat), replies : Seq(SKey \X BOOLEAN)]
      /\ mreq'.on = FALSE /\ mreq'.todo = <<>> /\ mreq'.replies = <<>>
  BY <1>2 DEF NoMigrate
<1>4. more \in SUBSET SKey /\ \A i \in DOMAIN mreq.replies : mreq.replies[i][1] \in more
  <2>1. mreq.todo \in Seq(SKey \X Nat) /\ mreq.replies \in Seq(SKey \X BOOLEAN)
    BY <1>1 DEF ReshardTypes
  <2>2. /\ \A i \in 1..Len(mreq.todo) : mreq.todo[i][1] \in SKey
        /\ \A i \in 1..Len(mreq.replies) : mreq.replies[i][1] \in SKey
    BY <2>1
  <2>3. DOMAIN mreq.replies = 1..Len(mreq.replies)
    BY <2>1
  <2>. QED
    BY <2>2, <2>3
<1> HIDE DEF more
<1>5. ReshardTypes'
  BY <1>1, <1>2, <1>3, <1>4 DEF ReshardTypes
<1>6. SlotMoves' /\ KeysMove' /\ Askers'
  BY <1>1, <1>2, <1>3 DEF SlotMoves, KeysMove, Askers, Src, Dst
<1>7. Flights'
  BY <1>3 DEF Flights
<1>8. Whereabouts'
  BY <1>1, <1>2 DEF Whereabouts, Src, Dst
<1>9. TwiceInFlight'
  <2>1. ASSUME NEW x \in SKey, x \notin unsure \cup more PROVE ~(store[Src][x] # 0 /\ store[Dst][x] # 0)
    <3> SUFFICES ASSUME store[Src][x] # 0, store[Dst][x] # 0 PROVE FALSE
      OBVIOUS
    <3>1. PICK i \in DOMAIN mreq.replies : mreq.replies[i] = <<x, TRUE>>
      BY <2>1, <1>1 DEF TwiceInFlight
    <3>2. mreq.replies[i][1] = x
      BY <3>1
    <3>. QED
      BY <3>1, <3>2, <2>1, <1>4
  <2>. QED
    BY <2>1, <1>2 DEF TwiceInFlight, Src, Dst
<1>. QED
  BY <1>2, <1>5, <1>6, <1>7, <1>8, <1>9, NothingRead DEF ReshardInv

-----------------------------------------------------------------------------
\* The administrator's steps before the slot changes hands.
LEMMA MarksKeep ==
  ASSUME ReshardInv, SetSlotImporting \/ SetSlotMigrating \/ SlotIsEmpty
  PROVE  ReshardInv'
<1>1. ReshardTypes /\ SlotMoves /\ KeysMove /\ Askers
  BY ReshardFacts
<1>2. /\ UNCHANGED <<sowner, sepoch, known, store, mreq, sreq, truth, unsure, nsw>>
      /\ sans' = NoAnswer
  BY DEF SetSlotImporting, SetSlotMigrating, SlotIsEmpty
<1>3. smig \in [Master -> BOOLEAN] /\ simp \in [Master -> BOOLEAN] /\ sowner \in [Master -> Master]
  BY <1>1 DEF ReshardTypes
<1>4. CASE SetSlotImporting
  <2>1. /\ plan = "start" /\ plan' = "importing" /\ smig' = smig
        /\ simp' = [simp EXCEPT ![Dst] = TRUE] /\ sowner[Dst] # Dst
    BY <1>4 DEF SetSlotImporting
  <2>2. simp' \in [Master -> BOOLEAN] /\ simp'[Dst] = TRUE /\ simp'[Src] = simp[Src]
    BY <2>1, <1>3, TwoMasters
  <2>3. ReshardTypes'
    BY <2>1, <2>2, <1>1, <1>2 DEF ReshardTypes
  <2>4. SlotMoves'
    BY <2>1, <2>2, <1>1, <1>2 DEF SlotMoves, Src, Dst
  <2>5. KeysMove' /\ Askers'
    BY <2>1, <1>1, <1>2 DEF KeysMove, Askers, Src, Dst
  <2>. QED
    BY <2>3, <2>4, <2>5, <1>2, KeysStay, NothingRead DEF ReshardInv
<1>5. CASE SetSlotMigrating
  <2>1. /\ plan = "importing" /\ plan' = "migrating" /\ simp' = simp
        /\ smig' = [smig EXCEPT ![Src] = TRUE] /\ sowner[Src] = Src
    BY <1>5 DEF SetSlotMigrating
  <2>2. smig' \in [Master -> BOOLEAN] /\ smig'[Src] = TRUE /\ smig'[Dst] = smig[Dst]
    BY <2>1, <1>3, TwoMasters
  <2>3. ReshardTypes'
    BY <2>1, <2>2, <1>1, <1>2 DEF ReshardTypes
  <2>4. SlotMoves'
    BY <2>1, <2>2, <1>1, <1>2 DEF SlotMoves, Src, Dst
  <2>5. KeysMove' /\ Askers'
    BY <2>1, <1>1, <1>2 DEF KeysMove, Askers, Src, Dst
  <2>. QED
    BY <2>3, <2>4, <2>5, <1>2, KeysStay, NothingRead DEF ReshardInv
<1>6. CASE SlotIsEmpty
  <2>1. /\ plan = "migrating" /\ plan' = "empty" /\ simp' = simp /\ smig' = smig
        /\ ~mreq.on /\ Held(Src) = {}
    BY <1>6 DEF SlotIsEmpty, Busy
  <2>2. ReshardTypes'
    BY <2>1, <1>1, <1>2 DEF ReshardTypes
  <2>3. SlotMoves'
    BY <2>1, <1>1, <1>2 DEF SlotMoves, Src, Dst
  <2>4. \A k \in SKey : store[Src][k] = 0
    BY <2>1 DEF Held
  <2>5. KeysMove' /\ Askers'
    BY <2>1, <2>4, <1>1, <1>2 DEF KeysMove, Askers, Src, Dst
  <2>. QED
    BY <2>2, <2>3, <2>5, <1>2, KeysStay, NothingRead DEF ReshardInv
<1>. QED
  BY <1>4, <1>5, <1>6

\* The slot changes hands: Dst takes it with a configEpoch larger than that of Src.
LEMMA HandOverKeeps ==
  ASSUME ReshardInv, SetSlotNodeAtDst \/ SetSlotNodeAtSrc
  PROVE  ReshardInv'
<1>1. ReshardTypes /\ SlotMoves /\ KeysMove /\ Askers
  BY ReshardFacts
<1>2. /\ UNCHANGED <<known, store, mreq, sreq, truth, unsure, plan, nsw>>
      /\ sans' = NoAnswer /\ plan = "empty"
  BY DEF SetSlotNodeAtDst, SetSlotNodeAtSrc
<1>3. /\ smig \in [Master -> BOOLEAN] /\ simp \in [Master -> BOOLEAN] /\ sowner \in [Master -> Master]
      /\ sepoch \in [Master -> Nat] /\ known \in [Master -> Nat]
  BY <1>1 DEF ReshardTypes
<1>4. KeysMove' /\ Askers'
  BY <1>1, <1>2 DEF KeysMove, Askers, Src, Dst
<1>5. CASE SetSlotNodeAtDst
  <2> DEFINE bump == IF sepoch[Dst] > known[Dst] THEN sepoch[Dst] ELSE known[Dst] + 1
  <2>1. /\ sowner[Dst] # Dst /\ sowner' = [sowner EXCEPT ![Dst] = Dst] /\ smig' = smig
        /\ sepoch' = IF simp[Dst] THEN [sepoch EXCEPT ![Dst] = bump] ELSE sepoch
        /\ simp' = [simp EXCEPT ![Dst] = FALSE]
    BY <1>5 DEF SetSlotNodeAtDst
  <2>2. sowner[Dst] = Src
    BY <2>1, <1>3, TwoMasters
  <2>3. simp[Dst]
    BY <2>2, <1>1, <1>2 DEF SlotMoves
  <2>4. sepoch[Dst] \in Nat /\ known[Dst] = 2
    BY <1>1, <1>3, TwoMasters DEF SlotMoves
  <2>5. bump \in Nat /\ bump > 2
    BY <2>4
  <2> HIDE DEF bump
  <2>6. /\ sowner' \in [Master -> Master] /\ sowner'[Dst] = Dst /\ sowner'[Src] = sowner[Src]
        /\ simp' \in [Master -> BOOLEAN] /\ simp'[Src] = simp[Src]
    BY <2>1, <1>3, TwoMasters
  <2>7. sepoch' \in [Master -> Nat] /\ sepoch'[Dst] > 2 /\ sepoch'[Src] = sepoch[Src]
    BY <2>1, <2>3, <2>5, <1>3, TwoMasters
  <2>8. ReshardTypes'
    BY <2>1, <2>6, <2>7, <1>1, <1>2 DEF ReshardTypes
  <2>9. SlotMoves'
    BY <2>1, <2>6, <2>7, <1>1, <1>2 DEF SlotMoves, Src, Dst
  <2>. QED
    BY <2>8, <2>9, <1>2, <1>4, KeysStay, NothingRead DEF ReshardInv
<1>6. CASE SetSlotNodeAtSrc
  <2>1. /\ sowner' = [sowner EXCEPT ![Src] = Dst] /\ smig' = [smig EXCEPT ![Src] = FALSE]
        /\ simp' = simp /\ sepoch' = sepoch
    BY <1>6 DEF SetSlotNodeAtSrc
  <2>2. /\ sowner' \in [Master -> Master] /\ sowner'[Src] = Dst /\ sowner'[Dst] = sowner[Dst]
        /\ smig' \in [Master -> BOOLEAN] /\ smig'[Dst] = smig[Dst]
    BY <2>1, <1>3, TwoMasters
  <2>3. ReshardTypes'
    BY <2>1, <2>2, <1>1, <1>2 DEF ReshardTypes
  <2>4. SlotMoves'
    BY <2>1, <2>2, <1>1, <1>2 DEF SlotMoves, Src, Dst
  <2>. QED
    BY <2>3, <2>4, <1>2, <1>4, KeysStay, NothingRead DEF ReshardInv
<1>. QED
  BY <1>5, <1>6

\* A packet of the other node arrives.  Src gives up the slot only when it has no key of
\* it; Dst never gives it up again.
LEMMA SlotClaimKeeps ==
  ASSUME ReshardInv, NEW n \in Master, Gossip(n)
  PROVE  ReshardInv'
<1> DEFINE claims == sowner[Other(n)] = Other(n) /\ sowner[n] # Other(n) /\ ~simp[n] /\ sepoch[n] < sepoch[Other(n)]
<1>1. ReshardTypes /\ SlotMoves /\ KeysMove /\ Askers
  BY ReshardFacts
<1>2. /\ UNCHANGED <<smig, simp, sepoch, mreq, sreq, truth, unsure, plan, nsw>>
      /\ sans' = NoAnswer /\ known' = [known EXCEPT ![n] = sepoch[Other(n)]]
      /\ sowner' = IF claims THEN [sowner EXCEPT ![n] = Other(n)] ELSE sowner
      /\ store' = IF claims THEN [store EXCEPT ![n] = [k \in SKey |-> 0]] ELSE store
  BY DEF Gossip
<1>3. /\ sowner \in [Master -> Master] /\ sepoch \in [Master -> Nat] /\ known \in [Master -> Nat]
      /\ store \in [Master -> [SKey -> Nat]] /\ Other(n) \in Master /\ n \in {Src, Dst}
  BY <1>1, TwoMasters DEF ReshardTypes
<1>4. claims => n = Src /\ plan = "empty"
  <2>1. CASE n = Src
    BY <2>1, <1>1, TwoMasters DEF SlotMoves
  <2>2. CASE n = Dst
    <3>1. claims => sowner[Dst] = Dst /\ sepoch[Dst] < sepoch[Src]
      BY <2>2, <1>3, TwoMasters
    <3>2. sepoch[Dst] \in Nat /\ sepoch[Src] = 2 /\ (sowner[Dst] = Dst => sepoch[Dst] > 2)
      BY <1>1, <1>3, TwoMasters DEF SlotMoves
    <3>. QED
      BY <3>1, <3>2
  <2>. QED
    BY <2>1, <2>2, <1>3
<1> HIDE DEF claims
<1>5. store' = store
  <2>1. CASE claims
    <3>1. store[Src] = [k \in SKey |-> 0]
      <4>1. store[Src] \in [SKey -> Nat] /\ \A k \in SKey : store[Src][k] = 0
        BY <2>1, <1>1, <1>3, <1>4, TwoMasters DEF KeysMove
      <4>. QED
        BY <4>1
    <3>2. store' = [store EXCEPT ![Src] = [k \in SKey |-> 0]]
      BY <2>1, <1>2, <1>4
    <3>. QED
      BY <3>1, <3>2, <1>3, TwoMasters
  <2>2. CASE ~claims
    BY <2>2, <1>2
  <2>. QED
    BY <2>1, <2>2
<1>6. /\ known' \in [Master -> Nat] /\ known'[Dst] = 2
  <2>1. sepoch[Src] = 2 /\ known[Dst] = 2 /\ sepoch[Other(n)] \in Nat
    BY <1>1, <1>3 DEF SlotMoves
  <2>. QED
    BY <2>1, <1>2, <1>3, TwoMasters
<1>7. /\ sowner' \in [Master -> Master] /\ sowner'[Dst] = sowner[Dst]
      /\ sowner'[Src] = sowner[Src] \/ (sowner'[Src] = Dst /\ plan = "empty")
  BY <1>2, <1>3, <1>4, TwoMasters
<1>8. ReshardTypes'
  BY <1>1, <1>2, <1>5, <1>6, <1>7 DEF ReshardTypes
<1>9. SlotMoves'
  BY <1>1, <1>2, <1>6, <1>7 DEF SlotMoves, Src, Dst
<1>10. KeysMove' /\ Askers'
  BY <1>1, <1>2, <1>5 DEF KeysMove, Askers, Src, Dst
<1>. QED
  BY <1>2, <1>5, <1>8, <1>9, <1>10, KeysStay, NothingRead DEF ReshardInv

\* A node restarts.
LEMMA SlotRestartKeeps ==
  ASSUME ReshardInv, NEW n \in Master, RestartNode(n)
  PROVE  ReshardInv'
<1>1. ReshardTypes /\ SlotMoves /\ KeysMove /\ Askers
  BY ReshardFacts
<1>2. /\ UNCHANGED <<sowner, smig, sepoch, known, store, mreq, sreq, truth, unsure, plan, nsw>>
      /\ sans' = NoAnswer
      /\ simp' = [simp EXCEPT ![n] = simp[n] \/ (sowner[n] # n /\ Held(n) # {})]
  BY DEF RestartNode
<1>3. simp \in [Master -> BOOLEAN] /\ sowner \in [Master -> Master]
  BY <1>1 DEF ReshardTypes
<1>4. simp' \in [Master -> BOOLEAN] /\ (simp[Dst] => simp'[Dst])
  BY <1>2, <1>3, TwoMasters
<1>5. ~simp'[Src]
  <2>1. sowner[Src] # Src => Held(Src) = {}
    <3>1. sowner[Src] # Src => plan = "empty"
      BY <1>1, <1>3, TwoMasters DEF SlotMoves
    <3>. QED
      BY <3>1, <1>1 DEF KeysMove, Held
  <2>2. ~simp[Src]
    BY <1>1 DEF SlotMoves
  <2>. QED
    BY <2>1, <2>2, <1>2, <1>3, TwoMasters
<1>6. ReshardTypes'
  BY <1>1, <1>2, <1>4 DEF ReshardTypes
<1>7. SlotMoves'
  BY <1>1, <1>2, <1>4, <1>5 DEF SlotMoves, Src, Dst
<1>8. KeysMove' /\ Askers'
  BY <1>1, <1>2 DEF KeysMove, Askers, Src, Dst
<1>. QED
  BY <1>2, <1>6, <1>7, <1>8, KeysStay, NothingRead DEF ReshardInv

-----------------------------------------------------------------------------
LEMMA ReshardStarts == SInit => ReshardInv
<1> SUFFICES ASSUME SInit PROVE ReshardInv
  OBVIOUS
<1>1. /\ sowner = [n \in Master |-> Src] /\ smig = [n \in Master |-> FALSE] /\ simp = [n \in Master |-> FALSE]
      /\ sepoch = [n \in Master |-> IF n = Src THEN 2 ELSE 1] /\ known = [n \in Master |-> sepoch[Other(n)]]
      /\ mreq = NoMigrate /\ sreq = NoReq /\ sans = NoAnswer /\ unsure = {} /\ plan = "start" /\ nsw = 1
  BY DEF SInit
<1>2. PICK f \in [SKey -> {0, 1}] :
         truth = f /\ store = [n \in Master |-> [k \in SKey |-> IF n = Src THEN f[k] ELSE 0]]
  BY DEF SInit
<1>3. /\ mreq \in [on : BOOLEAN, todo : Seq(SKey \X Nat), replies : Seq(SKey \X BOOLEAN)]
      /\ mreq.on = FALSE /\ mreq.todo = <<>> /\ mreq.replies = <<>>
  BY <1>1 DEF NoMigrate
<1>4. /\ truth \in [SKey -> Nat] /\ store \in [Master -> [SKey -> Nat]]
      /\ \A k \in SKey : store[Src][k] = truth[k] /\ store[Dst][k] = 0
  BY <1>2, TwoMasters
<1>5. /\ sepoch \in [Master -> Nat] /\ sepoch[Src] = 2 /\ sepoch[Dst] = 1
  BY <1>1, TwoMasters
<1>6. known \in [Master -> Nat] /\ known[Dst] = 2
  BY <1>1, <1>5, TwoMasters
<1>7. ReshardTypes
  BY <1>1, <1>3, <1>4, <1>5, <1>6, NoReqType, TwoMasters DEF ReshardTypes
<1>8. SlotMoves
  BY <1>1, <1>3, <1>5, <1>6, TwoMasters DEF SlotMoves
<1>9. KeysMove /\ Flights /\ Askers
  <2>1. DOMAIN mreq.todo = {} /\ DOMAIN mreq.replies = {}
    BY <1>3
  <2>2. Flights
    BY <2>1 DEF Flights
  <2>3. sreq.op = "none" /\ sreq.asking = FALSE
    BY <1>1, NoReqType
  <2>. QED
    BY <2>2, <2>3, <1>1, <1>4 DEF KeysMove, Askers
<1>10. Whereabouts /\ TwiceInFlight
  BY <1>4 DEF Whereabouts, TwiceInFlight
<1>11. ReadsLastWrite
  BY <1>1 DEF ReadsLastWrite, NoAnswer
<1>. QED
  BY <1>7, <1>8, <1>9, <1>10, <1>11 DEF ReshardInv

LEMMA ReshardStep == ReshardInv /\ [SNext]_svars => ReshardInv'
<1> SUFFICES ASSUME ReshardInv, [SNext]_svars PROVE ReshardInv'
  OBVIOUS
<1>1. CASE Request \/ RequestMany
  BY <1>1, AskKeeps
<1>2. CASE Process
  BY <1>2, RedirectKeeps, GetKeeps, WriteKeeps
<1>3. CASE MigrateStart \/ Restore \/ ReadReplyOf \/ MigrateFails
  BY <1>3, MigrateStartKeeps, RestoreKeeps, ReplyKeeps, MigrateFailsKeeps
<1>4. CASE SetSlotImporting \/ SetSlotMigrating \/ SlotIsEmpty
  BY <1>4, MarksKeep
<1>5. CASE SetSlotNodeAtDst \/ SetSlotNodeAtSrc
  BY <1>5, HandOverKeeps
<1>6. CASE \E n \in Master : Gossip(n) \/ RestartNode(n)
  BY <1>6, SlotClaimKeeps, SlotRestartKeeps
<1>7. CASE UNCHANGED svars
  <2>1. UNCHANGED <<sowner, smig, simp, sepoch, known, store, mreq, sreq, sans, truth, unsure, plan, nsw>>
    BY <1>7 DEF svars
  <2>2. ReshardTypes /\ KeysMove /\ Askers /\ ReadsLastWrite
    BY ReshardFacts
  <2>3. ReshardTypes'
    BY <2>1, <2>2 DEF ReshardTypes
  <2>4. KeysMove' /\ Askers' /\ ReadsLastWrite'
    BY <2>1, <2>2 DEF KeysMove, Askers, ReadsLastWrite, Src, Dst
  <2>. QED
    BY <2>1, <2>3, <2>4, KeysStay, SlotStays DEF ReshardInv
<1>. QED
  BY <1>1, <1>2, <1>3, <1>4, <1>5, <1>6, <1>7 DEF SNext

\* The value last written is at one of the nodes.
LEMMA ReshardUse == ReshardInv => ReshardingSafe
<1> SUFFICES ASSUME ReshardInv PROVE ReshardingSafe
  OBVIOUS
<1>1. Whereabouts /\ ReadsLastWrite
  BY ReshardFacts
<1>2. \A k \in SKey : truth[k] # 0 => store[Src][k] = truth[k] \/ store[Dst][k] = truth[k]
  BY <1>1 DEF Whereabouts
<1>3. NoKeyLost
  BY <1>2, TwoMasters DEF NoKeyLost
<1>. QED
  BY <1>1, <1>3 DEF ReshardingSafe

\* A slot that moves serves every key, whatever the number of keys, of writes and of
\* failed MIGRATEs and restarts: no key is lost, and no answer is out of date
\* (getNodeByQuery, migrateCommand, CLUSTER SETSLOT, clusterUpdateSlotsConfigWith).
THEOREM ReshardingIsSafe == SSpec => []ReshardingSafe
<1>1. SInit => ReshardInv
  BY ReshardStarts
<1>2. ReshardInv /\ [SNext]_svars => ReshardInv'
  BY ReshardStep
<1>3. ReshardInv => ReshardingSafe
  BY ReshardUse
<1>. QED
  BY <1>1, <1>2, <1>3, PTL DEF SSpec
=============================================================================
