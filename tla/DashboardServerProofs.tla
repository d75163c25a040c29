----------------------- MODULE DashboardServerProofs -----------------------
(* Proofs about DashboardServer, for any number of machines and            *)
(* connections: type correctness and the consistency of active_agents.     *)
EXTENDS DashboardServer, FiniteSetTheorems, TLAPS

-----------------------------------------------------------------------------
(* What the operators that several actions share do to the state.          *)

(* The keys of active_agents are machines, and there is a number of them.  *)
LEMMA KeysType ==
  ASSUME NEW agents
  PROVE  Keys(agents) \subseteq Machine /\ Cardinality(Keys(agents)) \in Nat
<1>1. Keys(agents) \subseteq Machine
  BY DEF Keys
<1>2. QED
  BY <1>1, MachinesFinite, FS_Subset, FS_CardinalityType

(* Goto moves one handler and keeps the types.                             *)
LEMMA GotoType ==
  ASSUME TypeOK, NEW h \in Conn, NEW label \in Label, Goto(h, label)
  PROVE  /\ pc' = [pc EXCEPT ![h] = label]
         /\ pc' \in [Conn -> Label]
         /\ up' \subseteq Conn
BY DEF TypeOK, Goto

(* Send changes what dashboards were sent, within its type.                *)
LEMMA SendType ==
  ASSUME TypeOK, NEW v \in DashConn, NEW it \in LoopType, Send(v, it)
  PROVE  /\ shown' \in [DashConn -> {None} \cup SUBSET Machine]
         /\ feed' \in [DashConn -> SUBSET Data]
<1>1. it.list \in SUBSET Machine /\ it.data \in Data \cup {None}
  BY DEF LoopType
<1>2. shown' \in [DashConn -> {None} \cup SUBSET Machine]
  BY <1>1 DEF TypeOK, Send
<1>3. feed' \in [DashConn -> SUBSET Data]
  BY <1>1 DEF TypeOK, Send
<1>4. QED
  BY <1>2, <1>3

(* NoLoop is an iterator.                                                  *)
LEMMA NoLoopType == NoLoop \in LoopType
BY DEF NoLoop, LoopType

(* NoRound is a round.                                                     *)
LEMMA NoRoundType == NoRound \in RoundType
BY DEF NoRound, RoundType, Command

(* Starting a broadcast moves the handler to one of two labels.            *)
LEMMA StartBroadcastType ==
  ASSUME TypeOK, NEW h \in Broadcaster, NEW list \in SUBSET Machine,
         NEW data \in Data \cup {None}, NEW during \in Label, NEW after \in Label,
         StartBroadcast(h, list, data, during, after)
  PROVE  /\ pc' = [pc EXCEPT ![h] = during] \/ pc' = [pc EXCEPT ![h] = after]
         /\ pc' \in [Conn -> Label]
         /\ up' \subseteq Conn
         /\ loop' \in [Broadcaster -> LoopType]
         /\ shown' \in [DashConn -> {None} \cup SUBSET Machine]
         /\ feed' \in [DashConn -> SUBSET Data]
<1>0. h \in Conn
  BY DEF Broadcaster, Conn
<1>1. CASE active_connections = {}
  <2>1. Goto(h, after) /\ loop' = [loop EXCEPT ![h] = NoLoop] /\ UNCHANGED views
    BY <1>1 DEF StartBroadcast
  <2>2. loop' \in [Broadcaster -> LoopType]
    BY <2>1, NoLoopType DEF TypeOK
  <2>3. QED
    BY <1>0, <2>1, <2>2, GotoType DEF TypeOK, views
<1>2. CASE active_connections # {}
  <2>1. PICK v \in active_connections :
          LET it == [base |-> active_connections, seen |-> {v},
                     list |-> list, data |-> data]
          IN  /\ Goto(h, during)
              /\ loop' = [loop EXCEPT ![h] = it]
              /\ Send(v, it)
    BY <1>2 DEF StartBroadcast
  <2> DEFINE it == [base |-> active_connections, seen |-> {v},
                    list |-> list, data |-> data]
  <2>2. it \in LoopType /\ v \in DashConn
    BY <2>1 DEF TypeOK, LoopType
  <2> HIDE DEF it
  <2>3. Goto(h, during) /\ loop' = [loop EXCEPT ![h] = it] /\ Send(v, it)
    BY <2>1 DEF it
  <2>4. loop' \in [Broadcaster -> LoopType]
    BY <2>2, <2>3 DEF TypeOK
  <2>5. QED
    BY <1>0, <2>2, <2>3, <2>4, GotoType, SendType
<1>3. QED
  BY <1>1, <1>2

(* The next iteration of a broadcast leaves every handler where it is.     *)
LEMMA NextConnectionType ==
  ASSUME TypeOK, NEW h \in Broadcaster, NextConnection(h)
  PROVE  /\ pc' = pc /\ up' = up
         /\ loop' \in [Broadcaster -> LoopType]
         /\ shown' \in [DashConn -> {None} \cup SUBSET Machine]
         /\ feed' \in [DashConn -> SUBSET Data]
<1>1. PICK v \in active_connections \ loop[h].seen :
        /\ loop' = [loop EXCEPT ![h].seen = @ \cup {v}]
        /\ Send(v, loop[h])
  BY DEF NextConnection
<1>2. v \in DashConn /\ loop[h] \in LoopType
  BY <1>1 DEF TypeOK
<1>3. [loop[h] EXCEPT !.seen = @ \cup {v}] \in LoopType
  BY <1>2 DEF LoopType
<1>4. loop' = [loop EXCEPT ![h] = [loop[h] EXCEPT !.seen = @ \cup {v}]]
  BY <1>1 DEF TypeOK
<1>5. loop' \in [Broadcaster -> LoopType]
  BY <1>3, <1>4 DEF TypeOK
<1>6. QED
  BY <1>1, <1>2, <1>5, SendType DEF NextConnection

(* The end of a broadcast moves the handler on.                            *)
LEMMA EndOfBroadcastType ==
  ASSUME TypeOK, NEW h \in Broadcaster, NEW after \in Label,
         EndOfBroadcast(h, after)
  PROVE  /\ pc' = [pc EXCEPT ![h] = after]
         /\ pc' \in [Conn -> Label]
         /\ up' \subseteq Conn
         /\ loop' \in [Broadcaster -> LoopType]
         /\ UNCHANGED views
<1>1. h \in Conn /\ Goto(h, after)
  BY DEF Broadcaster, Conn, EndOfBroadcast
<1>2. loop' \in [Broadcaster -> LoopType]
  BY NoLoopType DEF TypeOK, EndOfBroadcast
<1>3. QED
  BY <1>1, <1>2, GotoType DEF EndOfBroadcast

(* Sending a command to a registered machine keeps the type of commands.   *)
LEMMA SendCommandType ==
  ASSUME TypeOK, NEW m \in Keys(active_agents), NEW cmd \in Command,
         SendCommand(m, cmd)
  PROVE  commands' \in [AgentConn -> Seq(Command)]
<1>1. active_agents[m] \in AgentConn
  BY DEF TypeOK, Keys
<1>2. Append(commands[active_agents[m]], cmd) \in Seq(Command)
  BY <1>1 DEF TypeOK
<1>3. QED
  BY <1>1, <1>2 DEF TypeOK, SendCommand

(* So does run_specific, from one await to the next.                       *)
LEMMA SendToSomeType ==
  ASSUME TypeOK, NEW k \in CtlConn, NEW todo \in SUBSET Machine,
         SendToSome(k, todo)
  PROVE  /\ pc' \in [Conn -> Label]
         /\ pc' = [pc EXCEPT ![k] = "run_specific"] \/ pc' = [pc EXCEPT ![k] = "listen"]
         /\ round' \in [CtlConn -> RoundType]
         /\ commands' \in [AgentConn -> Seq(Command)]
<1>0. k \in Conn /\ "run_specific" \in Label /\ "listen" \in Label
      /\ "run_benchmark" \in Command
  BY DEF Conn, Label, Command
<1>1. CASE \E m \in todo \cap Keys(active_agents),
              skipped \in SUBSET (todo \ Keys(active_agents)) :
             /\ pc' = [pc EXCEPT ![k] = "run_specific"]
             /\ round' = [round EXCEPT ![k] =
                            [NoRound EXCEPT !.kept = todo \ ({m} \cup skipped)]]
             /\ SendCommand(m, "run_benchmark")
  <2>1. PICK m \in todo \cap Keys(active_agents),
              skipped \in SUBSET (todo \ Keys(active_agents)) :
             /\ pc' = [pc EXCEPT ![k] = "run_specific"]
             /\ round' = [round EXCEPT ![k] =
                            [NoRound EXCEPT !.kept = todo \ ({m} \cup skipped)]]
             /\ SendCommand(m, "run_benchmark")
    BY <1>1
  <2>2. [NoRound EXCEPT !.kept = todo \ ({m} \cup skipped)] \in RoundType
    BY DEF NoRound, RoundType, Command
  <2>3. round' \in [CtlConn -> RoundType]
    BY <2>1, <2>2 DEF TypeOK
  <2>4. commands' \in [AgentConn -> Seq(Command)]
    BY <1>0, <2>1, SendCommandType
  <2>5. QED
    BY <1>0, <2>1, <2>3, <2>4 DEF TypeOK
<1>2. CASE /\ pc' = [pc EXCEPT ![k] = "listen"]
           /\ round' = [round EXCEPT ![k] = NoRound]
           /\ UNCHANGED commands
  BY <1>0, <1>2, NoRoundType DEF TypeOK
<1>3. QED
  BY <1>1, <1>2 DEF SendToSome

(* A round with new entries seen and counted is a round.                   *)
LEMMA RoundUpdateType ==
  ASSUME NEW r \in RoundType, NEW seen \in SUBSET Machine, NEW sent \in Nat
  PROVE  [r EXCEPT !.seen = seen, !.sent = sent] \in RoundType
BY DEF RoundType

(* TakesCommand counts a command.                                          *)
LEMMA TakesCommandType ==
  ASSUME TypeOK, NEW k \in CtlConn, TakesCommand(k)
  PROVE  issued' \in [CtlConn -> Nat]
BY DEF TypeOK, TakesCommand

-----------------------------------------------------------------------------
(* The inductive invariant.  Besides the two properties it says that a     *)
(* handler has no machine name until it has registered one, without which  *)
(* a registration could take the name from the connection that another     *)
(* handler lost its entry to.                                              *)
NamelessBeforeRegistering ==
  \A c \in AgentConn : pc[c] \in {"new", "register"} => machine_id[c] = None

RegistryInv ==
  /\ RegistryNamesServingHandler
  /\ LostOnlyToNamesake
  /\ NamelessBeforeRegistering

(* A step that leaves the registry alone and takes no agent's handler in   *)
(* or out of service keeps the invariant.                                  *)
LEMMA RegistryFrame ==
  ASSUME TypeOK, RegistryInv, UNCHANGED registry,
         \A c \in AgentConn :
           /\ pc'[c] \in {"announce", "listen", "forward"}
                <=> pc[c] \in {"announce", "listen", "forward"}
           /\ pc'[c] \in {"new", "register"} => pc[c] \in {"new", "register"}
  PROVE  RegistryInv'
<1>1. \A c \in AgentConn : Serving(c)' <=> Serving(c)
  BY DEF Serving, registry
<1>2. RegistryNamesServingHandler'
  <2> SUFFICES ASSUME NEW m \in Machine \ {EmptyName}, active_agents[m] # None
               PROVE  Serving(active_agents[m])' /\ machine_id[active_agents[m]] = m
    BY DEF RegistryNamesServingHandler, registry
  <2>1. active_agents[m] \in AgentConn
    BY DEF TypeOK
  <2>2. Serving(active_agents[m]) /\ machine_id[active_agents[m]] = m
    BY DEF RegistryInv, RegistryNamesServingHandler
  <2>3. QED
    BY <2>1, <2>2 DEF Serving, registry
<1>3. LostOnlyToNamesake'
  BY <1>1 DEF RegistryInv, LostOnlyToNamesake, registry
<1>4. NamelessBeforeRegistering'
  BY DEF RegistryInv, NamelessBeforeRegistering, registry
<1>5. QED
  BY <1>2, <1>3, <1>4 DEF RegistryInv

(* The finally block keeps the types and, from a handler that is past      *)
(* "new", the invariant.                                                   *)
LEMMA FinallyInv ==
  ASSUME TypeOK, RegistryInv, NEW c \in AgentConn, Finally(c),
         UNCHANGED <<active_connections, ctlState>>
  PROVE  TypeOK' /\ RegistryInv'
<1> DEFINE m == machine_id[c]
<1>0. /\ c \in Broadcaster /\ c \in Conn
      /\ "withdraw" \in Label /\ "done" \in Label
      /\ m \in Machine \cup {None}
  BY DEF TypeOK, Broadcaster, Conn, Label
<1>1. CASE m \notin {None, EmptyName} /\ m \in Keys(active_agents)
  <2>1. /\ active_agents' = [active_agents EXCEPT ![m] = None]
        /\ ForgetEntry(m)
        /\ StartBroadcast(c, Keys(active_agents'), None, "withdraw", "done")
        /\ machine_id' = machine_id
    BY <1>1 DEF Finally
  <2>2. Keys(active_agents') \in SUBSET Machine
    BY KeysType
  <2>3. /\ pc' = [pc EXCEPT ![c] = "withdraw"] \/ pc' = [pc EXCEPT ![c] = "done"]
        /\ pc' \in [Conn -> Label]
        /\ up' \subseteq Conn
        /\ loop' \in [Broadcaster -> LoopType]
        /\ shown' \in [DashConn -> {None} \cup SUBSET Machine]
        /\ feed' \in [DashConn -> SUBSET Data]
    BY <1>0, <2>1, <2>2, StartBroadcastType
  <2>4. round' \in [CtlConn -> RoundType]
    <3> SUFFICES ASSUME NEW k \in CtlConn
                 PROVE  [round[k] EXCEPT !.seen = @ \ {m}, !.kept = @ \ {m}] \in RoundType
      BY <2>1 DEF ForgetEntry
    <3>1. round[k] \in RoundType
      BY DEF TypeOK
    <3>2. QED
      BY <3>1 DEF RoundType
  <2>5. TypeOK'
    <3>1. active_agents' \in [Machine -> AgentConn \cup {None}]
      BY <1>0, <1>1, <2>1 DEF TypeOK
    <3>2. QED
      BY <2>1, <2>3, <2>4, <3>1 DEF TypeOK, ctlState
  <2>6. pc'[c] \in {"withdraw", "done"} /\ \A d \in AgentConn \ {c} : pc'[d] = pc[d]
    BY <1>0, <2>3 DEF TypeOK, Conn
  <2>7. RegistryNamesServingHandler'
    <3> SUFFICES ASSUME NEW n \in Machine \ {EmptyName}, active_agents'[n] # None
                 PROVE  Serving(active_agents[n])' /\ machine_id'[active_agents'[n]] = n
      BY DEF RegistryNamesServingHandler
    <3>1. n # m /\ active_agents'[n] = active_agents[n]
      BY <1>1, <2>1 DEF TypeOK, Keys
    <3>2. active_agents[n] \in AgentConn /\ Serving(active_agents[n])
          /\ machine_id[active_agents[n]] = n
      BY <3>1 DEF TypeOK, RegistryInv, RegistryNamesServingHandler
    <3>3. active_agents[n] # c
      BY <3>1, <3>2
    <3>4. QED
      BY <2>1, <2>6, <3>1, <3>2, <3>3 DEF Serving
  <2>8. LostOnlyToNamesake'
    <3> SUFFICES ASSUME NEW d \in AgentConn, Serving(d)',
                        active_agents'[machine_id'[d]] # d
                 PROVE  \E other \in AgentConn \ {d} : machine_id'[other] = machine_id'[d]
      BY DEF LostOnlyToNamesake
    <3>1. d # c /\ Serving(d)
      BY <2>1, <2>6 DEF Serving
    <3>2. CASE machine_id[d] = m
      BY <2>1, <3>1, <3>2
    <3>3. CASE machine_id[d] # m
      <4>1. machine_id[d] \in Machine
        BY <3>1 DEF Serving, TypeOK
      <4>2. active_agents[machine_id[d]] # d
        BY <2>1, <3>3, <4>1 DEF TypeOK
      <4>3. QED
        BY <2>1, <3>1, <4>2 DEF RegistryInv, LostOnlyToNamesake
    <3>4. QED
      BY <3>2, <3>3
  <2>9. NamelessBeforeRegistering'
    BY <2>1, <2>6 DEF RegistryInv, NamelessBeforeRegistering
  <2>10. QED
    BY <2>5, <2>7, <2>8, <2>9 DEF RegistryInv
<1>2. CASE ~(m \notin {None, EmptyName} /\ m \in Keys(active_agents))
  <2>1. Goto(c, "done") /\ loop' = [loop EXCEPT ![c] = NoLoop]
        /\ UNCHANGED <<registry, round, views>>
    BY <1>2 DEF Finally
  <2>2. pc' = [pc EXCEPT ![c] = "done"] /\ pc' \in [Conn -> Label] /\ up' \subseteq Conn
    BY <1>0, <2>1, GotoType
  <2>3. loop' \in [Broadcaster -> LoopType]
    BY <1>0, <2>1, NoLoopType DEF TypeOK
  <2>4. TypeOK'
    BY <2>1, <2>2, <2>3 DEF TypeOK, registry, views, ctlState
  <2>5. pc'[c] = "done" /\ \A d \in AgentConn \ {c} : pc'[d] = pc[d]
    BY <1>0, <2>2 DEF TypeOK, Conn
  <2>6. active_agents' = active_agents /\ machine_id' = machine_id
    BY <2>1 DEF registry
  <2>7. RegistryNamesServingHandler'
    <3> SUFFICES ASSUME NEW n \in Machine \ {EmptyName}, active_agents[n] # None
                 PROVE  Serving(active_agents[n])' /\ machine_id[active_agents[n]] = n
      BY <2>6 DEF RegistryNamesServingHandler
    <3>1. active_agents[n] \in AgentConn /\ Serving(active_agents[n])
          /\ machine_id[active_agents[n]] = n
      BY DEF TypeOK, RegistryInv, RegistryNamesServingHandler
    <3>2. active_agents[n] # c
      BY <1>2, <3>1, NoneIsNobody DEF Keys
    <3>3. QED
      BY <2>5, <2>6, <3>1, <3>2 DEF Serving
  <2>8. LostOnlyToNamesake'
    BY <2>5, <2>6 DEF RegistryInv, LostOnlyToNamesake, Serving
  <2>9. NamelessBeforeRegistering'
    BY <2>5, <2>6 DEF RegistryInv, NamelessBeforeRegistering
  <2>10. QED
    BY <2>4, <2>7, <2>8, <2>9 DEF RegistryInv
<1>3. QED
  BY <1>1, <1>2

(* Registering keeps the types and the invariant.                          *)
LEMMA RegisterInv ==
  ASSUME TypeOK, RegistryInv, NEW c \in AgentConn, NEW m \in Machine,
         RegisterAgent(c, m)
  PROVE  TypeOK' /\ RegistryInv'
<1>0. /\ c \in Broadcaster /\ c \in Conn
      /\ "announce" \in Label /\ "listen" \in Label
      /\ Keys(active_agents') \in SUBSET Machine
  BY KeysType DEF Broadcaster, Conn, Label
<1>1. /\ pc[c] = "register"
      /\ machine_id' = [machine_id EXCEPT ![c] = m]
      /\ active_agents' = [active_agents EXCEPT ![m] = c]
      /\ StartBroadcast(c, Keys(active_agents'), None, "announce", "listen")
  BY DEF RegisterAgent
<1>2. /\ pc' = [pc EXCEPT ![c] = "announce"] \/ pc' = [pc EXCEPT ![c] = "listen"]
      /\ pc' \in [Conn -> Label]
      /\ up' \subseteq Conn
      /\ loop' \in [Broadcaster -> LoopType]
      /\ shown' \in [DashConn -> {None} \cup SUBSET Machine]
      /\ feed' \in [DashConn -> SUBSET Data]
  BY <1>0, <1>1, StartBroadcastType
<1>3. TypeOK'
  <2>1. active_agents' \in [Machine -> AgentConn \cup {None}]
        /\ machine_id' \in [AgentConn -> Machine \cup {None}]
    BY <1>1 DEF TypeOK
  <2>2. QED
    BY <1>2, <2>1 DEF TypeOK, RegisterAgent, ctlState
<1>4. pc'[c] \in {"announce", "listen"} /\ \A d \in AgentConn \ {c} : pc'[d] = pc[d]
  BY <1>0, <1>2 DEF TypeOK, Conn
<1>5. machine_id'[c] = m /\ \A d \in AgentConn \ {c} : machine_id'[d] = machine_id[d]
  BY <1>1 DEF TypeOK
<1>6. m # None /\ machine_id[c] = None /\ ~Serving(c)
  BY <1>1, NoneIsNobody DEF RegistryInv, NamelessBeforeRegistering, Serving
<1>7. RegistryNamesServingHandler'
  <2> SUFFICES ASSUME NEW n \in Machine \ {EmptyName}, active_agents'[n] # None
               PROVE  Serving(active_agents[n])' /\ machine_id'[active_agents'[n]] = n
    BY DEF RegistryNamesServingHandler
  <2>1. CASE n = m
    BY <1>1, <1>4, <1>5, <1>6, <2>1 DEF TypeOK, Serving
  <2>2. CASE n # m
    <3>1. active_agents'[n] = active_agents[n]
      BY <1>1, <2>2 DEF TypeOK
    <3>2. active_agents[n] \in AgentConn /\ Serving(active_agents[n])
          /\ machine_id[active_agents[n]] = n
      BY <3>1 DEF TypeOK, RegistryInv, RegistryNamesServingHandler
    <3>3. QED
      BY <1>4, <1>5, <1>6, <3>1, <3>2 DEF Serving
  <2>3. QED
    BY <2>1, <2>2
<1>8. LostOnlyToNamesake'
  <2> SUFFICES ASSUME NEW d \in AgentConn, Serving(d)',
                      active_agents'[machine_id'[d]] # d
               PROVE  \E other \in AgentConn \ {d} : machine_id'[other] = machine_id'[d]
    BY DEF LostOnlyToNamesake
  <2>1. d # c /\ Serving(d) /\ machine_id[d] \in Machine
    BY <1>1, <1>4, <1>5 DEF TypeOK, Serving
  <2>2. CASE machine_id[d] = m
    BY <1>5, <2>1, <2>2
  <2>3. CASE machine_id[d] # m
    <3>1. active_agents[machine_id[d]] # d
      BY <1>1, <1>5, <2>1, <2>3 DEF TypeOK
    <3>2. PICK other \in AgentConn \ {d} : machine_id[other] = machine_id[d]
      BY <2>1, <3>1 DEF RegistryInv, LostOnlyToNamesake
    <3>3. other # c
      BY <1>6, <2>1, <3>2, NoneIsNobody
    <3>4. QED
      BY <1>5, <2>1, <3>2, <3>3
  <2>4. QED
    BY <2>2, <2>3
<1>9. NamelessBeforeRegistering'
  BY <1>4, <1>5 DEF RegistryInv, NamelessBeforeRegistering
<1>10. QED
  BY <1>3, <1>7, <1>8, <1>9 DEF RegistryInv

-----------------------------------------------------------------------------
(* Every step keeps the types and the invariant.                           *)

(* Clients that come, dashboards and push clients.                         *)
LEMMA ClientStepInv ==
  ASSUME TypeOK, RegistryInv,
         \/ \E h \in Conn : Connect(h) \/ Drop(h)
         \/ \E v \in DashConn : DashboardStep(v)
         \/ \E p \in PushConn : PushStep(p)
  PROVE  TypeOK' /\ RegistryInv'
<1>0. {"done", "listen", "forward", "register"} \subseteq Label
  BY DEF Label
<1>1. ASSUME NEW h \in Conn, Connect(h) PROVE TypeOK' /\ RegistryInv'
  <2>1. pc' \in [Conn -> Label]
    BY <1>0, <1>1 DEF TypeOK, Connect
  <2>2. TypeOK'
    BY <1>1, <2>1 DEF TypeOK, Connect, registry, views, ctlState
  <2>3. \A c \in AgentConn : c \in Conn
    BY DEF Conn
  <2>4. RegistryInv'
    BY <1>1, <2>3, RegistryFrame DEF TypeOK, Connect
  <2>5. QED
    BY <2>2, <2>4
<1>2. ASSUME NEW h \in Conn, Drop(h) PROVE TypeOK' /\ RegistryInv'
  <2>1. TypeOK'
    BY <1>2 DEF TypeOK, Drop, registry, views, ctlState
  <2>2. QED
    BY <1>2, <2>1, RegistryFrame DEF Drop
<1>3. ASSUME NEW v \in DashConn, DashboardStep(v) PROVE TypeOK' /\ RegistryInv'
  <2>1. v \in Conn /\ v \notin AgentConn /\ Goto(v, "done")
    BY <1>3, ConnsDisjoint DEF Conn, DashboardStep, DashboardLeaves
  <2>2. pc' = [pc EXCEPT ![v] = "done"] /\ pc' \in [Conn -> Label] /\ up' \subseteq Conn
    BY <1>0, <2>1, GotoType
  <2>3. TypeOK'
    BY <1>3, <2>2 DEF TypeOK, DashboardStep, DashboardLeaves, registry, views, ctlState
  <2>4. \A c \in AgentConn : pc'[c] = pc[c]
    BY <2>1, <2>2 DEF TypeOK, Conn
  <2>5. QED
    BY <1>3, <2>3, <2>4, RegistryFrame DEF DashboardStep, DashboardLeaves
<1>4. ASSUME NEW p \in PushConn, PushStep(p) PROVE TypeOK' /\ RegistryInv'
  <2>1. p \in Conn /\ p \in Broadcaster /\ p \notin AgentConn
    BY ConnsDisjoint DEF Conn, Broadcaster
  <2>2. SUFFICES /\ \E label \in Label : pc' \in {pc, [pc EXCEPT ![p] = label]}
                 /\ TypeOK' /\ UNCHANGED registry
    <3>1. \A c \in AgentConn : pc'[c] = pc[c]
      BY <2>1, <2>2 DEF TypeOK, Conn
    <3>2. QED
      BY <2>2, <3>1, RegistryFrame
  <2>3. CASE \E d \in Data : PushMessage(p, d)
    <3>1. PICK d \in Data : PushMessage(p, d)
      BY <2>3
    <3>2. StartBroadcast(p, {}, d, "forward", "listen")
      BY <3>1 DEF PushMessage
    <3>3. d \in Data \cup {None} /\ {} \in SUBSET Machine
      BY <3>1
    <3>4. /\ pc' = [pc EXCEPT ![p] = "forward"] \/ pc' = [pc EXCEPT ![p] = "listen"]
          /\ pc' \in [Conn -> Label]
          /\ up' \subseteq Conn
          /\ loop' \in [Broadcaster -> LoopType]
          /\ shown' \in [DashConn -> {None} \cup SUBSET Machine]
          /\ feed' \in [DashConn -> SUBSET Data]
      BY <1>0, <2>1, <3>2, <3>3, StartBroadcastType
    <3>5. QED
      BY <1>0, <3>1, <3>4 DEF TypeOK, PushMessage, registry, ctlState
  <2>4. CASE PushNext(p)
    <3>1. CASE NextConnection(p)
      BY <1>0, <2>1, <2>4, <3>1, NextConnectionType DEF TypeOK, PushNext, registry, ctlState
    <3>2. CASE EndOfBroadcast(p, "listen")
      BY <1>0, <2>1, <2>4, <3>2, EndOfBroadcastType
         DEF TypeOK, PushNext, registry, views, ctlState
    <3>3. CASE /\ loop' = [loop EXCEPT ![p] = NoLoop]
               /\ Goto(p, "done")
               /\ UNCHANGED views
      <4>1. loop' \in [Broadcaster -> LoopType]
        BY <2>1, <3>3, NoLoopType DEF TypeOK
      <4>2. QED
        BY <1>0, <2>1, <2>4, <3>3, <4>1, GotoType
           DEF TypeOK, PushNext, registry, views, ctlState
    <3>4. QED
      BY <2>4, <3>1, <3>2, <3>3 DEF PushNext
  <2>5. CASE PushEnds(p)
    BY <1>0, <2>1, <2>5, GotoType DEF TypeOK, PushEnds, registry, views, ctlState
  <2>6. QED
    BY <1>4, <2>3, <2>4, <2>5 DEF PushStep
<1>5. QED
  BY <1>1, <1>2, <1>3, <1>4

(* Agents.                                                                 *)
LEMMA AgentStepInv ==
  ASSUME TypeOK, RegistryInv, NEW c \in AgentConn, AgentStep(c)
  PROVE  TypeOK' /\ RegistryInv'
<1>0. /\ {"done", "listen", "forward", "register"} \subseteq Label
      /\ c \in Conn /\ c \in Broadcaster
  BY DEF Label, Conn, Broadcaster
<1>1. CASE \E m \in Machine : RegisterAgent(c, m)
  BY <1>1, RegisterInv
<1>2. CASE SkipRegistration(c)
  <2>1. pc[c] = "register" /\ Goto(c, "listen") /\ UNCHANGED registry
    BY <1>2 DEF SkipRegistration
  <2>2. pc' = [pc EXCEPT ![c] = "listen"] /\ pc' \in [Conn -> Label] /\ up' \subseteq Conn
    BY <1>0, <2>1, GotoType
  <2>3. TypeOK'
    BY <1>2, <2>2 DEF TypeOK, SkipRegistration, registry, views, ctlState
  <2>4. machine_id[c] = None
    BY <2>1 DEF RegistryInv, NamelessBeforeRegistering
  <2>5. pc'[c] = "listen" /\ \A d \in AgentConn \ {c} : pc'[d] = pc[d]
    BY <1>0, <2>2 DEF TypeOK, Conn
  <2>6. \A d \in AgentConn : Serving(d)' <=> Serving(d)
    BY <2>1, <2>4, <2>5 DEF Serving, registry
  <2>7. RegistryNamesServingHandler'
    <3> SUFFICES ASSUME NEW m \in Machine \ {EmptyName}, active_agents[m] # None
                 PROVE  Serving(active_agents[m])' /\ machine_id[active_agents[m]] = m
      BY <2>1 DEF RegistryNamesServingHandler, registry
    <3>1. active_agents[m] \in AgentConn /\ Serving(active_agents[m])
          /\ machine_id[active_agents[m]] = m
      BY DEF TypeOK, RegistryInv, RegistryNamesServingHandler
    <3>2. QED
      BY <2>1, <2>4, <2>5, <3>1 DEF Serving, registry
  <2>8. LostOnlyToNamesake'
    BY <2>1, <2>6 DEF RegistryInv, LostOnlyToNamesake, registry
  <2>9. NamelessBeforeRegistering'
    BY <2>1, <2>5 DEF RegistryInv, NamelessBeforeRegistering, registry
  <2>10. QED
    BY <2>3, <2>7, <2>8, <2>9 DEF RegistryInv
<1>3. CASE \E d \in Data : AgentMessage(c, d)
  <2>1. PICK d \in Data : AgentMessage(c, d)
    BY <1>3
  <2>2. StartBroadcast(c, {}, d, "forward", "listen")
    BY <2>1 DEF AgentMessage
  <2>3. TypeOK' /\ (pc' = [pc EXCEPT ![c] = "forward"] \/ pc' = [pc EXCEPT ![c] = "listen"])
    <3>1. d \in Data \cup {None} /\ {} \in SUBSET Machine
      BY <2>1
    <3>2. /\ pc' = [pc EXCEPT ![c] = "forward"] \/ pc' = [pc EXCEPT ![c] = "listen"]
          /\ pc' \in [Conn -> Label]
          /\ up' \subseteq Conn
          /\ loop' \in [Broadcaster -> LoopType]
          /\ shown' \in [DashConn -> {None} \cup SUBSET Machine]
          /\ feed' \in [DashConn -> SUBSET Data]
      BY <1>0, <2>2, <3>1, StartBroadcastType
    <3>3. QED
      BY <2>1, <3>2 DEF TypeOK, AgentMessage, registry, ctlState
  <2>4. /\ pc[c] = "listen" /\ pc'[c] \in {"forward", "listen"}
        /\ \A d2 \in AgentConn \ {c} : pc'[d2] = pc[d2]
    BY <1>0, <2>1, <2>3 DEF TypeOK, Conn, AgentMessage
  <2>5. QED
    BY <2>1, <2>3, <2>4, RegistryFrame DEF AgentMessage
<1>4. CASE AgentNext(c)
  <2>1. CASE NextConnection(c) /\ UNCHANGED <<registry, round>>
    <3>1. TypeOK' /\ pc' = pc
      BY <1>0, <1>4, <2>1, NextConnectionType DEF TypeOK, AgentNext, registry, ctlState
    <3>2. QED
      BY <2>1, <3>1, RegistryFrame
  <2>2. CASE EndOfBroadcast(c, "listen") /\ UNCHANGED <<registry, round>>
    <3>1. TypeOK' /\ pc' = [pc EXCEPT ![c] = "listen"]
      BY <1>0, <1>4, <2>2, EndOfBroadcastType DEF TypeOK, AgentNext, registry, views, ctlState
    <3>2. /\ pc[c] \in {"announce", "forward"} /\ pc'[c] = "listen"
          /\ \A d \in AgentConn \ {c} : pc'[d] = pc[d]
      BY <1>0, <1>4, <3>1 DEF TypeOK, Conn, AgentNext
    <3>3. QED
      BY <2>2, <3>1, <3>2, RegistryFrame
  <2>3. CASE SizeChanged(c) /\ Finally(c)
    BY <1>4, <2>3, FinallyInv DEF AgentNext
  <2>4. QED
    BY <1>4, <2>1, <2>2, <2>3 DEF AgentNext
<1>5. CASE AgentDisconnected(c) \/ AgentGivenUp(c)
  BY <1>5, FinallyInv DEF AgentDisconnected, AgentGivenUp
<1>6. CASE WithdrawNext(c)
  <2>1. TypeOK' /\ UNCHANGED registry /\ (pc' = pc \/ pc' = [pc EXCEPT ![c] = "done"])
    <3>1. CASE NextConnection(c)
      BY <1>0, <1>6, <3>1, NextConnectionType DEF TypeOK, WithdrawNext, registry, ctlState
    <3>2. CASE EndOfBroadcast(c, "done")
      BY <1>0, <1>6, <3>2, EndOfBroadcastType
         DEF TypeOK, WithdrawNext, registry, views, ctlState
    <3>3. CASE /\ loop' = [loop EXCEPT ![c] = NoLoop]
               /\ Goto(c, "done")
               /\ UNCHANGED views
      <4>1. loop' \in [Broadcaster -> LoopType]
        BY <1>0, <3>3, NoLoopType DEF TypeOK
      <4>2. QED
        BY <1>0, <1>6, <3>3, <4>1, GotoType
           DEF TypeOK, WithdrawNext, registry, views, ctlState
    <3>4. QED
      BY <1>6, <3>1, <3>2, <3>3 DEF WithdrawNext
  <2>2. /\ pc[c] = "withdraw" /\ pc'[c] \in {"withdraw", "done"}
        /\ \A d \in AgentConn \ {c} : pc'[d] = pc[d]
    BY <1>0, <1>6, <2>1 DEF TypeOK, Conn, WithdrawNext
  <2>3. QED
    BY <2>1, <2>2, RegistryFrame
<1>7. QED
  BY <1>1, <1>2, <1>3, <1>4, <1>5, <1>6 DEF AgentStep

(* Control clients never touch the registry.                               *)
LEMMA ControlStepInv ==
  ASSUME TypeOK, RegistryInv, NEW k \in CtlConn, ControlStep(k)
  PROVE  TypeOK' /\ RegistryInv'
<1>0. /\ {"done", "listen", "run_all"} \subseteq Label
      /\ k \in Conn /\ k \notin AgentConn
  BY ConnsDisjoint DEF Label, Conn
<1>1. SUFFICES /\ \E label \in Label : pc' \in {pc, [pc EXCEPT ![k] = label]}
               /\ TypeOK' /\ UNCHANGED registry
  <2>1. \A c \in AgentConn : pc'[c] = pc[c]
    BY <1>0, <1>1 DEF TypeOK, Conn
  <2>2. QED
    BY <1>1, <2>1, RegistryFrame
<1>2. CASE \E cmd \in Command : CommandAll(k, cmd)
  <2>1. PICK cmd \in Command : CommandAll(k, cmd)
    BY <1>2
  <2>2. issued' \in [CtlConn -> Nat]
    BY <2>1, TakesCommandType DEF CommandAll
  <2>3. CASE Keys(active_agents) = {}
    BY <1>0, <2>1, <2>2, <2>3 DEF TypeOK, CommandAll, registry, views
  <2>4. CASE Keys(active_agents) # {}
    <3>1. PICK m \in Keys(active_agents) :
            /\ pc' = [pc EXCEPT ![k] = "run_all"]
            /\ round' = [round EXCEPT ![k] =
                 [size |-> Cardinality(Keys(active_agents)), sent |-> 1,
                  seen |-> {m}, kept |-> Keys(active_agents), cmd |-> cmd]]
            /\ SendCommand(m, cmd)
      BY <2>1, <2>4 DEF CommandAll
    <3>2. [size |-> Cardinality(Keys(active_agents)), sent |-> 1,
           seen |-> {m}, kept |-> Keys(active_agents), cmd |-> cmd] \in RoundType
      BY KeysType DEF RoundType
    <3>3. round' \in [CtlConn -> RoundType] /\ pc' \in [Conn -> Label]
      BY <1>0, <3>1, <3>2 DEF TypeOK
    <3>4. commands' \in [AgentConn -> Seq(Command)]
      BY <3>1, SendCommandType
    <3>5. QED
      BY <1>0, <2>1, <2>2, <3>1, <3>3, <3>4 DEF TypeOK, CommandAll, registry, views
  <2>5. QED
    BY <2>3, <2>4
<1>3. CASE CommandAllNext(k)
  <2>1. CASE /\ \E m \in Keys(active_agents) \ round[k].seen :
                  /\ round' = [round EXCEPT ![k].seen = @ \cup {m},
                                            ![k].sent = @ + 1]
                  /\ SendCommand(m, round[k].cmd)
             /\ UNCHANGED <<pc, up>>
    <3>1. PICK m \in Keys(active_agents) \ round[k].seen :
            /\ round' = [round EXCEPT ![k].seen = @ \cup {m}, ![k].sent = @ + 1]
            /\ SendCommand(m, round[k].cmd)
      BY <2>1
    <3>2. round[k] \in RoundType /\ m \in Machine /\ round[k].cmd \in Command
      BY <3>1, KeysType DEF TypeOK, RoundType
    <3>3. [round[k] EXCEPT !.seen = @ \cup {m}, !.sent = @ + 1] \in RoundType
      <4>1. round[k].seen \cup {m} \in SUBSET Machine /\ round[k].sent + 1 \in Nat
        BY <3>2 DEF RoundType
      <4>2. QED
        BY <3>2, <4>1, RoundUpdateType
    <3>4. round' = [round EXCEPT ![k] =
                      [round[k] EXCEPT !.seen = @ \cup {m}, !.sent = @ + 1]]
      BY <3>1, <3>2 DEF TypeOK, RoundType
    <3>5. round' \in [CtlConn -> RoundType]
      BY <3>3, <3>4 DEF TypeOK
    <3>6. commands' \in [AgentConn -> Seq(Command)]
      BY <3>1, <3>2, SendCommandType
    <3>7. QED
      BY <1>0, <1>3, <2>1, <3>5, <3>6 DEF TypeOK, CommandAllNext, registry, views
  <2>2. ASSUME NEW label \in {"listen", "done"}, Goto(k, label),
               round' = [round EXCEPT ![k] = NoRound], UNCHANGED commands
        PROVE  /\ \E l \in Label : pc' \in {pc, [pc EXCEPT ![k] = l]}
               /\ TypeOK' /\ UNCHANGED registry
    <3>1. label \in Label
      BY <1>0
    <3>2. pc' = [pc EXCEPT ![k] = label] /\ pc' \in [Conn -> Label] /\ up' \subseteq Conn
      BY <1>0, <2>2, <3>1, GotoType
    <3>3. round' \in [CtlConn -> RoundType]
      BY <2>2, NoRoundType DEF TypeOK
    <3>4. QED
      BY <1>3, <2>2, <3>1, <3>2, <3>3 DEF TypeOK, CommandAllNext, registry, views
  <2>3. QED
    BY <1>3, <2>1, <2>2 DEF CommandAllNext
<1>4. CASE \E machines \in SUBSET Machine : RunSpecific(k, machines)
  <2>1. PICK machines \in SUBSET Machine : RunSpecific(k, machines)
    BY <1>4
  <2>2. TakesCommand(k) /\ SendToSome(k, machines)
    BY <2>1 DEF RunSpecific
  <2>3. issued' \in [CtlConn -> Nat]
    BY <2>2, TakesCommandType
  <2>4. /\ pc' \in [Conn -> Label]
        /\ pc' = [pc EXCEPT ![k] = "run_specific"] \/ pc' = [pc EXCEPT ![k] = "listen"]
        /\ round' \in [CtlConn -> RoundType]
        /\ commands' \in [AgentConn -> Seq(Command)]
    BY <2>2, SendToSomeType
  <2>5. QED
    BY <2>1, <2>3, <2>4 DEF TypeOK, RunSpecific, registry, views, Label
<1>5. CASE RunSpecificNext(k)
  <2>1. round[k].kept \in SUBSET Machine
    BY DEF TypeOK, RoundType
  <2>2. SendToSome(k, round[k].kept)
    BY <1>5 DEF RunSpecificNext
  <2>3. /\ pc' \in [Conn -> Label]
        /\ pc' = [pc EXCEPT ![k] = "run_specific"] \/ pc' = [pc EXCEPT ![k] = "listen"]
        /\ round' \in [CtlConn -> RoundType]
        /\ commands' \in [AgentConn -> Seq(Command)]
    BY <2>1, <2>2, SendToSomeType
  <2>4. QED
    BY <1>5, <2>3 DEF TypeOK, RunSpecificNext, registry, views, Label
<1>6. CASE GetAgents(k)
  <2>1. issued' \in [CtlConn -> Nat]
    BY <1>6, TakesCommandType DEF GetAgents
  <2>2. listed' \in [CtlConn -> {None} \cup SUBSET Machine]
    BY <1>6, KeysType DEF TypeOK, GetAgents
  <2>3. QED
    BY <1>0, <1>6, <2>1, <2>2 DEF TypeOK, GetAgents, registry, views
<1>7. CASE ControlEnds(k)
  BY <1>0, <1>7, GotoType DEF TypeOK, ControlEnds, registry, views, ctlState
<1>8. QED
  BY <1>2, <1>3, <1>4, <1>5, <1>6, <1>7 DEF ControlStep

(* A restart empties the registry and ends every handler.                  *)
LEMMA RestartInv ==
  ASSUME TypeOK, RegistryInv, Restart
  PROVE  TypeOK' /\ RegistryInv'
<1>1. \A h \in Conn : pc'[h] = IF pc[h] = "new" THEN "new" ELSE "done"
  BY DEF Restart
<1>2. TypeOK'
  BY NoLoopType, NoRoundType DEF TypeOK, Restart, views, ctlState, Label
<1>3. \A c \in AgentConn : ~Serving(c)' /\ (pc'[c] = "new" => pc[c] = "new")
                           /\ pc'[c] # "register"
  BY <1>1 DEF Serving, Conn
<1>4. QED
  BY <1>2, <1>3 DEF RegistryInv, RegistryNamesServingHandler, LostOnlyToNamesake,
                    NamelessBeforeRegistering, Restart

(* A stuttering step changes nothing.                                      *)
LEMMA StutterInv ==
  ASSUME TypeOK, RegistryInv, UNCHANGED vars
  PROVE  TypeOK' /\ RegistryInv'
<1>1. TypeOK'
  BY DEF TypeOK, vars
<1>2. QED
  BY <1>1, RegistryFrame DEF vars, registry

(* The initial state satisfies the types and the invariant.                *)
LEMMA InitInv == Init => TypeOK /\ RegistryInv
<1> SUFFICES ASSUME Init PROVE TypeOK /\ RegistryInv
  OBVIOUS
<1>1. TypeOK
  BY NoLoopType, NoRoundType DEF Init, TypeOK, Label
<1>2. \A c \in AgentConn : pc[c] = "new" /\ machine_id[c] = None
  BY DEF Init, Conn
<1>3. QED
  BY <1>1, <1>2 DEF Init, RegistryInv, RegistryNamesServingHandler, LostOnlyToNamesake,
                    NamelessBeforeRegistering, Serving

(* No behaviour of the server leaves the types or the invariant.           *)
THEOREM RegistryCorrect == Spec => [](TypeOK /\ RegistryInv)
<1>1. TypeOK /\ RegistryInv /\ [Next]_vars => (TypeOK /\ RegistryInv)'
  BY ClientStepInv, AgentStepInv, ControlStepInv, RestartInv, StutterInv DEF Next
<1>2. QED
  BY InitInv, <1>1, PTL DEF Spec

(* Type correctness of the server's state.                                 *)
THEOREM TypeCorrect == Spec => []TypeOK
BY RegistryCorrect, PTL

(* For any number of machines and connections, active_agents only ever     *)
(* names handlers that are serving the machine it names them for.          *)
THEOREM RegistryNamesServing == Spec => []RegistryNamesServingHandler
<1>1. RegistryInv => RegistryNamesServingHandler
  BY DEF RegistryInv
<1>2. QED
  BY <1>1, RegistryCorrect, PTL

(* For any number of machines and connections, a handler in service loses  *)
(* its entry only to a connection registered under the same name.          *)
THEOREM EntryLostOnlyToNamesake == Spec => []LostOnlyToNamesake
<1>1. RegistryInv => LostOnlyToNamesake
  BY DEF RegistryInv
<1>2. QED
  BY <1>1, RegistryCorrect, PTL

=============================================================================
