-------------------------- MODULE DashboardServer --------------------------
(***************************************************************************)
(* Graph_plot/server.py: the broker between benchmark agents, dashboard    *)
(* pages and control clients.  One coroutine ("handler") serves each       *)
(* WebSocket.  All handlers run on one event loop, so a step of this       *)
(* module is what a handler does between two awaits, and another handler   *)
(* may run at every await.                                                 *)
(*                                                                         *)
(* A connection identifier stands for one WebSocket object and is used     *)
(* once: a client that comes back comes back on a new connection.          *)
(***************************************************************************)
EXTENDS Naturals, FiniteSets, Sequences, FiniteSetsExt

CONSTANTS
  Machine,      \* machine identifiers agents register under
  AgentConn,    \* connections to /ws/agent
  DashConn,     \* connections to /ws
  PushConn,     \* connections to /ws/push
  CtlConn,      \* connections to /ws/control
  Data,         \* messages forwarded to the dashboards (results, status, pong)
  None,         \* Python's None
  EmptyName,    \* an empty or missing machine name, which Python takes for false
  MaxCommands   \* bound: commands one control connection sends

Conn == AgentConn \cup DashConn \cup PushConn \cup CtlConn
Broadcaster == AgentConn \cup PushConn
Command == {"run_benchmark", "status"}
Label == {"new", "register", "announce", "listen", "forward", "withdraw",
          "run_all", "run_specific", "done"}

ASSUME ConnsDisjoint ==
  /\ AgentConn \cap DashConn = {} /\ AgentConn \cap PushConn = {}
  /\ AgentConn \cap CtlConn = {}  /\ DashConn \cap PushConn = {}
  /\ DashConn \cap CtlConn = {}   /\ PushConn \cap CtlConn = {}
ASSUME NoneIsNobody == None \notin Machine \cup AgentConn \cup Data
ASSUME MaxCommandsNat == MaxCommands \in Nat
ASSUME MachinesFinite == IsFiniteSet(Machine)

VARIABLES
  active_connections,  \* the set of dashboards being served
  active_agents,       \* the dict of agents, None where a key is absent
  pc,                  \* where each handler is suspended
  up,                  \* connections whose remote end is still there
  machine_id,          \* ws_agent's local of that name
  loop,                \* iterator of a handler's loop over active_connections
  round,               \* a control handler's loop over agents
  shown,               \* last agent_list written to each dashboard, or None
  feed,                \* data written to each dashboard
  listed,              \* last agent_list written to each control client, or None
  commands,            \* commands written to each agent connection
  issued               \* commands taken from each control connection

vars == <<active_connections, active_agents, pc, up, machine_id, loop, round,
          shown, feed, listed, commands, issued>>

registry == <<active_agents, machine_id>>
views == <<shown, feed>>
ctlState == <<listed, commands, issued>>

(* The keys of the dict. *)
Keys(agents) == {m \in Machine : agents[m] # None}

NoLoop == [base |-> {}, seen |-> {}, list |-> {}, data |-> None]
NoRound == [size |-> 0, sent |-> 0, seen |-> {}, kept |-> {}, cmd |-> "status"]

Init ==
  /\ active_connections = {}
  /\ active_agents = [m \in Machine |-> None]
  /\ pc = [h \in Conn |-> "new"]
  /\ up = {}
  /\ machine_id = [c \in AgentConn |-> None]
  /\ loop = [h \in Broadcaster |-> NoLoop]
  /\ round = [k \in CtlConn |-> NoRound]
  /\ shown = [v \in DashConn |-> None]
  /\ feed = [v \in DashConn |-> {}]
  /\ listed = [k \in CtlConn |-> None]
  /\ commands = [c \in AgentConn |-> <<>>]
  /\ issued = [k \in CtlConn |-> 0]

-----------------------------------------------------------------------------
(* Moving a handler.  A handler that is done has closed its connection,    *)
(* itself or, when it raised, through the ASGI server.                     *)
Goto(h, label) ==
  /\ pc' = [pc EXCEPT ![h] = label]
  /\ up' = IF label = "done" THEN up \ {h} ELSE up

(* `await connection.send_json(message)` inside try/except: a dashboard    *)
(* that has gone away loses the message and the loop goes on.              *)
Send(v, it) ==
  /\ shown' = IF v \in up /\ it.data = None
              THEN [shown EXCEPT ![v] = it.list] ELSE shown
  /\ feed' = IF v \in up /\ it.data # None
             THEN [feed EXCEPT ![v] = @ \cup {it.data}] ELSE feed

(* `for connection in active_connections: await connection.send_json(..)`. *)
(* The iterator is made and advanced once without an await in between.     *)
StartBroadcast(h, list, data, during, after) ==
  IF active_connections = {}
  THEN /\ Goto(h, after)
       /\ loop' = [loop EXCEPT ![h] = NoLoop]
       /\ UNCHANGED views
  ELSE \E v \in active_connections :
         LET it == [base |-> active_connections, seen |-> {v},
                    list |-> list, data |-> data]
         IN  /\ Goto(h, during)
             /\ loop' = [loop EXCEPT ![h] = it]
             /\ Send(v, it)

(* CPython's set iterator raises RuntimeError when the set's size is not   *)
(* what it was when the loop began.                                        *)
SizeChanged(h) ==
  Cardinality(active_connections) # Cardinality(loop[h].base)

(* Otherwise the next element.                                             *)
NextConnection(h) ==
  /\ ~SizeChanged(h)
  /\ \E v \in active_connections \ loop[h].seen :
       /\ loop' = [loop EXCEPT ![h].seen = @ \cup {v}]
       /\ Send(v, loop[h])
  /\ UNCHANGED <<pc, up>>

(* The loop ends when all are visited, or, when one dashboard has taken    *)
(* the place of another, possibly sooner: the set may have been rehashed.  *)
EndOfBroadcast(h, after) ==
  /\ ~SizeChanged(h)
  /\ active_connections = loop[h].base => active_connections \subseteq loop[h].seen
  /\ loop' = [loop EXCEPT ![h] = NoLoop]
  /\ Goto(h, after)
  /\ UNCHANGED views

-----------------------------------------------------------------------------
(* The clients.                                                            *)

(* A client opens one of the four endpoints and its handler starts.        *)
Connect(h) ==
  /\ pc[h] = "new"
  /\ pc' = [pc EXCEPT ![h] = IF h \in AgentConn THEN "register" ELSE "listen"]
  /\ up' = up \cup {h}
  /\ active_connections' = IF h \in DashConn THEN active_connections \cup {h}
                           ELSE active_connections
  /\ UNCHANGED <<registry, loop, round, views, ctlState>>

(* The remote end goes away; the handler finds out later.                  *)
Drop(h) ==
  /\ h \in up
  /\ up' = up \ {h}
  /\ UNCHANGED <<active_connections, registry, pc, loop, round, views, ctlState>>

-----------------------------------------------------------------------------
(* ws_dashboard: WebSocketDisconnect, or a ping that fails after 30s; the  *)
(* dashboard is discarded from the set at once.  Messages from the page    *)
(* and pings that succeed change nothing.                                  *)
DashboardLeaves(v) ==
  /\ pc[v] = "listen"
  /\ v \notin up
  /\ active_connections' = active_connections \ {v}
  /\ Goto(v, "done")
  /\ UNCHANGED <<registry, loop, round, views, ctlState>>

-----------------------------------------------------------------------------
(* ws_push_data: every message is broadcast.                               *)
PushMessage(p, d) ==
  /\ pc[p] = "listen"
  /\ p \in up
  /\ StartBroadcast(p, {}, d, "forward", "listen")
  /\ UNCHANGED <<active_connections, registry, round, ctlState>>

(* The next iteration; a RuntimeError of the loop ends the handler.        *)
PushNext(p) ==
  /\ pc[p] = "forward"
  /\ \/ NextConnection(p)
     \/ EndOfBroadcast(p, "listen")
     \/ /\ SizeChanged(p)
        /\ loop' = [loop EXCEPT ![p] = NoLoop]
        /\ Goto(p, "done")
        /\ UNCHANGED views
  /\ UNCHANGED <<active_connections, registry, round, ctlState>>

(* WebSocketDisconnect, or (p still up) a message that is not JSON.        *)
PushEnds(p) ==
  /\ pc[p] = "listen"
  /\ Goto(p, "done")
  /\ UNCHANGED <<active_connections, registry, loop, round, views, ctlState>>

-----------------------------------------------------------------------------
(* ws_agent.                                                               *)

(* The first message registers the machine, over whatever connection held  *)
(* the name before, and the new list is announced.                         *)
RegisterAgent(c, m) ==
  /\ pc[c] = "register"
  /\ c \in up
  /\ machine_id' = [machine_id EXCEPT ![c] = m]
  /\ active_agents' = [active_agents EXCEPT ![m] = c]
  /\ StartBroadcast(c, Keys(active_agents'), None, "announce", "listen")
  /\ UNCHANGED <<active_connections, round, ctlState>>

(* A first message of another type is dropped: the agent is served but not *)
(* registered.                                                             *)
SkipRegistration(c) ==
  /\ pc[c] = "register"
  /\ c \in up
  /\ Goto(c, "listen")
  /\ UNCHANGED <<active_connections, registry, loop, round, views, ctlState>>

(* Results, status replies and pongs are broadcast; a heartbeat changes    *)
(* nothing.                                                                *)
AgentMessage(c, d) ==
  /\ pc[c] = "listen"
  /\ c \in up
  /\ StartBroadcast(c, {}, d, "forward", "listen")
  /\ UNCHANGED <<active_connections, registry, round, ctlState>>

(* A dict entry that is deleted and inserted again is a new entry to an    *)
(* iterator that had passed it.                                            *)
ForgetEntry(m) ==
  round' = [k \in CtlConn |-> [round[k] EXCEPT !.seen = @ \ {m},
                                               !.kept = @ \ {m}]]

(* Mutant: the finally block without the deletion.                         *)
FinallyKeepsEntry(c) ==
  /\ Goto(c, "done")
  /\ loop' = [loop EXCEPT ![c] = NoLoop]
  /\ UNCHANGED <<registry, round, views>>

(* Mutant: the finally block clears the dict.                              *)
FinallyClearsAll(c) ==
  /\ active_agents' = [m \in Machine |-> None]
  /\ StartBroadcast(c, {}, None, "withdraw", "done")
  /\ UNCHANGED <<machine_id, round>>

(* The finally block: the machine's entry is deleted, whichever connection *)
(* it names, and the new list is announced.  A machine registered under    *)
(* the empty name is not deleted.                                          *)
Finally(c) ==
  LET m == machine_id[c]
  IN  IF m \notin {None, EmptyName} /\ m \in Keys(active_agents)
      THEN /\ active_agents' = [active_agents EXCEPT ![m] = None]
           /\ ForgetEntry(m)
           /\ StartBroadcast(c, Keys(active_agents'), None, "withdraw", "done")
           /\ UNCHANGED machine_id
      ELSE /\ Goto(c, "done")
           /\ loop' = [loop EXCEPT ![c] = NoLoop]
           /\ UNCHANGED <<registry, round, views>>

(* The next iteration of the announcement or of a forwarded message; a     *)
(* RuntimeError of the loop leads to the finally block.                    *)
AgentNext(c) ==
  /\ pc[c] \in {"announce", "forward"}
  /\ \/ NextConnection(c) /\ UNCHANGED <<registry, round>>
     \/ EndOfBroadcast(c, "listen") /\ UNCHANGED <<registry, round>>
     \/ SizeChanged(c) /\ Finally(c)
  /\ UNCHANGED <<active_connections, ctlState>>

(* WebSocketDisconnect, while registering or listening.                    *)
AgentDisconnected(c) ==
  /\ pc[c] \in {"register", "listen"}
  /\ c \notin up
  /\ Finally(c)
  /\ UNCHANGED <<active_connections, ctlState>>

(* The handler gives up a live connection: 300s without a message while    *)
(* listening, or a message that is not a JSON object.                      *)
AgentGivenUp(c) ==
  /\ pc[c] \in {"register", "listen"}
  /\ c \in up
  /\ Finally(c)
  /\ UNCHANGED <<active_connections, ctlState>>

(* The announcement in the finally block; a RuntimeError leaves the        *)
(* handler without closing, which the ASGI server then does.               *)
WithdrawNext(c) ==
  /\ pc[c] = "withdraw"
  /\ \/ NextConnection(c)
     \/ EndOfBroadcast(c, "done")
     \/ /\ SizeChanged(c)
        /\ loop' = [loop EXCEPT ![c] = NoLoop]
        /\ Goto(c, "done")
        /\ UNCHANGED views
  /\ UNCHANGED <<active_connections, registry, round, ctlState>>

-----------------------------------------------------------------------------
(* ws_control.                                                             *)

(* `await agent_ws.send_json(..)` inside try/except.                       *)
SendCommand(m, cmd) ==
  LET c == active_agents[m]
  IN  commands' = IF c \in up THEN [commands EXCEPT ![c] = Append(@, cmd)]
                  ELSE commands

TakesCommand(k) ==
  /\ pc[k] = "listen"
  /\ k \in up
  /\ issued[k] < MaxCommands
  /\ issued' = [issued EXCEPT ![k] = @ + 1]

(* run_all and status_check: a loop over active_agents.items().            *)
CommandAll(k, cmd) ==
  /\ TakesCommand(k)
  /\ IF Keys(active_agents) = {}
     THEN UNCHANGED <<pc, round, commands>>
     ELSE \E m \in Keys(active_agents) :
            /\ pc' = [pc EXCEPT ![k] = "run_all"]
            /\ round' = [round EXCEPT ![k] =
                 [size |-> Cardinality(Keys(active_agents)), sent |-> 1,
                  seen |-> {m}, kept |-> Keys(active_agents), cmd |-> cmd]]
            /\ SendCommand(m, cmd)
  /\ UNCHANGED <<active_connections, registry, up, loop, views, listed>>

(* CPython's dict iterator raises RuntimeError when the dict's size is not *)
(* what it was, or when it meets more entries than there were.             *)
RoundBroken(k) ==
  \/ Cardinality(Keys(active_agents)) # round[k].size
  \/ /\ round[k].sent = round[k].size
     /\ ~(Keys(active_agents) \subseteq round[k].seen)

(* The next entry, the end of the loop, or a RuntimeError that ends the    *)
(* control connection.  Once an entry has been deleted under the iterator  *)
(* a resize of the dict may make it miss entries.                          *)
CommandAllNext(k) ==
  /\ pc[k] = "run_all"
  /\ \/ /\ ~RoundBroken(k)
        /\ \E m \in Keys(active_agents) \ round[k].seen :
             /\ round' = [round EXCEPT ![k].seen = @ \cup {m},
                                       ![k].sent = @ + 1]
             /\ SendCommand(m, round[k].cmd)
        /\ UNCHANGED <<pc, up>>
     \/ /\ ~RoundBroken(k)
        /\ round[k].size = Cardinality(round[k].kept)
             => Keys(active_agents) \subseteq round[k].seen
        /\ Goto(k, "listen")
        /\ round' = [round EXCEPT ![k] = NoRound]
        /\ UNCHANGED commands
     \/ /\ RoundBroken(k)
        /\ Goto(k, "done")
        /\ round' = [round EXCEPT ![k] = NoRound]
        /\ UNCHANGED commands
  /\ UNCHANGED <<active_connections, registry, loop, views, listed, issued>>

(* Mutant: the machine just commanded stays on the list.                   *)
SendToSomeAgain(k, todo) ==
  \/ \E m \in todo \cap Keys(active_agents) :
       /\ pc' = [pc EXCEPT ![k] = "run_specific"]
       /\ round' = [round EXCEPT ![k] = [NoRound EXCEPT !.kept = todo]]
       /\ SendCommand(m, "run_benchmark")
  \/ /\ todo \cap Keys(active_agents) = {}
     /\ pc' = [pc EXCEPT ![k] = "listen"]
     /\ round' = [round EXCEPT ![k] = NoRound]
     /\ UNCHANGED commands

(* The body of run_specific from one await to the next: machines that are  *)
(* not registered are passed over, and the next one that is gets the       *)
(* command.                                                                *)
SendToSome(k, todo) ==
  \/ \E m \in todo \cap Keys(active_agents),
        skipped \in SUBSET (todo \ Keys(active_agents)) :
       /\ pc' = [pc EXCEPT ![k] = "run_specific"]
       /\ round' = [round EXCEPT ![k] =
                      [NoRound EXCEPT !.kept = todo \ ({m} \cup skipped)]]
       /\ SendCommand(m, "run_benchmark")
  \/ /\ todo \cap Keys(active_agents) = {}
     /\ pc' = [pc EXCEPT ![k] = "listen"]
     /\ round' = [round EXCEPT ![k] = NoRound]
     /\ UNCHANGED commands

RunSpecific(k, machines) ==
  /\ TakesCommand(k)
  /\ SendToSome(k, machines)
  /\ UNCHANGED <<active_connections, registry, up, loop, views, listed>>

(* Mutant: the loop waits for its client.                                  *)
RunSpecificNextIfUp(k) ==
  /\ pc[k] = "run_specific"
  /\ k \in up
  /\ SendToSome(k, round[k].kept)
  /\ UNCHANGED <<active_connections, registry, up, loop, views, listed, issued>>

(* The next machines on the list, each looked up when its turn comes.      *)
RunSpecificNext(k) ==
  /\ pc[k] = "run_specific"
  /\ SendToSome(k, round[k].kept)
  /\ UNCHANGED <<active_connections, registry, up, loop, views, listed, issued>>

GetAgents(k) ==
  /\ TakesCommand(k)
  /\ listed' = [listed EXCEPT ![k] = Keys(active_agents)]
  /\ UNCHANGED <<active_connections, registry, pc, up, loop, round, views, commands>>

(* WebSocketDisconnect, or (k still up) a message that is not JSON.        *)
ControlEnds(k) ==
  /\ pc[k] = "listen"
  /\ Goto(k, "done")
  /\ UNCHANGED <<active_connections, registry, loop, round, views, ctlState>>

-----------------------------------------------------------------------------
(* uvicorn runs with --reload: a restart loses every connection and all of *)
(* the server's state, which is only in memory.                            *)
Restart ==
  /\ \E h \in Conn : pc[h] \notin {"new", "done"}
  /\ active_connections' = {}
  /\ active_agents' = [m \in Machine |-> None]
  /\ pc' = [h \in Conn |-> IF pc[h] = "new" THEN "new" ELSE "done"]
  /\ up' = {}
  /\ loop' = [h \in Broadcaster |-> NoLoop]
  /\ round' = [k \in CtlConn |-> NoRound]
  /\ UNCHANGED <<machine_id, views, ctlState>>

-----------------------------------------------------------------------------
DashboardStep(v) == DashboardLeaves(v)

PushStep(p) ==
  \/ \E d \in Data : PushMessage(p, d)
  \/ PushNext(p)
  \/ PushEnds(p)

AgentStep(c) ==
  \/ \E m \in Machine : RegisterAgent(c, m)
  \/ SkipRegistration(c)
  \/ \E d \in Data : AgentMessage(c, d)
  \/ AgentNext(c)
  \/ AgentDisconnected(c)
  \/ AgentGivenUp(c)
  \/ WithdrawNext(c)

ControlStep(k) ==
  \/ \E cmd \in Command : CommandAll(k, cmd)
  \/ CommandAllNext(k)
  \/ \E machines \in SUBSET Machine : RunSpecific(k, machines)
  \/ RunSpecificNext(k)
  \/ GetAgents(k)
  \/ ControlEnds(k)

Next ==
  \/ \E h \in Conn : Connect(h) \/ Drop(h)
  \/ \E v \in DashConn : DashboardStep(v)
  \/ \E p \in PushConn : PushStep(p)
  \/ \E c \in AgentConn : AgentStep(c)
  \/ \E k \in CtlConn : ControlStep(k)
  \/ Restart

Spec == Init /\ [][Next]_vars

(* The event loop resumes every handler whose await is over.  A send ends  *)
(* because uvicorn closes a peer that stops answering pings, and a         *)
(* receive on a dead connection raises.  Nothing is assumed of clients.    *)
Fairness ==
  /\ \A v \in DashConn : WF_vars(DashboardLeaves(v))
  /\ \A p \in PushConn : WF_vars(PushNext(p) \/ (p \notin up /\ PushEnds(p)))
  /\ \A c \in AgentConn :
       WF_vars(AgentNext(c) \/ AgentDisconnected(c) \/ WithdrawNext(c))
  /\ \A k \in CtlConn :
       WF_vars(CommandAllNext(k) \/ RunSpecificNext(k)
               \/ (k \notin up /\ ControlEnds(k)))

FairSpec == Spec /\ Fairness

-----------------------------------------------------------------------------
(* Properties.                                                             *)

(* A handler that has registered its machine and is still serving it.      *)
Serving(c) == pc[c] \in {"announce", "listen", "forward"} /\ machine_id[c] # None

LoopType == [base : SUBSET DashConn, seen : SUBSET DashConn,
             list : SUBSET Machine, data : Data \cup {None}]
RoundType == [size : Nat, sent : Nat, seen : SUBSET Machine,
              kept : SUBSET Machine, cmd : Command]

(* Every variable of the server holds a value of its kind.                 *)
TypeOK ==
  /\ active_connections \subseteq DashConn
  /\ active_agents \in [Machine -> AgentConn \cup {None}]
  /\ pc \in [Conn -> Label]
  /\ up \subseteq Conn
  /\ machine_id \in [AgentConn -> Machine \cup {None}]
  /\ loop \in [Broadcaster -> LoopType]
  /\ round \in [CtlConn -> RoundType]
  /\ shown \in [DashConn -> {None} \cup SUBSET Machine]
  /\ feed \in [DashConn -> SUBSET Data]
  /\ listed \in [CtlConn -> {None} \cup SUBSET Machine]
  /\ commands \in [AgentConn -> Seq(Command)]
  /\ issued \in [CtlConn -> Nat]

(* active_agents never names a connection whose handler is over, whatever  *)
(* the order of registrations, disconnects, timeouts, broken loops and     *)
(* restarts: a command is never written to a dead handler's WebSocket (but *)
(* for the empty machine name, which is never deleted).                    *)
RegistryNamesServingHandler ==
  \A m \in Machine \ {EmptyName} :
    active_agents[m] # None =>
      /\ Serving(active_agents[m])
      /\ machine_id[active_agents[m]] = m

(* A handler that is serving a machine loses the machine's entry only      *)
(* when another connection has registered the same name: agents with       *)
(* distinct names stay commandable for as long as they are connected.      *)
LostOnlyToNamesake ==
  \A c \in AgentConn :
    Serving(c) /\ active_agents[machine_id[c]] # c =>
      \E other \in AgentConn \ {c} : machine_id[other] = machine_id[c]

(* README.md says agents reconnect automatically: a registered agent that  *)
(* is connected and served is in active_agents.                            *)
ConnectedAgentIsListed ==
  \A c \in AgentConn :
    Serving(c) /\ c \in up => active_agents[machine_id[c]] # None

(* A connection is never sent more commands than control clients issued:   *)
(* no loop over active_agents, however the dict changes under it, commands *)
(* one agent connection twice.                                             *)
NoCommandTwice ==
  \A c \in AgentConn :
    Len(commands[c]) <= MapThenSumSet(LAMBDA k : issued[k], CtlConn)

(* A client that goes away, agent or other, is noticed: its handler ends.  *)
(* With RegistryNamesServingHandler, a dead agent's entry goes.            *)
DisconnectNoticed ==
  \A h \in Conn : (pc[h] # "new" /\ h \notin up) ~> (pc[h] = "done")

(* A handler comes out of every loop it enters, over dashboards or agents, *)
(* while both come and go.                                                 *)
LoopsEnd ==
  \A h \in Conn :
    (pc[h] \in {"announce", "forward", "withdraw", "run_all", "run_specific"})
      ~> (pc[h] \in {"listen", "done"})

(* No handler hangs: it leaves its loops, and ends when its client is gone *)
(* (handle_connection, broadcast_to_dashboards).                           *)
NothingHangs == DisconnectNoticed /\ LoopsEnd

=============================================================================
