--------------------------- MODULE DashboardPage ---------------------------
(***************************************************************************)
(* Graph_plot/index.html: the page that shows connected agents and plots   *)
(* their results.  It holds two WebSockets: /ws, on which the server       *)
(* broadcasts agent lists and results, and /ws/control, on which it asks   *)
(* for the agent list.  Each delivers in order; nothing orders one with    *)
(* respect to the other.  A step is one browser callback.                  *)
(***************************************************************************)
EXTENDS Naturals, Sequences, FiniteSets, SequencesExt

CONSTANTS
  Reporter,     \* machines that report
  CoreList,    \* [Reporter -> Seq(Nat)]: the core counts each one measures
  MayFail,     \* a measurement may yield an error or a zero result
  MaxQueue     \* bound: messages under way on one WebSocket

ASSUME PageInputs == MayFail \in BOOLEAN /\ MaxQueue \in Nat

null == 0      \* JavaScript's null in a dataset; core counts are positive

VARIABLES
  labels,           \* bwChart.data.labels
  data,             \* the dataset of each machine; a point is named by the
                    \* core count it was measured with
  connectedAgents,  \* the list the page shows
  ws,               \* "connecting", "open" or "closed"
  controlWs,        \* "connecting", "open" or "waiting" to reconnect
  wsQueue,          \* messages under way on /ws
  controlQueue,     \* replies under way on /ws/control
  agents,           \* the server's registered agents
  done              \* how many measurements each machine has finished

pagevars == <<labels, data, connectedAgents, ws, controlWs, wsQueue,
          controlQueue, agents, done>>
chart == <<labels, data>>
sockets == <<ws, controlWs>>

PageInit ==
  /\ labels = <<>>
  /\ data = [m \in Reporter |-> <<>>]
  /\ connectedAgents = {}
  /\ ws = "connecting"
  /\ controlWs = "connecting"
  /\ wsQueue = <<>>
  /\ controlQueue = <<>>
  /\ agents = {}
  /\ done = [m \in Reporter |-> 0]

AgentList(list) == [type |-> "agent_list", agents |-> list, machine |-> "", cores |-> 0]
Result(m, cores) == [type |-> "result", agents |-> {}, machine |-> m, cores |-> cores]

-----------------------------------------------------------------------------
(* The server and the machines behind it.                                  *)

Broadcast(msg) ==
  IF ws = "open"
  THEN Len(wsQueue) < MaxQueue /\ wsQueue' = Append(wsQueue, msg)
  ELSE UNCHANGED wsQueue

AgentsChange ==
  /\ \E list \in (SUBSET Reporter) \ {agents} :
       agents' = list /\ Broadcast(AgentList(list))
  /\ UNCHANGED <<chart, connectedAgents, sockets, controlQueue, done>>

(* A machine finishes its next measurement.  An error message or a zero    *)
(* KPI is broadcast too, but the page skips it.                            *)
Measure(m) ==
  /\ done[m] < Len(CoreList[m])
  /\ done' = [done EXCEPT ![m] = @ + 1]
  /\ \/ Broadcast(Result(m, CoreList[m][done[m] + 1]))
     \/ MayFail /\ UNCHANGED wsQueue
  /\ UNCHANGED <<chart, connectedAgents, sockets, controlQueue, agents>>

-----------------------------------------------------------------------------
(* connect: /ws opens once and is not reopened.                            *)
WsOpen ==
  /\ ws = "connecting"
  /\ ws' = "open"
  /\ UNCHANGED <<chart, connectedAgents, controlWs, wsQueue, controlQueue, agents, done>>

WsClose ==
  /\ ws # "closed"
  /\ ws' = "closed"
  /\ wsQueue' = <<>>
  /\ UNCHANGED <<chart, connectedAgents, controlWs, controlQueue, agents, done>>

(* A new label is pushed and the labels sorted numerically.                *)
AddLabel(ls, cores) ==
  IF Contains(ls, cores) THEN ls ELSE SortSeq(Append(ls, cores), <)

(* Mutant: the point is pushed at the end of the dataset.                  *)
SetPointPushes(points, i, v) == Append(points, v)

(* `while (data.length <= labelIndex) push(null); data[labelIndex] = v`.   *)
SetPoint(points, i, v) ==
  [j \in 1 .. (IF i > Len(points) THEN i ELSE Len(points)) |->
     IF j = i THEN v ELSE IF j <= Len(points) THEN points[j] ELSE null]

(* ws.onmessage.                                                           *)
WsMessage ==
  /\ wsQueue # <<>>
  /\ wsQueue' = Tail(wsQueue)
  /\ LET msg == Head(wsQueue)
     IN  \/ /\ msg.type = "agent_list"
            /\ connectedAgents' = msg.agents
            /\ UNCHANGED chart
         \/ /\ msg.type = "result"
            /\ labels' = AddLabel(labels, msg.cores)
            /\ LET labelIndex == CHOOSE i \in DOMAIN labels' : labels'[i] = msg.cores
               IN  data' = [data EXCEPT ![msg.machine] =
                              SetPoint(@, labelIndex, msg.cores)]
            /\ UNCHANGED connectedAgents
  /\ UNCHANGED <<sockets, controlQueue, agents, done>>

-----------------------------------------------------------------------------
(* The server answers get_agents.                                          *)
RequestAgents ==
  /\ Len(controlQueue) < MaxQueue
  /\ controlQueue' = Append(controlQueue, agents)

(* connectControl: on open the page asks for the list.                     *)
ControlOpen ==
  /\ controlWs = "connecting"
  /\ controlWs' = "open"
  /\ RequestAgents
  /\ UNCHANGED <<chart, connectedAgents, ws, wsQueue, agents, done>>

(* onclose, and the timer set by it.                                       *)
ControlClose ==
  /\ controlWs # "waiting"
  /\ controlWs' = "waiting"
  /\ controlQueue' = <<>>
  /\ UNCHANGED <<chart, connectedAgents, ws, wsQueue, agents, done>>

ControlRetry ==
  /\ controlWs = "waiting"
  /\ controlWs' = "connecting"
  /\ UNCHANGED <<chart, connectedAgents, ws, wsQueue, controlQueue, agents, done>>

(* refreshAgents, the button.                                              *)
RefreshAgents ==
  /\ controlWs = "open"
  /\ RequestAgents
  /\ UNCHANGED <<chart, connectedAgents, sockets, wsQueue, agents, done>>

ControlMessage ==
  /\ controlQueue # <<>>
  /\ controlQueue' = Tail(controlQueue)
  /\ connectedAgents' = Head(controlQueue)
  /\ UNCHANGED <<chart, sockets, wsQueue, agents, done>>

PageNext ==
  \/ AgentsChange
  \/ \E m \in Reporter : Measure(m)
  \/ WsOpen \/ WsClose \/ WsMessage
  \/ ControlOpen \/ ControlClose \/ ControlRetry \/ RefreshAgents \/ ControlMessage

PageSpec == PageInit /\ [][PageNext]_pagevars

-----------------------------------------------------------------------------
(* Properties.                                                             *)

(* Every variable of the page holds a value of its kind, and no dataset is *)
(* longer than the axis.                                                   *)
PageTypeOK ==
  /\ labels \in Seq(Nat)
  /\ data \in [Reporter -> Seq(Nat)]
  /\ \A m \in Reporter : Len(data[m]) <= Len(labels)
  /\ connectedAgents \subseteq Reporter
  /\ ws \in {"connecting", "open", "closed"}
  /\ controlWs \in {"connecting", "open", "waiting"}
  /\ agents \subseteq Reporter

(* index.html: "Set data at the correct index".  Every point of a dataset  *)
(* stands under the label of the core count it was measured with, in       *)
(* whatever order the machines' results arrive.                            *)
PointsUnderTheirLabel ==
  \A m \in Reporter : \A i \in DOMAIN data[m] :
    data[m][i] # null => data[m][i] = labels[i]

(* Only a core count below one already on the axis can misplace points: a  *)
(* result that adds no label, or one at the end, leaves all points under   *)
(* their labels, though datasets have gaps and differ in length.           *)
ResultsAtTheEndAreSafe ==
  [][PointsUnderTheirLabel /\ IsPrefix(labels, labels')
       => PointsUnderTheirLabel']_pagevars

=============================================================================
