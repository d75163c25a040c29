------------------------------ MODULE MCTools -------------------------------
(***************************************************************************)
(* The dashboard page, the tuning script and the benchmark driver. A       *)
(* behaviour picks one part, whose module takes all the steps while the    *)
(* others stay in their first states.                                      *)
(***************************************************************************)
EXTENDS DashboardPage, Tuning, RedisBenchmark

VARIABLE part   \* the part that runs

-----------------------------------------------------------------------------
\* Two machines whose core lists differ
CoreLists == [m \in {"server-01", "server-02"} |-> IF m = "server-01" THEN <<1, 4>> ELSE <<2, 4>>]

-----------------------------------------------------------------------------
\* Two files of each kind: the first of a loop, and one after it
TwoCpus == <<"cpu0", "cpu1">>
TwoQueues == <<"rx-0", "tx-0">>
TwoIrqs == <<"irq40", "irq41">>

-----------------------------------------------------------------------------
\* Two client hosts, as in the read, write and readwrite configurations
TwoHosts == <<"192.168.100.2", "192.168.100.3">>

-----------------------------------------------------------------------------
\* Only part p runs.
OnlyPart(p) ==
  /\ part = p /\ part' = part
  /\ p # "page" => UNCHANGED <<labels, data, connectedAgents, ws, controlWs, wsQueue, controlQueue,
            agents, done>>
  /\ p # "tuning" => UNCHANGED <<now, backup, dir, stage, at, applies, outcome, boot, base, saved>>
  /\ p # "benchmark" => UNCHANGED <<phase, script, logs, queue, task, stats, local, results, next,
            raised>>

ToolsInit ==
  /\ part \in {"page", "tuning", "benchmark"}
  /\ PageInit
  /\ TuningInit
  /\ part # "tuning" => now = [f \in Setting |-> Default]
  /\ BenchInit
  /\ part # "benchmark" => script = [t \in Transfer |-> "none"] /\ logs = [h \in Host |-> "none"]

ToolsNext ==
  \/ OnlyPart("page") /\ PageNext
  \/ OnlyPart("tuning") /\ TuningNext
  \/ OnlyPart("benchmark") /\ BenchNext

toolsvars == <<part, labels, data, connectedAgents, ws, controlWs, wsQueue, controlQueue, agents,
                done, now, backup, dir, stage, at, applies, outcome, boot, base, saved, phase,
                script, logs, queue, task, stats, local, results, next, raised>>
ToolsSpec == ToolsInit /\ [][ToolsNext]_toolsvars
=============================================================================
