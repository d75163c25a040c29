---------------------------- MODULE RemoteAgent ----------------------------
(***************************************************************************)
(* Graph_plot/remote_agent.py: the process on a benchmarked machine.  One  *)
(* coroutine connects, registers and handles one command at a time, a      *)
(* whole benchmark run included; a step is what it does between two        *)
(* awaits.  Around it: the server's end of the connection, the runner      *)
(* processes the agent starts, and the signal handler, which runs between  *)
(* any two steps.                                                          *)
(***************************************************************************)
EXTENDS Naturals, Sequences, FiniteSets

CONSTANTS
  MaxRuns,     \* bound: benchmark runs an agent starts
  MaxLines,    \* bound: lines one runner writes to its standard output
  MaxInbox,    \* bound: commands waiting in the connection's buffer
  PipeCap,     \* lines that fit between the runner and a reader that stopped
  Line         \* kinds of line runners write, a subset of LineKind

LineKind == {"json", "text", "undecodable"}
RaCommand == {"run_benchmark", "status", "ping", "other", "not_json"}

ASSUME AgentBounds ==
  /\ MaxRuns \in Nat /\ MaxLines \in Nat /\ MaxInbox \in Nat
  /\ PipeCap \in Nat \ {0}
  /\ Line \subseteq LineKind

VARIABLES
  apc,               \* the await the coroutine is suspended at
  conn,             \* the WebSocket: "none", "open", or "lost" by the peer
  inbox,            \* commands received and not yet handled
  running,          \* self.running
  current_process,  \* self.current_process: a run, or 0 for None
  runs,             \* the runners started so far
  said,             \* the last reply: "busy", "idle", "pong", "error" or ""
  late              \* commands handled since shutdown

ravars == <<apc, conn, inbox, running, current_process, runs, said, late>>
net == <<conn, inbox>>

(* A runner process, its output in the pipe, and, for the properties, how  *)
(* many results it wrote, how many of them the agent sent, whether its     *)
(* connection was lost while it ran, and whether the agent dropped it.     *)
NewRun(n) == [state |-> "running", left |-> n, pipe |-> <<>>,
              made |-> 0, sent |-> 0, cut |-> FALSE, dropped |-> FALSE]

RaInit ==
  /\ apc = "connect"
  /\ conn = "none"
  /\ inbox = <<>>
  /\ running = TRUE
  /\ current_process = 0
  /\ runs = <<>>
  /\ said = ""
  /\ late = 0

-----------------------------------------------------------------------------
(* Mutant: the loop over commands ignores self.running.                    *)
InnerForever == "listen"

(* Where `while self.running` leads: the loop over commands, and the loop  *)
(* over connections around it.                                             *)
Inner == IF running THEN "listen" ELSE "stopped"
Outer == IF running THEN "connect" ELSE "stopped"

(* Moving the coroutine, with `waiting` left of the inbox.  Outside the    *)
(* `async with` there is no connection.                                    *)
Go(label, waiting) ==
  /\ apc' = label
  /\ IF label \in {"connect", "backoff", "stopped"}
     THEN conn' = "none" /\ inbox' = <<>>
     ELSE inbox' = waiting /\ UNCHANGED conn

(* `await websocket.send(..)` in a command: on a lost connection it raises *)
(* ConnectionClosed, which leaves the connection.                          *)
Reply(what, waiting) ==
  IF conn = "open" THEN said' = what /\ Go(Inner, waiting)
  ELSE UNCHANGED said /\ Go(Outer, waiting)

-----------------------------------------------------------------------------
(* connect_and_listen and handle_command.                                  *)

(* The connection is made and the registration sent.                       *)
Connected ==
  /\ apc = "connect"
  /\ apc' = Inner
  /\ conn' = IF running THEN "open" ELSE "none"
  /\ UNCHANGED <<inbox, running, current_process, runs, said, late>>

(* Connecting or registering fails: sleep(retry_delay).                    *)
ConnectFails ==
  /\ apc = "connect"
  /\ Go("backoff", <<>>)
  /\ UNCHANGED <<running, current_process, runs, said, late>>

BackoffOver ==
  /\ apc = "backoff"
  /\ Go(Outer, <<>>)
  /\ UNCHANGED <<running, current_process, runs, said, late>>

(* A command is received and handled.  Commands that came before the       *)
(* connection was lost are still delivered.  Text that is not JSON raises  *)
(* out of both loops to the retry delay.                                   *)
HandleCommand ==
  /\ apc = "listen"
  /\ inbox # <<>>
  /\ late' = IF running THEN late ELSE late + 1
  /\ LET command == Head(inbox)
         waiting == Tail(inbox)
     IN  \/ command = "run_benchmark" /\ Go("spawn", waiting) /\ UNCHANGED said
         \/ command = "status"
              /\ Reply(IF current_process # 0 THEN "busy" ELSE "idle", waiting)
         \/ command = "ping" /\ Reply("pong", waiting)
         \/ command = "other" /\ Go(Inner, waiting) /\ UNCHANGED said
         \/ command = "not_json" /\ Go("backoff", waiting) /\ UNCHANGED said
  /\ UNCHANGED <<running, current_process, runs>>

(* 30s without a command: a heartbeat.  If sending it fails, the exception *)
(* comes from inside the except clause and leads to the retry delay.       *)
Heartbeat ==
  /\ apc = "listen"
  /\ inbox = <<>>
  /\ Go(IF conn = "open" THEN Inner ELSE "backoff", <<>>)
  /\ UNCHANGED <<running, current_process, runs, said, late>>

(* Mutant: a closed connection ends the agent.                             *)
RecvClosedStops ==
  /\ apc = "listen"
  /\ inbox = <<>>
  /\ conn = "lost"
  /\ Go("stopped", <<>>)
  /\ UNCHANGED <<running, current_process, runs, said, late>>

(* recv raises ConnectionClosed: reconnect without delay.                  *)
RecvClosed ==
  /\ apc = "listen"
  /\ inbox = <<>>
  /\ conn = "lost"
  /\ Go(Outer, <<>>)
  /\ UNCHANGED <<running, current_process, runs, said, late>>

-----------------------------------------------------------------------------
(* run_mlc_benchmark.                                                      *)

(* The runner starts.                                                      *)
Spawned ==
  /\ apc = "spawn"
  /\ Len(runs) < MaxRuns
  /\ \E n \in 0 .. MaxLines :
       runs' = Append(runs, [NewRun(n) EXCEPT !.cut = (conn = "lost")])
  /\ current_process' = Len(runs) + 1
  /\ apc' = "stream"
  /\ UNCHANGED <<net, running, said, late>>

(* The except and finally clauses: an error message, and current_process   *)
(* is None whether or not the runner is still going.                       *)
Fail ==
  /\ Reply("error", inbox)
  /\ current_process' = 0

(* The runner cannot be started.                                           *)
SpawnFails ==
  /\ apc = "spawn"
  /\ Fail
  /\ UNCHANGED <<running, runs, late>>

(* Mutant: reading stops when the process has exited.                      *)
EndOfOutputAtExit(run) == run.state = "exited"

(* readline returns nothing: all was read and the runner closed the pipe.  *)
EndOfOutput(run) == run.pipe = <<>> /\ run.state = "exited"

(* One turn of the stream loop.  A result is sent; on a lost connection    *)
(* the loop is left.  Other lines are passed over.  A line that cannot be  *)
(* decoded raises.  The end of the output is seen once it has all been     *)
(* read.                                                                   *)
ReadLine ==
  LET p == current_process
      run == runs[p]
  IN  /\ apc = "stream"
      /\ \/ /\ run.pipe # <<>>
            /\ LET line == Head(run.pipe)
                   after == [run EXCEPT !.pipe = Tail(@)]
               IN  \/ /\ line = "json"
                      /\ IF conn = "open"
                         THEN /\ runs' = [runs EXCEPT ![p] = [after EXCEPT !.sent = @ + 1]]
                              /\ UNCHANGED apc
                         ELSE /\ runs' = [runs EXCEPT ![p] = after]
                              /\ apc' = "reap"
                      /\ UNCHANGED <<net, current_process, said>>
                   \/ /\ line = "text"
                      /\ runs' = [runs EXCEPT ![p] = after]
                      /\ UNCHANGED <<apc, net, current_process, said>>
                   \/ /\ line = "undecodable"
                      /\ runs' = [runs EXCEPT ![p] = [after EXCEPT !.dropped = TRUE]]
                      /\ Fail
         \/ /\ EndOfOutput(run)
            /\ apc' = "reap"
            /\ UNCHANGED <<net, current_process, runs, said>>
      /\ UNCHANGED <<running, late>>

(* Mutant: no wait().                                                      *)
ReapedWithoutWait ==
  /\ apc = "reap"
  /\ current_process' = 0
  /\ Go(Inner, inbox)
  /\ UNCHANGED <<running, runs, said, late>>

(* wait() returns, and after a short sleep current_process is None again.  *)
Reaped ==
  /\ apc = "reap"
  /\ runs[current_process].state = "exited"
  /\ current_process' = 0
  /\ Go(Inner, inbox)
  /\ UNCHANGED <<running, runs, said, late>>

-----------------------------------------------------------------------------
(* shutdown, from a signal handler.  terminate() lets the runner exit      *)
(* before it has written everything.                                       *)
Shutdown ==
  /\ running
  /\ running' = FALSE
  /\ IF current_process = 0 THEN UNCHANGED runs
     ELSE runs' = [runs EXCEPT ![current_process].left = 0]
  /\ UNCHANGED <<apc, net, current_process, said, late>>

-----------------------------------------------------------------------------
(* The runner, generic_runner.sh, as the agent sees it.                    *)
RunnerWrites(p) ==
  /\ runs[p].state = "running"
  /\ runs[p].left > 0
  /\ Len(runs[p].pipe) < PipeCap
  /\ \E line \in Line :
       runs' = [runs EXCEPT ![p].left = @ - 1,
                            ![p].pipe = Append(@, line),
                            ![p].made = IF line = "json" THEN @ + 1 ELSE @]
  /\ UNCHANGED <<apc, net, running, current_process, said, late>>

RunnerExits(p) ==
  /\ runs[p].state = "running"
  /\ runs[p].left = 0
  /\ runs' = [runs EXCEPT ![p].state = "exited"]
  /\ UNCHANGED <<apc, net, running, current_process, said, late>>

(* The other end of the connection: a command arrives, or the connection   *)
(* is lost.                                                                *)
CommandArrives ==
  /\ conn = "open"
  /\ Len(inbox) < MaxInbox
  /\ \E command \in RaCommand : inbox' = Append(inbox, command)
  /\ UNCHANGED <<apc, conn, running, current_process, runs, said, late>>

ConnectionLost ==
  /\ conn = "open"
  /\ conn' = "lost"
  /\ runs' = IF current_process = 0 THEN runs
             ELSE [runs EXCEPT ![current_process].cut = TRUE]
  /\ UNCHANGED <<apc, inbox, running, current_process, said, late>>

-----------------------------------------------------------------------------
RaStep ==
  \/ Connected \/ ConnectFails \/ BackoffOver
  \/ HandleCommand \/ Heartbeat \/ RecvClosed
  \/ Spawned \/ SpawnFails \/ ReadLine \/ Reaped

RaNext ==
  \/ RaStep
  \/ Shutdown
  \/ \E p \in 1 .. Len(runs) : RunnerWrites(p) \/ RunnerExits(p)
  \/ CommandArrives
  \/ ConnectionLost

RaSpec == RaInit /\ [][RaNext]_ravars

(* The event loop resumes the coroutine, a runner that can write or exit   *)
(* does, and a server that is asked often enough accepts a connection.     *)
RaFairness ==
  /\ WF_ravars(RaStep)
  /\ SF_ravars(Connected)
  /\ \A p \in 1 .. MaxRuns :
       WF_ravars(p <= Len(runs) /\ (RunnerWrites(p) \/ RunnerExits(p)))

RaFairSpec == RaSpec /\ RaFairness

-----------------------------------------------------------------------------
(* Properties.                                                             *)

RunType == [state : {"running", "exited"}, left : Nat, pipe : Seq(LineKind),
            made : Nat, sent : Nat, cut : BOOLEAN, dropped : BOOLEAN]

(* Every variable of the agent holds a value of its kind.                  *)
RaTypeOK ==
  /\ apc \in {"connect", "listen", "spawn", "stream", "reap", "backoff", "stopped"}
  /\ conn \in {"none", "open", "lost"}
  /\ inbox \in Seq(RaCommand)
  /\ running \in BOOLEAN
  /\ runs \in Seq(RunType)
  /\ current_process \in 0 .. Len(runs)
  /\ said \in {"", "busy", "idle", "pong", "error"}
  /\ late \in Nat

(* The runners going, but for those dropped on a line that could not be    *)
(* decoded, which nobody waits for.                                        *)
Going == {p \in 1 .. Len(runs) : runs[p].state = "running" /\ ~runs[p].dropped}

(* At most one runner is going on a machine, and only while the agent      *)
(* holds it in current_process: two runs never disturb each other's        *)
(* measurements, across any sequence of commands, lost connections and     *)
(* reconnections.  The one way to break this is to drop a runner.          *)
OneRunAtATime == Going \subseteq {current_process} \ {0}

(* A run whose connection held has sent every result it wrote by the time  *)
(* the agent is done with it, however the runner's exit and the reading of *)
(* its output interleave, unless a line could not be decoded.              *)
ResultsSentUnlessCut ==
  \A p \in 1 .. Len(runs) :
    p # current_process /\ ~runs[p].cut /\ ~runs[p].dropped
      => runs[p].sent = runs[p].made

(* After a shutdown signal at most one more command is handled: the one    *)
(* the coroutine was waiting for.                                          *)
OneCommandAfterShutdown == late <= 1

(* The agent stops once it is told to.                                     *)
ShutdownStops == ~running ~> (apc = "stopped")

(* The agent waits for a runner that waits for room in the pipe.           *)
Stuck ==
  /\ apc = "reap"
  /\ runs[current_process].left > 0
  /\ Len(runs[current_process].pipe) = PipeCap

(* A connection that is lost, at whatever point of a command or of a run,  *)
(* is replaced, unless the agent ends up waiting for a runner whose output *)
(* nobody reads any more: there is no other way to hang.                   *)
ReconnectsUnlessStuck == (conn = "lost") ~> (conn = "open" \/ ~running \/ Stuck)

(* The agent ends when told to, and otherwise comes back (run, reconnect). *)
StopsOrReconnects == ShutdownStops /\ ReconnectsUnlessStuck

(* README.md: "Agents reconnect automatically if disconnected".            *)
Reconnects == (conn = "lost") ~> (conn = "open" \/ ~running)

=============================================================================
