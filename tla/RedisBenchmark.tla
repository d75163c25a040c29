--------------------------- MODULE RedisBenchmark ---------------------------
(***************************************************************************)
(* redis/benchmark_unified.py: one invocation, over the remote state that  *)
(* an earlier one left.  Phase 1 copies two scripts to every client host   *)
(* from a pool of threads, phase 2 runs the first on every host at once,   *)
(* phase 3 runs the second on one host after another and parses what it    *)
(* prints.  No phase looks at what became of the one before.  Threads      *)
(* share the counters of benchmark_stats, whose `+= 1` is a read and a     *)
(* write.                                                                  *)
(***************************************************************************)
EXTENDS Naturals, Sequences, FiniteSets, SequencesExt

CONSTANTS
  Hosts,       \* client hosts, in the order of the configuration
  Instances,   \* memtier processes a host runs
  Iops         \* their mean throughput

ASSUME BenchmarkInputs ==
  /\ IsInjective(Hosts)
  /\ Instances \in Nat \ {0} /\ Iops \in Nat \ {0}

Host == Range(Hosts)
File == {"remote_script", "output_script"}
Transfer == Host \X File
Run == Host \X {"run"}
Counter == {"transfer_success", "transfer_failed", "benchmark_success", "benchmark_failed"}

VARIABLES
  phase,    \* "start", "transfer", "run", "collect", "done" or "exit"
  script,   \* the scripts on each host: "none", "old", "new" or "empty"
  logs,     \* the log directory: "none", "stale" (an earlier invocation's),
            \* "old" (made now by an old script) or "fresh"
  queue,    \* tasks submitted to the pool of the phase and not yet started
  task,     \* each submitted task: "waiting", "started", "counting" or "done"
  stats,    \* the counters of benchmark_stats
  local,    \* what a thread that is counting has read, and which counter
  results,  \* benchmark_stats['results']
  next,     \* phase 3: index of the host to collect from
  raised    \* some operation has raised an exception

benchvars == <<phase, script, logs, queue, task, stats, local, results, next, raised>>

Idle == [counter |-> "transfer_success", value |-> 0]

(* executor.submit in the order of the loops of main.                      *)
Transfers == FlattenSeq([i \in 1..Len(Hosts) |->
               <<<<Hosts[i], "remote_script">>, <<Hosts[i], "output_script">>>>])
Runs == [i \in 1..Len(Hosts) |-> <<Hosts[i], "run">>]

Submit(tasks) ==
  /\ queue' = tasks
  /\ task' = [t \in Range(tasks) |-> "waiting"]

BenchInit ==
  /\ phase = "start"
  /\ script \in [Transfer -> {"none", "old"}]
  /\ logs \in [Host -> {"none", "stale"}]
  /\ queue = <<>>
  /\ task = <<>>
  /\ stats = [c \in Counter |-> 0]
  /\ local = [t \in Transfer \cup Run |-> Idle]
  /\ results = <<>>
  /\ next = 1
  /\ raised = FALSE

-----------------------------------------------------------------------------
(* `benchmark_stats[counter] += 1` in a thread: the read, which ends the   *)
(* task's work, and the write.                                             *)
ReadCounter(t, counter) ==
  /\ local' = [local EXCEPT ![t] = [counter |-> counter, value |-> stats[counter]]]
  /\ task' = [task EXCEPT ![t] = "counting"]

WriteCounter(t) ==
  /\ task[t] = "counting"
  /\ stats' = [stats EXCEPT ![local[t].counter] = local[t].value + 1]
  /\ task' = [task EXCEPT ![t] = "done"]
  /\ local' = [local EXCEPT ![t] = Idle]
  /\ UNCHANGED <<phase, script, logs, queue, results, next, raised>>

(* create_script_file twice, or the exit when a file cannot be written.    *)
CreateScripts ==
  /\ phase = "start"
  /\ \/ phase' = "transfer" /\ Submit(Transfers)
     \/ phase' = "exit" /\ UNCHANGED <<queue, task>>
  /\ UNCHANGED <<script, logs, stats, local, results, next, raised>>

(* A worker takes the oldest task; there are as many workers as hosts.     *)
StartTask ==
  /\ queue # <<>>
  /\ Cardinality({u \in DOMAIN task : task[u] \in {"started", "counting"}}) < Len(Hosts)
  /\ queue' = Tail(queue)
  /\ task' = [task EXCEPT ![Head(queue)] = "started"]
  /\ UNCHANGED <<phase, script, logs, stats, local, results, next, raised>>

(* transfer_file_to_remote.  It succeeds; or it raises without a           *)
(* connection, after put has truncated the file, or after put has written  *)
(* it (the scripts are shorter than one write) but could not confirm it.   *)
TransferFile(t) ==
  /\ phase = "transfer"
  /\ task[t] = "started"
  /\ \/ /\ script' = [script EXCEPT ![t] = "new"]
        /\ ReadCounter(t, "transfer_success")
        /\ UNCHANGED raised
     \/ /\ \E left \in {script[t], "empty", "new"} : script' = [script EXCEPT ![t] = left]
        /\ ReadCounter(t, "transfer_failed")
        /\ raised' = TRUE
  /\ UNCHANGED <<phase, logs, queue, stats, results, next>>

(* All futures are done, whatever they returned: phase 2.                  *)
StartRuns ==
  /\ phase = "transfer"
  /\ \A t \in Transfer : task[t] = "done"
  /\ phase' = "run"
  /\ Submit(Runs)
  /\ UNCHANGED <<script, logs, stats, local, results, next, raised>>

(* Mutant: the script no longer removes the log directory.                 *)
LogsAfterNoCleanup(h) ==
  CASE script[<<h, "remote_script">>] = "new" -> {"fresh", logs[h]}
    [] script[<<h, "remote_script">>] = "old" -> {"old", logs[h]}
    [] OTHER -> {logs[h]}

(* What `bash remote_script.sh` leaves in the log directory.  The script   *)
(* removes the directory first; memtier may write nothing.  A script that  *)
(* is missing or empty leaves the directory alone.  The exit status is     *)
(* not looked at.                                                          *)
LogsAfter(h) ==
  CASE script[<<h, "remote_script">>] = "new" -> {"fresh", "none"}
    [] script[<<h, "remote_script">>] = "old" -> {"old", "none"}
    [] OTHER -> {logs[h]}

(* run_remote_command in phase 2: the command runs to its end, or the      *)
(* connection fails before or while it runs.                               *)
RunBenchmark(h) ==
  /\ phase = "run"
  /\ task[<<h, "run">>] = "started"
  /\ \/ /\ \E after \in LogsAfter(h) : logs' = [logs EXCEPT ![h] = after]
        /\ ReadCounter(<<h, "run">>, "benchmark_success")
        /\ UNCHANGED raised
     \/ /\ \E after \in LogsAfter(h) \cup {logs[h]} : logs' = [logs EXCEPT ![h] = after]
        /\ ReadCounter(<<h, "run">>, "benchmark_failed")
        /\ raised' = TRUE
  /\ UNCHANGED <<phase, script, queue, stats, results, next>>

StartCollecting ==
  /\ phase = "run"
  /\ \A t \in Run : task[t] = "done"
  /\ phase' = "collect"
  /\ UNCHANGED <<script, logs, queue, task, stats, local, results, next, raised>>

-----------------------------------------------------------------------------
(* output_script.sh prints "total number of IOPS for N Instance M", M the  *)
(* mean of the logs; over no logs awk divides by zero and prints nothing.  *)
Numbers(h) ==
  IF script[<<h, "output_script">>] \in {"new", "old"} /\ logs[h] # "none"
  THEN <<Instances, Iops>> ELSE <<>>

(* parse_benchmark_output: the lazy pattern takes the first number after   *)
(* the words "total number of IOPS".                                       *)
ParsedIops(numbers) == IF numbers = <<>> THEN 0 ELSE Head(numbers)

Count(counter) == stats' = [stats EXCEPT ![counter] = @ + 1]

(* The results once the metrics of host h, if any, are appended.           *)
Recorded(h) ==
  LET iops == ParsedIops(Numbers(h))
  IN  IF iops = 0 THEN results
      ELSE Append(results, [host |-> h, iops |-> iops, from |-> logs[h]])

(* Phase 3 for the next host; the main thread is alone now.  An exception  *)
(* comes before the metrics are appended, or after, from printing them.    *)
Collect ==
  /\ phase = "collect"
  /\ next <= Len(Hosts)
  /\ \/ /\ results' = Recorded(Hosts[next])
        /\ Count("benchmark_success")
        /\ UNCHANGED raised
     \/ /\ results' \in {results, Recorded(Hosts[next])}
        /\ Count("benchmark_failed")
        /\ raised' = TRUE
  /\ next' = next + 1
  /\ UNCHANGED <<phase, script, logs, queue, task, local>>

Summary ==
  /\ phase = "collect"
  /\ next > Len(Hosts)
  /\ phase' = "done"
  /\ UNCHANGED <<script, logs, queue, task, stats, local, results, next, raised>>

BenchNext ==
  \/ CreateScripts \/ StartTask \/ StartRuns \/ StartCollecting \/ Collect \/ Summary
  \/ \E t \in DOMAIN task : WriteCounter(t)
  \/ \E t \in Transfer : TransferFile(t)
  \/ \E h \in Host : RunBenchmark(h)

BenchSpec == BenchInit /\ [][BenchNext]_benchvars

-----------------------------------------------------------------------------
(* Properties.                                                             *)

(* Every variable of the invocation holds a value of its kind.             *)
BenchTypeOK ==
  /\ phase \in {"start", "transfer", "run", "collect", "done", "exit"}
  /\ script \in [Transfer -> {"none", "old", "new", "empty"}]
  /\ logs \in [Host -> {"none", "stale", "old", "fresh"}]
  /\ DOMAIN task \in {{}, Transfer, Run}
  /\ Range(queue) = {t \in DOMAIN task : task[t] = "waiting"}
  /\ stats \in [Counter -> Nat]
  /\ Len(results) < next
  /\ \A i \in DOMAIN results : results[i].iops \in Nat \ {0}

(* print_summary's status indicator.                                       *)
AllSucceeded == stats["transfer_failed"] = 0 /\ stats["benchmark_failed"] = 0

(* "All operations completed successfully!" is printed only when nothing   *)
(* raised, though increments of a counter by several threads may be lost.  *)
SuccessIsTrue == phase = "done" /\ AllSucceeded => ~raised

(* When it is printed, every throughput in the summary was measured by     *)
(* this invocation with this invocation's script, whatever scripts and     *)
(* logs an earlier one had left.                                           *)
SuccessMeansThisRun ==
  phase = "done" /\ AllSucceeded =>
    \A i \in DOMAIN results : results[i].from = "fresh"

(* A success that is reported is one: nothing raised, and every figure is  *)
(* of this invocation (run_all_operations, parse_results).                 *)
SuccessIsReal == SuccessIsTrue /\ SuccessMeansThisRun

=============================================================================
