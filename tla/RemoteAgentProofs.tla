------------------------- MODULE RemoteAgentProofs -------------------------
(***************************************************************************)
(* Proofs about RemoteAgent, for any number of runs, lines, commands, lost  *)
(* connections and reconnections: one runner at a time, no result of an     *)
(* unbroken run lost, one command at most after shutdown.                   *)
(***************************************************************************)
EXTENDS RemoteAgent, FiniteSetTheorems, SequenceTheorems, TLAPS

\* The results waiting in a pipe.
Jsons(pipe) == {i \in 1 .. Len(pipe) : pipe[i] = "json"}
JsonsIn(pipe) == Cardinality(Jsons(pipe))

\* current_process names a runner exactly while run_mlc_benchmark handles its output.
HeldInStream == current_process # 0 <=> apc \in {"stream", "reap"}

\* In the loops over commands and over lines there is a connection, open or lost.
Linked == apc \in {"listen", "spawn", "stream", "reap"} => conn \in {"open", "lost"}

\* A run whose connection is lost knows it.
CutKnown == conn = "lost" /\ current_process # 0 => runs[current_process].cut

\* A run the agent is done with has ended, and left nothing unread unless it was cut.
DoneWithRun(run) ==
  run.dropped \/ (run.state = "exited" /\ (run.cut \/ run.pipe = <<>>))

\* A result is sent, or still in the pipe, unless the run was cut or dropped.
Accounted(run) == run.cut \/ run.dropped \/ run.sent + JsonsIn(run.pipe) = run.made

\* The agent reaps a run after the end of its output, or because it was cut.
ReapedAtEnd ==
  apc = "reap" => \/ runs[current_process].cut
                  \/ /\ runs[current_process].state = "exited"
                     /\ runs[current_process].pipe = <<>>

\* No command is counted before shutdown, and none is awaited after one that is.
LateCommand == /\ late <= 1
               /\ late = 1 => running = FALSE /\ apc # "listen"

\* The inductive invariant.
AgentInv ==
  /\ RaTypeOK
  /\ HeldInStream /\ Linked /\ CutKnown /\ ReapedAtEnd /\ LateCommand
  /\ \A p \in 1 .. Len(runs) : Accounted(runs[p])
  /\ \A p \in 1 .. Len(runs) : p # current_process => DoneWithRun(runs[p])

-----------------------------------------------------------------------------
(* Counting the results in a pipe.                                          *)

LEMMA JsonsFinite ==
  ASSUME NEW pipe \in Seq(LineKind)
  PROVE  IsFiniteSet(Jsons(pipe)) /\ JsonsIn(pipe) \in Nat
<1>1. Len(pipe) \in Nat
  OBVIOUS
<1>2. IsFiniteSet(1 .. Len(pipe))
  BY <1>1, FS_Interval
<1>3. Jsons(pipe) \subseteq 1 .. Len(pipe)
  BY DEF Jsons
<1>4. IsFiniteSet(Jsons(pipe))
  BY <1>2, <1>3, FS_Subset
<1> QED
  BY <1>4, FS_CardinalityType DEF JsonsIn

LEMMA JsonsEmpty == JsonsIn(<<>>) = 0
<1>1. Jsons(<<>>) = {}
  BY DEF Jsons
<1> QED
  BY <1>1, FS_EmptySet DEF JsonsIn

\* A line written.
LEMMA JsonsAppend ==
  ASSUME NEW pipe \in Seq(LineKind), NEW line \in LineKind
  PROVE  JsonsIn(Append(pipe, line)) = IF line = "json" THEN JsonsIn(pipe) + 1
                                       ELSE JsonsIn(pipe)
<1> DEFINE n == Len(pipe)
<1>1. /\ n \in Nat /\ Len(Append(pipe, line)) = n + 1
      /\ \A i \in 1 .. n : Append(pipe, line)[i] = pipe[i]
      /\ Append(pipe, line)[n + 1] = line
  BY AppendProperties
<1>2. 1 .. (n + 1) = (1 .. n) \cup {n + 1} /\ n + 1 \notin 1 .. n
  BY <1>1
<1>3. CASE line = "json"
  <2>1. Jsons(Append(pipe, line)) = Jsons(pipe) \cup {n + 1}
    BY <1>1, <1>2, <1>3 DEF Jsons
  <2>2. n + 1 \notin Jsons(pipe)
    BY <1>2 DEF Jsons
  <2> QED
    BY <1>3, <2>1, <2>2, JsonsFinite, FS_AddElement DEF JsonsIn
<1>4. CASE line # "json"
  <2>1. Jsons(Append(pipe, line)) = Jsons(pipe)
    BY <1>1, <1>2, <1>4 DEF Jsons
  <2> QED
    BY <1>4, <2>1 DEF JsonsIn
<1> QED
  BY <1>3, <1>4

\* A line read.
LEMMA JsonsTail ==
  ASSUME NEW pipe \in Seq(LineKind), pipe # <<>>
  PROVE  JsonsIn(pipe) = IF Head(pipe) = "json" THEN JsonsIn(Tail(pipe)) + 1
                         ELSE JsonsIn(Tail(pipe))
<1> DEFINE n == Len(pipe)
           rest == Jsons(pipe) \ {1}
           f == [i \in rest |-> i - 1]
<1>1. /\ Tail(pipe) \in Seq(LineKind) /\ Len(Tail(pipe)) = n - 1
      /\ \A i \in 1 .. n - 1 : Tail(pipe)[i] = pipe[i + 1]
      /\ Head(pipe) = pipe[1]
  BY HeadTailProperties
<1>2. n \in Nat \ {0}
  BY EmptySeq
<1>3. \A i \in rest : i \in 2 .. n /\ pipe[i] = "json"
  BY <1>2 DEF Jsons
<1>4. ASSUME NEW i \in rest PROVE f[i] \in Jsons(Tail(pipe))
  <2>1. i \in 2 .. n /\ pipe[i] = "json"
    BY <1>3
  <2>2. i - 1 \in 1 .. n - 1 /\ (i - 1) + 1 = i
    BY <1>2, <2>1
  <2> QED
    BY <1>1, <2>1, <2>2 DEF Jsons
<1>5. ASSUME NEW j \in Jsons(Tail(pipe)) PROVE \E i \in rest : f[i] = j
  <2>1. j \in 1 .. n - 1 /\ pipe[j + 1] = "json"
    BY <1>1 DEF Jsons
  <2>2. j + 1 \in 2 .. n /\ (j + 1) - 1 = j /\ j + 1 # 1 /\ j + 1 \in 1 .. n
    BY <1>2, <2>1
  <2>3. j + 1 \in rest
    BY <2>1, <2>2 DEF Jsons
  <2>4. f[j + 1] = j
    BY <2>2, <2>3
  <2> QED
    BY <2>3, <2>4
<1>6. \A i, j \in rest : f[i] = f[j] => i = j
  BY <1>2, <1>3
<1>7. f \in [rest -> Jsons(Tail(pipe))]
  BY <1>4
<1>8. ExistsBijection(rest, Jsons(Tail(pipe)))
  <2>1. f \in Bijection(rest, Jsons(Tail(pipe)))
    <3> HIDE DEF f, rest
    <3> QED
      BY <1>5, <1>6, <1>7 DEF Bijection, Injection, Surjection, IsInjective
  <2> QED
    BY <2>1 DEF ExistsBijection
<1>9. IsFiniteSet(Jsons(pipe)) /\ JsonsIn(pipe) \in Nat
  BY JsonsFinite
<1>10. /\ IsFiniteSet(rest)
       /\ Cardinality(rest) = IF 1 \in Jsons(pipe) THEN JsonsIn(pipe) - 1 ELSE JsonsIn(pipe)
  BY <1>9, FS_RemoveElement DEF JsonsIn
<1>11. Cardinality(rest) = JsonsIn(Tail(pipe))
  <2> HIDE DEF rest
  <2> QED
    BY <1>8, <1>10, FS_Bijection DEF JsonsIn
<1>12. 1 \in Jsons(pipe) <=> Head(pipe) = "json"
  BY <1>1, <1>2 DEF Jsons
<1> HIDE DEF rest
<1> QED
  BY <1>9, <1>10, <1>11, <1>12

-----------------------------------------------------------------------------
(* The steps.                                                               *)

Sayings == {"", "busy", "idle", "pong", "error"}
Labels == {"connect", "listen", "spawn", "stream", "reap", "backoff", "stopped"}

\* Moving the coroutine keeps a connection only where there is one.
LEMMA Goes ==
  ASSUME AgentInv, NEW label \in Labels, NEW waiting \in Seq(RaCommand), Go(label, waiting),
         apc \in {"listen", "spawn", "stream", "reap"}
           \/ label \in {"connect", "backoff", "stopped"}
  PROVE  /\ apc' = label /\ inbox' \in Seq(RaCommand) /\ conn' \in {"none", "open", "lost"}
         /\ Linked' /\ (conn' = "lost" => conn = "lost")
<1>1. CASE label \in {"connect", "backoff", "stopped"}
  BY <1>1 DEF Go, Linked
<1>2. CASE label \notin {"connect", "backoff", "stopped"}
  BY <1>2 DEF Go, Linked, AgentInv, RaTypeOK
<1> QED
  BY <1>1, <1>2

\* A reply to a command is followed by the next command, by a new connection, or by the
\* end; by the next command only while self.running.
LEMMA Replies ==
  ASSUME AgentInv, NEW what \in {"busy", "idle", "pong", "error"},
         NEW waiting \in Seq(RaCommand), Reply(what, waiting),
         apc \in {"listen", "spawn", "stream", "reap"}
  PROVE  /\ apc' \in {"listen", "connect", "stopped"}
         /\ apc' = "listen" => running = TRUE
         /\ inbox' \in Seq(RaCommand) /\ conn' \in {"none", "open", "lost"}
         /\ said' \in Sayings
         /\ Linked' /\ (conn' = "lost" => conn = "lost")
<1>1. running \in BOOLEAN /\ said \in Sayings
  BY DEF AgentInv, RaTypeOK, Sayings
<1>2. /\ Inner \in {"listen", "stopped"} /\ Outer \in {"connect", "stopped"}
      /\ Inner = "listen" => running = TRUE
  BY <1>1 DEF Inner, Outer
<1>3. CASE conn = "open"
  <2>1. said' = what /\ Go(Inner, waiting)
    BY <1>3 DEF Reply
  <2>2. said' \in Sayings
    BY <2>1 DEF Sayings
  <2> QED
    BY <1>2, <2>1, <2>2, Goes DEF Labels
<1>4. CASE conn # "open"
  <2>1. said' = said /\ Go(Outer, waiting)
    BY <1>4 DEF Reply
  <2> QED
    BY <1>1, <1>2, <2>1, Goes DEF Labels
<1> QED
  BY <1>3, <1>4

\* A step of the coroutine that neither holds a runner nor gets one.
LEMMA IdleKeeps ==
  ASSUME AgentInv, current_process = 0, current_process' = 0, runs' = runs,
         running' = running, apc' \in Labels \ {"stream", "reap"},
         conn' \in {"none", "open", "lost"}, inbox' \in Seq(RaCommand),
         said' \in Sayings, late' \in Nat,
         Linked', LateCommand'
  PROVE  AgentInv'
<1>1. RaTypeOK'
  BY DEF AgentInv, RaTypeOK, Sayings, Labels
<1>2. HeldInStream' /\ CutKnown' /\ ReapedAtEnd'
  BY DEF HeldInStream, CutKnown, ReapedAtEnd
<1>3. \A p \in 1 .. Len(runs') : Accounted(runs'[p])
  BY DEF AgentInv
<1>4. \A p \in 1 .. Len(runs') : p # current_process' => DoneWithRun(runs'[p])
  BY DEF AgentInv
<1> QED
  BY <1>1, <1>2, <1>3, <1>4 DEF AgentInv, Accounted, DoneWithRun, JsonsIn, Jsons

LEMMA ConnectKeeps ==
  ASSUME AgentInv,
         Connected \/ ConnectFails \/ BackoffOver \/ Heartbeat \/ RecvClosed
  PROVE  AgentInv'
<1>1. /\ current_process = 0 /\ current_process' = 0 /\ runs' = runs /\ running' = running
      /\ said' = said /\ late' = late
  BY DEF Connected, ConnectFails, BackoffOver, Heartbeat, RecvClosed, AgentInv, HeldInStream
<1>2. /\ running \in BOOLEAN /\ said \in Sayings /\ late \in Nat
      /\ inbox \in Seq(RaCommand) /\ <<>> \in Seq(RaCommand)
  BY EmptySeq DEF AgentInv, RaTypeOK, Sayings
<1>3. /\ Inner \in {"listen", "stopped"} /\ Outer \in {"connect", "stopped"}
      /\ Inner = "listen" => running = TRUE
  BY <1>2 DEF Inner, Outer
<1>4. CASE Connected
  <2>1. /\ apc' = Inner /\ conn' = (IF running THEN "open" ELSE "none") /\ inbox' = inbox
    BY <1>4 DEF Connected
  <2>2. Inner = "listen" => conn' = "open"
    BY <1>3, <2>1
  <2>3. Linked' /\ conn' \in {"none", "open", "lost"}
    BY <1>3, <2>1, <2>2 DEF Linked
  <2>4. LateCommand'
    BY <1>1, <1>3, <2>1 DEF LateCommand, AgentInv
  <2> QED
    BY <1>1, <1>2, <1>3, <2>1, <2>3, <2>4, IdleKeeps DEF Labels
<1>5. CASE ConnectFails \/ BackoffOver \/ Heartbeat \/ RecvClosed
  <2>1. PICK label \in {"connect", "backoff", "stopped", "listen"} :
          /\ Go(label, <<>>)
          /\ label = "listen" => apc = "listen" /\ running = TRUE
    BY <1>3, <1>5 DEF ConnectFails, BackoffOver, Heartbeat, RecvClosed
  <2>2. /\ apc' = label /\ inbox' \in Seq(RaCommand) /\ conn' \in {"none", "open", "lost"}
        /\ Linked'
    BY <1>2, <2>1, Goes DEF Labels
  <2>3. LateCommand'
    BY <1>1, <2>1, <2>2 DEF LateCommand, AgentInv
  <2> QED
    BY <1>1, <1>2, <2>2, <2>3, IdleKeeps DEF Labels
<1> QED
  BY <1>4, <1>5

\* A command is handled after shutdown only if it was awaited before.
LEMMA CommandKeeps ==
  ASSUME AgentInv, HandleCommand
  PROVE  AgentInv'
<1> DEFINE waiting == Tail(inbox)
<1>1. /\ current_process = 0 /\ current_process' = 0 /\ runs' = runs /\ running' = running
      /\ apc = "listen" /\ inbox # <<>>
  BY DEF HandleCommand, AgentInv, HeldInStream
<1>2. /\ inbox \in Seq(RaCommand) /\ said \in Sayings
  BY DEF AgentInv, RaTypeOK, Sayings
<1>2a. late \in Nat
  BY DEF AgentInv, RaTypeOK, Sayings
<1>2b. running \in BOOLEAN
  BY DEF AgentInv, RaTypeOK, Sayings
<1>3. waiting \in Seq(RaCommand)
  BY <1>1, <1>2, HeadTailProperties
<1>4. /\ Inner \in {"listen", "stopped"}
      /\ Inner = "listen" => running = TRUE
  BY <1>2b DEF Inner
<1>5. late = 0
  <2>1. late <= 1 /\ late # 1
    BY <1>1 DEF AgentInv, LateCommand
  <2> QED
    BY <1>2a, <2>1
<1>6. late' \in Nat /\ late' <= 1 /\ (late' = 1 => running' = FALSE)
  <2>1. late' = IF running THEN late ELSE late + 1
    BY DEF HandleCommand
  <2>2. (running = TRUE /\ late' = 0) \/ (running = FALSE /\ late' = 1)
    BY <1>2b, <1>5, <2>1
  <2> QED
    BY <1>1, <2>2
<1> HIDE DEF waiting
<1>7. \/ \E label \in {"spawn", "backoff"} \cup {Inner} : Go(label, waiting) /\ said' = said
      \/ \E what \in {"busy", "idle", "pong"} : Reply(what, waiting)
  BY DEF HandleCommand, waiting
<1>8. /\ apc' \in Labels \ {"stream", "reap"} /\ conn' \in {"none", "open", "lost"}
      /\ inbox' \in Seq(RaCommand) /\ said' \in Sayings
      /\ Linked' /\ (apc' = "listen" => running = TRUE)
  <2>1. CASE \E label \in {"spawn", "backoff"} \cup {Inner} :
               Go(label, waiting) /\ said' = said
    <3>1. PICK label \in {"spawn", "backoff", "listen", "stopped"} :
            /\ Go(label, waiting) /\ said' = said
            /\ label = "listen" => running = TRUE
      BY <1>4, <2>1
    <3>2. /\ apc' = label /\ inbox' \in Seq(RaCommand)
          /\ conn' \in {"none", "open", "lost"} /\ Linked'
      BY <1>1, <1>3, <3>1, Goes DEF Labels
    <3> QED
      BY <1>2, <3>1, <3>2 DEF Labels
  <2>2. CASE \E what \in {"busy", "idle", "pong"} : Reply(what, waiting)
    BY <1>1, <1>3, <2>2, Replies DEF Labels
  <2> QED
    BY <1>7, <2>1, <2>2
<1>9. LateCommand'
  BY <1>1, <1>6, <1>8 DEF LateCommand
<1> QED
  BY <1>1, <1>6, <1>8, <1>9, IdleKeeps

LEMMA SpawnFailsKeeps ==
  ASSUME AgentInv, SpawnFails
  PROVE  AgentInv'
<1>1. /\ current_process = 0 /\ current_process' = 0 /\ runs' = runs /\ running' = running
      /\ apc = "spawn" /\ Reply("error", inbox) /\ late' = late
  BY DEF SpawnFails, Fail, AgentInv, HeldInStream
<1>2. inbox \in Seq(RaCommand) /\ late \in Nat
  BY DEF AgentInv, RaTypeOK, Sayings
<1>3. /\ apc' \in {"listen", "connect", "stopped"}
      /\ apc' = "listen" => running = TRUE
      /\ inbox' \in Seq(RaCommand) /\ conn' \in {"none", "open", "lost"}
      /\ said' \in Sayings
      /\ Linked'
  BY <1>1, <1>2, Replies
<1>4. LateCommand'
  BY <1>1, <1>3 DEF LateCommand, AgentInv
<1> QED
  BY <1>1, <1>2, <1>3, <1>4, IdleKeeps DEF Labels

\* One run changes, and the coroutine may let go of it.
LEMMA RunChanges ==
  ASSUME AgentInv, NEW p \in 1 .. Len(runs), NEW r \in RunType, Accounted(r),
         runs' = [runs EXCEPT ![p] = r],
         current_process' = current_process
           \/ (current_process' = 0 /\ p = current_process),
         p # current_process' => DoneWithRun(r),
         apc' \in Labels, conn' \in {"none", "open", "lost"}, inbox' \in Seq(RaCommand),
         running' \in BOOLEAN, said' \in Sayings, late' \in Nat,
         HeldInStream', Linked', CutKnown', ReapedAtEnd', LateCommand'
  PROVE  AgentInv'
<1>1. runs \in Seq(RunType) /\ current_process \in 0 .. Len(runs)
  BY DEF AgentInv, RaTypeOK, Sayings
<1>2. /\ runs' \in Seq(RunType) /\ Len(runs') = Len(runs)
      /\ \A q \in 1 .. Len(runs) : runs'[q] = IF q = p THEN r ELSE runs[q]
  BY <1>1, ExceptSeq
<1>3. current_process' \in 0 .. Len(runs')
  <2>1. Len(runs) \in Nat
    BY <1>1
  <2> QED
    BY <1>1, <1>2, <2>1
<1>4. RaTypeOK'
  BY <1>2, <1>3 DEF RaTypeOK, Labels, Sayings
<1>5. \A q \in 1 .. Len(runs') : Accounted(runs'[q])
  BY <1>2 DEF AgentInv
<1>6. \A q \in 1 .. Len(runs') : q # current_process' => DoneWithRun(runs'[q])
  <2>1. SUFFICES ASSUME NEW q \in 1 .. Len(runs), q # current_process', q # p
                 PROVE  DoneWithRun(runs[q])
    BY <1>2
  <2>2. q # current_process
    BY <2>1
  <2> QED
    BY <2>2 DEF AgentInv
<1> QED
  BY <1>4, <1>5, <1>6 DEF AgentInv, Accounted, DoneWithRun, JsonsIn, Jsons

\* What a step that leaves the rest alone needs to know.
LEMMA TypeFacts ==
  ASSUME AgentInv
  PROVE  /\ runs \in Seq(RunType) /\ Len(runs) \in Nat
         /\ current_process \in 0 .. Len(runs)
         /\ apc \in Labels /\ conn \in {"none", "open", "lost"} /\ inbox \in Seq(RaCommand)
         /\ running \in BOOLEAN /\ said \in Sayings
         /\ late \in Nat
         /\ \A p \in 1 .. Len(runs) : runs[p] \in RunType /\ Accounted(runs[p])
         /\ HeldInStream /\ Linked /\ CutKnown /\ ReapedAtEnd /\ LateCommand
<1>1. runs \in Seq(RunType)
  BY DEF AgentInv, RaTypeOK, Sayings
<1>2. Len(runs) \in Nat /\ \A p \in 1 .. Len(runs) : runs[p] \in RunType
  BY <1>1, ElementOfSeq
<1> QED
  BY <1>1, <1>2 DEF AgentInv, RaTypeOK, Sayings, Labels

\* The runner that is held while its output is read.
LEMMA Held ==
  ASSUME AgentInv, apc \in {"stream", "reap"}
  PROVE  /\ current_process \in 1 .. Len(runs)
         /\ runs[current_process] \in RunType /\ Accounted(runs[current_process])
         /\ conn \in {"open", "lost"}
         /\ conn = "lost" => runs[current_process].cut
<1>1. current_process # 0 /\ current_process \in 0 .. Len(runs) /\ Len(runs) \in Nat
  BY TypeFacts DEF HeldInStream
<1>2. current_process \in 1 .. Len(runs)
  BY <1>1
<1> QED
  BY <1>1, <1>2, TypeFacts DEF Linked, CutKnown

\* A runner starts: current_process was None, so every other one has ended.
LEMMA SpawnedKeeps ==
  ASSUME AgentInv, Spawned
  PROVE  AgentInv'
<1>1. PICK n \in 0 .. MaxLines :
        runs' = Append(runs, [NewRun(n) EXCEPT !.cut = (conn = "lost")])
  BY DEF Spawned
<1> DEFINE b == (conn = "lost")
           r == [NewRun(n) EXCEPT !.cut = b]
<1>2. /\ apc = "spawn" /\ apc' = "stream" /\ current_process' = Len(runs) + 1
      /\ UNCHANGED <<conn, inbox, running, said, late>> /\ runs' = Append(runs, r)
  <2>2. UNCHANGED <<conn, inbox, running, said, late>>
    BY DEF Spawned, net
  <2> QED
    BY <1>1, <2>2 DEF Spawned
<1>3. n \in Nat /\ b \in BOOLEAN /\ <<>> \in Seq(LineKind)
  BY AgentBounds, EmptySeq
<1> HIDE DEF b
<1>4. r \in RunType /\ r.cut = b
  BY <1>3 DEF RunType, NewRun
<1>5. Accounted(r)
  <2>1. r.sent = 0 /\ r.made = 0 /\ r.pipe = <<>>
    BY DEF NewRun
  <2> HIDE DEF r
  <2> QED
    BY <2>1, JsonsEmpty DEF Accounted
<1> HIDE DEF r
<1>6. /\ runs' \in Seq(RunType) /\ Len(runs') = Len(runs) + 1
      /\ \A q \in 1 .. Len(runs) : runs'[q] = runs[q]
      /\ runs'[Len(runs) + 1] = r
  BY <1>2, <1>4, TypeFacts, AppendProperties
<1>7. 1 .. Len(runs') = (1 .. Len(runs)) \cup {Len(runs) + 1} /\ Len(runs) \in Nat
  BY <1>6, TypeFacts
<1>8. current_process = 0
  BY <1>2, TypeFacts DEF HeldInStream
<1>9. \A q \in 1 .. Len(runs') : Accounted(runs'[q])
  BY <1>5, <1>6, <1>7, TypeFacts
<1>10. \A q \in 1 .. Len(runs') : q # current_process' => DoneWithRun(runs'[q])
  <2>1. \A q \in 1 .. Len(runs) : DoneWithRun(runs[q])
    BY <1>8 DEF AgentInv
  <2> QED
    BY <1>2, <1>6, <1>7, <2>1
<1>11. current_process' \in 0 .. Len(runs') /\ current_process' # 0
  BY <1>2, <1>6, <1>7
<1>12. RaTypeOK'
  BY <1>2, <1>6, <1>11, TypeFacts DEF RaTypeOK, Labels, Sayings
<1>13. HeldInStream' /\ Linked' /\ ReapedAtEnd'
  BY <1>2, <1>11, TypeFacts DEF HeldInStream, Linked, ReapedAtEnd
<1>14. CutKnown'
  BY <1>2, <1>4, <1>6 DEF CutKnown, b
<1>15. LateCommand'
  BY <1>2, TypeFacts DEF LateCommand
<1> QED
  BY <1>9, <1>10, <1>12, <1>13, <1>14, <1>15
  DEF AgentInv, Accounted, DoneWithRun, JsonsIn, Jsons

\* A line is read: a result is sent or the connection is found lost; other text is
\* passed over; a line that cannot be decoded drops the run.
LEMMA ReadLineKeeps ==
  ASSUME AgentInv, ReadLine
  PROVE  AgentInv'
<1> DEFINE p == current_process
           run == runs[p]
           rest == [run EXCEPT !.pipe = Tail(@)]
           sent1 == [rest EXCEPT !.sent = @ + 1]
           drop1 == [rest EXCEPT !.dropped = TRUE]
<1>1. apc = "stream" /\ running' = running /\ late' = late
  BY DEF ReadLine
<1>2. /\ p \in 1 .. Len(runs) /\ run \in RunType /\ Accounted(run)
      /\ conn \in {"open", "lost"} /\ (conn = "lost" => run.cut)
  BY <1>1, Held
<1>3. run.pipe \in Seq(LineKind) /\ run.sent \in Nat /\ run.made \in Nat
  BY <1>2 DEF RunType
<1> HIDE DEF run
<1>4. ASSUME run.pipe # <<>>
      PROVE  /\ Tail(run.pipe) \in Seq(LineKind) /\ Head(run.pipe) \in LineKind
             /\ JsonsIn(Tail(run.pipe)) \in Nat
             /\ JsonsIn(run.pipe) = IF Head(run.pipe) = "json"
                                     THEN JsonsIn(Tail(run.pipe)) + 1
                                     ELSE JsonsIn(Tail(run.pipe))
  BY <1>3, <1>4, HeadTailProperties, JsonsTail, JsonsFinite
<1>5. ASSUME run.pipe # <<>>
      PROVE  /\ rest \in RunType /\ rest.cut = run.cut /\ rest.dropped = run.dropped
             /\ rest.pipe = Tail(run.pipe) /\ rest.sent = run.sent /\ rest.made = run.made
  BY <1>2, <1>4, <1>5 DEF RunType
<1>6. LateCommand' \/ apc' = "listen"
  BY <1>1, TypeFacts DEF LateCommand
<1>7. CASE /\ run.pipe # <<>> /\ Head(run.pipe) = "json" /\ conn = "open"
           /\ runs' = [runs EXCEPT ![p] = sent1]
           /\ UNCHANGED <<apc, conn, inbox, current_process, said>>
  <2>1. run.sent + 1 \in Nat
    BY <1>3
  <2>2. /\ sent1 \in RunType /\ sent1.cut = run.cut /\ sent1.dropped = run.dropped
        /\ sent1.pipe = Tail(run.pipe) /\ sent1.sent = run.sent + 1 /\ sent1.made = run.made
    <3> HIDE DEF rest
    <3> QED
      BY <1>5, <1>7, <2>1 DEF RunType
  <2> HIDE DEF sent1
  <2>3. Accounted(sent1)
    <3>1. run.sent + JsonsIn(run.pipe) = (run.sent + 1) + JsonsIn(Tail(run.pipe))
      <4>1. /\ JsonsIn(Tail(run.pipe)) \in Nat
            /\ JsonsIn(run.pipe) = JsonsIn(Tail(run.pipe)) + 1
        BY <1>4, <1>7
      <4> QED
        BY <1>3, <4>1
    <3> QED
      BY <1>2, <2>2, <3>1 DEF Accounted
  <2>4. HeldInStream' /\ Linked' /\ CutKnown' /\ ReapedAtEnd' /\ LateCommand'
    BY <1>1, <1>7, TypeFacts DEF HeldInStream, Linked, CutKnown, ReapedAtEnd, LateCommand
  <2> QED
    BY <1>1, <1>2, <1>7, <2>2, <2>3, <2>4, TypeFacts, RunChanges
<1>8. CASE /\ run.pipe # <<>> /\ conn # "open"
           /\ runs' = [runs EXCEPT ![p] = rest] /\ apc' = "reap"
           /\ UNCHANGED <<conn, inbox, current_process, said>>
  <2>1. rest.cut /\ rest \in RunType
    BY <1>2, <1>5, <1>8
  <2> HIDE DEF rest
  <2>2. Accounted(rest)
    BY <2>1 DEF Accounted
  <2>3. runs'[p] = rest
    BY <1>2, <1>8, TypeFacts, ExceptSeq
  <2>4. HeldInStream' /\ Linked' /\ CutKnown' /\ ReapedAtEnd' /\ LateCommand'
    BY <1>1, <1>2, <1>6, <1>8, <2>1, <2>3, TypeFacts
    DEF HeldInStream, Linked, CutKnown, ReapedAtEnd
  <2> QED
    BY <1>1, <1>2, <1>8, <2>1, <2>2, <2>4, TypeFacts, RunChanges DEF Labels
<1>9. CASE /\ run.pipe # <<>> /\ Head(run.pipe) = "text"
           /\ runs' = [runs EXCEPT ![p] = rest]
           /\ UNCHANGED <<apc, conn, inbox, current_process, said>>
  <2>1. rest \in RunType /\ rest.cut = run.cut
    BY <1>5, <1>9
  <2>2. Accounted(rest)
    <3>1. JsonsIn(run.pipe) = JsonsIn(Tail(run.pipe))
      BY <1>4, <1>9
    <3>2. /\ rest.cut = run.cut /\ rest.dropped = run.dropped
          /\ rest.pipe = Tail(run.pipe) /\ rest.sent = run.sent /\ rest.made = run.made
      BY <1>5, <1>9
    <3> HIDE DEF rest
    <3> QED
      BY <1>2, <3>1, <3>2 DEF Accounted
  <2> HIDE DEF rest
  <2>3. runs'[p] = rest
    BY <1>2, <1>9, TypeFacts, ExceptSeq
  <2>4. HeldInStream' /\ Linked' /\ CutKnown' /\ ReapedAtEnd' /\ LateCommand'
    BY <1>1, <1>2, <1>9, <2>1, <2>3, TypeFacts
    DEF HeldInStream, Linked, CutKnown, ReapedAtEnd, LateCommand
  <2> QED
    BY <1>1, <1>2, <1>9, <2>1, <2>2, <2>4, TypeFacts, RunChanges
<1>10. CASE /\ run.pipe # <<>> /\ runs' = [runs EXCEPT ![p] = drop1]
            /\ Reply("error", inbox) /\ current_process' = 0
  <2>1. drop1 \in RunType /\ drop1.dropped = TRUE
    <3> HIDE DEF rest
    <3> QED
      BY <1>5, <1>10 DEF RunType
  <2> HIDE DEF drop1
  <2>2. Accounted(drop1) /\ DoneWithRun(drop1)
    BY <2>1 DEF Accounted, DoneWithRun
  <2>3. /\ apc' \in {"listen", "connect", "stopped"} /\ (apc' = "listen" => running = TRUE)
        /\ inbox' \in Seq(RaCommand) /\ conn' \in {"none", "open", "lost"}
        /\ said' \in Sayings /\ Linked'
    BY <1>1, <1>10, TypeFacts, Replies
  <2>4. HeldInStream' /\ CutKnown' /\ ReapedAtEnd'
    BY <1>10, <2>3 DEF HeldInStream, CutKnown, ReapedAtEnd
  <2>5. LateCommand'
    BY <1>1, <2>3, TypeFacts DEF LateCommand
  <2> QED
    BY <1>1, <1>2, <1>10, <2>1, <2>2, <2>3, <2>4, <2>5, TypeFacts, RunChanges DEF Labels
<1>11. CASE EndOfOutput(run) /\ apc' = "reap" /\ UNCHANGED <<conn, inbox, current_process, runs, said>>
  <2>1. run.pipe = <<>> /\ run.state = "exited"
    BY <1>11 DEF EndOfOutput
  <2>2. HeldInStream' /\ Linked' /\ CutKnown' /\ ReapedAtEnd' /\ LateCommand'
    BY <1>1, <1>6, <1>11, <2>1, TypeFacts
    DEF HeldInStream, Linked, CutKnown, ReapedAtEnd, run
  <2>3. runs' = [runs EXCEPT ![p] = run]
    BY <1>2, <1>11, TypeFacts DEF run
  <2> QED
    BY <1>1, <1>2, <1>11, <2>2, <2>3, TypeFacts, RunChanges DEF Labels
<1> QED
  <2>1. \/ /\ run.pipe # <<>>
           /\ \/ /\ Head(run.pipe) = "json"
                 /\ IF conn = "open"
                    THEN runs' = [runs EXCEPT ![p] = sent1] /\ UNCHANGED apc
                    ELSE runs' = [runs EXCEPT ![p] = rest] /\ apc' = "reap"
                 /\ UNCHANGED <<conn, inbox, current_process, said>>
              \/ /\ Head(run.pipe) = "text" /\ runs' = [runs EXCEPT ![p] = rest]
                 /\ UNCHANGED <<apc, conn, inbox, current_process, said>>
              \/ /\ runs' = [runs EXCEPT ![p] = drop1] /\ Fail
        \/ EndOfOutput(run) /\ apc' = "reap" /\ UNCHANGED <<conn, inbox, current_process, runs, said>>
    BY DEF ReadLine, net, run
  <2> QED
    BY <1>7, <1>8, <1>9, <1>10, <1>11, <2>1 DEF Fail

\* wait() returned: the run has ended, and was read to its end unless it was cut.
LEMMA ReapedKeeps ==
  ASSUME AgentInv, Reaped
  PROVE  AgentInv'
<1> DEFINE p == current_process
           run == runs[p]
<1>1. /\ apc = "reap" /\ run.state = "exited" /\ current_process' = 0 /\ runs' = runs
      /\ Go(Inner, inbox) /\ UNCHANGED <<running, said, late>>
  BY DEF Reaped
<1>2. p \in 1 .. Len(runs) /\ run \in RunType /\ Accounted(run)
  BY <1>1, Held
<1>3. DoneWithRun(run)
  BY <1>1, TypeFacts DEF ReapedAtEnd, DoneWithRun
<1>4. /\ Inner \in {"listen", "stopped"}
      /\ Inner = "listen" => running = TRUE
  BY TypeFacts DEF Inner
<1>5. /\ apc' = Inner /\ inbox' \in Seq(RaCommand) /\ conn' \in {"none", "open", "lost"}
      /\ Linked'
  BY <1>1, <1>4, TypeFacts, Goes DEF Labels
<1>6. HeldInStream' /\ CutKnown' /\ ReapedAtEnd'
  BY <1>1, <1>4, <1>5 DEF HeldInStream, CutKnown, ReapedAtEnd
<1>7. LateCommand'
  BY <1>1, <1>4, <1>5, TypeFacts DEF LateCommand
<1>8. runs' = [runs EXCEPT ![p] = run]
  BY <1>1, <1>2, TypeFacts
<1> HIDE DEF run
<1> QED
  BY <1>1, <1>2, <1>3, <1>4, <1>5, <1>6, <1>7, <1>8, TypeFacts, RunChanges DEF Labels

\* A change of one run that keeps where it stands: what terminate(), the runner and a
\* lost connection do to it.
LEMMA RunMoves ==
  ASSUME AgentInv, NEW p \in 1 .. Len(runs), NEW r \in RunType, Accounted(r),
         runs' = [runs EXCEPT ![p] = r],
         p # current_process => DoneWithRun(r),
         runs[p].cut => r.cut, conn' = "lost" /\ p = current_process => r.cut,
         runs[p].state = "exited" => r.state = "exited" /\ r.pipe = runs[p].pipe,
         UNCHANGED <<apc, inbox, current_process, said, late>>,
         running' = running \/ running' = FALSE,
         conn' = conn \/ (conn = "open" /\ conn' = "lost" /\ p = current_process)
  PROVE  AgentInv'
<1>1. \A q \in 1 .. Len(runs) : runs'[q] = IF q = p THEN r ELSE runs[q]
  BY TypeFacts, ExceptSeq
<1>2. HeldInStream' /\ Linked' /\ LateCommand'
  BY TypeFacts DEF HeldInStream, Linked, LateCommand
<1>3. CutKnown'
  <2>1. SUFFICES ASSUME conn' = "lost", current_process # 0
                 PROVE  runs'[current_process].cut
    BY DEF CutKnown
  <2>2. current_process \in 1 .. Len(runs)
    BY <2>1, TypeFacts
  <2>3. CASE p = current_process
    BY <1>1, <2>1, <2>3
  <2>4. CASE p # current_process
    BY <1>1, <2>1, <2>2, <2>4, TypeFacts DEF CutKnown
  <2> QED
    BY <2>3, <2>4
<1>4. ReapedAtEnd'
  <2>1. SUFFICES ASSUME apc = "reap"
                 PROVE  \/ runs'[current_process].cut
                        \/ /\ runs'[current_process].state = "exited"
                           /\ runs'[current_process].pipe = <<>>
    BY DEF ReapedAtEnd
  <2>2. /\ current_process \in 1 .. Len(runs)
        /\ \/ runs[current_process].cut
           \/ /\ runs[current_process].state = "exited"
              /\ runs[current_process].pipe = <<>>
    BY <2>1, TypeFacts, Held DEF ReapedAtEnd
  <2>3. CASE p = current_process
    BY <1>1, <2>2, <2>3
  <2>4. CASE p # current_process
    BY <1>1, <2>2, <2>4
  <2> QED
    BY <2>3, <2>4
<1>5. running' \in BOOLEAN
  BY TypeFacts
<1> QED
  BY <1>2, <1>3, <1>4, <1>5, TypeFacts, RunChanges

\* A run that is going is the one that is held, or one that was dropped.
LEMMA GoingIsHeld ==
  ASSUME AgentInv, NEW p \in 1 .. Len(runs), runs[p].state = "running"
  PROVE  p = current_process \/ runs[p].dropped
  BY DEF AgentInv, DoneWithRun

LEMMA RunnerKeeps ==
  ASSUME AgentInv, NEW p \in 1 .. Len(runs), RunnerWrites(p) \/ RunnerExits(p)
  PROVE  AgentInv'
<1> DEFINE run == runs[p]
<1>1. /\ run \in RunType /\ Accounted(run) /\ run.state = "running"
      /\ UNCHANGED <<apc, conn, inbox, running, current_process, said, late>>
  BY TypeFacts DEF RunnerWrites, RunnerExits, net
<1>2. p = current_process \/ run.dropped
  BY <1>1, GoingIsHeld
<1>3. conn = "lost" /\ p = current_process => run.cut
  BY TypeFacts DEF CutKnown
<1>4. run.pipe \in Seq(LineKind) /\ run.left \in Nat /\ run.made \in Nat /\ run.sent \in Nat
  BY <1>1 DEF RunType
<1>5. CASE RunnerWrites(p)
  <2>1. PICK line \in Line :
          runs' = [runs EXCEPT ![p].left = @ - 1, ![p].pipe = Append(@, line),
                               ![p].made = IF line = "json" THEN @ + 1 ELSE @]
    BY <1>5 DEF RunnerWrites
  <2> DEFINE left == run.left - 1
             pipe == Append(run.pipe, line)
             made == IF line = "json" THEN run.made + 1 ELSE run.made
             r == [run EXCEPT !.left = left, !.pipe = pipe, !.made = made]
  <2>2. line \in LineKind
    BY AgentBounds
  <2>3. left \in Nat /\ made \in Nat /\ pipe \in Seq(LineKind)
    <3>1. run.left > 0
      BY <1>5 DEF RunnerWrites
    <3>2. left \in Nat /\ made \in Nat
      BY <1>4, <3>1
    <3>3. pipe \in Seq(LineKind)
      BY <1>4, <2>2, AppendProperties
    <3> QED
      BY <3>2, <3>3
  <2>4. runs' = [runs EXCEPT ![p] = r]
    BY <1>1, <2>1, TypeFacts
  <2>5. /\ JsonsIn(run.pipe) \in Nat
        /\ JsonsIn(pipe) = IF line = "json" THEN JsonsIn(run.pipe) + 1 ELSE JsonsIn(run.pipe)
    BY <1>4, <2>2, JsonsAppend, JsonsFinite
  <2>6. run.sent + JsonsIn(run.pipe) = run.made => run.sent + JsonsIn(pipe) = made
    <3> HIDE DEF run, pipe
    <3> QED
      BY <1>4, <2>5
  <2> HIDE DEF left, pipe, made
  <2>7. /\ r \in RunType /\ r.cut = run.cut /\ r.dropped = run.dropped
        /\ r.pipe = pipe /\ r.made = made /\ r.sent = run.sent
    BY <1>1, <2>3 DEF RunType
  <2> HIDE DEF r
  <2>8. Accounted(r)
    BY <1>1, <2>6, <2>7 DEF Accounted
  <2>9. p # current_process => DoneWithRun(r)
    BY <1>2, <2>7 DEF DoneWithRun
  <2> QED
    BY <1>1, <1>3, <2>4, <2>7, <2>8, <2>9, RunMoves
<1>6. CASE RunnerExits(p)
  <2> DEFINE r == [run EXCEPT !.state = "exited"]
  <2>1. runs' = [runs EXCEPT ![p] = r]
    BY <1>1, <1>6, TypeFacts DEF RunnerExits
  <2>2. /\ r \in RunType /\ r.cut = run.cut /\ r.dropped = run.dropped
        /\ r.pipe = run.pipe /\ r.made = run.made /\ r.sent = run.sent
    BY <1>1 DEF RunType
  <2> HIDE DEF r
  <2>3. Accounted(r)
    BY <1>1, <2>2 DEF Accounted
  <2>4. p # current_process => DoneWithRun(r)
    BY <1>2, <2>2 DEF DoneWithRun
  <2> QED
    BY <1>1, <1>3, <2>1, <2>2, <2>3, <2>4, RunMoves
<1> QED
  BY <1>5, <1>6

\* shutdown and a lost connection touch the run that is held, if there is one.
LEMMA SignalKeeps ==
  ASSUME AgentInv, Shutdown \/ ConnectionLost
  PROVE  AgentInv'
<1> DEFINE p == current_process
           run == runs[p]
<1>1. UNCHANGED <<apc, inbox, current_process, said, late>>
  BY DEF Shutdown, ConnectionLost, net
<1>2. /\ running' = running \/ running' = FALSE
      /\ running' \in BOOLEAN
  BY TypeFacts DEF Shutdown, ConnectionLost
<1>3. /\ conn' = conn \/ (conn = "open" /\ conn' = "lost")
      /\ conn' \in {"none", "open", "lost"}
  BY TypeFacts DEF Shutdown, ConnectionLost, net
<1>4. CASE p = 0
  <2>1. runs' = runs /\ current_process' = 0
    BY <1>1, <1>4 DEF Shutdown, ConnectionLost
  <2>2. Linked' /\ LateCommand' /\ HeldInStream' /\ CutKnown' /\ ReapedAtEnd'
    <3>1. Linked' /\ LateCommand'
      BY <1>1, <1>2, <1>3, TypeFacts DEF Linked, LateCommand
    <3>2. HeldInStream' /\ CutKnown' /\ ReapedAtEnd'
      BY <1>1, <2>1, TypeFacts DEF HeldInStream, CutKnown, ReapedAtEnd
    <3> QED
      BY <3>1, <3>2
  <2>3. RaTypeOK'
    BY <1>1, <1>2, <1>3, <2>1, TypeFacts DEF RaTypeOK, Labels, Sayings
  <2>4. /\ \A q \in 1 .. Len(runs') : Accounted(runs'[q])
        /\ \A q \in 1 .. Len(runs') : q # current_process' => DoneWithRun(runs'[q])
    BY <1>4, <2>1 DEF AgentInv
  <2> QED
    BY <2>2, <2>3, <2>4 DEF AgentInv, Accounted, DoneWithRun, JsonsIn, Jsons
<1>5. CASE p # 0
  <2>1. p \in 1 .. Len(runs) /\ run \in RunType /\ Accounted(run)
    BY <1>5, TypeFacts
  <2>2. conn = "lost" => run.cut
    BY <1>5, TypeFacts DEF CutKnown
  <2>3. CASE Shutdown
    <3> DEFINE r == [run EXCEPT !.left = 0]
    <3>1. runs' = [runs EXCEPT ![p] = r] /\ conn' = conn
      BY <1>5, <2>1, <2>3, TypeFacts DEF Shutdown, net
    <3>2. /\ r \in RunType /\ r.cut = run.cut /\ r.dropped = run.dropped
          /\ r.pipe = run.pipe /\ r.made = run.made /\ r.sent = run.sent
          /\ r.state = run.state
      BY <2>1 DEF RunType
    <3> HIDE DEF r
    <3>3. Accounted(r)
      BY <2>1, <3>2 DEF Accounted
    <3> QED
      BY <1>1, <1>2, <2>1, <2>2, <3>1, <3>2, <3>3, RunMoves
  <2>4. CASE ConnectionLost
    <3> DEFINE r == [run EXCEPT !.cut = TRUE]
    <3>1. runs' = [runs EXCEPT ![p] = r] /\ running' = running
      BY <1>5, <2>1, <2>4, TypeFacts DEF ConnectionLost
    <3>2. /\ r \in RunType /\ r.cut = TRUE
          /\ r.pipe = run.pipe /\ r.state = run.state
      BY <2>1 DEF RunType
    <3> HIDE DEF r
    <3>3. Accounted(r)
      BY <3>2 DEF Accounted
    <3> QED
      BY <1>1, <1>3, <2>1, <3>1, <3>2, <3>3, RunMoves
  <2> QED
    BY <2>3, <2>4
<1> QED
  BY <1>4, <1>5

LEMMA ArrivalKeeps ==
  ASSUME AgentInv, CommandArrives
  PROVE  AgentInv'
<1>1. PICK command \in RaCommand : inbox' = Append(inbox, command)
  BY DEF CommandArrives
<1>2. inbox' \in Seq(RaCommand)
  BY <1>1, TypeFacts, AppendProperties
<1>3. UNCHANGED <<apc, conn, running, current_process, runs, said, late>>
  BY DEF CommandArrives
<1>4. RaTypeOK'
  BY <1>2, <1>3, TypeFacts DEF RaTypeOK, Labels, Sayings
<1> QED
  BY <1>3, <1>4 DEF AgentInv, HeldInStream, Linked, CutKnown, ReapedAtEnd, LateCommand,
                    Accounted, DoneWithRun, JsonsIn, Jsons

-----------------------------------------------------------------------------
(* The theorems.                                                            *)

LEMMA AgentInvInit == RaInit => AgentInv
<1> SUFFICES ASSUME RaInit PROVE AgentInv
  OBVIOUS
<1>1. runs = <<>> /\ Len(runs) = 0 /\ runs \in Seq(RunType) /\ inbox \in Seq(RaCommand)
  BY EmptySeq DEF RaInit
<1>2. current_process = 0 /\ late = 0
  BY DEF RaInit
<1>3. said \in Sayings /\ apc = "connect" /\ conn = "none" /\ running \in BOOLEAN
  BY DEF RaInit, Sayings
<1>4. RaTypeOK
  <2>1. current_process \in 0 .. Len(runs) /\ late \in Nat
    BY <1>1, <1>2
  <2> QED
    BY <1>1, <1>3, <2>1 DEF RaTypeOK, Sayings
<1>5. HeldInStream /\ Linked /\ CutKnown /\ ReapedAtEnd /\ LateCommand
  BY <1>2, <1>3 DEF HeldInStream, Linked, CutKnown, ReapedAtEnd, LateCommand
<1>6. 1 .. Len(runs) = {}
  BY <1>1
<1> QED
  BY <1>4, <1>5, <1>6 DEF AgentInv

LEMMA AgentInvStep == AgentInv /\ [RaNext]_ravars => AgentInv'
<1> SUFFICES ASSUME AgentInv, [RaNext]_ravars PROVE AgentInv'
  OBVIOUS
<1>1. CASE RaStep
  BY <1>1, ConnectKeeps, CommandKeeps, SpawnedKeeps, SpawnFailsKeeps, ReadLineKeeps, ReapedKeeps
  DEF RaStep
<1>2. CASE Shutdown \/ ConnectionLost
  BY <1>2, SignalKeeps
<1>3. CASE \E p \in 1 .. Len(runs) : RunnerWrites(p) \/ RunnerExits(p)
  BY <1>3, RunnerKeeps
<1>4. CASE CommandArrives
  BY <1>4, ArrivalKeeps
<1>5. CASE UNCHANGED ravars
  BY <1>5 DEF ravars, AgentInv, RaTypeOK, HeldInStream, Linked, CutKnown, ReapedAtEnd,
              LateCommand, Accounted, DoneWithRun, JsonsIn, Jsons
<1> QED
  BY <1>1, <1>2, <1>3, <1>4, <1>5 DEF RaNext

LEMMA AgentInvUse ==
  AgentInv => RaTypeOK /\ OneRunAtATime /\ ResultsSentUnlessCut /\ OneCommandAfterShutdown
<1> SUFFICES ASSUME AgentInv
             PROVE  OneRunAtATime /\ ResultsSentUnlessCut /\ OneCommandAfterShutdown
  BY DEF AgentInv
<1>1. OneRunAtATime
  BY GoingIsHeld DEF OneRunAtATime, Going
<1>2. ResultsSentUnlessCut
  <2>1. SUFFICES ASSUME NEW p \in 1 .. Len(runs), p # current_process,
                        ~runs[p].cut, ~runs[p].dropped
                 PROVE  runs[p].sent = runs[p].made
    BY DEF ResultsSentUnlessCut
  <2>2. runs[p].pipe = <<>>
    BY <2>1 DEF AgentInv, DoneWithRun
  <2>3. runs[p].sent + 0 = runs[p].made /\ runs[p].sent \in Nat
    BY <2>1, <2>2, TypeFacts, JsonsEmpty DEF Accounted, RunType
  <2> QED
    BY <2>3
<1>3. OneCommandAfterShutdown
  BY DEF AgentInv, LateCommand, OneCommandAfterShutdown
<1> QED
  BY <1>1, <1>2, <1>3

\* On a machine at most one runner is going, the one in current_process, whatever the
\* commands, lost connections and reconnections; only a dropped one escapes
\* (run_mlc_benchmark, handle_command).
THEOREM AgentRunsOne == RaSpec => []OneRunAtATime
  BY AgentInvInit, AgentInvStep, AgentInvUse, PTL DEF RaSpec

\* A run whose connection held and whose lines could be decoded has sent every result it
\* wrote when the agent lets go of it, however long its output (the stream loop).
THEOREM AgentSendsResults == RaSpec => []ResultsSentUnlessCut
  BY AgentInvInit, AgentInvStep, AgentInvUse, PTL DEF RaSpec

\* After a signal the agent handles one more command at most (connect_and_listen).
THEOREM AgentStopsListening == RaSpec => []OneCommandAfterShutdown
  BY AgentInvInit, AgentInvStep, AgentInvUse, PTL DEF RaSpec

\* Every variable of the agent keeps its type.
THEOREM AgentTypes == RaSpec => []RaTypeOK
  BY AgentInvInit, AgentInvStep, AgentInvUse, PTL DEF RaSpec
=============================================================================
