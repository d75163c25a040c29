----------------------------- MODULE IOThreads -----------------------------
(***************************************************************************)
(* The main thread and the I/O threads (redis-6.2.7/src/networking.c): lists   *)
(* handed over with a counter, mutexes that park idle threads, starting and     *)
(* stopping them, reads postponed to them, and clients closed meanwhile.        *)
(***************************************************************************)
EXTENDS Integers, Sequences, FiniteSets, SequencesExt

CONSTANTS
    IoClients,
    IoNum,              \* server.io_threads_num, the main thread included
    PerThread,          \* 2: the pending writes per thread that start the threads
    MaxReplies          \* replies a client has waiting

Threads == 1..(IoNum - 1)

VARIABLES
    iot,                \* [act, op, mx, pend, lists]: io_threads_active, ..._op, the mutexes' holders, counters, lists
    mpc,                \* the main thread: [at, j, i]
    tpc,                \* the I/O threads: [at, i]
    cq,                 \* [pread, pwrite]: clients_pending_read and _write
    ioc,                \* per client: [open, in, pread, pcmd, pw, out, hand, asap]
    worked              \* the clients done in this round, in any thread

iovars == <<iot, mpc, tpc, cq, ioc, worked>>

Main(at, j, i) == [at |-> at, j |-> j, i |-> i]
IoInit ==
    /\ iot = [act |-> FALSE, op |-> "read", mx |-> [j \in Threads |-> "main"], pend |-> [j \in Threads |-> 0], lists |-> [j \in 0..(IoNum - 1) |-> <<>>]]
    /\ mpc = Main("events", 0, 0)
    /\ tpc = [j \in Threads |-> [at |-> "spin", i |-> 1]]
    /\ cq = [pread |-> <<>>, pwrite |-> <<>>]
    /\ ioc = [c \in IoClients |-> [open |-> TRUE, in |-> FALSE, pread |-> FALSE, pcmd |-> FALSE, pw |-> FALSE, out |-> 0, hand |-> FALSE, asap |-> FALSE]]
    /\ worked = {}

-----------------------------------------------------------------------------
(* What happens to a client *)

\* A reply of a command the main thread runs, with clientInstallWriteHandler
Replied(k) == [k EXCEPT !.out = IF @ < MaxReplies THEN @ + 1 ELSE @, !.pw = TRUE]
\* readQueryFromClient in whatever thread: the whole command is parsed, or is an error
\* whose reply is put in the buffers at once; PENDING_READ keeps it out of the queue.
Parsed(k) == IF k.in /\ ~k.asap THEN [k EXCEPT !.in = FALSE, !.pcmd = TRUE] ELSE k
Refused(k) == IF k.in /\ ~k.asap THEN [k EXCEPT !.in = FALSE, !.out = IF @ < MaxReplies THEN @ + 1 ELSE @] ELSE k
\* writeToClient: all, nothing, or an error
Outs(k) == {[k EXCEPT !.out = 0], k, [k EXCEPT !.asap = TRUE]}
Ins(k) == {Parsed(k), Refused(k), k}
WorkOn(k) == IF iot.op = "write" THEN Outs(k) ELSE Ins(k)
Queued(s, c) == IF Contains(s, c) THEN s ELSE <<c>> \o s
\* unlinkClient, freeClient
IoFreed(k) == [k EXCEPT !.open = FALSE, !.in = FALSE, !.pread = FALSE, !.pcmd = FALSE, !.pw = FALSE, !.out = 0, !.hand = FALSE, !.asap = FALSE]
Without(s, c) == SelectSeq(s, LAMBDA d : d # c)

-----------------------------------------------------------------------------
(* The event loop, between two rounds *)

InEvents == mpc.at = "events"
\* Bytes arrive and the read handler is called: postponeClientRead, or the command is run
ReadEvent(c) ==
    LET k == [ioc[c] EXCEPT !.in = TRUE] IN
    /\ InEvents /\ ioc[c].open /\ ~ioc[c].pread /\ ~ioc[c].asap /\ ioc[c].out < MaxReplies
    /\ IF iot.act
       THEN ioc' = [ioc EXCEPT ![c] = [k EXCEPT !.pread = TRUE]] /\ cq' = [cq EXCEPT !.pread = <<c>> \o @]
       ELSE ioc' = [ioc EXCEPT ![c] = Replied([k EXCEPT !.in = FALSE])] /\ cq' = [cq EXCEPT !.pwrite = Queued(@, c)]
    /\ UNCHANGED <<iot, mpc, tpc, worked>>
WriteEvent(c) ==
    /\ InEvents /\ ioc[c].open /\ ioc[c].hand
    /\ \E k \in Outs(ioc[c]) : ioc' = [ioc EXCEPT ![c] = IF k.out = 0 THEN [k EXCEPT !.hand = FALSE] ELSE k]
    /\ UNCHANGED <<iot, mpc, tpc, cq, worked>>
\* CLIENT KILL by some client, or freeClientsInAsyncFreeQueue
Free(c) ==
    /\ InEvents /\ ioc[c].open
    /\ ioc' = [ioc EXCEPT ![c] = IoFreed(@)]
    /\ cq' = [pread |-> Without(cq.pread, c), pwrite |-> Without(cq.pwrite, c)]
    /\ UNCHANGED <<iot, mpc, tpc, worked>>

-----------------------------------------------------------------------------
(* Rounds: handleClientsWithPendingReadsUsingThreads, then                     *)
(* handleClientsWithPendingWritesUsingThreads                                  *)

Distribute(s) == [j \in 0..(IoNum - 1) |-> SelectSeq(s, LAMBDA c : \E i \in DOMAIN s : s[i] = c /\ (i - 1) % IoNum = j)]
BeginReads ==
    /\ InEvents
    /\ IF iot.act /\ cq.pread # <<>>
       THEN /\ iot' = [iot EXCEPT !.lists = Distribute(cq.pread), !.op = "read"]
            /\ mpc' = Main("count", 1, 1) /\ worked' = {}
       ELSE mpc' = Main("writes", 0, 0) /\ UNCHANGED <<iot, worked>>
    /\ UNCHANGED <<tpc, cq, ioc>>
\* setIOPendingCount, thread by thread
SetCount ==
    /\ mpc.at = "count"
    /\ iot' = [iot EXCEPT !.pend[mpc.j] = Len(iot.lists[mpc.j])]
    /\ mpc' = IF mpc.j = IoNum - 1 THEN Main("own", 0, 1) ELSE Main("count", mpc.j + 1, 1)
    /\ UNCHANGED <<tpc, cq, ioc, worked>>
OwnList ==              \* the main thread's own share, then the wait for the others
    /\ mpc.at = "own"
    /\ IF mpc.i <= Len(iot.lists[0])
       THEN LET c == iot.lists[0][mpc.i] IN
            /\ \E k \in WorkOn(ioc[c]) : ioc' = [ioc EXCEPT ![c] = k]
            /\ worked' = worked \cup {c} /\ mpc' = Main("own", 0, mpc.i + 1) /\ UNCHANGED iot
       ELSE mpc' = Main("wait", 0, 0) /\ iot' = [iot EXCEPT !.lists[0] = <<>>] /\ UNCHANGED <<ioc, worked>>
    /\ UNCHANGED <<tpc, cq>>
WaitForThreads ==
    /\ mpc.at = "wait" /\ \A j \in Threads : iot.pend[j] = 0
    /\ mpc' = Main(IF iot.op = "read" THEN "postread" ELSE "postwrite", 0, 0)
    /\ UNCHANGED <<iot, tpc, cq, ioc, worked>>
\* Run the commands that were parsed; a command may close another client
PostRead ==
    /\ mpc.at = "postread"
    /\ IF cq.pread = <<>> THEN mpc' = Main("writes", 0, 0) /\ UNCHANGED <<cq, ioc>>
       ELSE LET c == Head(cq.pread)
                k == [ioc[c] EXCEPT !.pread = FALSE]
                run == IF k.pcmd THEN Replied([k EXCEPT !.pcmd = FALSE]) ELSE IF k.out > 0 /\ ~k.hand THEN [k EXCEPT !.pw = TRUE] ELSE k
                kills == IF k.pcmd THEN {d \in IoClients : d # c /\ ioc[d].open} ELSE {}
                rest == [cq EXCEPT !.pread = Tail(@), !.pwrite = IF run.pw THEN Queued(@, c) ELSE @]
            IN  /\ mpc' = mpc
                /\ \/ ioc' = [ioc EXCEPT ![c] = run] /\ cq' = rest
                   \/ \E d \in kills : /\ ioc' = [ioc EXCEPT ![c] = run, ![d] = IoFreed(@)]
                                       /\ cq' = [pread |-> Without(rest.pread, d), pwrite |-> Without(rest.pwrite, d)]
    /\ UNCHANGED <<iot, tpc, worked>>

\* Nothing to write, few clients (threads are stopped, the main thread writes), or many
Few == Len(cq.pwrite) < IoNum * PerThread
BeginWrites ==
    LET live == SelectSeq(cq.pwrite, LAMBDA c : ~ioc[c].asap) IN
    /\ mpc.at = "writes"
    /\ IF cq.pwrite = <<>> THEN mpc' = Main("events", 0, 0) /\ UNCHANGED <<iot, cq, ioc, worked>>
       ELSE IF Few THEN mpc' = Main(IF iot.act THEN "stop" ELSE "alone", 1, 0) /\ UNCHANGED <<iot, cq, ioc, worked>>
       ELSE /\ iot' = [iot EXCEPT !.act = TRUE, !.mx = IF iot.act THEN @ ELSE [j \in Threads |-> "free"], !.lists = Distribute(live), !.op = "write"]
            /\ ioc' = [c \in IoClients |-> IF Contains(cq.pwrite, c) THEN [ioc[c] EXCEPT !.pw = FALSE] ELSE ioc[c]]
            /\ cq' = [cq EXCEPT !.pwrite = live]
            /\ mpc' = Main("count", 1, 1) /\ worked' = {}
    /\ UNCHANGED tpc
\* stopThreadedIO: the main thread takes the mutexes, one by one
StopThread ==
    /\ mpc.at = "stop" /\ iot.mx[mpc.j] = "free"
    /\ iot' = [iot EXCEPT !.mx[mpc.j] = "main", !.act = IF mpc.j = IoNum - 1 THEN FALSE ELSE @]
    /\ mpc' = IF mpc.j = IoNum - 1 THEN Main("alone", 0, 0) ELSE Main("stop", mpc.j + 1, 0)
    /\ UNCHANGED <<tpc, cq, ioc, worked>>
\* handleClientsWithPendingWrites
WriteAlone ==
    /\ mpc.at = "alone"
    /\ LET c == Head(cq.pwrite) IN
       IF cq.pwrite = <<>> THEN mpc' = Main("events", 0, 0) /\ UNCHANGED <<cq, ioc>>
       ELSE /\ \E k \in (IF ioc[c].asap THEN {ioc[c]} ELSE Outs(ioc[c])) :
                 ioc' = [ioc EXCEPT ![c] = [k EXCEPT !.pw = FALSE, !.hand = IF k.out > 0 /\ ~k.asap THEN TRUE ELSE @]]
            /\ cq' = [cq EXCEPT !.pwrite = Tail(@)] /\ mpc' = mpc
    /\ UNCHANGED <<iot, tpc, worked>>
PostWrite ==
    /\ mpc.at = "postwrite"
    /\ ioc' = [c \in IoClients |-> IF Contains(cq.pwrite, c) /\ ioc[c].out > 0 THEN [ioc[c] EXCEPT !.hand = TRUE] ELSE ioc[c]]
    /\ cq' = [cq EXCEPT !.pwrite = <<>>] /\ mpc' = Main("events", 0, 0)
    /\ UNCHANGED <<iot, tpc, worked>>

-----------------------------------------------------------------------------
(* IOThreadMain *)

At(j, at) == tpc' = [tpc EXCEPT ![j] = [at |-> at, i |-> 1]]
Spin(j) ==              \* work appears, or the thread parks on its mutex
    /\ tpc[j].at = "spin" /\ At(j, IF iot.pend[j] # 0 THEN "run" ELSE "lock")
    /\ UNCHANGED <<iot, mpc, cq, ioc, worked>>
Lock(j) ==
    /\ tpc[j].at = "lock" /\ iot.mx[j] = "free" /\ At(j, "unlock")
    /\ iot' = [iot EXCEPT !.mx[j] = "thread"] /\ UNCHANGED <<mpc, cq, ioc, worked>>
Unlock(j) ==
    /\ tpc[j].at = "unlock" /\ At(j, "spin")
    /\ iot' = [iot EXCEPT !.mx[j] = "free"] /\ UNCHANGED <<mpc, cq, ioc, worked>>
RunThenZeroed(j) ==     \* as Run, with the counter reset first
    /\ tpc[j].at = "run"
    /\ IF tpc[j].i <= Len(iot.lists[j])
       THEN LET c == iot.lists[j][tpc[j].i] IN
            /\ \E k \in WorkOn(ioc[c]) : ioc' = [ioc EXCEPT ![c] = k]
            /\ worked' = worked \cup {c} /\ tpc' = [tpc EXCEPT ![j].i = @ + 1] /\ iot' = [iot EXCEPT !.pend[j] = 0]
       ELSE At(j, "zero") /\ iot' = [iot EXCEPT !.lists[j] = <<>>] /\ UNCHANGED <<ioc, worked>>
    /\ UNCHANGED <<mpc, cq>>
Run(j) ==
    /\ tpc[j].at = "run"
    /\ IF tpc[j].i <= Len(iot.lists[j])
       THEN LET c == iot.lists[j][tpc[j].i] IN
            /\ \E k \in WorkOn(ioc[c]) : ioc' = [ioc EXCEPT ![c] = k]
            /\ worked' = worked \cup {c} /\ tpc' = [tpc EXCEPT ![j].i = @ + 1] /\ UNCHANGED iot
       ELSE At(j, "zero") /\ iot' = [iot EXCEPT !.lists[j] = <<>>] /\ UNCHANGED <<ioc, worked>>
    /\ UNCHANGED <<mpc, cq>>
Zero(j) ==
    /\ tpc[j].at = "zero" /\ At(j, "spin")
    /\ iot' = [iot EXCEPT !.pend[j] = 0] /\ UNCHANGED <<mpc, cq, ioc, worked>>

MainStep == BeginReads \/ SetCount \/ OwnList \/ WaitForThreads \/ PostRead \/ BeginWrites \/ StopThread \/ WriteAlone \/ PostWrite
ThreadStep(j) == Spin(j) \/ Lock(j) \/ Unlock(j) \/ Run(j) \/ Zero(j)
IoNext == MainStep \/ (\E j \in Threads : ThreadStep(j)) \/ (\E c \in IoClients : ReadEvent(c) \/ WriteEvent(c) \/ Free(c))
\* The operating system runs every thread, and a mutex that is free again and again is got
IoFairness == WF_iovars(MainStep) /\ SF_iovars(StopThread) /\ \A j \in Threads : WF_iovars(ThreadStep(j))
IoSpec == IoInit /\ [][IoNext]_iovars /\ IoFairness

-----------------------------------------------------------------------------
Touches(j) == IF tpc[j].at = "run" /\ tpc[j].i <= Len(iot.lists[j]) THEN {iot.lists[j][tpc[j].i]} ELSE {}
MainTouches ==
    IF mpc.at \in {"count", "wait"} THEN {}
    ELSE IF mpc.at = "own" THEN (IF mpc.i <= Len(iot.lists[0]) THEN {iot.lists[0][mpc.i]} ELSE {})
    ELSE IoClients

\* No client, and no list, is in the hands of two threads: the main thread runs commands,
\* frees clients and makes new lists only when every thread has put its counter to 0.
OneThreadPerClient ==
    /\ \A j \in Threads : Touches(j) \cap MainTouches = {} /\ (\A c \in Touches(j) : ioc[c].open)
    /\ \A i, j \in Threads : i # j => Touches(i) \cap Touches(j) = {}
    /\ \A j \in Threads : mpc.at \notin {"count", "own", "wait"} => tpc[j].at \notin {"run", "zero"}

\* When a round is over, every client that was queued for it was worked on.
RoundComplete ==
    /\ mpc.at = "postwrite" => \A i \in DOMAIN cq.pwrite : cq.pwrite[i] \in worked
    /\ mpc.at = "wait" /\ iot.op = "read" /\ (\A j \in Threads : iot.pend[j] = 0) => \A i \in DOMAIN cq.pread : cq.pread[i] \in worked

\* Between rounds no postponed read is left when the threads are stopped, and no reply
\* is left without the queue or the handler, also when an I/O thread made the reply.
NothingStranded ==
    InEvents => \A c \in IoClients :
        /\ ioc[c].pread => iot.act /\ Contains(cq.pread, c)
        /\ ioc[c].open /\ ioc[c].out > 0 /\ ~ioc[c].asap /\ ~ioc[c].pread => ioc[c].hand \/ Contains(cq.pwrite, c)

\* Work handed to I/O threads and back: never in two hands, complete when the round is
\* over, and nothing left behind (handleClientsWithPendingReadsUsingThreads and its twin).
IoHandoff == OneThreadPerClient /\ RoundComplete /\ NothingStranded

\* The event loop goes on: neither the wait for the counters nor the mutexes block it.
LoopGoesOn == []<>InEvents
=============================================================================
