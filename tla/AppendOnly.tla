----------------------------- MODULE AppendOnly -----------------------------
(***************************************************************************)
(* The append only file (redis-6.2.7/src/aof.c, with serverCron, beforeSleep   *)
(* and the bio fsync thread): commands are appended to aof_buf, written before *)
(* the replies are sent and fsynced by policy; a child rewrites the file while *)
(* the parent feeds it the difference through a pipe; writes and fsyncs fail,  *)
(* the process exits or the machine stops, and the file is loaded again.       *)
(*                                                                         *)
(* A write w is two bytes of the file, 2w-1 and 2w, so that it can be torn; a  *)
(* snapshot of a dataset is the bytes of the writes that made it.             *)
(***************************************************************************)
EXTENDS Integers, Sequences, FiniteSets, SequencesExt

CONSTANTS
    AofConfigs,         \* the startup configurations: [policy, norw (no-appendfsync-on-rewrite)]
    MaxAofWrites,       \* writes
    MaxAofEvents        \* forks, faults, crashes and switches of appendonly, together

VARIABLES
    conf,               \* the configuration
    aup,                \* the process runs
    adata,              \* the writes that made the dataset, in order
    aof,                \* the fields aof_* of redisServer, and the file
    rw,                 \* the rewrite child, the pipe to it and the rewrite buffer
    aclient,            \* the client: replies owed, the write handler, what it was told
    nAof                \* what happened so far, for the bounds

avars == <<conf, aup, adata, aof, rw, aclient, nAof>>

Truncations(s, lo) == {SubSeq(s, 1, k) : k \in lo..Len(s)}
Drop(s, k) == SubSeq(s, k + 1, Len(s))
BytesOf(writes) == [i \in 1..(2 * Len(writes)) |-> 2 * writes[(i + 1) \div 2] - (i % 2)]
\* The complete writes of a file; a torn one at its end is left out.
WritesOf(bytes) == [i \in 1..(Len(bytes) \div 2) |-> bytes[2 * i] \div 2]

\* state: aof_state; file, durable: the named file, and how much of it survives the
\* machine; fsyncOffset; due: unixtime > aof_last_fsync; postponed: 0, or one more
\* than the seconds since aof_flush_postponed_start (at most 3); wok, fok:
\* aof_last_write_status, aof_bio_fsync_status; bio: the queued fsyncs, TRUE for the
\* current file; scheduled: aof_rewrite_scheduled; exited: exit(1) was called
AofOn(file, durable) ==
    [state |-> "on", buf |-> <<>>, file |-> file, durable |-> durable, fsyncOffset |-> Len(file), due |-> FALSE,
     postponed |-> 0, wok |-> TRUE, fok |-> TRUE, bio |-> <<>>, scheduled |-> FALSE, exited |-> FALSE]
\* kind: child_type; phase of the child: saving, asked, acked, done, failed
NoChild == [kind |-> "none", phase |-> "none", temp |-> <<>>, pipe |-> <<>>, buf |-> <<>>, stop |-> FALSE]
\* owed: executed and not replied; handler: none, plain, barrier; early: it was installed
\* before the AOF was on; read: a command was read in this iteration of the event loop;
\* told: replied to while the AOF was on
NewClient == [owed |-> {}, handler |-> "none", early |-> FALSE, read |-> FALSE, told |-> {}]

AofInit ==
    /\ conf \in AofConfigs /\ aup = TRUE /\ adata = <<>> /\ aof = AofOn(<<>>, 0) /\ rw = NoChild /\ aclient = NewClient
    /\ nAof = [w |-> 0, events |-> 0]

-----------------------------------------------------------------------------
(* flushAppendOnlyFile *)

\* What the system calls of a flush do: n bytes written, then the ftruncate that
\* takes back a short write and the fsync succeed or not.
AllFine(a) == [n |-> Len(a.buf), cut |-> TRUE, sync |-> TRUE]
Outcomes(a) ==
    {AllFine(a)} \cup [n : 0..(Len(a.buf) - 1), cut : BOOLEAN, sync : {TRUE}]
    \cup (IF conf.policy = "always" THEN [n : {Len(a.buf)}, cut : {TRUE}, sync : {FALSE}] ELSE {})
Fine(a, o) == o = AllFine(a)

TrySyncFsync(a, child, o) ==
    IF conf.norw /\ child # "none" THEN a
    ELSE IF conf.policy = "always" THEN
        IF o.sync THEN [a EXCEPT !.durable = Len(a.file), !.fsyncOffset = Len(a.file), !.due = FALSE]
        ELSE [a EXCEPT !.exited = TRUE]
    ELSE IF conf.policy = "everysec" /\ a.due THEN
        [a EXCEPT !.bio = IF a.bio = <<>> THEN <<TRUE>> ELSE @,
                  !.fsyncOffset = IF a.bio = <<>> THEN Len(a.file) ELSE @, !.due = FALSE]
    ELSE a

WriteBuffer(a, child, o) ==
    IF o.n = Len(a.buf) THEN
        TrySyncFsync([a EXCEPT !.file = @ \o a.buf, !.buf = <<>>, !.postponed = 0, !.wok = TRUE], child, o)
    ELSE LET kept == IF o.cut THEN 0 ELSE o.n
         IN  [a EXCEPT !.file = @ \o SubSeq(a.buf, 1, kept), !.postponed = 0,
                       !.exited = conf.policy = "always",
                       !.wok = FALSE, !.buf = Drop(@, kept)]

FlushAppendOnlyFile(a, child, force, o) ==
    LET busy == conf.policy = "everysec" /\ a.bio # <<>>
    IN  IF a.buf = <<>> THEN
            IF conf.policy = "everysec" /\ a.fsyncOffset # Len(a.file) /\ a.due /\ ~busy
            THEN TrySyncFsync(a, child, o) ELSE a
        ELSE IF busy /\ ~force /\ a.postponed = 0 THEN [a EXCEPT !.postponed = 1]
        ELSE IF busy /\ ~force /\ a.postponed < 3 THEN a
        ELSE WriteBuffer(a, child, o)

\* The process is gone: what is left is the file (the kernel still writes what it
\* has, unless the machine stops too).  aof_last_write_status and the queue go.
Dead(file, durable) ==
    /\ aup' = FALSE /\ adata' = <<>> /\ aof' = AofOn(file, durable) /\ rw' = NoChild
    /\ aclient' = [NewClient EXCEPT !.told = aclient.told]
Becomes(a) ==       \* a handler ends with the AOF in state a, or the process has exited
    IF a.exited THEN Dead(a.file, a.durable) ELSE aup' = TRUE /\ aof' = a /\ UNCHANGED adata

Count(n) == nAof' = [nAof EXCEPT !.events = @ + n] /\ nAof.events + n <= MaxAofEvents
Event == Count(1)
Faulty(bad) == Count(IF bad THEN 1 ELSE 0)

-----------------------------------------------------------------------------
(* Commands and replies *)

\* writeCommandsDeniedByDiskError
Denied == aof.state # "off" /\ (~aof.wok \/ ~aof.fok)

\* feedAppendOnlyFile: what the buffers become
FeedAppendOnlyFile(bytes) ==
    /\ aof' = [aof EXCEPT !.buf = IF aof.state = "on" THEN @ \o bytes ELSE @]
    /\ rw' = [rw EXCEPT !.buf = IF rw.kind = "aof" THEN @ \o bytes ELSE @]

\* A write command is executed, propagated and its reply queued.
Write ==
    LET w == nAof.w + 1 IN
    /\ aup /\ ~Denied /\ nAof.w < MaxAofWrites
    /\ adata' = Append(adata, w) /\ FeedAppendOnlyFile(BytesOf(<<w>>))
    /\ aclient' = [aclient EXCEPT !.owed = @ \cup {w}, !.read = TRUE]
    /\ nAof' = [nAof EXCEPT !.w = w] /\ UNCHANGED <<conf, aup>>

\* A handler installed before the AOF was on stays without the barrier; what it sends
\* is not counted as told.
Reply(c, ws) == [c EXCEPT !.owed = @ \ ws, !.told = IF aof.state = "on" /\ ~c.early THEN @ \cup ws ELSE @]

\* sendReplyToClient, installed in an earlier iteration.  With AE_BARRIER aeProcessEvents
\* fires it before the read handler, so never after a command of this iteration.
WriteReady ==
    /\ aup /\ aclient.handler # "none" /\ (aclient.handler = "barrier" => ~aclient.read)
    /\ aclient' = [Reply(aclient, aclient.owed) EXCEPT !.handler = "none", !.early = FALSE]
    /\ UNCHANGED <<conf, aup, adata, aof, rw, nAof>>

\* The handler handleClientsWithPendingWrites installs for the replies that are left
HandlerPlain(left) == IF left = {} THEN "none" ELSE "plain"
HandlerFor(left) ==
    IF left = {} THEN "none" ELSE IF aof.state = "on" /\ conf.policy = "always" THEN "barrier" ELSE "plain"

\* beforeSleep: the flush, then the replies; one may not fit into the socket.
BeforeSleep(o, sent) ==
    /\ aup
    /\  LET a == IF aof.state = "on" THEN FlushAppendOnlyFile(aof, rw.kind, FALSE, o) ELSE aof
            c == Reply(aclient, sent)
        IN  /\ Becomes(a) /\ Faulty(~Fine(aof, o))
            /\ ~a.exited =>
                /\ aclient' = [c EXCEPT !.read = FALSE, !.early = IF aclient.handler = "none" THEN aof.state # "on" /\ c.owed # {} ELSE @,
                        !.handler = IF aclient.handler = "none" THEN HandlerFor(c.owed) ELSE @]
                /\ (aclient.handler # "none" => sent = {}) /\ UNCHANGED rw
    /\ UNCHANGED conf

-----------------------------------------------------------------------------
(* The rewrite *)

\* rewriteAppendOnlyFileBackground
Fork(data) == [NoChild EXCEPT !.kind = "aof", !.phase = "saving", !.temp = BytesOf(data)]

\* BGREWRITEAOF
BgRewriteAof ==
    /\ aup /\ rw.kind # "aof" 
    /\ IF rw.kind # "none" THEN aof' = [aof EXCEPT !.scheduled = TRUE] /\ UNCHANGED <<rw, nAof>>
       ELSE rw' = Fork(adata) /\ aof' = [aof EXCEPT !.scheduled = FALSE] /\ Event
    /\ UNCHANGED <<conf, aup, adata, aclient>>

\* Another child (an RDB save) holds the only place.
OtherChild ==
    /\ aup /\ rw.kind = "none" 
    /\ rw' = [NoChild EXCEPT !.kind = "rdb", !.phase = "saving"] /\ Event
    /\ UNCHANGED <<conf, aup, adata, aof, aclient>>

\* aofChildWriteDiffData: the pipe takes part of the rewrite buffer.
SendDiff ==
    /\ aup /\ rw.kind = "aof" /\ ~rw.stop /\ rw.phase \in {"saving", "asked"} /\ rw.buf # <<>>
    /\ \E k \in {1, Len(rw.buf)} : rw' = [rw EXCEPT !.pipe = @ \o SubSeq(rw.buf, 1, k), !.buf = Drop(@, k)]
    /\ UNCHANGED <<conf, aup, adata, aof, aclient, nAof>>

\* The child, rewriteAppendOnlyFile: aofReadDiffFromParent while it saves and for a
\* while after, then "!" to the parent
ChildReads ==
    /\ rw.kind = "aof" /\ rw.phase = "saving" /\ rw.pipe # <<>>
    /\ rw' = [rw EXCEPT !.temp = @ \o rw.pipe, !.pipe = <<>>] /\ UNCHANGED <<conf, aup, adata, aof, aclient, nAof>>
ChildAsks ==
    /\ rw.kind = "aof" /\ rw.phase = "saving" /\ rw' = [rw EXCEPT !.phase = "asked"]
    /\ UNCHANGED <<conf, aup, adata, aof, aclient, nAof>>
\* aofChildPipeReadable
AckStopSending ==
    /\ aup /\ rw.kind = "aof" /\ rw.phase = "asked" /\ ~rw.stop
    /\ rw' = [rw EXCEPT !.phase = "acked", !.stop = TRUE] /\ UNCHANGED <<conf, aup, adata, aof, aclient, nAof>>
ChildEnds == rw' = [rw EXCEPT !.temp = @ \o rw.pipe, !.pipe = <<>>, !.phase = "done"]
ChildFinishes == rw.phase = "acked" /\ ChildEnds /\ UNCHANGED <<conf, aup, adata, aof, aclient, nAof>>
\* A write error, or no answer to "!" within five seconds
ChildFails ==
    /\ rw.phase \in {"saving", "asked", "acked"} /\ rw' = [rw EXCEPT !.phase = "failed"]
    /\ Faulty(TRUE) /\ UNCHANGED <<conf, aup, adata, aof, aclient>>
OtherEnds ==
    /\ rw.kind = "rdb" /\ rw.phase = "saving" /\ rw' = [rw EXCEPT !.phase = "done"]
    /\ UNCHANGED <<conf, aup, adata, aof, aclient, nAof>>

\* backgroundRewriteDoneHandler; ok: the system calls of the parent succeed
Cleaned(a) == [a EXCEPT !.scheduled = @ \/ a.state = "wait"]
RewriteDone(a, ok) ==
    IF rw.phase = "failed" \/ ~ok THEN Cleaned(a)
    ELSE LET new == rw.temp \o rw.buf
             old == [i \in DOMAIN a.bio |-> FALSE]      \* the fsyncs of the old file
         IN  IF a.state = "off" THEN [a EXCEPT !.file = new, !.durable = Len(rw.temp)]
             ELSE [a EXCEPT !.state = "on", !.file = new, !.buf = <<>>, !.fsyncOffset = Len(new), !.due = FALSE,
                            !.durable = IF conf.policy = "always" THEN Len(new) ELSE Len(rw.temp),
                            !.bio = IF conf.policy = "everysec" THEN Append(old, TRUE) ELSE old]

\* checkChildrenDone
ChildrenDone(a, ok) == IF rw.kind = "aof" THEN RewriteDone(a, ok) ELSE a

\* The first half of serverCron: the clock, a scheduled rewrite (fork may fail), the
\* end of a child, an automatic rewrite
CronState(sec, ok, auto) ==
    LET timed == IF sec THEN [aof EXCEPT !.due = TRUE, !.postponed = IF @ \in 1..2 THEN @ + 1 ELSE @] ELSE aof
        start == rw.kind = "none" /\ timed.scheduled /\ nAof.events < MaxAofEvents
        done == rw.phase \in {"done", "failed"}
        grown == rw.kind = "none" /\ ~start /\ auto /\ aof.state = "on"    \* auto-aof-rewrite-percentage
    IN  [forked |-> start \/ grown,
         aof |-> [(IF done THEN ChildrenDone(timed, ok) ELSE timed) EXCEPT !.scheduled = @ /\ ~start],
         rw |-> IF done THEN NoChild ELSE IF start \/ grown THEN Fork(adata) ELSE rw]
\* serverCron; sec: a second has passed since the last one
Cron(sec, ok, auto) ==
    LET s == CronState(sec, ok, auto)
        flush == s.aof.state = "on" /\ (s.aof.postponed # 0 \/ (sec /\ ~s.aof.wok))
    IN  /\ aup /\ (~ok => rw.kind = "aof" /\ rw.phase = "done")
        /\ \E o \in (IF flush THEN Outcomes(s.aof) ELSE {AllFine(s.aof)}) :
            LET a == IF flush THEN FlushAppendOnlyFile(s.aof, s.rw.kind, FALSE, o) ELSE s.aof
            IN  /\ Becomes(a)
                /\ Count((IF s.forked THEN 1 ELSE 0) + (IF ok /\ Fine(s.aof, o) THEN 0 ELSE 1))
                /\ ~a.exited => rw' = s.rw /\ UNCHANGED aclient
        /\ UNCHANGED conf

\* bioProcessBackgroundJobs, BIO_AOF_FSYNC
BioFsync(ok) ==
    /\ aup /\ aof.bio # <<>>
    /\ aof' = [aof EXCEPT !.bio = Tail(@), !.fok = ok, !.durable = IF ok /\ Head(aof.bio) THEN Len(aof.file) ELSE @]
    /\ Faulty(~ok) /\ UNCHANGED <<conf, aup, adata, rw, aclient>>

-----------------------------------------------------------------------------
(* CONFIG SET appendonly, shutdown, crash and restart *)

\* stopAppendOnly (its fsync succeeds)
StopAppendOnly ==
    /\ aup /\ aof.state # "off" 
    /\ \E o \in Outcomes(aof) :
        LET a == IF aof.buf = <<>> THEN aof ELSE FlushAppendOnlyFile(aof, rw.kind, TRUE, o)
        IN  /\ Fine(aof, o) /\ Event
            /\ aof' = [a EXCEPT !.state = "off", !.buf = <<>>, !.scheduled = FALSE, !.durable = Len(a.file), !.fsyncOffset = Len(a.file)]
    /\ rw' = IF rw.kind = "aof" THEN NoChild ELSE rw        \* killAppendOnlyChild
    /\ aclient' = [aclient EXCEPT !.told = {}] /\ UNCHANGED <<conf, aup, adata>>

\* startAppendOnly
StartAppendOnly ==
    /\ aup /\ aof.state = "off"
    /\ IF rw.kind = "rdb" THEN aof' = [aof EXCEPT !.state = "wait", !.scheduled = TRUE, !.wok = TRUE, !.fok = TRUE, !.due = FALSE] /\ UNCHANGED <<rw, nAof>>
       ELSE /\ rw' = Fork(adata) /\ Event
            /\ aof' = [aof EXCEPT !.state = "wait", !.scheduled = FALSE, !.wok = TRUE, !.fok = TRUE, !.due = FALSE]
    /\ UNCHANGED <<conf, aup, adata, aclient>>

\* prepareForShutdown: refused while the initial AOF is being written
ShutdownWhileOn ==
    /\ aup /\ aof.state = "on" 
    /\ LET a == FlushAppendOnlyFile(aof, "none", TRUE, AllFine(aof))
       IN  Dead(a.file, Len(a.file))
    /\ Event /\ UNCHANGED conf

\* The machine stops: of what was not fsynced any part may be on the disk.
Crash ==
    /\ aup 
    /\ \E left \in Truncations(aof.file, aof.durable) : Dead(left, Len(left))
    /\ Event /\ UNCHANGED conf

Loaded(file) == SubSeq(file, 1, Len(file) - (Len(file) % 2))
LoadAppendOnlyFile ==
    /\ ~aup /\ aup' = TRUE /\ adata' = WritesOf(aof.file)
    /\ aof' = AofOn(Loaded(aof.file), Len(Loaded(aof.file)))
    /\ UNCHANGED <<conf, rw, aclient, nAof>>

AofNext ==
    \/ Write \/ WriteReady
    \/ \E o \in Outcomes(aof), sent \in {aclient.owed, {}} : BeforeSleep(o, sent)
    \/ \E sec, ok, auto \in BOOLEAN : Cron(sec, ok, auto)
    \/ BioFsync(TRUE) \/ BioFsync(FALSE)
    \/ BgRewriteAof \/ OtherChild \/ OtherEnds \/ SendDiff \/ ChildReads \/ ChildAsks \/ AckStopSending \/ ChildFinishes \/ ChildFails
    \/ StopAppendOnly \/ StartAppendOnly \/ ShutdownWhileOn \/ Crash \/ LoadAppendOnlyFile

\* The event loop and the bio thread run, and the disk works again when the faults
\* are used up.
LoopRuns == Cron(TRUE, TRUE, FALSE)
SleepRuns == BeforeSleep(AllFine(aof), {})
AofSpec == AofInit /\ [][AofNext]_avars
    /\ WF_avars(LoopRuns) /\ WF_avars(SleepRuns) /\ WF_avars(BioFsync(TRUE)) /\ WF_avars(LoadAppendOnlyFile)

-----------------------------------------------------------------------------
\* While the AOF is on, the file followed by aof_buf is the dataset's writes, each
\* once and in order: through short writes, a rewrite and its hand-over of the
\* difference, and AOF turned off and on again.
FileIsDataset == aup /\ aof.state = "on" => aof.file \o aof.buf = BytesOf(adata)

\* With appendfsync always (and fsync not suspended during a rewrite) a client that
\* got its reply finds its write after any crash.
RepliedMeansSynced ==
    conf.policy = "always" /\ ~conf.norw =>
        \A w \in aclient.told : \E i \in 1..aof.durable : aof.file[i] = 2 * w

\* With appendfsync everysec, the first flush of a new second starts a background fsync
\* when anything the server has is not on the disk, also when no command arrives any
\* more; only a running fsync, or one that failed, puts it off.
EverySecondSynced ==
    LET late == aof.buf # <<>> \/ aof.durable < Len(aof.file)
    IN  conf.policy = "everysec" /\ ~conf.norw /\ aof.state = "on" /\ aof.fok /\ aof.due /\ aof.bio = <<>> /\ late /\ SleepRuns
        => aof'.bio # <<>>

-----------------------------------------------------------------------------
(***************************************************************************)
(* Snapshots of the dataset (redis-6.2.7/src/rdb.c, and the rewrite functions of *)
(* aof.c): every type and encoding is written as an RDB file, as the preamble  *)
(* of an AOF or as commands, the file may be cut or altered, and it is loaded  *)
(* by a server with other limits, another role and a later clock.             *)
(*                                                                         *)
(* A file is a sequence of tokens <<kind, value>>: a length, a string, a blob  *)
(* (a ziplist, intset or listpack is saved as one string), an opcode.  How a   *)
(* length or an integer becomes bytes is checked apart, on `probe'.           *)
(***************************************************************************)
CONSTANTS
    Datasets,           \* the datasets to save: sequences of [db, key, o, expire, idle]
    Oldsets,            \* the same, as a server before 3.2 had them: empty collections included
    Loaders,            \* the loading servers: [master, entries, now]
    PerCmd,             \* AOF_REWRITE_ITEMS_PER_CMD
    Numbers             \* lengths and integers to encode, in bytes and back

VARIABLES
    origin,             \* the dataset that was saved
    how,                \* not yet, rdb, old, preamble, commands
    snap,               \* the file
    damage,             \* none, cut, altered
    reader,             \* the loading server
    got,                \* what it loaded: not yet, err, or the dataset
    probe               \* a number

snvars == <<origin, how, snap, damage, reader, got, probe>>

IsInt(e) == e[1] = "i"
IsLong(e) == e[2] >= 9          \* longer than *-max-ziplist-value
Tok(k, v) == <<k, v>>
Strs(seq) == [i \in DOMAIN seq |-> Tok("str", seq[i])]
Flat(pairs) == FlattenSeq([i \in DOMAIN pairs |-> <<pairs[i][1], pairs[i][2]>>])

-----------------------------------------------------------------------------
(* Lengths and integers as bytes *)

\* The n low bytes of v, most significant first (htonl) or last
BytesBE(v, n) == [i \in 1..n |-> (v \div 256^(n - i)) % 256]
BytesLE(v, n) == [i \in 1..n |-> (v \div 256^(i - 1)) % 256]
FromBE(b) == FoldLeft(LAMBDA x, y : 256 * x + y, 0, b)
FromLE(b) == FromBE(Reverse(b))
LenBytes(n) ==
    IF n < 64 THEN <<n>> ELSE IF n < 16384 THEN <<64 + (n \div 256), n % 256>> ELSE <<128>> \o BytesBE(n, 4)
LenOf(b) ==
    CASE b[1] \div 64 = 0 -> b[1] % 64 [] b[1] \div 64 = 1 -> 256 * (b[1] % 64) + b[2]
      [] b[1] = 128 /\ Len(b) = 5 -> FromBE(Tail(b)) [] OTHER -> -1
\* rdbEncodeInteger, rdbLoadIntegerObject (up to 16 bits the code's two's complement)
IntBytes(v) ==
    CASE v \in -128..127 -> <<192, v % 256>> [] v \in -32768..32767 -> <<193>> \o BytesLE(v % 65536, 2)
      [] OTHER -> <<194>> \o BytesLE(v, 4)
Signed(v, bits) == IF v >= 2^(bits - 1) THEN v - 2^bits ELSE v
IntOf(b) ==
    CASE b[1] = 192 -> Signed(b[2], 8) [] b[1] = 193 -> Signed(FromLE(SubSeq(b, 2, 3)), 16) [] b[1] = 194 -> FromLE(SubSeq(b, 2, 5))

-----------------------------------------------------------------------------
(* Saving *)

\* rdbSaveObjectType
TypeOf(o) ==
    CASE o.t = "string" -> "STRING" [] o.t = "list" -> "LIST_QUICKLIST"
      [] o.t = "set" -> IF o.enc = "intset" THEN "SET_INTSET" ELSE "SET"
      [] o.t = "zset" -> IF o.enc = "ziplist" THEN "ZSET_ZIPLIST" ELSE "ZSET_2"
      [] o.t = "hash" -> IF o.enc = "ziplist" THEN "HASH_ZIPLIST" ELSE "HASH"
      [] o.t = "stream" -> "STREAM" [] o.t = "module" -> "MODULE_2"

\* rdbSaveStreamPEL (of the group, with times and counts; of a consumer, without)
SavePEL(pel, nacks) ==
    LET s == SetToSeq(pel)
    IN  <<Tok("len", Len(s))>> \o [i \in DOMAIN s |-> IF nacks THEN Tok("nack", <<s[i].id, s[i].time, s[i].count>>) ELSE Tok("id", s[i].id)]
\* rdbSaveStreamConsumers
SaveConsumers(g) ==
    LET cs == SetToSeq(g.consumers)
    IN  <<Tok("len", Len(cs))>> \o
        FlattenSeq([i \in DOMAIN cs |-> <<Tok("str", cs[i].name), Tok("time", cs[i].seen)>> \o SavePEL({p \in g.pel : p.c = cs[i].name}, FALSE)])
SaveStream(s) ==
    LET gs == SetToSeq(s.groups)
    IN  <<Tok("len", IF s.items = <<>> THEN 0 ELSE 1)>> \o (IF s.items = <<>> THEN <<>> ELSE <<Tok("blob", s.items)>>)
        \o <<Tok("len", Len(s.items)), Tok("id", s.last), Tok("len", Len(gs))>>
        \o FlattenSeq([i \in DOMAIN gs |-> <<Tok("str", gs[i].name), Tok("id", gs[i].last)>> \o SavePEL(gs[i].pel, TRUE) \o SaveConsumers(gs[i])])

\* rdbSaveObject
SaveObject(o) ==
    CASE o.t = "string" -> <<Tok("str", o.v)>>
      [] o.t = "list" -> <<Tok("len", Len(o.v))>> \o [i \in DOMAIN o.v |-> Tok("blob", o.v[i])]
      [] o.t = "stream" -> SaveStream(o.v)
      [] o.t = "module" -> <<Tok("modid", 1), Tok("mod", o.v), Tok("modeof", 0)>>
      [] o.enc \in {"intset", "ziplist"} -> <<Tok("blob", SetToSeq(o.v))>>
      [] o.t = "set" -> <<Tok("len", Cardinality(o.v))>> \o Strs(SetToSeq(o.v))
      [] o.t = "hash" -> <<Tok("len", Cardinality(o.v))>> \o Strs(Flat(SetToSeq(o.v)))
      [] o.t = "zset" -> <<Tok("len", Cardinality(o.v))>> \o
            FlattenSeq([i \in 1..Cardinality(o.v) |-> <<Tok("str", SetToSeq(o.v)[i][1]), Tok("double", SetToSeq(o.v)[i][2])>>])

\* rdbSaveKeyValuePair (the idle time is saved under an LRU policy)
SavePair(e) ==
    (IF e.expire = -1 THEN <<>> ELSE <<Tok("op", "EXPIRETIME_MS"), Tok("time", e.expire)>>)
    \o <<Tok("op", "IDLE"), Tok("len", e.idle), Tok("op", TypeOf(e.o)), Tok("str", e.key)>> \o SaveObject(e.o)

\* What a server before 3.2 wrote, as the loader reads it: plain lists, zipmaps,
\* scores as text
OldType(o) == CASE o.t = "list" -> IF o.enc = "ziplist" THEN "LIST_ZIPLIST" ELSE "LIST"
                [] o.t = "hash" -> IF o.enc = "ziplist" THEN "HASH_ZIPMAP" ELSE "HASH" [] o.t = "zset" -> "ZSET" [] OTHER -> TypeOf(o)
OldObject(o) ==
    CASE o.t = "list" -> IF o.enc = "ziplist" THEN <<Tok("blob", FlattenSeq(o.v))>> ELSE <<Tok("len", Len(FlattenSeq(o.v)))>> \o Strs(FlattenSeq(o.v))
      [] o.t = "zset" -> SaveObject([o EXCEPT !.enc = "skiplist"])
      [] OTHER -> SaveObject(o)
OldPair(e) ==
    (IF e.expire = -1 THEN <<>> ELSE <<Tok("op", "EXPIRETIME_MS"), Tok("time", e.expire)>>)
    \o <<Tok("op", OldType(e.o)), Tok("str", e.key)>> \o OldObject(e.o)

\* rdbSaveRio: aux fields, the databases in order, the checksum (of all that precedes)
SaveRio(set, old, preamble) ==
    LET ofdb(d) == SelectSeq(set, LAMBDA e : e.db = d)
        dbtoks(d) == IF ofdb(d) = <<>> THEN <<>>
                     ELSE <<Tok("op", "SELECTDB"), Tok("len", d), Tok("op", "RESIZEDB"), Tok("len", Len(ofdb(d))), Tok("len", 0)>>
                          \o FlattenSeq([i \in DOMAIN ofdb(d) |-> IF old THEN OldPair(ofdb(d)[i]) ELSE SavePair(ofdb(d)[i])])
        body == <<Tok("op", "AUX"), Tok("str", <<"s", 7>>), Tok("str", preamble)>> \o dbtoks(0) \o dbtoks(1) \o <<Tok("op", "EOF")>>
    IN  Append(body, Tok("crc", body))

-----------------------------------------------------------------------------
(* Loading: a reader returns [st, p, ...], p the next position; st is ok, err or empty *)

Bad == [st |-> "err"]
Is(p, k) == p <= Len(snap) /\ snap[p][1] = k
IsStr(p) == Is(p, "str")
Val(p) == snap[p][2]
AllStrs(p, n) == \A i \in 0..(n - 1) : IsStr(p + i)
Ok(p, o) == [st |-> "ok", p |-> p, o |-> o]
Obj(t, enc, v) == [t |-> t, enc |-> enc, v |-> v]
EmptyKey(p) == [st |-> "empty", p |-> p]
Set(f, n) == {f[i] : i \in 1..n}

\* The loops over a counted number of elements
LoadList(p) ==
    LET n == Val(p) IN
    IF ~Is(p, "len") THEN Bad ELSE IF n = 0 THEN EmptyKey(p + 1) ELSE IF ~AllStrs(p + 1, n) THEN Bad
    ELSE Ok(p + n + 1, Obj("list", "quicklist", <<[i \in 1..n |-> Val(p + i)]>>))
LoadQuicklist(p) ==
    LET n == Val(p) IN
    IF ~Is(p, "len") THEN Bad ELSE IF n = 0 THEN EmptyKey(p + 1)
    ELSE IF \E i \in 1..n : ~Is(p + i, "blob") THEN Bad
    ELSE LET nodes == SelectSeq([i \in 1..n |-> Val(p + i)], LAMBDA zl : zl # <<>>)
         IN  IF nodes = <<>> THEN EmptyKey(p + n + 1) ELSE Ok(p + n + 1, Obj("list", "quicklist", nodes))
LoadSet(p) ==
    LET n == Val(p)
        els == {Val(p + i) : i \in 1..n}
    IN  IF ~Is(p, "len") THEN Bad ELSE IF n = 0 THEN EmptyKey(p + 1) ELSE IF ~AllStrs(p + 1, n) THEN Bad
        ELSE IF Cardinality(els) # n THEN Bad
        ELSE Ok(p + n + 1, Obj("set", IF n <= reader.entries /\ \A e \in els : IsInt(e) THEN "intset" ELSE "ht", els))
LoadZset(p) ==
    LET n == Val(p)
        els == {<<Val(p + 2 * i - 1), Val(p + 2 * i)>> : i \in 1..n}
    IN  IF ~Is(p, "len") THEN Bad ELSE IF n = 0 THEN EmptyKey(p + 1)
        ELSE IF \E i \in 1..n : ~IsStr(p + 2 * i - 1) \/ ~Is(p + 2 * i, "double") THEN Bad
        ELSE IF Cardinality({e[1] : e \in els}) # n THEN Bad
        ELSE Ok(p + 2 * n + 1, Obj("zset", IF n <= reader.entries /\ \A e \in els : ~IsLong(e[1]) THEN "ziplist" ELSE "skiplist", els))
LoadHash(p) ==
    LET n == Val(p)
        els == {<<Val(p + 2 * i - 1), Val(p + 2 * i)>> : i \in 1..n}
    IN  IF ~Is(p, "len") THEN Bad ELSE IF n = 0 THEN EmptyKey(p + 1) ELSE IF ~AllStrs(p + 1, 2 * n) THEN Bad
        ELSE LET small == n <= reader.entries /\ \A e \in els : ~IsLong(e[1]) /\ ~IsLong(e[2])
             IN  IF ~small /\ Cardinality({e[1] : e \in els}) # n THEN Bad
                 ELSE Ok(p + 2 * n + 1, Obj("hash", IF small THEN "ziplist" ELSE "ht", els))
\* The blobs: an encoded object is taken as it is and converted when it is too long
LoadBlob(p, type) ==
    LET s == Val(p)
        v == {s[i] : i \in DOMAIN s}
        fits == Len(s) <= reader.entries
    IN  IF ~Is(p, "blob") THEN Bad
        ELSE CASE type = "SET_INTSET" -> Ok(p + 1, Obj("set", IF fits THEN "intset" ELSE "ht", v))
               [] s = <<>> /\ type # "HASH_ZIPMAP" -> EmptyKey(p + 1)
               [] type = "LIST_ZIPLIST" -> Ok(p + 1, Obj("list", "quicklist", <<s>>))
               [] type = "ZSET_ZIPLIST" -> Ok(p + 1, Obj("zset", IF fits THEN "ziplist" ELSE "skiplist", v))
               [] type = "HASH_ZIPLIST" -> Ok(p + 1, Obj("hash", IF fits THEN "ziplist" ELSE "ht", v))
               [] type = "HASH_ZIPMAP" ->       \* also the lengths are looked at here
                    Ok(p + 1, Obj("hash", IF fits /\ \A e \in v : ~IsLong(e[1]) /\ ~IsLong(e[2]) THEN "ziplist" ELSE "ht", v))
LoadModule(p) ==
    IF ~Is(p, "modid") \/ ~Is(p + 1, "mod") \/ ~Is(p + 2, "modeof") THEN Bad
    ELSE Ok(p + 3, Obj("module", "raw", Val(p + 1)))

\* Consumers: the entries of each are looked up in the PEL of the group, which gives
\* them their consumer.
RECURSIVE LoadConsumers(_, _, _), LoadGroups(_, _, _)
LoadConsumers(p, n, g) ==
    IF n = 0 THEN [st |-> "ok", p |-> p, g |-> g]
    ELSE LET k == Val(p + 2)
             ids == {Val(p + 2 + i) : i \in 1..k}
         IN  IF ~(IsStr(p) /\ Is(p + 1, "time") /\ Is(p + 2, "len")) THEN Bad
             ELSE IF \E i \in 1..k : ~Is(p + 2 + i, "id") THEN Bad
             ELSE IF ~(ids \subseteq {x.id : x \in g.pel}) THEN Bad
             ELSE LoadConsumers(p + 3 + k, n - 1,
                    [g EXCEPT !.consumers = @ \cup {[name |-> Val(p), seen |-> Val(p + 1)]},
                              !.pel = {IF x.id \in ids THEN [x EXCEPT !.c = Val(p)] ELSE x : x \in @}])
LoadGroups(p, n, gs) ==
    IF n = 0 THEN [st |-> "ok", p |-> p, gs |-> gs]
    ELSE LET k == Val(p + 2)
             pel == {[id |-> Val(p + 2 + i)[1], time |-> Val(p + 2 + i)[2], count |-> Val(p + 2 + i)[3], c |-> <<"s", 0>>] : i \in 1..k}
         IN  IF ~(IsStr(p) /\ Is(p + 1, "id") /\ Is(p + 2, "len")) THEN Bad
             ELSE IF Val(p) \in {x.name : x \in gs} \/ \E i \in 1..k : ~Is(p + 2 + i, "nack") THEN Bad
             ELSE IF ~Is(p + 3 + k, "len") THEN Bad
             ELSE LET r == LoadConsumers(p + 4 + k, Val(p + 3 + k), [name |-> Val(p), last |-> Val(p + 1), pel |-> pel, consumers |-> {}])
                  IN  IF r.st = "err" THEN Bad ELSE LoadGroups(r.p, n - 1, gs \cup {r.g})
LoadStream(p) ==
    IF ~Is(p, "len") THEN Bad
    ELSE LET k == Val(p)
             q == p + k + 1
         IN  IF \E i \in 1..k : ~Is(p + i, "blob") THEN Bad
             ELSE IF ~(Is(q, "len") /\ Is(q + 1, "id") /\ Is(q + 2, "len")) THEN Bad
             ELSE LET r == LoadGroups(q + 3, Val(q + 2), {})
                  IN  IF r.st = "err" THEN Bad
                      ELSE Ok(r.p, Obj("stream", "stream", [items |-> IF k = 0 THEN <<>> ELSE Val(p + 1), last |-> Val(q + 1), groups |-> r.gs]))

\* rdbLoadObject
LoadObject(type, p) ==
    CASE type = "STRING" -> IF IsStr(p) THEN Ok(p + 1, Obj("string", IF IsInt(Val(p)) THEN "int" ELSE "raw", Val(p))) ELSE Bad
      [] type = "LIST" -> LoadList(p) [] type = "LIST_QUICKLIST" -> LoadQuicklist(p) [] type = "SET" -> LoadSet(p)
      [] type \in {"ZSET", "ZSET_2"} -> LoadZset(p) [] type = "HASH" -> LoadHash(p)
      [] type \in {"SET_INTSET", "LIST_ZIPLIST", "ZSET_ZIPLIST", "HASH_ZIPLIST", "HASH_ZIPMAP"} -> LoadBlob(p, type)
      [] type = "STREAM" -> LoadStream(p) [] type = "MODULE_2" -> LoadModule(p) [] OTHER -> Bad

\* rdbLoadRio.  s: [db, expire, idle (of the pair being read), set (loaded so far)]
Fresh(s) == [s EXCEPT !.expire = -1, !.idle = -1]
SkipExpired(s) == reader.master /\ how # "preamble" /\ s.expire # -1 /\ s.expire < reader.now
AfterSkip(s) == Fresh(s)
RECURSIVE LoadFrom(_, _)
LoadFrom(p, s) ==
    IF ~Is(p, "op") THEN [st |-> "err", set |-> s.set]
    ELSE CASE Val(p) = "EXPIRETIME_MS" -> IF Is(p + 1, "time") THEN LoadFrom(p + 2, [s EXCEPT !.expire = Val(p + 1)]) ELSE [st |-> "err", set |-> s.set]
           [] Val(p) = "IDLE" -> IF Is(p + 1, "len") THEN LoadFrom(p + 2, [s EXCEPT !.idle = Val(p + 1)]) ELSE [st |-> "err", set |-> s.set]
           [] Val(p) = "SELECTDB" -> IF Is(p + 1, "len") THEN LoadFrom(p + 2, [s EXCEPT !.db = Val(p + 1)]) ELSE [st |-> "err", set |-> s.set]
           [] Val(p) = "RESIZEDB" -> IF Is(p + 1, "len") /\ Is(p + 2, "len") THEN LoadFrom(p + 3, s) ELSE [st |-> "err", set |-> s.set]
           [] Val(p) = "AUX" -> IF AllStrs(p + 1, 2) THEN LoadFrom(p + 3, s) ELSE [st |-> "err", set |-> s.set]
           [] Val(p) = "EOF" ->
                IF Is(p + 1, "crc") /\ Val(p + 1) = SubSeq(snap, 1, p) THEN [st |-> "ok", set |-> s.set] ELSE [st |-> "err", set |-> s.set]
           [] OTHER ->
                IF ~IsStr(p + 1) THEN [st |-> "err", set |-> s.set]
                ELSE LET r == LoadObject(Val(p), p + 2)
                     IN  CASE r.st = "err" -> [st |-> "err", set |-> s.set]
                           [] r.st = "empty" -> LoadFrom(r.p, AfterSkip(s))
                           [] SkipExpired(s) -> LoadFrom(r.p, AfterSkip(s))
                           [] OTHER -> LoadFrom(r.p, Fresh([s EXCEPT !.set = Append(@,
                                [db |-> s.db, key |-> Val(p + 1), o |-> r.o, expire |-> s.expire, idle |-> s.idle])]))
RdbLoad == LoadFrom(1, [db |-> 0, expire |-> -1, idle |-> -1, set |-> <<>>])

-----------------------------------------------------------------------------
(* rewriteAppendOnlyFileRio: a dataset as commands, and what they make of an empty one *)

Chunks(name, key, seq) ==
    [c \in 1..((Len(seq) + PerCmd - 1) \div PerCmd) |->
        [cmd |-> name, key |-> key, args |-> SubSeq(seq, (c - 1) * PerCmd + 1, IF c * PerCmd < Len(seq) THEN c * PerCmd ELSE Len(seq))]]
RewriteStream(key, s) ==
    LET gs == SetToSeq(s.groups)
        consumer(g, c) ==
            LET pel == SetToSeq({p \in g.pel : p.c = c.name})
            IN  IF pel = <<>> THEN <<[cmd |-> "CREATECONSUMER", key |-> key, args |-> <<g.name, c.name>>]>>
                ELSE [i \in DOMAIN pel |-> [cmd |-> "XCLAIM", key |-> key, args |-> <<g.name, pel[i]>>]]
        group(g) == <<[cmd |-> "XGROUPCREATE", key |-> key, args |-> <<g.name, g.last>>]>>
                    \o FlattenSeq([i \in 1..Cardinality(g.consumers) |-> consumer(g, SetToSeq(g.consumers)[i])])
    IN  (IF s.items = <<>> THEN <<[cmd |-> "XADDMAXLEN0", key |-> key, args |-> <<1>>]>>
         ELSE [i \in DOMAIN s.items |-> [cmd |-> "XADD", key |-> key, args |-> s.items[i]]])
        \o <<[cmd |-> "XSETID", key |-> key, args |-> <<s.last>>]>>
        \o FlattenSeq([i \in DOMAIN gs |-> group(gs[i])])
Rewrite(e) ==
    LET o == e.o IN
    (CASE o.t = "string" -> <<[cmd |-> "SET", key |-> e.key, args |-> <<o.v>>]>>
       [] o.t = "list" -> Chunks("RPUSH", e.key, FlattenSeq(o.v))
       [] o.t = "set" -> Chunks("SADD", e.key, SetToSeq(o.v))
       [] o.t = "zset" -> Chunks("ZADD", e.key, SetToSeq(o.v))
       [] o.t = "hash" -> Chunks("HMSET", e.key, SetToSeq(o.v))
       [] o.t = "stream" -> RewriteStream(e.key, o.v)
       [] o.t = "module" -> <<[cmd |-> "MODULE", key |-> e.key, args |-> <<o.v>>]>>)
    \o (IF e.expire = -1 THEN <<>> ELSE <<[cmd |-> "PEXPIREAT", key |-> e.key, args |-> <<e.expire>>]>>)
RewriteRio(set) ==
    LET ofdb(d) == SelectSeq(set, LAMBDA e : e.db = d)
        cmds(d) == IF ofdb(d) = <<>> THEN <<>>
                   ELSE <<[cmd |-> "SELECT", key |-> <<"s", 0>>, args |-> <<d>>]>> \o FlattenSeq([i \in DOMAIN ofdb(d) |-> Rewrite(ofdb(d)[i])])
    IN  cmds(0) \o cmds(1)

\* The commands, on the value v of the key; has: it exists
NoStream == [items |-> <<>>, last |-> 0, groups |-> {}]
Claim(v, g, x) ==       \* XCLAIM ... TIME RETRYCOUNT JUSTID FORCE: only for an item that exists
    IF \A i \in DOMAIN v.items : v.items[i][1] # x.id THEN g
    ELSE [g EXCEPT !.pel = @ \cup {x}, !.consumers = @ \cup {[name |-> x.c, seen |-> 0]}]
Apply(c, has, v) ==
    CASE c.cmd \in {"SET", "MODULE"} -> c.args[1]
      [] c.cmd = "RPUSH" -> (IF has THEN v ELSE <<>>) \o c.args
      [] c.cmd \in {"SADD", "ZADD", "HMSET"} -> (IF has THEN v ELSE {}) \cup {c.args[i] : i \in DOMAIN c.args}
      [] c.cmd = "XADD" -> LET s == IF has THEN v ELSE NoStream IN [s EXCEPT !.items = Append(@, c.args), !.last = c.args[1]]
      [] c.cmd = "XADDMAXLEN0" -> [NoStream EXCEPT !.last = c.args[1]]
      [] c.cmd = "XSETID" -> [v EXCEPT !.last = c.args[1]]
      [] c.cmd = "XGROUPCREATE" -> [v EXCEPT !.groups = @ \cup {[name |-> c.args[1], last |-> c.args[2], pel |-> {}, consumers |-> {}]}]
      [] c.cmd = "CREATECONSUMER" -> [v EXCEPT !.groups = {IF g.name = c.args[1] THEN [g EXCEPT !.consumers = @ \cup {[name |-> c.args[2], seen |-> 0]}] ELSE g : g \in @}]
      [] c.cmd = "XCLAIM" -> [v EXCEPT !.groups = {IF g.name = c.args[1] THEN Claim(v, g, c.args[2]) ELSE g : g \in @}]
\* Replaying: [db, m], m the logical values and expires by database and key
Replayed(cmds) ==
    FoldLeft(LAMBDA s, c :
        LET k == <<s.db, c.key>>
            has == k \in DOMAIN s.m
            old == IF has THEN s.m[k] ELSE [v |-> {}, expire |-> -1]
            new == IF c.cmd = "PEXPIREAT" THEN [old EXCEPT !.expire = c.args[1]] ELSE [old EXCEPT !.v = Apply(c, has, old.v)]
        IN  IF c.cmd = "SELECT" THEN [s EXCEPT !.db = c.args[1]]
            ELSE [s EXCEPT !.m = [x \in DOMAIN s.m \cup {k} |-> IF x = k THEN new ELSE s.m[x]]],
        [db |-> 0, m |-> <<>>], cmds).m

-----------------------------------------------------------------------------
SnInit ==
    /\ origin \in Datasets \cup Oldsets /\ how = "not yet" /\ snap = <<>> /\ damage = "none"
    /\ reader \in Loaders /\ got = [st |-> "not yet"] /\ probe \in (IF origin = <<>> THEN Numbers ELSE {0})

\* rdbSave, the child of an AOF rewrite with and without preamble
Save(kind) ==
    /\ how = "not yet" /\ how' = kind
    /\ IF kind = "old" THEN origin \in Oldsets ELSE origin \in Datasets
    /\ snap' = CASE kind = "rdb" -> SaveRio(origin, FALSE, <<"i", 0>>) [] kind = "preamble" -> SaveRio(origin, FALSE, <<"i", 1>>)
                 [] kind = "old" -> SaveRio(origin, TRUE, <<"i", 0>>) [] kind = "commands" -> RewriteRio(origin)
    /\ UNCHANGED <<origin, damage, reader, got, probe>>

\* The file loses its end, or a string in it changes.
Cut ==
    /\ how \in {"rdb", "old"} /\ damage = "none" /\ got.st = "not yet" /\ damage' = "cut"
    /\ \E k \in 1..(Len(snap) - 1) : snap' = SubSeq(snap, 1, k)
    /\ UNCHANGED <<origin, how, reader, got, probe>>
Alter ==
    /\ how \in {"rdb", "old"} /\ damage = "none" /\ got.st = "not yet" /\ damage' = "altered"
    /\ \E k \in {i \in DOMAIN snap : snap[i][1] \in {"str", "len"}} :
        snap' = [snap EXCEPT ![k] = IF @[1] = "str" THEN Tok("str", <<"s", 5>>) ELSE Tok("len", @[2] + 1)]
    /\ UNCHANGED <<origin, how, reader, got, probe>>

\* rdbLoad; the replay of an AOF without preamble
Load ==
    /\ how # "not yet" /\ got.st = "not yet"
    /\ got' = IF how = "commands" THEN [st |-> "ok", m |-> Replayed(snap)] ELSE RdbLoad
    /\ UNCHANGED <<origin, how, snap, damage, reader, probe>>

SnNext == (\E k \in {"rdb", "old", "preamble", "commands"} : Save(k)) \/ Cut \/ Alter \/ Load
SnSpec == SnInit /\ [][SnNext]_snvars

-----------------------------------------------------------------------------
Logical(o) == IF o.t = "list" THEN FlattenSeq(o.v) ELSE o.v
IsEmpty(o) == o.t \in {"list", "set", "zset", "hash"} /\ IF o.t = "list" THEN Logical(o) = <<>> ELSE o.v = {}
Survives(e) == ~IsEmpty(e.o) /\ ~(reader.master /\ how # "preamble" /\ e.expire # -1 /\ e.expire < reader.now)
Same(a, b) ==
    /\ a.db = b.db /\ a.key = b.key /\ a.o.t = b.o.t /\ Logical(a.o) = Logical(b.o) /\ a.expire = b.expire
    /\ how # "old" => a.idle = b.idle

\* A load that ends well gives exactly the saved keys with their values, expires and
\* idle times, without the ones that were already expired on a master and the empty
\* ones of old files; an undamaged file always loads, a cut or altered one never.
LoadedIsSaved ==
    got.st \in {"ok", "err"} /\ how # "commands" =>
        LET kept == SelectSeq(origin, Survives)
        IN  /\ (got.st = "ok") <=> (damage = "none")
            /\ damage = "none" => /\ Len(got.set) = Len(kept)
                                  /\ \A i \in DOMAIN kept : Same(kept[i], got.set[i])

\* Lengths and integers are read back as they were written, at every boundary of
\* their encodings.
NumbersRoundTrip == (probe >= 0 => LenOf(LenBytes(probe)) = probe) /\ IntOf(IntBytes(probe)) = probe

\* The compact encodings are used after a load only for collections within the limit
\* of the loading server, whatever the limit of the saving one was.
CompactWithinLimit ==
    got.st = "ok" /\ how # "commands" =>
        \A i \in DOMAIN got.set :
            LET o == got.set[i].o IN o.enc \in {"ziplist", "intset"} => Cardinality(o.v) <= reader.entries

\* The commands of a rewrite without preamble rebuild the dataset, expired keys
\* included.  Of a stream they lose the time a consumer was seen, and the pending
\* entries whose item was deleted.
NoSeen(s) ==
    LET live == {s.items[i][1] : i \in DOMAIN s.items}
        keep(g) == {p \in g.pel : p.id \in live}
        named(g) == {c.name : c \in {x \in g.consumers : {p \in g.pel : p.c = x.name} = {} \/ \E p \in keep(g) : p.c = x.name}}
    IN  [s EXCEPT !.groups = {[name |-> g.name, last |-> g.last, pel |-> keep(g), consumers |-> {[name |-> n, seen |-> 0] : n \in named(g)}] : g \in @}]
RewriteRebuilds ==
    got.st = "ok" /\ how = "commands" =>
        /\ DOMAIN got.m = {<<origin[i].db, origin[i].key>> : i \in DOMAIN origin}
        /\ \A i \in DOMAIN origin :
            LET e == origin[i]
                n == got.m[<<e.db, e.key>>]
            IN  n.expire = e.expire /\ n.v = IF e.o.t = "stream" THEN NoSeen(e.o.v) ELSE Logical(e.o)
=============================================================================
