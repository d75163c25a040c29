---------------------------- MODULE ClientOutput ----------------------------
(***************************************************************************)
(* The replies of one client, from addReply to the socket                     *)
(* (redis-6.2.7/src/networking.c): the static buffer and the list of blocks,    *)
(* replies whose length is filled in later, CLIENT REPLY, output buffer limits, *)
(* the queue of pending writes and the write handler, protected clients,        *)
(* asynchronous closing.  Bytes are numbered from the first one that was not     *)
(* sent yet, in the order in which the client has to see them.                  *)
(***************************************************************************)
EXTENDS Integers, Sequences, FiniteSets, SequencesExt

CONSTANTS
    BufSize,            \* sizeof(c->buf)
    Chunk,              \* PROTO_REPLY_CHUNK_BYTES
    Align,              \* zmalloc_usable_size rounds up to a multiple of it
    ItemSize,           \* overhead of a block in getClientOutputBufferMemoryUsage
    Hard, Soft, SoftSeconds,
    Sizes,              \* lengths of replies
    MaxTold             \* no more commands when so many bytes are unsent

VARIABLES
    cl,                 \* the client
    told,               \* bytes the client has still to see
    wok,                \* bytes arrived in order
    muted,              \* CLIENT REPLY: "no", "off", or "skip" (for one more command)
    over                \* seconds in which the soft limit was exceeded without a break

covars == <<cl, told, wok, muted, over>>

NoClient == [buf |-> <<>>, list |-> <<>>, sent |-> 0, bytes |-> 0, asap |-> FALSE, after |-> FALSE, pend |-> FALSE,
             hand |-> FALSE, prot |-> FALSE, off |-> FALSE, skip |-> FALSE, skipn |-> FALSE, soft |-> -1, open |-> TRUE, why |-> "none"]
Usable(n) == ((n + Align - 1) \div Align) * Align
Bytes(from, n) == SubSeq([i \in 1..n |-> from + i], 1, n)
HasPending(c) == c.buf # <<>> \/ c.list # <<>>
Usage(c) == c.bytes + (ItemSize * Len(c.list))
AllData(c) == FoldLeft(LAMBDA s, b : s \o b.data, c.buf, c.list)
Unsent(c) == LET all == AllData(c) IN SubSeq(all, c.sent + 1, Len(all))

-----------------------------------------------------------------------------
(* Limits: the soft one counts from obuf_soft_limit_reached_time (its age here) *)

FreeAsync(c, why) == IF c.asap THEN c ELSE [c EXCEPT !.asap = TRUE, !.why = why]
SoftAge(c) == IF Soft # 0 /\ Usage(c) >= Soft THEN (IF c.soft = -1 THEN 0 ELSE c.soft) ELSE -1
OverLimit(c) ==
    IF Hard # 0 /\ Usage(c) >= Hard THEN "hard" ELSE IF SoftAge(c) > SoftSeconds THEN "soft" ELSE "none"
\* closeClientOnOutputBufferLimitReached
CheckLimit(c) ==
    IF c.bytes = 0 \/ c.asap THEN c
    ELSE LET d == [c EXCEPT !.soft = SoftAge(c)] IN IF OverLimit(c) = "none" THEN d ELSE FreeAsync(d, OverLimit(c))

-----------------------------------------------------------------------------
(* addReply *)

MayWrite(c) == c.open /\ ~c.asap /\ ~c.off /\ ~c.skip
\* clientInstallWriteHandler, when there is nothing pending yet
Prepared(c) == IF HasPending(c) THEN c ELSE [c EXCEPT !.pend = TRUE]
\* _addReplyProtoToList
ToList(c, s) ==
    LET n == Len(c.list)
        room == IF n = 0 THEN 0 ELSE IF c.list[n].nil THEN 0 ELSE c.list[n].size - Len(c.list[n].data)
        fit == IF room < Len(s) THEN room ELSE Len(s)
        d == IF fit = 0 THEN c ELSE [c EXCEPT !.list[n].data = @ \o SubSeq(s, 1, fit)]
        rest == SubSeq(s, fit + 1, Len(s))
        size == Usable(IF Len(rest) < Chunk THEN Chunk ELSE Len(rest))
    IN  IF rest = <<>> THEN d
        ELSE CheckLimit([d EXCEPT !.list = Append(@, [nil |-> FALSE, size |-> size, data |-> rest]), !.bytes = @ + size])
\* addReply, addReplyProto with _addReplyToBuffer
AddReply(c, s) ==
    LET d == Prepared(c) IN
    IF ~MayWrite(c) THEN c
    ELSE IF c.after THEN d
    ELSE IF c.list = <<>> /\ Len(c.buf) + Len(s) <= BufSize THEN [d EXCEPT !.buf = @ \o s]
    ELSE ToList(d, s)

\* trimReplyUnusedTailSpace
Trim(c) ==
    LET n == Len(c.list)
        t == c.list[n]
        size == Usable(Len(t.data))
    IN  IF n = 0 THEN c
        ELSE IF t.nil \/ ~(t.size - Len(t.data) > t.size \div 4 /\ Len(t.data) < Chunk) THEN c
        ELSE [c EXCEPT !.list[n].size = size, !.bytes = @ + size - t.size]
\* addReplyDeferredLen: the node is its place in the list, 0 for none
AddDeferred(c) ==
    LET d == Trim(Prepared(c)) IN
    IF ~MayWrite(c) THEN [c |-> c, node |-> 0]
    ELSE [c |-> [d EXCEPT !.list = Append(@, [nil |-> TRUE, size |-> 0, data |-> <<>>])], node |-> Len(d.list) + 1]
\* setDeferredReply: into the block before, into the one behind, or a block of its own
SetDeferred(c, node, s) ==
    LET prev == c.list[node - 1]
        room == IF node = 1 THEN 0 ELSE IF prev.nil THEN 0 ELSE prev.size - Len(prev.data)
        fit == IF room < Len(s) THEN room ELSE Len(s)
        rest == SubSeq(s, fit + 1, Len(s))
        d == IF fit = 0 THEN c ELSE [c EXCEPT !.list[node - 1].data = @ \o SubSeq(s, 1, fit)]
        next == c.list[node + 1]
        behind == IF node = Len(c.list) THEN FALSE ELSE ~next.nil /\ next.size - Len(next.data) >= Len(rest) /\ Len(next.data) < Chunk * 4
        size == Usable(Len(rest))
    IN  IF node = 0 THEN c
        ELSE IF rest = <<>> THEN [d EXCEPT !.list = RemoveAt(@, node)]
        ELSE IF behind THEN [d EXCEPT !.list = RemoveAt([@ EXCEPT ![node + 1].data = rest \o @], node)]
        ELSE CheckLimit([d EXCEPT !.list[node] = [nil |-> FALSE, size |-> size, data |-> rest], !.bytes = @ + size])

\* AddReplyFromClient: the buffer, then the list, of another (module or Lua) client
AddFrom(c, buf, blocks) ==
    LET d == AddReply(c, buf)
        e == Prepared(d)
    IN  IF ~MayWrite(d) THEN d
        ELSE IF d.after THEN e
        ELSE CheckLimit([e EXCEPT !.list = @ \o blocks, !.bytes = @ + FoldLeft(LAMBDA n, b : n + b.size, 0, blocks)])

\* The replies of commands: plain, in three parts, an array with a length in front, and
\* one made elsewhere.  They consist of the bytes told + 1 onwards.
CoReply(c, kind, n) ==
    IF kind = "plain" THEN AddReply(c, Bytes(told, n))
    ELSE IF kind = "bulk" THEN AddReply(AddReply(AddReply(c, Bytes(told, 1)), Bytes(told + 1, n)), Bytes(told + 1 + n, 1))
    ELSE IF kind = "array" THEN
        LET a == AddDeferred(c) IN SetDeferred(AddReply(AddReply(a.c, Bytes(told + 2, 1)), Bytes(told + 3, n)), a.node, Bytes(told, 2))
    ELSE AddFrom(c, Bytes(told, 1), <<[nil |-> FALSE, size |-> Usable(n), data |-> Bytes(told + 1, n)]>>)
ReplyLen(kind, n) == CASE kind = "plain" -> n [] kind = "bulk" -> n + 2 [] kind = "array" -> n + 3 [] OTHER -> n + 1

-----------------------------------------------------------------------------
(* writeToClient *)

RECURSIVE Consumed(_, _)
Consumed(c, k) ==       \* k bytes of what is pending went out
    LET part == IF c.buf # <<>> THEN Len(c.buf) - c.sent ELSE Len(c.list[1].data) - c.sent
    IN  IF k = 0 THEN c
        ELSE IF k < part THEN [c EXCEPT !.sent = @ + k]
        ELSE IF c.buf # <<>> THEN Consumed([c EXCEPT !.buf = <<>>, !.sent = 0], k - part)
        ELSE Consumed([c EXCEPT !.bytes = @ - c.list[1].size, !.list = Tail(@), !.sent = 0], k - part)
Renumber(s, k) == SubSeq([i \in 1..Len(s) |-> IF s[i] > k THEN s[i] - k ELSE 0], 1, Len(s))
Shift(c, k) == [c EXCEPT !.buf = Renumber(@, k), !.list = [i \in 1..Len(@) |-> [@[i] EXCEPT !.data = Renumber(@, k)]]]
\* What follows when all of it, or not, was sent
Written(c, k, handler) ==
    LET d == Shift(Consumed(c, k), k)
        e == [d EXCEPT !.hand = IF handler THEN FALSE ELSE @]
    IN  IF HasPending(d) THEN d ELSE IF d.after THEN FreeAsync(e, "quit") ELSE e
QueueWrittenOnce(c, k) == Written([c EXCEPT !.pend = FALSE], k, FALSE)
\* handleClientsWithPendingWrites: what could not be sent needs the handler
QueueWritten(c, k) == LET d == Written([c EXCEPT !.pend = FALSE], k, FALSE) IN IF HasPending(d) THEN [d EXCEPT !.hand = TRUE] ELSE d

Closed(c) == [NoClient EXCEPT !.open = FALSE, !.why = c.why]
\* resetClient, for CLIENT REPLY SKIP
Reset(c) == [c EXCEPT !.skip = c.skipn, !.skipn = FALSE]

-----------------------------------------------------------------------------
CoInit == cl = NoClient /\ told = 0 /\ wok = TRUE /\ muted = "no" /\ over = 0

Steps(c) == cl' = c /\ over' = IF c.open /\ Usage(c) >= Soft THEN over ELSE 0
Ready == cl.open /\ ~cl.asap /\ ~cl.after /\ ~cl.prot /\ told < MaxTold
Command(kind, n) ==
    /\ Ready
    /\ Steps(Reset(CoReply(cl, kind, n)))
    /\ told' = told + (IF muted = "no" THEN ReplyLen(kind, n) ELSE 0)
    /\ muted' = IF muted = "skip" THEN "no" ELSE muted
    /\ UNCHANGED wok
\* A message for a subscriber: at any time, also when the client is being closed
Push(n) ==
    /\ cl.open /\ told < MaxTold
    /\ Steps(AddReply(cl, Bytes(told, n)))
    /\ told' = told + (IF muted = "no" /\ ~cl.after THEN n ELSE 0)
    /\ UNCHANGED <<wok, muted>>
\* CLIENT REPLY ON, OFF, SKIP
ClientReply(mode) ==
    /\ Ready
    /\ CASE mode = "on" -> Steps(Reset(AddReply([cl EXCEPT !.skip = FALSE, !.off = FALSE], Bytes(told, 1)))) /\ told' = told + 1 /\ muted' = "no"
         [] mode = "off" -> Steps(Reset([cl EXCEPT !.off = TRUE])) /\ told' = told /\ muted' = "off"
         [] OTHER -> Steps(Reset(IF cl.off THEN cl ELSE [cl EXCEPT !.skipn = TRUE])) /\ told' = told /\ muted' = IF muted = "off" THEN "off" ELSE "skip"
    /\ UNCHANGED wok
\* QUIT: the reply, then the connection is closed
Quit ==
    /\ Ready
    /\ Steps(Reset([AddReply(cl, Bytes(told, 1)) EXCEPT !.after = TRUE]))
    /\ told' = told + (IF muted = "no" THEN 1 ELSE 0)
    /\ UNCHANGED <<wok, muted>>

Sent(c, k) ==           \* the first k bytes reach the client
    /\ wok' = (wok /\ SubSeq(Unsent(c), 1, k) = Bytes(0, k))
    /\ told' = IF told > k THEN told - k ELSE 0
PendingWrite(k) ==
    /\ cl.open /\ cl.pend
    /\ IF cl.prot \/ cl.asap THEN k = 0 /\ Steps([cl EXCEPT !.pend = FALSE]) /\ UNCHANGED <<wok, told>>
       ELSE k <= Len(Unsent(cl)) /\ Sent(cl, k) /\ Steps(QueueWritten(cl, k))
    /\ UNCHANGED muted
WritableEvent(k) ==
    /\ cl.open /\ cl.hand /\ k <= Len(Unsent(cl)) /\ (k > 0 \/ ~HasPending(cl))
    /\ Sent(cl, k) /\ Steps(Written(cl, k, TRUE)) /\ UNCHANGED muted
WriteError ==
    /\ cl.open /\ (cl.hand \/ (cl.pend /\ ~cl.prot)) /\ ~cl.asap
    /\ Steps(FreeAsync([cl EXCEPT !.pend = FALSE], "error")) /\ UNCHANGED <<told, wok, muted>>

\* clientsCron, every second
CoCron ==
    LET c == [cl EXCEPT !.soft = IF @ = -1 THEN -1 ELSE IF @ > SoftSeconds THEN @ ELSE @ + 1]
        d == CheckLimit(c)
    IN  /\ cl.open
        /\ over' = IF Usage(cl) < Soft THEN 0 ELSE IF over > SoftSeconds + 1 THEN over ELSE over + 1
        /\ cl' = IF d.asap /\ ~cl.asap /\ ~cl.prot THEN Closed(d) ELSE d
        /\ UNCHANGED <<told, wok, muted>>
\* freeClientsInAsyncFreeQueue; CLIENT KILL by another client
AsyncFree == cl.open /\ cl.asap /\ ~cl.prot /\ Steps(Closed(cl)) /\ UNCHANGED <<told, wok, muted>>
Kill == cl.open /\ Steps(IF cl.prot THEN FreeAsync(cl, "kill") ELSE Closed([cl EXCEPT !.why = "kill"])) /\ UNCHANGED <<told, wok, muted>>
\* protectClient, unprotectClient
Protect == cl.open /\ ~cl.prot /\ Steps([cl EXCEPT !.prot = TRUE, !.hand = FALSE]) /\ UNCHANGED <<told, wok, muted>>
Unprotect ==
    /\ cl.open /\ cl.prot
    /\ Steps(LET c == [cl EXCEPT !.prot = FALSE] IN IF HasPending(c) THEN [c EXCEPT !.pend = TRUE] ELSE c)
    /\ UNCHANGED <<told, wok, muted>>

CoNext ==
    \/ \E n \in Sizes : Push(n) \/ \E kind \in {"plain", "bulk", "array", "from"} : Command(kind, n)
    \/ \E mode \in {"on", "off", "skip"} : ClientReply(mode)
    \/ \E k \in 0..(MaxTold + 10) : PendingWrite(k) \/ WritableEvent(k)
    \/ Quit \/ WriteError \/ CoCron \/ AsyncFree \/ Kill \/ Protect \/ Unprotect
CoSpec == CoInit /\ [][CoNext]_covars

-----------------------------------------------------------------------------
\* The client sees the bytes of its replies in order, each once, whatever was split,
\* deferred, joined and partly sent; and as long as nobody decided to close it all of
\* them are in the buffers.
RepliesInOrder ==
    /\ wok
    /\ cl.open => \A i \in DOMAIN Unsent(cl) : Unsent(cl)[i] = i
    /\ cl.open /\ ~cl.asap /\ ~cl.after => Len(Unsent(cl)) = told

\* A client with something to send is in the queue of pending writes or has a write
\* handler: no reply waits for the next command.
NoReplyForgotten == cl.open /\ HasPending(cl) /\ ~cl.asap /\ ~cl.prot => cl.pend \/ cl.hand

\* After every step a client that is not to be closed is below the hard limit, and
\* reply_bytes is the size of its blocks (writeToClient asserts that it ends at 0).
HardLimitKept ==
    cl.open => /\ ~cl.asap => Usage(cl) < Hard
               /\ cl.bytes = FoldLeft(LAMBDA n, b : n + b.size, 0, cl.list)

\* A client over the soft limit is closed in the end.
SoftLimitKept == over <= SoftSeconds + 1 \/ cl.asap \/ ~cl.open

-----------------------------------------------------------------------------
(***************************************************************************)
(* How the bytes a client sends become commands (redis-6.2.7/src/networking.c  *)
(* and sdssplitargs of sds.c): reads of any length, the inline and the          *)
(* multibulk protocol, protocol errors, big arguments that take over the query  *)
(* buffer, commands parsed by an I/O thread, clients blocked, paused and        *)
(* reprocessed, and the replication offset of a master's stream.  A byte is a   *)
(* one-character string, "r" and "n" being CR and LF.                          *)
(***************************************************************************)
CONSTANTS
    QStreams,           \* what clients send, see Stream
    ReadLen,            \* PROTO_IOBUF_LEN
    InlineMax,          \* PROTO_INLINE_MAX_SIZE
    BigArg,             \* PROTO_MBULK_BIG_ARG
    MaxArgs, MaxBulk,   \* 1024*1024 arguments, proto-max-bulk-len
    FreeArgs, FreeBulk, \* 10 arguments of 16384 bytes before AUTH
    MaxQuery,           \* client-query-buffer-limit
    IoReads             \* io-threads-do-reads, with the threads active

VARIABLES qs, q         \* the stream and the client

qpvars == <<qs, q>>

NewQueryClient(s) ==
    [buf |-> <<>>, pos |-> 0, req |-> "none", mb |-> 0, bl |-> -1, argv |-> <<>>, master |-> s.master, auth |-> s.auth,
     multi |-> FALSE, blocked |-> "no", unblocked |-> FALSE, paused |-> FALSE, busy |-> FALSE, pread |-> FALSE, pcmd |-> FALSE,
     after |-> FALSE, asap |-> FALSE, done |-> <<>>, nread |-> 0, reploff |-> 0, pend |-> <<>>, fwd |-> <<>>]

-----------------------------------------------------------------------------
(* Words of an inline request *)

Space(c) == c \in {"_", "r", "n"}
\* sdssplitargs: <<ok, arguments>>; "d" and "s" stand for the quotes, "b" for a backslash
Escaped(c) == IF c = "t" THEN "TAB" ELSE c
Word(line, from) ==     \* the word at from: where it ends, and its text
    LET at(i) == IF i > Len(line) THEN "end" ELSE line[i]
        step(w) ==
            LET c == at(w.i)
                n == at(w.i + 1)
                add(x, k) == [w EXCEPT !.i = @ + k, !.text = Append(@, x)]
                close == IF n # "end" /\ ~Space(n) THEN [w EXCEPT !.mode = "err"] ELSE [w EXCEPT !.i = @ + 1, !.mode = "done"]
            IN  CASE w.mode = "dq" -> (IF c = "b" /\ n # "end" THEN add(Escaped(n), 2) ELSE IF c = "d" THEN close
                                       ELSE IF c = "end" THEN [w EXCEPT !.mode = "err"] ELSE add(c, 1))
                  [] w.mode = "sq" -> (IF c = "b" /\ n = "s" THEN add("s", 2) ELSE IF c = "s" THEN close
                                       ELSE IF c = "end" THEN [w EXCEPT !.mode = "err"] ELSE add(c, 1))
                  [] w.mode = "plain" -> (IF c = "end" THEN [w EXCEPT !.mode = "done"] ELSE IF Space(c) THEN [w EXCEPT !.i = @ + 1, !.mode = "done"]
                                          ELSE IF c = "d" THEN [w EXCEPT !.i = @ + 1, !.mode = "dq"]
                                          ELSE IF c = "s" THEN [w EXCEPT !.i = @ + 1, !.mode = "sq"] ELSE add(c, 1))
                  [] OTHER -> w
    IN  FoldLeft(LAMBDA w, i : step(w), [i |-> from, text |-> <<>>, mode |-> "plain"], [i \in 1..(Len(line) + 2) |-> i])
RECURSIVE SplitArgs(_, _)
Prepend(word, r) == IF r[1] THEN <<TRUE, <<word>> \o r[2]>> ELSE r
AfterWord(line, w) == IF w.mode = "err" THEN <<FALSE, <<>>>> ELSE Prepend(w.text, SplitArgs(line, w.i))
SplitArgs(line, from) ==
    IF from > Len(line) THEN <<TRUE, <<>>>>
    ELSE IF Space(line[from]) THEN SplitArgs(line, from + 1)
    ELSE AfterWord(line, Word(line, from))

-----------------------------------------------------------------------------
(* One request *)

Digits == [c \in {"0", "1", "2", "3", "4", "5", "6", "7", "8", "9"} |->
    CASE c = "0" -> 0 [] c = "1" -> 1 [] c = "2" -> 2 [] c = "3" -> 3 [] c = "4" -> 4 [] c = "5" -> 5 [] c = "6" -> 6 [] c = "7" -> 7 [] c = "8" -> 8 [] OTHER -> 9]
\* string2ll, of short numbers; "x" when it is none
IsNumber(s) == s # <<>> /\ (\A i \in DOMAIN s : s[i] \in DOMAIN Digits \/ (i = 1 /\ s[i] = "-" /\ Len(s) > 1)) /\ (Len(s) > 1 => s[1] # "0")
Number(s) == FoldLeft(LAMBDA n, c : IF c = "-" THEN n ELSE (n * 10) + Digits[c], 0, s) * (IF s[1] = "-" THEN -1 ELSE 1)
Find(s, from, c) == LET at == {j \in from..Len(s) : s[j] = c} IN IF at = {} THEN 0 ELSE CHOOSE j \in at : \A k \in at : j <= k
QpOk(c) == [ok |-> TRUE, q |-> c]
Wait(c) == [ok |-> FALSE, q |-> c]
SetProtocolError(c) == [ok |-> FALSE, q |-> [c EXCEPT !.after = TRUE]]

\* processInlineBuffer
InlineArgs(c, nl, line, args) ==
    IF ~args[1] \/ (line # <<>> /\ c.master) THEN SetProtocolError(c) ELSE QpOk([c EXCEPT !.pos = nl, !.argv = args[2]])
InlineLine(c, nl, line) == InlineArgs(c, nl, line, SplitArgs(line, 1))
InlineEnd(c, nl) ==
    IF nl = 0 THEN (IF Len(c.buf) - c.pos > InlineMax THEN SetProtocolError(c) ELSE Wait(c))
    ELSE InlineLine(c, nl, SubSeq(c.buf, c.pos + 1, IF nl > c.pos + 1 /\ c.buf[nl - 1] = "r" THEN nl - 2 ELSE nl - 1))
ProcessInline(c) == InlineEnd(c, Find(c.buf, c.pos + 1, "n"))

LineEnd(c) == LET cr == Find(c.buf, c.pos + 1, "r") IN IF cr > Len(c.buf) - 1 THEN 0 ELSE cr
TooLong(c) == Find(c.buf, c.pos + 1, "r") = 0 /\ Len(c.buf) - c.pos > InlineMax
Line(c) == SubSeq(c.buf, c.pos + 2, LineEnd(c) - 1)
\* The length of the next argument; a big one gets a buffer of its own
BulkFits(c, n) == n >= 0 /\ (n > MaxBulk => c.master) /\ ~(n > FreeBulk /\ c.auth)
OwnBuffer(d) == IF d.bl >= BigArg /\ Len(d.buf) - d.pos <= d.bl + 2 THEN [d EXCEPT !.buf = SubSeq(@, d.pos + 1, Len(@)), !.pos = 0] ELSE d
WithBulkLen(c, n) == IF BulkFits(c, n) THEN QpOk(OwnBuffer([c EXCEPT !.pos = LineEnd(c) + 1, !.bl = n])) ELSE SetProtocolError(c)
BulkLen(c) ==
    IF TooLong(c) THEN SetProtocolError(c)
    ELSE IF LineEnd(c) = 0 THEN Wait(c)
    ELSE IF c.buf[c.pos + 1] # "$" \/ ~IsNumber(Line(c)) THEN SetProtocolError(c)
    ELSE WithBulkLen(c, Number(Line(c)))
\* The argument itself; a buffer that holds nothing else becomes the argument
Bulk(c) ==
    LET arg == SubSeq(c.buf, c.pos + 1, c.pos + c.bl)
        d == [c EXCEPT !.argv = Append(@, arg), !.bl = -1, !.mb = @ - 1]
    IN  IF Len(c.buf) - c.pos < c.bl + 2 THEN Wait(c)
        ELSE IF c.pos = 0 /\ c.bl >= BigArg /\ Len(c.buf) = c.bl + 2 THEN QpOk([d EXCEPT !.buf = <<>>])
        ELSE QpOk([d EXCEPT !.pos = @ + c.bl + 2])
RECURSIVE Bulks(_)
AfterBulk(b) == IF b.ok THEN Bulks(b.q) ELSE b
AfterLen(l) == IF l.ok THEN AfterBulk(Bulk(l.q)) ELSE l
Bulks(c) == IF c.mb = 0 THEN QpOk(c) ELSE AfterLen(IF c.bl = -1 THEN BulkLen(c) ELSE QpOk(c))
\* processMultibulkBuffer
WithArgs(c, n) ==
    IF n > MaxArgs \/ (n > FreeArgs /\ c.auth) THEN SetProtocolError(c)
    ELSE QpOk([c EXCEPT !.pos = LineEnd(c) + 1, !.mb = IF n <= 0 THEN 0 ELSE n])
MultibulkLen(c) ==
    IF TooLong(c) THEN SetProtocolError(c)
    ELSE IF LineEnd(c) = 0 THEN Wait(c)
    ELSE IF ~IsNumber(Line(c)) THEN SetProtocolError(c)
    ELSE WithArgs(c, Number(Line(c)))
ProcessMultibulk(c) == AfterBulk(IF c.mb > 0 THEN QpOk(c) ELSE MultibulkLen(c))

-----------------------------------------------------------------------------
(* Commands.  "B" blocks, "M" and "E" are MULTI and EXEC, "A" AUTH, "Q" QUIT *)

ResetClient(c) == [c EXCEPT !.argv = <<>>, !.req = "none", !.mb = 0, !.bl = -1]
CommandProcessed(c) ==
    LET d == ResetClient(c)
        off == IF d.multi THEN d.reploff ELSE d.nread - Len(d.buf) + d.pos
        n == off - d.reploff
    IN  IF c.blocked # "no" THEN c
        ELSE IF ~d.master THEN d
        ELSE [d EXCEPT !.reploff = off, !.fwd = @ \o SubSeq(d.pend, 1, n), !.pend = SubSeq(@, n + 1, Len(@))]
\* processCommand, as far as it concerns the client
ProcessCommand(c) ==
    LET cmd == c.argv[1]
        d == [c EXCEPT !.done = Append(@, c.argv)]
    IN  IF c.paused THEN [c EXCEPT !.blocked = "pause", !.pcmd = TRUE]
        ELSE IF c.multi /\ cmd # <<"E">> THEN d
        ELSE IF cmd = <<"B">> /\ ~c.master THEN [d EXCEPT !.blocked = "op"]
        ELSE IF cmd = <<"M">> \/ cmd = <<"E">> THEN [d EXCEPT !.multi = (cmd = <<"M">>)]
        ELSE IF cmd = <<"A">> THEN [d EXCEPT !.auth = FALSE]
        ELSE IF cmd = <<"Q">> THEN [d EXCEPT !.after = TRUE]
        ELSE d
ProcessCommandAndReset(c) == CommandProcessed(ProcessCommand(c))
\* processPendingCommandsAndResetClient
ProcessPending(c) == IF c.pcmd THEN ProcessCommandAndReset([c EXCEPT !.pcmd = FALSE]) ELSE c
Trimmed(c) == [c EXCEPT !.buf = SubSeq(@, c.pos + 1, Len(@)), !.pos = 0]
\* processInputBuffer
RECURSIVE ProcessInput(_)
RequestType(c) == IF c.req # "none" THEN c ELSE [c EXCEPT !.req = IF c.buf[c.pos + 1] = "*" THEN "multi" ELSE "inline"]
ParseRequest(c) == IF c.req = "inline" THEN ProcessInline(c) ELSE ProcessMultibulk(c)
HandleRequest(r) ==
    IF ~r.ok THEN Trimmed(r.q)
    ELSE IF r.q.argv # <<>> /\ r.q.pread THEN Trimmed([r.q EXCEPT !.pcmd = TRUE])
    ELSE ProcessInput(IF r.q.argv = <<>> THEN ResetClient(r.q) ELSE ProcessCommandAndReset(r.q))
ProcessInput(c) ==
    IF c.pos >= Len(c.buf) \/ c.blocked # "no" \/ c.pcmd \/ (c.busy /\ c.master) \/ c.after \/ c.asap THEN Trimmed(c)
    ELSE HandleRequest(ParseRequest(RequestType(c)))

\* readQueryFromClient: the end of a big argument is read alone
ReadLimit(c) ==
    LET rem == (c.bl + 2) - Len(c.buf)
    IN  IF c.req = "multi" /\ c.mb > 0 /\ c.bl # -1 /\ c.bl >= BigArg /\ rem > 0 /\ rem < ReadLen THEN rem ELSE ReadLen
ReadQuery(c, bytes) ==
    LET d == [c EXCEPT !.buf = @ \o bytes, !.nread = @ + Len(bytes), !.pend = IF c.master THEN @ \o bytes ELSE @]
    IN  IF bytes = <<>> THEN c
        ELSE IF Len(d.buf) > MaxQuery THEN [d EXCEPT !.asap = TRUE]
        ELSE ProcessInput(d)

-----------------------------------------------------------------------------
QpInit == qs \in QStreams /\ q = NewQueryClient(qs)

Incoming(k) == SubSeq(qs.bytes, q.nread + 1, q.nread + k)
Postponable == IoReads /\ ~q.master /\ ~q.pread /\ q.blocked = "no"
QpRead(k) ==
    /\ ~q.asap /\ ~Postponable /\ ~q.pread /\ k \in 1..ReadLimit(q) /\ q.nread + k <= Len(qs.bytes)
    /\ q' = ReadQuery(q, Incoming(k)) /\ UNCHANGED qs
\* postponeClientRead
Postpone == ~q.asap /\ Postponable /\ q' = [q EXCEPT !.pread = TRUE] /\ UNCHANGED qs
\* The I/O thread reads and parses, the main thread runs what was parsed and goes on
ThreadRead(k) ==
    /\ q.pread /\ k \in 0..ReadLimit(q) /\ q.nread + k <= Len(qs.bytes)
    /\ q' = ProcessInput(ProcessPending([ReadQuery(q, Incoming(k)) EXCEPT !.pread = FALSE])) /\ UNCHANGED qs
\* unblockClient: a client that was paused still has its command
Unblock ==
    /\ q.blocked = "op" \/ (q.blocked = "pause" /\ ~q.paused)
    /\ q' = [(IF q.blocked = "op" THEN ResetClient(q) ELSE q) EXCEPT !.blocked = "no", !.unblocked = TRUE] /\ UNCHANGED qs
\* processUnblockedClients, after the pending reads of the same round
Reprocess ==
    LET c == [q EXCEPT !.unblocked = FALSE]
        d == ProcessPending(c)
    IN  /\ q.unblocked /\ ~q.pread
        /\ q' = IF c.blocked # "no" THEN c ELSE IF Len(d.buf) > 0 THEN ProcessInput(d) ELSE d
        /\ UNCHANGED qs
\* CLIENT PAUSE, and a script that runs too long, begin and end
QpPause == q' = [q EXCEPT !.paused = ~@] /\ ~q.busy /\ UNCHANGED qs
Busy == ~q.paused /\ q' = [q EXCEPT !.busy = ~@, !.unblocked = IF q.busy /\ q.master THEN TRUE ELSE @] /\ q.master /\ UNCHANGED qs

QpNext ==
    \/ \E k \in 0..ReadLen : QpRead(k) \/ ThreadRead(k)
    \/ Postpone \/ Unblock \/ Reprocess \/ QpPause \/ Busy
QpSpec == QpInit /\ [][QpNext]_qpvars

-----------------------------------------------------------------------------
(* Streams, as the client means them: requests with their bytes and the        *)
(* command they are, <<>> when they are none; ended by an error or not.        *)

Mb(args) == <<"*", ToString(Len(args)), "r", "n">> \o FoldLeft(LAMBDA s, a : s \o <<"$", ToString(Len(a)), "r", "n">> \o a \o <<"r", "n">>, <<>>, args)
Request(bytes, cmd) == [bytes |-> bytes, cmd |-> cmd]
Stream(master, auth, reqs, bad) ==
    LET upto(i) == FoldLeft(LAMBDA s, r : s \o r.bytes, <<>>, SubSeq(reqs, 1, i))
        ids == SelectSeq([i \in 1..Len(reqs) |-> i], LAMBDA i : reqs[i].cmd # <<>>)
    IN  [master |-> master, auth |-> auth, bytes |-> upto(Len(reqs)) \o bad,
         cmds |-> SubSeq([i \in 1..Len(ids) |-> reqs[ids[i]].cmd], 1, Len(ids)),
         ends |-> SubSeq([i \in 1..Len(ids) |-> Len(upto(ids[i]))], 1, Len(ids))]

Quiet == q.blocked = "no" /\ ~q.unblocked /\ ~q.pread /\ ~q.busy

\* Whatever the lengths of the reads, and whoever parses: the commands are those of the
\* stream, in order, each once; when nothing is pending every complete one was run; and
\* only a client that sent an error (or QUIT) is closed, after all commands before it.
CommandsDone ==
    /\ IsPrefix(q.done, qs.cmds)
    /\ Quiet /\ ~q.asap => Len(q.done) = Cardinality({i \in DOMAIN qs.ends : qs.ends[i] <= q.nread})
    /\ q.after => q.done = qs.cmds

\* The offset of a master's stream is the end of the last command applied outside a
\* transaction, and exactly the bytes up to it went to our own replicas, however the
\* stream was cut, and paused, in between.
MasterOffsetExact ==
    LET closed == {i \in DOMAIN q.done : Cardinality({j \in 1..i : q.done[j] = <<<<"M">>>>}) = Cardinality({j \in 1..i : q.done[j] = <<<<"E">>>>})}
        last == {i \in closed : \A j \in closed : j <= i}
        off == IF last = {} THEN 0 ELSE qs.ends[CHOOSE i \in last : TRUE]
    IN  q.master => /\ q.reploff = off
                    /\ q.fwd = SubSeq(qs.bytes, 1, off)
                    /\ q.pend = SubSeq(qs.bytes, off + 1, q.nread)
=============================================================================
