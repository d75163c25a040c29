--------------------------- MODULE SentinelMonitor ---------------------------
(***************************************************************************)
(* How a Sentinel decides that an instance is down (sentinel.c): the link  *)
(* with its command and Pub/Sub connections, PING and its replies, the     *)
(* subjectively-down flag and the TILT mode that a jump of the clock       *)
(* starts.                                                                 *)
(*                                                                         *)
(* Times are kept as ages: what mstime() - t would give, capped at MaxAge. *)
(* One unit is the distance of two runs of sentinelTimer.                  *)
(***************************************************************************)
EXTENDS Integers

CONSTANTS
  PingPeriod,    \* SENTINEL_PING_PERIOD
  DownAfter,     \* down-after-milliseconds
  MinReconnect,  \* SENTINEL_MIN_LINK_RECONNECT_PERIOD
  PubSilence,    \* SENTINEL_PUBLISH_PERIOD * 3
  TiltTrigger,   \* SENTINEL_TILT_TRIGGER
  TiltPeriod,    \* SENTINEL_TILT_PERIOD
  MaxPending,    \* SENTINEL_MAX_PENDING_COMMANDS
  MaxDelay,      \* how long a reply of an instance that answers may take
  Jumps,         \* differences of the clock beyond the normal step
  MaxAge,        \* the cap of ages
  SmMaxFaults      \* bound on dropped connections, changes of the instance and jumps

VARIABLES link,    \* the instanceLink and the flags of the instance
          inst,    \* what the instance does: "ok", "busy" (answers -BUSY) or "silent"
          tilt,    \* [on, age]
          smquiet,   \* steps of real time since a good reply was read
          mfaults

mvars == <<link, inst, tilt, smquiet, mfaults>>

Aged(a, d) == IF a = MaxAge /\ d >= 0 THEN MaxAge ELSE IF a + d > MaxAge THEN MaxAge ELSE IF a + d < -1 THEN -1 ELSE a + d

\* createInstanceLink: out is the number of replies the connection still owes, act is
\* the age of act_ping_time when pinged holds.
NewLink == [cc |-> FALSE, pc |-> FALSE, disc |-> TRUE, pending |-> 0, out |-> 0,
            pinged |-> TRUE, act |-> 0, ping |-> MaxAge, pong |-> 0, avail |-> 0,
            ccAge |-> 0, pcAge |-> 0, pcAct |-> 0, reconn |-> MaxAge, sdown |-> FALSE, killSent |-> FALSE]

Later(l, d) == [l EXCEPT !.act = Aged(@, d), !.ping = Aged(@, d), !.pong = Aged(@, d), !.avail = Aged(@, d),
                         !.ccAge = Aged(@, d), !.pcAge = Aged(@, d), !.pcAct = Aged(@, d), !.reconn = Aged(@, d)]

CloseCc(l) == [l EXCEPT !.cc = FALSE, !.pending = 0, !.out = 0, !.disc = TRUE]
ClosePc(l) == [l EXCEPT !.pc = FALSE, !.disc = TRUE]

SmSendPing(l) == [l EXCEPT !.pending = @ + 1, !.out = @ + 1, !.ping = 0, !.act = IF l.pinged THEN @ ELSE 0, !.pinged = TRUE]

\* sentinelReconnectInstance; the connections are asynchronous and their errors
\* come later.
Reconnect(l) ==
  IF ~l.disc \/ l.reconn < PingPeriod THEN l
  ELSE LET c == IF l.cc THEN [l EXCEPT !.reconn = 0]
                ELSE SmSendPing([l EXCEPT !.reconn = 0, !.cc = TRUE, !.pending = 0, !.out = 0, !.ccAge = 0])
           p == IF c.pc THEN c ELSE [c EXCEPT !.pc = TRUE, !.pcAge = 0]
       IN  [p EXCEPT !.disc = FALSE]

\* sentinelSendPeriodicCommands: the PING part.
Periodic(l) ==
  LET period == IF DownAfter > PingPeriod THEN PingPeriod ELSE DownAfter
  IN  IF ~l.disc /\ l.pending < MaxPending /\ l.pong > period /\ 2 * l.ping > period THEN SmSendPing(l) ELSE l

CheckCc(l) ==
  IF l.cc /\ l.ccAge > MinReconnect /\ l.pinged /\ 2 * l.act > DownAfter /\ 2 * l.pong > DownAfter
  THEN CloseCc(l) ELSE l
CheckPc(l) == IF l.pc /\ l.pcAge > MinReconnect /\ l.pcAct > PubSilence THEN ClosePc(l) ELSE l

CheckSubjectivelyDown(l) ==
  LET elapsed == IF l.pinged THEN l.act ELSE IF l.disc THEN l.avail ELSE 0
      k == CheckPc(CheckCc(l))
  IN  IF elapsed > DownAfter THEN [k EXCEPT !.sdown = TRUE]
      ELSE [k EXCEPT !.sdown = FALSE, !.killSent = IF l.sdown THEN FALSE ELSE @]

\* sentinelTimer for this instance, d after the last run by the clock.
CheckTilt(d) == IF d < 0 \/ d > TiltTrigger THEN [on |-> TRUE, age |-> 0] ELSE [tilt EXCEPT !.age = Aged(@, d)]

\* File events come before timers: a reply that is there is read first.
Unread == inst = "ok" /\ link.cc /\ link.out > 0 /\ link.ping >= MaxDelay

Timer(d) ==
  LET t == CheckTilt(d)
      l == Periodic(Reconnect(Later(link, d)))
      out == t.on /\ t.age >= TiltPeriod
  IN  /\ ~Unread
      /\ smquiet' = Aged(smquiet, 1)
      /\ tilt' = IF out THEN [on |-> FALSE, age |-> 0] ELSE IF t.on THEN t ELSE [t EXCEPT !.age = 0]
      /\ link' = IF t.on /\ ~out THEN l ELSE CheckSubjectivelyDown(l)

SmTick == Timer(1) /\ UNCHANGED <<inst, mfaults>>
SmFault == mfaults < SmMaxFaults /\ mfaults' = mfaults + 1
Jump(d) == SmFault /\ Timer(d) /\ UNCHANGED inst

\* sentinelPingReplyCallback: PONG, LOADING and MASTERDOWN are good replies; a
\* BUSY one from an instance that is down is answered with SCRIPT KILL.
Reply ==
  /\ link.cc /\ link.out > 0 /\ inst # "silent"
  /\ IF inst = "ok"
     THEN /\ link' = [link EXCEPT !.pending = @ - 1, !.out = @ - 1, !.avail = 0, !.pinged = FALSE, !.pong = 0, !.pcAct = 0]
          /\ smquiet' = 0
          /\ UNCHANGED inst
     ELSE /\ link' = [link EXCEPT !.pending = @ - 1, !.out = @ - 1, !.pong = 0, !.killSent = @ \/ link.sdown, !.pcAct = 0]
          /\ inst' \in IF link.sdown /\ ~link.killSent THEN {"busy", "ok"} ELSE {"busy"}
          /\ UNCHANGED smquiet
  /\ UNCHANGED <<tilt, mfaults>>

\* instanceLinkConnectionError on either connection.
ConnectionError ==
  /\ SmFault
  /\ \/ link.cc /\ link' = [link EXCEPT !.cc = FALSE, !.out = 0, !.disc = TRUE]
     \/ link.pc /\ link' = ClosePc(link)
  /\ UNCHANGED <<inst, tilt, smquiet>>

Change(x) == SmFault /\ inst # x /\ inst' = x /\ UNCHANGED <<link, tilt, smquiet>>

SmInit == /\ link = NewLink
          /\ inst = "ok"
          /\ tilt = [on |-> FALSE, age |-> 0]
          /\ smquiet = 0
          /\ mfaults = 0

SmNext == \/ SmTick
          \/ \E d \in Jumps : Jump(d)
          \/ Reply
          \/ ConnectionError
          \/ \E x \in {"ok", "busy", "silent"} : Change(x)

\* The event loop goes on: it reads the replies that are there and runs the timer.
SmFairness == WF_mvars(SmTick \/ Reply)
SmSpec == SmInit /\ [][SmNext]_mvars /\ SmFairness

-----------------------------------------------------------------------------
\* An instance is flagged down only after it really gave no good reply for the
\* shorter of down-after and the TILT period, whatever the clock did meanwhile.
SilentBeforeDown ==
  (link'.sdown /\ ~link.sdown) =>
    smquiet' >= IF DownAfter < TiltPeriod THEN DownAfter ELSE TiltPeriod

\* An instance that has stopped for good is flagged in the end, although its
\* connections look fine, are closed and are opened again.
EventuallyDown == <>[](inst # "ok") => <>[](link.sdown)

\* An instance that answers for good is not flagged any more in the end.
EventuallyNotDown == <>[](inst = "ok") => <>[](~link.sdown)
=============================================================================
