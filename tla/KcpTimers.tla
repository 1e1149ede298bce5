----------------------------- MODULE KcpTimers -----------------------------
(***************************************************************************)
(* The clock of one KCP control block (ikcp/ikcp.c): when ikcp_update      *)
(* flushes, when ikcp_flush sends a segment again, and how the round trip  *)
(* time of acknowledged segments sets the timeout.  Kcp lets every timer   *)
(* fire at any time; here they are counted.                                *)
(*                                                                         *)
(* A timestamp is a 32 bit number of milliseconds that wraps, taken from   *)
(* System.currentTimeMillis(): the wall clock, which the user or NTP may   *)
(* set forward or back.  Mod stands for 2^32.  time is the time that       *)
(* really passes.                                                          *)
(*                                                                         *)
(* nodelay is 1 and the congestion window is off, as initKcp sets them.    *)
(* The segments that ikcp_send has queued are any number at each flush.    *)
(***************************************************************************)
EXTENDS Integers

CONSTANTS Mod,        \* 2^32
          Start,      \* the clock at the first ikcp_update
          Interval,   \* kcp->interval
          JumpLimit,  \* the 10000 of ikcp_update
          RtoDef, RtoMin, RtoMax,   \* IKCP_RTO_DEF, rx_minrto, IKCP_RTO_MAX
          Resent,     \* kcp->fastresend
          DeadLink,   \* kcp->dead_link
          Window,     \* min(snd_wnd, rmt_wnd)
          Gaps,       \* time between two calls of ikcp_update
          Jumps,      \* by how much the wall clock may be set
          MaxTime, MaxJumps, MaxSegs,  \* bounds of a behaviour
          MaxXmit                      \* bound: transmissions of a segment

ASSUME KcpTimersAssumption ==
    /\ Mod \in Nat \ {0} /\ Mod % 2 = 0 /\ Start \in 0..(Mod - 1)
    /\ Interval \in Nat \ {0} /\ JumpLimit \in Nat \ {0}
    /\ RtoMin \in Nat \ {0} /\ RtoMax \in Nat /\ RtoDef \in RtoMin..RtoMax
    /\ Resent \in Nat \ {0} /\ DeadLink \in Nat \ {0} /\ Window \in Nat
    /\ Gaps \subseteq Nat /\ Jumps \subseteq Int \ {0}
    /\ MaxTime \in Nat /\ MaxJumps \in Nat /\ MaxSegs \in Nat /\ MaxXmit \in Nat

\* What is compared as a signed difference is less than half of the clock
\* apart: 10 ms and 10 s, the calls of ikcp_update within 24 days, and the
\* timeout of a segment that has been sent 35791 times.
ASSUME ClockAssumption ==
    /\ Interval <= Mod \div 2 /\ JumpLimit <= Mod \div 2
    /\ \A d \in Gaps : d + Interval <= Mod \div 2
    /\ RtoMax * MaxXmit <= Mod \div 2

VARIABLES current, updated, ts_flush, state, snd_una, snd_nxt, snd_buf,
          rx_srtt, rx_rttval, rx_rto,
          echo,    \* the acknowledgements the network may deliver: sn, ts, at
          time, jumps,
          since,   \* time of the last flush, or of a jump of the clock after it
          after,   \* which of the two
          longest  \* the longest round trip of an acknowledgement taken

segVars == <<state, snd_una, snd_nxt, snd_buf, echo>>
rttVars == <<rx_srtt, rx_rttval, rx_rto, longest>>
vars == <<current, updated, ts_flush, segVars, rttVars, time, jumps, since, after>>

-----------------------------------------------------------------------------
(* 32 bit arithmetic *)

\* A number as int32.
Signed(x) == IF x % Mod < Mod \div 2 THEN x % Mod ELSE (x % Mod) - Mod

\* Slip: timestamps compared as plain numbers.
PlainDiff(later, earlier) == later - earlier
\* _itimediff
Diff(later, earlier) == Signed(later - earlier)

Later(ts, n) == (ts + n) % Mod

\* C's division, which rounds to zero.
Quotient(x, n) == IF x >= 0 THEN x \div n ELSE -((-x) \div n)

\* Slip: no upper bound.
BoundBelow(x) == IF x % Mod >= RtoMin THEN x % Mod ELSE RtoMin
\* _ibound_, of unsigned numbers.
Bound(x) == IF x % Mod < RtoMin THEN RtoMin
            ELSE IF x % Mod > RtoMax THEN RtoMax ELSE x % Mod

-----------------------------------------------------------------------------
(* Segments.  sent is the time of the last transmission, steady says that  *)
(* the clock has not been set since.                                       *)

Due(s, c) == Diff(c, s.resendts) >= 0

FirstSent(c, t) == [resendts |-> Later(c, rx_rto), rto |-> rx_rto, xmit |-> 1,
                    fastack |-> 0, sent |-> t, steady |-> TRUE]

\* The timeout of a segment: it backs off by half of the current rx_rto.
TimedOut(s, c, t) ==
    LET rto == s.rto + rx_rto \div 2
    IN [s EXCEPT !.xmit = @ + 1, !.rto = rto, !.resendts = Later(c, rto),
                 !.sent = t, !.steady = TRUE]

\* Slip: the timer goes on from the transmission before.
FastResentOldTimer(s, c, t) ==
    [s EXCEPT !.xmit = @ + 1, !.fastack = 0, !.sent = t, !.steady = TRUE]

FastResent(s, c, t) ==
    [s EXCEPT !.xmit = @ + 1, !.fastack = 0, !.resendts = Later(c, s.rto),
              !.sent = t, !.steady = TRUE]

Resend(s, c, t) == IF Due(s, c) THEN TimedOut(s, c, t)
                   ELSE IF s.fastack >= Resent THEN FastResent(s, c, t) ELSE s

-----------------------------------------------------------------------------
Init ==
    /\ current = 0 /\ updated = FALSE /\ ts_flush = 0 /\ state = 0
    /\ snd_una = 0 /\ snd_nxt = 0 /\ snd_buf = [sn \in {} |-> 0]
    /\ rx_srtt = 0 /\ rx_rttval = 0 /\ rx_rto = RtoDef
    /\ echo = {} /\ time = 0 /\ jumps = 0 /\ since = 0 /\ after = "start" /\ longest = 0

\* ikcp_flush at clock c and time t: count new segments, and those of old
\* that are due again.
Flush(old, c, t) ==
    \E count \in 0..MaxSegs :
        LET new == snd_nxt..(snd_nxt + count - 1)
            buf == [sn \in DOMAIN old \cup new |->
                       IF sn \in new THEN FirstSent(c, t) ELSE Resend(old[sn], c, t)]
            sent == {sn \in DOMAIN buf : sn \in new \/ buf[sn].xmit # old[sn].xmit}
        IN /\ snd_nxt + count <= MaxSegs /\ \A sn \in sent : buf[sn].xmit <= MaxXmit
           /\ count > 0 => snd_nxt + count <= snd_una + Window
           /\ snd_nxt' = snd_nxt + count
           /\ snd_buf' = buf
           /\ state' = IF \E sn \in sent : buf[sn].xmit >= DeadLink THEN -1 ELSE state
           /\ echo' = echo \cup {[sn |-> sn, ts |-> c, at |-> t] : sn \in sent}

\* The segments that wait for their timer when the clock is set by j.
Waiting(j) == [sn \in DOMAIN snd_buf |->
                  IF j = 0 THEN snd_buf[sn] ELSE [snd_buf[sn] EXCEPT !.steady = FALSE]]

\* Slip: only a clock that is ahead counts as set.
OutOfStepAhead(slap) == slap >= JumpLimit
\* ikcp_update takes the clock to have been set.
OutOfStep(slap) == slap >= JumpLimit \/ slap < -JumpLimit

\* ikcp_update, d after the call before, with the clock set by j in between.
Update(d, j) ==
    LET c == Later(IF updated THEN current ELSE Start, d + j)
        t == time + d
        planned == IF updated THEN ts_flush ELSE c
        from == IF OutOfStep(Diff(c, planned)) THEN c ELSE planned
        next == Later(from, Interval)
    IN /\ t <= MaxTime /\ jumps' = jumps + (IF j = 0 THEN 0 ELSE 1) /\ jumps' <= MaxJumps
       /\ time' = t /\ current' = c /\ updated' = TRUE
       /\ \/ /\ Diff(c, from) >= 0
             /\ ts_flush' = IF Diff(c, next) >= 0 THEN Later(c, Interval) ELSE next
             /\ Flush(Waiting(j), c, t)
             /\ since' = t /\ after' = "flush"
          \/ /\ Diff(c, from) < 0
             /\ ts_flush' = from
             /\ snd_buf' = Waiting(j)
             /\ since' = (IF j = 0 THEN since ELSE t) /\ after' = (IF j = 0 THEN after ELSE "jump")
             /\ UNCHANGED <<state, snd_nxt, echo>>
       /\ UNCHANGED <<snd_una, rttVars>>

\* Slip: the weights of the smoothed round trip time add up to nine.
SmoothedNine(rtt) == Quotient(8 * rx_srtt + rtt, 8)
\* Products wrap, as they do in the build for arm64.
Smoothed(rtt) == Quotient(Signed(Signed(7 * rx_srtt) + rtt), 8)

\* ikcp_update_ack
UpdateAck(rtt) ==
    LET delta == IF rtt >= rx_srtt THEN rtt - rx_srtt ELSE rx_srtt - rtt
        peak == (4 * rx_rttval') % Mod
    IN /\ rx_srtt' = IF rx_srtt = 0 THEN rtt
                     ELSE IF Smoothed(rtt) < 1 THEN 1 ELSE Smoothed(rtt)
       /\ rx_rttval' = IF rx_srtt = 0 THEN rtt \div 2
                       ELSE Quotient(Signed(3 * rx_rttval) + delta, 4)
       /\ rx_rto' = Bound(rx_srtt' + (IF peak > Interval THEN peak ELSE Interval))

\* ikcp_input of a datagram with the acknowledgement a and una: samples the
\* round trip time, drops what is acknowledged, and counts a skip for every
\* segment before it.
Ack(a, una) ==
    LET rtt == Diff(current, a.ts)
        left == {sn \in DOMAIN snd_buf : sn >= una /\ sn # a.sn}
    IN /\ IF rtt >= 0
          THEN UpdateAck(rtt) /\ longest' = IF time - a.at > longest THEN time - a.at ELSE longest
          ELSE UNCHANGED rttVars
       /\ snd_buf' = [sn \in left |-> IF sn < a.sn THEN [snd_buf[sn] EXCEPT !.fastack = @ + 1]
                                      ELSE snd_buf[sn]]
       /\ snd_una' = IF left = {} THEN snd_nxt ELSE CHOOSE sn \in left : \A k \in left : sn <= k
       /\ echo' = echo \ {a}
       /\ UNCHANGED <<current, updated, ts_flush, state, snd_nxt, time, jumps, since, after>>

Next == \/ \E d \in Gaps, j \in {0} \cup Jumps : Update(d, j)
        \/ \E a \in echo, una \in 0..snd_nxt : Ack(a, una)

Spec == Init /\ [][Next]_vars

-----------------------------------------------------------------------------
(* Properties *)

SegState == [resendts : 0..(Mod - 1), rto : Nat, xmit : Nat \ {0}, fastack : Nat,
             sent : Nat, steady : BOOLEAN]

TypeOK ==
    /\ current \in 0..(Mod - 1) /\ ts_flush \in 0..(Mod - 1) /\ updated \in BOOLEAN
    /\ state \in {0, -1} /\ snd_una \in 0..snd_nxt /\ snd_nxt \in Nat
    /\ DOMAIN snd_buf \subseteq snd_una..(snd_nxt - 1)
    /\ \A sn \in DOMAIN snd_buf : snd_buf[sn] \in SegState
    /\ rx_srtt \in 0..(Mod \div 2) /\ rx_rttval \in Int /\ rx_rto \in RtoMin..RtoMax
    /\ time \in Nat /\ jumps \in Nat /\ since \in 0..time /\ after \in {"start", "flush", "jump"}

\* ikcp_update never stays silent for longer than the interval; after the
\* clock has been set, by whatever amount and over the wrap, never for as long
\* as the 10 s after which it gives its plan up.
FlushGoesOn ==
    /\ after = "flush" => time - since < Interval
    /\ after = "jump" => time - since < JumpLimit

\* A segment that is not acknowledged is sent again within its timeout and one
\* interval, also when the clock wraps, unless the clock has been set.
ResendOnTime ==
    \A sn \in DOMAIN snd_buf :
        snd_buf[sn].steady => time - snd_buf[sn].sent < snd_buf[sn].rto + Interval

\* No timer goes off early: without Resent skips, a segment is sent again only
\* when its timeout has passed since it was sent last, by timer or not.
NeverEarly ==
    [][\A sn \in DOMAIN snd_buf \cap DOMAIN snd_buf' :
          (/\ snd_buf'[sn].xmit # snd_buf[sn].xmit
           /\ snd_buf[sn].steady /\ jumps' = jumps /\ snd_buf[sn].fastack < Resent)
          => time' - snd_buf[sn].sent >= snd_buf[sn].rto]_vars

\* The echoed timestamps make every sample a true round trip, of the very
\* transmission acknowledged: the estimates stay within what was seen, unless
\* the clock has been set.  The variation also needs room for its threefold:
\* no acknowledgement may have taken 8 days.
RttWithinSamples ==
    jumps = 0 => /\ rx_srtt <= longest + 1
                 /\ 3 * (longest + 1) < Mod \div 2 => rx_rttval \in 0..(longest + 1)
=============================================================================
