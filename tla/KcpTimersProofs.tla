-------------------------- MODULE KcpTimersProofs --------------------------
(***************************************************************************)
(* Proofs about KcpTimers, for every width of the clock, all intervals and *)
(* timeouts, and any jumps of the wall clock: flushes go on, timers go off *)
(* on time and not early, and the round trip estimate stays within what    *)
(* was measured.                                                           *)
(***************************************************************************)
EXTENDS KcpTimers, TLAPS, WellFoundedInduction

Half == Mod \div 2
Stamp == 0..(Mod - 1)

-----------------------------------------------------------------------------
(* Remainders *)

\* A remainder, and what was taken off.
LEMMA Remainder ==
    ASSUME NEW x \in Int, NEW m \in Int, m > 0
    PROVE  /\ x % m \in Int /\ 0 <= x % m /\ x % m < m
           /\ x \div m \in Int /\ x = ((x \div m) * m) + (x % m)
OBVIOUS

\* There is only one remainder.
LEMMA OneRemainder ==
    ASSUME NEW x \in Int, NEW k \in Int, NEW r \in Int, NEW m \in Int,
           m > 0, x = (k * m) + r, 0 <= r, r < m
    PROVE  x % m = r
<1> DEFINE j == x \div m
<1>1. j \in Int /\ x = (j * m) + (x % m) /\ x % m \in Int /\ 0 <= x % m /\ x % m < m
  BY Remainder
<1> HIDE DEF j
<1>2. (j - k) * m = r - (x % m)
  BY <1>1
<1>3. (j - k) * m < m /\ (j - k) * m > -m
  BY <1>1, <1>2
<1>4. ~(j - k >= 1)
  BY <1>1, <1>3
<1>5. ~(j - k <= -1)
  BY <1>1, <1>3
<1>6. j = k
  BY <1>1, <1>4, <1>5
<1> QED BY <1>1, <1>2, <1>6

\* Whole multiples do not count.
LEMMA Multiples ==
    ASSUME NEW x \in Int, NEW k \in Int, NEW m \in Int, m > 0
    PROVE  (x + (k * m)) % m = x % m
<1> DEFINE j == (x \div m) + k
           r == x % m
           z == x + (k * m)
<1>1. z = (j * m) + r /\ j \in Int /\ r \in Int /\ z \in Int /\ 0 <= r /\ r < m
  BY Remainder
<1> HIDE DEF j, r, z
<1>2. z % m = r
  BY <1>1, OneRemainder
<1> QED BY <1>2 DEF z, r

\* A remainder may be taken before or after adding.
LEMMA RemainderOfSum ==
    ASSUME NEW x \in Int, NEW y \in Int, NEW m \in Int, m > 0
    PROVE  ((x % m) + y) % m = (x + y) % m
<1> DEFINE k == -(x \div m)
           z == x + y
<1>1. (x % m) + y = z + (k * m) /\ k \in Int /\ z \in Int
  BY Remainder
<1> HIDE DEF k, z
<1>2. (z + (k * m)) % m = z % m
  BY <1>1, Multiples
<1> QED BY <1>1, <1>2 DEF z

\* And before or after being taken away.
LEMMA RemainderOfDifference ==
    ASSUME NEW x \in Int, NEW y \in Int, NEW m \in Int, m > 0
    PROVE  (y - (x % m)) % m = (y - x) % m
<1> DEFINE k == x \div m
           z == y - x
<1>1. y - (x % m) = z + (k * m) /\ k \in Int /\ z \in Int
  BY Remainder
<1> HIDE DEF k, z
<1>2. (z + (k * m)) % m = z % m
  BY <1>1, Multiples
<1> QED BY <1>1, <1>2 DEF z

-----------------------------------------------------------------------------
(* The clock *)

\* A width and its half.
LEMMA Width == Mod \in Int /\ Half \in Int /\ Mod = 2 * Half /\ Half > 0 /\ Mod > 0
BY KcpTimersAssumption DEF Half

\* A signed number is one of its class, between the two halves.
LEMMA SignedClass ==
    ASSUME NEW x \in Int
    PROVE  /\ Signed(x) \in Int /\ -Half <= Signed(x) /\ Signed(x) < Half
           /\ \E k \in Int : Signed(x) = x + (k * Mod)
<1> DEFINE j == x \div Mod
<1>1. x % Mod \in Int /\ 0 <= x % Mod /\ x % Mod < Mod /\ j \in Int /\ x = (j * Mod) + (x % Mod)
  BY Remainder, Width
<1>2. -j \in Int /\ x % Mod = x + ((-j) * Mod)
  BY <1>1, Width
<1>3. -j - 1 \in Int /\ (x % Mod) - Mod = x + ((-j - 1) * Mod)
  BY <1>1, Width
<1> HIDE DEF j
<1>4. \/ Signed(x) = x % Mod /\ x % Mod < Half
      \/ Signed(x) = (x % Mod) - Mod /\ x % Mod >= Half
  BY <1>1, Width DEF Signed, Half
<1>5. Signed(x) \in Int /\ -Half <= Signed(x) /\ Signed(x) < Half
  BY <1>1, <1>4, Width
<1>6. \E k \in Int : Signed(x) = x + (k * Mod)
  BY <1>2, <1>3, <1>4
<1> QED BY <1>5, <1>6

\* A number between the halves stays as it is.
LEMMA SignedSmall ==
    ASSUME NEW x \in Int, -Half <= x, x < Half
    PROVE  Signed(x) = x
<1>1. CASE x >= 0
  <2>1. x = (0 * Mod) + x /\ x < Mod
    BY <1>1, Width
  <2>2. x % Mod = x
    BY <1>1, <2>1, OneRemainder, Width
  <2> QED BY <2>2 DEF Signed, Half
<1>2. CASE x < 0
  <2>1. x = ((-1) * Mod) + (x + Mod) /\ 0 <= x + Mod /\ x + Mod < Mod /\ x + Mod \in Int /\ -1 \in Int
    BY <1>2, Width
  <2>2. x % Mod = x + Mod
    BY <2>1, OneRemainder, Width
  <2>3. ~(x + Mod < Half)
    BY Width
  <2> QED BY <2>2, <2>3, Width DEF Signed, Half
<1> QED BY <1>1, <1>2

\* A number that is not below the lower half is at least its signed number.
LEMMA SignedBelow ==
    ASSUME NEW x \in Int, -Half <= x
    PROVE  Signed(x) <= x
<1>1. CASE x < Half
  BY <1>1, SignedSmall
<1>2. CASE x >= Half
  BY <1>2, SignedClass, Width
<1> QED BY <1>1, <1>2, Width

\* Later moves a timestamp on by any number of milliseconds, in one go or two.
LEMMA LaterTwice ==
    ASSUME NEW c \in Int, NEW d \in Int, NEW n \in Int
    PROVE  Later(c, d) \in Stamp /\ Later(Later(c, d), n) = Later(c, d + n)
<1>1. (c + d) \in Int /\ (((c + d) % Mod) + n) % Mod = ((c + d) + n) % Mod
  BY RemainderOfSum, Width
<1>2. (c + d) + n = c + (d + n)
  OBVIOUS
<1>3. (c + d) % Mod \in Stamp
  BY <1>1, Remainder, Width DEF Stamp
<1> QED BY <1>1, <1>2, <1>3 DEF Later

\* Timestamps are timestamps.
LEMMA LaterStamp ==
    ASSUME NEW c \in Int, NEW d \in Int
    PROVE  Later(c, d) \in Stamp /\ Later(c, d) \in 0..(Mod - 1)
BY LaterTwice, 0 \in Int DEF Stamp

\* _itimediff of two timestamps, n apart.
LEMMA DiffOfLater ==
    ASSUME NEW c \in Int, NEW n \in Int
    PROVE  Diff(c, Later(c, n)) = Signed(-n) /\ Diff(Later(c, n), c) = Signed(n)
<1> DEFINE z == c + n
           b == -c
           w == -n
<1>0. z \in Int /\ b \in Int
  OBVIOUS
<1>1. c - z = w /\ z + b = n
  OBVIOUS
<1> HIDE DEF z, b, w
<1>2. (c - (z % Mod)) % Mod = (c - z) % Mod
  BY <1>0, RemainderOfDifference, Width
<1>6. ((z % Mod) + b) % Mod = (z + b) % Mod
  BY <1>0, RemainderOfSum, Width
<1>3. z % Mod \in Int /\ (z % Mod) + b = (z % Mod) - c
  BY <1>0, Remainder, Width DEF b
<1>4. (c - (z % Mod)) % Mod = w % Mod /\ ((z % Mod) - c) % Mod = n % Mod
  BY <1>1, <1>2, <1>3, <1>6
<1>5. Signed(c - (z % Mod)) = Signed(w) /\ Signed((z % Mod) - c) = Signed(n)
  BY <1>4 DEF Signed
<1> QED BY <1>5 DEF Diff, Later, z, w

\* A timestamp is as far from another as _itimediff says.
LEMMA LaterOfDiff ==
    ASSUME NEW c \in Int, NEW ts \in Stamp
    PROVE  /\ Diff(c, ts) \in Int /\ -Half <= Diff(c, ts) /\ Diff(c, ts) < Half
           /\ ts = Later(c, -Diff(c, ts))
<1>1. ts \in Int /\ c - ts \in Int /\ ts < Mod /\ 0 <= ts
  BY Width DEF Stamp
<1>2. PICK k \in Int : Diff(c, ts) = (c - ts) + (k * Mod)
  BY <1>1, SignedClass DEF Diff
<1>3. Diff(c, ts) \in Int /\ -Half <= Diff(c, ts) /\ Diff(c, ts) < Half
  BY <1>1, SignedClass DEF Diff
<1>4. -k \in Int /\ c - Diff(c, ts) = ((-k) * Mod) + ts /\ c - Diff(c, ts) \in Int
  BY <1>1, <1>2, <1>3, Width
<1>5. (c - Diff(c, ts)) % Mod = ts
  BY <1>1, <1>4, OneRemainder, Width
<1>6. c + (-Diff(c, ts)) = c - Diff(c, ts)
  BY <1>3
<1> QED BY <1>3, <1>5, <1>6 DEF Later

-----------------------------------------------------------------------------
(* The invariant *)

\* ts_flush is ahead of the clock by what is left of the wait.
Within(limit) == \E k \in 1..limit : ts_flush = Later(current, k) /\ time - since + k <= limit

\* The plan of ikcp_update: the next flush is at most an interval after the
\* last one, or, when the clock has been set, JumpLimit after that.
Plan ==
    /\ updated <=> after # "start"
    /\ ~updated => echo = {} /\ DOMAIN snd_buf = {}
    /\ after = "flush" => Within(Interval)
    /\ after = "jump" => Within(JumpLimit)

\* The timer of a segment: it was not due at the last flush, and resendts
\* says when it is.  Every transmission adds at most RtoMax.
Timer(s, flushed, flush, c, t) ==
    /\ RtoMin <= s.rto /\ s.rto <= RtoMax * s.xmit /\ s.xmit <= MaxXmit
    /\ s.steady => /\ flushed = "flush" /\ s.sent <= flush /\ flush - s.sent < s.rto
                   /\ s.resendts = Later(c, s.sent + s.rto - t)
Timers == \A sn \in DOMAIN snd_buf : Timer(snd_buf[sn], after, since, current, time)

\* An acknowledgement echoes the clock of the transmission it is for.
Echo(a) ==
    /\ a.at \in 0..time /\ a.ts \in Stamp
    /\ jumps = 0 => a.ts = Later(current, a.at - time)
Echoes == \A a \in echo : Echo(a)

Samples == longest \in Nat /\ RttWithinSamples

KTInv == TypeOK /\ Plan /\ Timers /\ Echoes /\ Samples

\* The clock starts with nothing sent.
LEMMA KTInit == Init => KTInv
<1> SUFFICES ASSUME Init PROVE KTInv
  OBVIOUS
<1>1. TypeOK
  <2>1. 0 \in 0..(Mod - 1) /\ 0 \in 0..(Mod \div 2) /\ RtoDef \in RtoMin..RtoMax
    BY KcpTimersAssumption, Width DEF Half
  <2>2. DOMAIN snd_buf = {}
    BY DEF Init
  <2>3. /\ current \in 0..(Mod - 1) /\ ts_flush \in 0..(Mod - 1) /\ rx_srtt \in 0..(Mod \div 2)
        /\ rx_rto \in RtoMin..RtoMax
    BY <2>1 DEF Init
  <2>4. updated \in BOOLEAN
    BY Zenon DEF Init
  <2>6. /\ state \in {0, -1} /\ snd_una \in 0..snd_nxt /\ snd_nxt \in Nat
        /\ rx_rttval \in Int /\ time \in Nat /\ jumps \in Nat
    BY DEF Init
  <2>5. since \in 0..time /\ after \in {"start", "flush", "jump"}
    BY DEF Init
  <2> QED BY <2>2, <2>3, <2>4, <2>5, <2>6 DEF TypeOK
<1>2. Plan /\ Timers /\ Echoes
  BY DEF Init, Plan, Timers, Echoes
<1>3. Samples
  BY DEF Init, Samples, RttWithinSamples
<1> QED BY <1>1, <1>2, <1>3 DEF KTInv

-----------------------------------------------------------------------------
(* ikcp_update *)

\* When the next flush was planned for, and whether the plan still stands.
Planned(c) == IF updated THEN ts_flush ELSE c
From(c) == IF OutOfStep(Diff(c, Planned(c))) THEN c ELSE Planned(c)

\* The constants that count time are numbers.
LEMMA Numbers ==
    /\ Interval \in Nat /\ Interval > 0 /\ JumpLimit \in Nat /\ JumpLimit > 0
    /\ Start \in Stamp /\ Gaps \subseteq Nat /\ Jumps \subseteq Int
    /\ RtoMin \in Nat /\ RtoMin > 0 /\ RtoMax \in Nat /\ MaxXmit \in Nat
    /\ Interval <= Half /\ JumpLimit <= Half /\ \A d \in Gaps : d + Interval <= Half
    /\ RtoMax * MaxXmit <= Half
BY KcpTimersAssumption, ClockAssumption DEF Half, Stamp

\* A call of ikcp_update, d after the last with the clock set by j: what it
\* does in any case, and what when it flushes or waits for its plan.
Ticks(d, j) ==
    /\ time' = time + d /\ time' \in Nat /\ time \in Nat /\ d \in Nat /\ j \in Int
    /\ current' = Later(IF updated THEN current ELSE Start, d + j) /\ current' \in Stamp
    /\ updated' = TRUE /\ jumps' = jumps + (IF j = 0 THEN 0 ELSE 1)
    /\ UNCHANGED <<snd_una, rttVars>>
Flushes(j) ==
    /\ Diff(current', From(current')) >= 0
    /\ ts_flush' = IF Diff(current', Later(From(current'), Interval)) >= 0
                   THEN Later(current', Interval) ELSE Later(From(current'), Interval)
    /\ Flush(Waiting(j), current', time')
    /\ since' = time' /\ after' = "flush"
Waits(j) ==
    /\ Diff(current', From(current')) < 0
    /\ ts_flush' = From(current') /\ snd_buf' = Waiting(j)
    /\ since' = (IF j = 0 THEN since ELSE time') /\ after' = (IF j = 0 THEN after ELSE "jump")
    /\ UNCHANGED <<state, snd_nxt, echo>>

LEMMA UpdateCases ==
    ASSUME TypeOK, NEW d \in Gaps, NEW j \in {0} \cup Jumps, Update(d, j)
    PROVE  Ticks(d, j) /\ (Flushes(j) \/ Waits(j))
<1>1. d \in Nat /\ j \in Int /\ time \in Nat
  BY Numbers DEF TypeOK
<1>2. (IF updated THEN current ELSE Start) \in Int /\ d + j \in Int
  BY <1>1, Numbers, Width DEF TypeOK, Stamp
<1>3. Later(IF updated THEN current ELSE Start, d + j) \in Stamp
  BY <1>2, LaterTwice
<1>4. time' = time + d /\ current' = Later(IF updated THEN current ELSE Start, d + j)
  BY DEF Update
<1>5. Ticks(d, j)
  BY <1>1, <1>3, <1>4 DEF Update, Ticks
<1>6. Flushes(j) \/ Waits(j)
  BY DEF Update, Flushes, Waits, Planned, From
<1> QED BY <1>5, <1>6

\* A timestamp is its own distance from itself.
LEMMA NoDiff == ASSUME NEW c \in Stamp PROVE Diff(c, c) = 0
<1>1. c \in Int /\ c - c = 0
  BY Width DEF Stamp
<1> QED BY <1>1, SignedSmall, Width DEF Diff

\* What ikcp_update takes for the plan is less than JumpLimit away.
LEMMA FromNear ==
    ASSUME NEW c \in Stamp, Planned(c) \in Stamp
    PROVE  /\ From(c) \in Stamp /\ Diff(c, From(c)) \in Int
           /\ -JumpLimit <= Diff(c, From(c)) /\ Diff(c, From(c)) < JumpLimit
           /\ From(c) = c \/ From(c) = Planned(c)
           /\ From(c) = Later(c, -Diff(c, From(c)))
<1>1. c \in Int
  BY Width DEF Stamp
<1>2. Diff(c, c) = 0 /\ Diff(c, Planned(c)) \in Int
  BY <1>1, NoDiff, LaterOfDiff
<1>3. From(c) \in Stamp /\ (From(c) = c \/ From(c) = Planned(c))
  BY DEF From
<1>4. -JumpLimit <= Diff(c, From(c)) /\ Diff(c, From(c)) < JumpLimit /\ Diff(c, From(c)) \in Int
  BY <1>2, Numbers DEF From, OutOfStep
<1>5. From(c) = Later(c, -Diff(c, From(c)))
  BY <1>1, <1>3, LaterOfDiff
<1> QED BY <1>3, <1>4, <1>5

\* After a flush the next one is an interval away at most.
LEMMA NextFlush ==
    ASSUME NEW c \in Stamp, NEW f \in Stamp, NEW s \in Int, 0 <= s, s < JumpLimit,
           f = Later(c, -s), NEW ts,
           ts = IF Diff(c, Later(f, Interval)) >= 0 THEN Later(c, Interval) ELSE Later(f, Interval)
    PROVE  \E k \in 1..Interval : ts = Later(c, k)
<1> DEFINE n == -s + Interval
<1>1. c \in Int /\ -s \in Int /\ Interval \in Int /\ n \in Int /\ n <= Interval /\ -n \in Int
  BY Width, Numbers DEF Stamp
<1>2. Later(f, Interval) = Later(c, n)
  BY <1>1, LaterTwice
<1>3. CASE n > 0
  BY <1>1, <1>2, <1>3, Numbers
<1>4. CASE n <= 0
  <2>1. -Half <= -n /\ -n < Half /\ -n >= 0
    BY <1>1, <1>4, Numbers, Width
  <2>2. Signed(-n) = -n
    BY <1>1, <2>1, SignedSmall
  <2>3. Diff(c, Later(f, Interval)) = -n
    BY <1>1, <1>2, <2>2, DiffOfLater
  <2> QED BY <2>1, <2>3, Numbers
<1> QED BY <1>1, <1>3, <1>4

\* The plan is kept by a call that waits, and made anew by one that flushes.
LEMMA UpdatePlan ==
    ASSUME TypeOK, Plan, NEW d \in Gaps, NEW j \in {0} \cup Jumps, Update(d, j)
    PROVE  Plan'
<1> DEFINE c == current'
           s == Diff(c, From(c))
<1>1. c \in Stamp /\ c \in Int /\ Planned(c) \in Stamp /\ time' = time + d /\ time \in Nat /\ d \in Nat
      /\ time' - time' = 0 /\ since \in Nat /\ current \in Int
  <2>1. Ticks(d, j)
    BY UpdateCases
  <2>2. c \in Stamp /\ time' = time + d /\ time \in Nat /\ d \in Nat /\ time' \in Nat
    BY <2>1 DEF Ticks
  <2>3. c \in Int /\ Planned(c) \in Stamp /\ since \in Nat /\ current \in Int
    BY <2>2, Width DEF Planned, Stamp, TypeOK
  <2> QED BY <2>2, <2>3
<1>2. /\ From(c) \in Stamp /\ s \in Int /\ -JumpLimit <= s /\ s < JumpLimit
      /\ From(c) = c \/ From(c) = Planned(c)
      /\ From(c) = Later(c, -s)
  BY <1>1, FromNear
<1>3. CASE s >= 0
  <2>1. /\ ts_flush' = IF Diff(c, Later(From(c), Interval)) >= 0
                       THEN Later(c, Interval) ELSE Later(From(c), Interval)
        /\ since' = time' /\ after' = "flush" /\ updated' = TRUE
    <3>1. ~Waits(j)
      BY <1>2, <1>3 DEF Waits
    <3>2. Ticks(d, j) /\ Flushes(j)
      BY <3>1, UpdateCases
    <3> QED BY <3>2 DEF Ticks, Flushes
  <2> DEFINE f == From(c)
             ts == ts_flush'
  <2> HIDE DEF c, s, f, ts
  <2>5. ts = IF Diff(c, Later(f, Interval)) >= 0 THEN Later(c, Interval) ELSE Later(f, Interval)
    BY <2>1 DEF f, ts
  <2>6. f \in Stamp /\ f = Later(c, -s)
    BY <1>2 DEF f
  <2>7. \E k \in 1..Interval : ts = Later(c, k)
    BY <1>1, <1>2, <1>3, <2>5, <2>6, NextFlush
  <2>2. PICK k \in 1..Interval : ts_flush' = Later(c, k)
    BY <2>7 DEF ts
  <2>3. time' - since' + k <= Interval
    BY <1>1, <2>1, <2>2, Numbers
  <2>4. Within(Interval)'
    BY <2>2, <2>3 DEF Within, c
  <2> QED BY <2>1, <2>4 DEF Plan
<1>4. CASE s < 0
  <2>1. /\ ts_flush' = From(c) /\ since' = (IF j = 0 THEN since ELSE time')
        /\ after' = (IF j = 0 THEN after ELSE "jump") /\ updated' = TRUE
        /\ c = Later(IF updated THEN current ELSE Start, d + j)
    <3>1. ~Flushes(j)
      BY <1>2, <1>4 DEF Flushes
    <3>2. Ticks(d, j) /\ Waits(j)
      BY <3>1, UpdateCases
    <3> QED BY <3>2 DEF Ticks, Waits
  <2>2. From(c) = Planned(c) /\ Planned(c) # c
    BY <1>1, <1>2, <1>4, NoDiff
  <2>3. updated /\ ts_flush' = ts_flush
    BY <2>1, <2>2 DEF Planned
  <2>4. CASE j # 0
    <3>1. -s \in 1..JumpLimit /\ ts_flush' = Later(c, -s) /\ since' = time' /\ after' = "jump"
      BY <1>2, <1>4, <2>1, <2>4, Numbers
    <3>2. time' - since' + (-s) <= JumpLimit
      BY <1>1, <1>2, <3>1, Numbers
    <3>3. Within(JumpLimit)'
      BY <3>1, <3>2 DEF Within
    <3> QED BY <2>1, <3>1, <3>3 DEF Plan
  <2>5. CASE j = 0
    <3>1. ASSUME NEW limit \in Nat, limit <= Half, Within(limit) PROVE Within(limit)'
      <4>1. PICK k \in 1..limit : ts_flush = Later(current, k) /\ time - since + k <= limit
        BY <3>1 DEF Within
      <4>2. c = Later(current, d) /\ since' = since
        BY <1>1, <2>1, <2>3, <2>5
      <4> HIDE DEF c, s
      <4>3. k - d \in Int /\ d \in Int /\ d + (k - d) = k /\ -(k - d) = d - k
        BY <1>1
      <4>4. Later(c, k - d) = Later(current, k)
        BY <1>1, <4>2, <4>3, LaterTwice
      <4>5. Diff(c, ts_flush) = Signed(d - k)
        BY <1>1, <4>1, <4>3, <4>4, DiffOfLater
      <4>6. s = Signed(d - k)
        BY <2>2, <2>3, <4>5 DEF s, Planned
      <4>7. k > d
        <5>1. SUFFICES ASSUME d >= k PROVE FALSE
          BY <1>1
        <5>2. d - k < Half /\ -Half <= d - k
          BY <1>1, <5>1, Numbers, Width
        <5>3. Signed(d - k) = d - k
          BY <4>3, <5>2, SignedSmall
        <5> QED BY <1>1, <1>4, <4>6, <5>1, <5>3
      <4>8. k - d \in 1..limit /\ time' - since' + (k - d) <= limit
        BY <1>1, <4>1, <4>2, <4>7
      <4>9. ts_flush' = Later(current', k - d)
        BY <2>3, <4>1, <4>4 DEF c
      <4> QED BY <4>8, <4>9 DEF Within
    <3>2. after' = after /\ updated' = updated
      BY <2>1, <2>3, <2>5
    <3> QED BY <2>3, <3>1, <3>2, Numbers DEF Plan
  <2> QED BY <2>4, <2>5
<1> QED BY <1>2, <1>3, <1>4


-----------------------------------------------------------------------------
(* The timers of the segments *)

\* What ikcp_flush makes of the segments.
LEMMA FlushEffect ==
    ASSUME TypeOK, NEW j \in Int, Flush(Waiting(j), current', time')
    PROVE  /\ snd_nxt' \in Nat /\ snd_nxt <= snd_nxt' /\ state' \in {0, -1}
           /\ DOMAIN snd_buf' = DOMAIN snd_buf \cup snd_nxt..(snd_nxt' - 1)
           /\ \A sn \in snd_nxt..(snd_nxt' - 1) :
                  snd_buf'[sn] = FirstSent(current', time') /\ snd_buf'[sn].xmit <= MaxXmit
           /\ \A sn \in DOMAIN snd_buf :
                  /\ snd_buf'[sn] = Resend(Waiting(j)[sn], current', time')
                  /\ snd_buf'[sn].xmit # Waiting(j)[sn].xmit => snd_buf'[sn].xmit <= MaxXmit
           /\ \A a \in echo' \ echo : a.ts = current' /\ a.at = time'
<1> DEFINE old == Waiting(j)
<1>1. DOMAIN old = DOMAIN snd_buf
  BY DEF Waiting
<1> HIDE DEF old
<1>2. PICK count \in 0..MaxSegs :
        LET new == snd_nxt..(snd_nxt + count - 1)
            buf == [sn \in DOMAIN old \cup new |->
                       IF sn \in new THEN FirstSent(current', time')
                       ELSE Resend(old[sn], current', time')]
            sent == {sn \in DOMAIN buf : sn \in new \/ buf[sn].xmit # old[sn].xmit}
        IN /\ \A sn \in sent : buf[sn].xmit <= MaxXmit
           /\ snd_nxt' = snd_nxt + count
           /\ snd_buf' = buf
           /\ state' = IF \E sn \in sent : buf[sn].xmit >= DeadLink THEN -1 ELSE state
           /\ echo' = echo \cup {[sn |-> sn, ts |-> current', at |-> time'] : sn \in sent}
  BY DEF Flush, old
<1> DEFINE new == snd_nxt..(snd_nxt + count - 1)
<1>3. count \in Nat /\ snd_nxt \in Nat /\ snd_nxt' = snd_nxt + count
  BY <1>2, KcpTimersAssumption DEF TypeOK
<1>4. snd_nxt' \in Nat /\ snd_nxt <= snd_nxt' /\ new = snd_nxt..(snd_nxt' - 1)
  BY <1>3
<1>5. \A sn \in DOMAIN snd_buf : sn \notin new
  BY <1>3 DEF TypeOK
<1>6. snd_buf' = [sn \in DOMAIN old \cup new |->
                       IF sn \in new THEN FirstSent(current', time')
                       ELSE Resend(old[sn], current', time')]
  BY <1>2
<1>7. \A sn \in DOMAIN snd_buf' :
          sn \in new \/ snd_buf'[sn].xmit # old[sn].xmit => snd_buf'[sn].xmit <= MaxXmit
  BY <1>2
<1>8. state' \in {0, -1}
  BY <1>2 DEF TypeOK
<1>9. \A a \in echo' \ echo : a.ts = current' /\ a.at = time'
  <2>1. PICK sent : echo' = echo \cup {[sn |-> sn, ts |-> current', at |-> time'] : sn \in sent}
    BY <1>2
  <2> QED BY <2>1
<1> HIDE DEF new
<1> QED BY <1>1, <1>4, <1>5, <1>6, <1>7, <1>8, <1>9 DEF old

\* Multiples of RtoMax.
LEMMA Scale ==
    ASSUME NEW x \in Nat, NEW y \in Nat, x <= y
    PROVE  RtoMax * x \in Nat /\ RtoMax * x <= RtoMax * y /\ RtoMax * (x + 1) = RtoMax * x + RtoMax
<1>1. RtoMax \in Nat
  BY Numbers
<1>2. PICK n \in Nat : y = x + n
  BY y - x \in Nat
<1>3. RtoMax * (x + n) = RtoMax * x + RtoMax * n /\ RtoMax * n >= 0 /\ RtoMax * x \in Nat
  BY <1>1
<1>4. RtoMax * (x + 1) = RtoMax * x + RtoMax
  BY <1>1
<1> QED BY <1>1, <1>2, <1>3, <1>4

\* A segment with a steady timer, seen d later: its timer has not changed.
LEMMA SteadyTimer ==
    ASSUME TypeOK, Plan, Timers, NEW d \in Gaps, NEW j \in {0} \cup Jumps, Ticks(d, j),
           NEW sn \in DOMAIN snd_buf
    PROVE  LET s == snd_buf[sn]
               w == Waiting(j)[sn]
           IN /\ s \in SegState /\ w \in SegState
              /\ w = [s EXCEPT !.steady = w.steady] /\ (w.steady => j = 0 /\ s.steady)
              /\ RtoMin <= w.rto /\ w.rto <= RtoMax * w.xmit /\ w.rto <= Half /\ w.xmit <= MaxXmit
              /\ w.steady => /\ after = "flush" /\ w.sent <= since /\ since - w.sent < w.rto
                             /\ w.resendts = Later(current', w.sent + w.rto - time')
<1> DEFINE s == snd_buf[sn]
           w == Waiting(j)[sn]
<1>1. s \in SegState /\ Timer(s, after, since, current, time)
  BY DEF TypeOK, Timers
<1>2. w = IF j = 0 THEN s ELSE [s EXCEPT !.steady = FALSE]
  BY DEF Waiting
<1> HIDE DEF s, w
<1>3. w \in SegState /\ w = [s EXCEPT !.steady = w.steady] /\ (w.steady => j = 0 /\ s.steady)
  BY <1>1, <1>2 DEF SegState
<1>4. /\ w.rto = s.rto /\ w.xmit = s.xmit /\ w.sent = s.sent /\ w.resendts = s.resendts
      /\ w.rto \in Nat /\ w.xmit \in Nat /\ w.sent \in Nat
  BY <1>1, <1>2 DEF SegState
<1>5. RtoMin <= w.rto /\ w.rto <= RtoMax * w.xmit /\ w.xmit <= MaxXmit
  BY <1>1, <1>4 DEF Timer
<1>6. RtoMax * w.xmit \in Nat /\ RtoMax * w.xmit <= RtoMax * MaxXmit
  <2>1. MaxXmit \in Nat
    BY Numbers
  <2> QED BY <1>4, <1>5, <2>1, Scale
<1>7. w.rto <= Half
  <2>1. RtoMax * MaxXmit <= Half /\ RtoMax * MaxXmit \in Int
    BY Numbers
  <2> QED BY <1>4, <1>5, <1>6, <2>1, Width
<1>8. ASSUME w.steady
      PROVE  /\ after = "flush" /\ w.sent <= since /\ since - w.sent < w.rto
             /\ w.resendts = Later(current', w.sent + w.rto - time')
  <2>1. j = 0 /\ s.steady /\ after = "flush" /\ s.sent <= since /\ since - s.sent < s.rto
        /\ s.resendts = Later(current, s.sent + s.rto - time)
    BY <1>1, <1>3, <1>8 DEF Timer
  <2>2. updated /\ time' = time + d /\ time \in Nat /\ d \in Nat /\ current \in Int
    BY <2>1, Width DEF Plan, Ticks, TypeOK
  <2>3. current' = Later(current, d)
    BY <2>1, <2>2 DEF Ticks
  <2> DEFINE n == w.sent + w.rto - time'
  <2>4. n \in Int /\ d + n = s.sent + s.rto - time
    BY <1>4, <2>2
  <2> HIDE DEF n
  <2>5. Later(current', n) = Later(current, d + n)
    BY <2>2, <2>3, <2>4, LaterTwice
  <2> QED BY <1>4, <2>1, <2>4, <2>5 DEF n
<1> QED BY <1>1, <1>3, <1>5, <1>7, <1>8 DEF s, w

\* A steady timer is due just when its timeout has passed.
LEMMA DueInTime ==
    ASSUME TypeOK, Plan, Timers, NEW d \in Gaps, NEW j \in {0} \cup Jumps, Ticks(d, j),
           NEW sn \in DOMAIN snd_buf, Waiting(j)[sn].steady
    PROVE  Due(Waiting(j)[sn], current') <=> time' - Waiting(j)[sn].sent >= Waiting(j)[sn].rto
<1> DEFINE w == Waiting(j)[sn]
           n == w.sent + w.rto - time'
<1>1. /\ w \in SegState /\ w.rto <= Half /\ after = "flush" /\ w.sent <= since
      /\ since - w.sent < w.rto /\ w.resendts = Later(current', n)
  BY SteadyTimer
<1>2. w.sent \in Nat /\ w.rto \in Nat
  BY <1>1 DEF SegState
<1>3. /\ time' = time + d /\ time \in Nat /\ d \in Nat /\ time' \in Nat /\ current' \in Int
      /\ since \in Nat /\ since <= time
  BY Width DEF Ticks, Stamp, TypeOK
<1>4. time - since < Interval
  BY <1>1, <1>3, Numbers DEF Plan, Within
<1> HIDE DEF w
<1>5. n \in Int /\ -n = time' - w.sent - w.rto /\ -n \in Int
  BY <1>2, <1>3
<1>6. -Half <= -n /\ -n < Half
  <2>1. d + Interval <= Half /\ Interval \in Nat
    BY Numbers
  <2> QED BY <1>1, <1>2, <1>3, <1>4, <1>5, <2>1, Width
<1> HIDE DEF n
<1>7. Diff(current', w.resendts) = -n
  BY <1>1, <1>3, <1>5, <1>6, DiffOfLater, SignedSmall
<1> QED BY <1>2, <1>3, <1>5, <1>7 DEF Due, w

\* A segment sent again without its timer.
LEMMA FastResentState ==
    ASSUME NEW w \in SegState, NEW c \in Stamp, NEW t \in Nat
    PROVE  LET s == FastResent(w, c, t)
           IN /\ s \in SegState /\ s.rto = w.rto /\ s.xmit = w.xmit + 1 /\ s.sent = t
              /\ s.resendts = Later(c, s.rto)
<1>1. w.rto \in Int /\ c \in Int
  BY Width DEF SegState, Stamp
<1> DEFINE ts == Later(c, w.rto)
           x == w.xmit + 1
<1>2. ts \in 0..(Mod - 1)
  BY <1>1, LaterStamp
<1>3. x \in Nat \ {0}
  BY DEF SegState
<1> HIDE DEF ts, x
<1>4. FastResent(w, c, t) = [w EXCEPT !.xmit = x, !.fastack = 0, !.resendts = ts,
                                      !.sent = t, !.steady = TRUE]
  BY DEF FastResent, ts, x
<1>5. /\ FastResent(w, c, t).rto = w.rto /\ FastResent(w, c, t).resendts = ts
      /\ FastResent(w, c, t).xmit = x /\ FastResent(w, c, t).sent = t
  BY <1>4 DEF SegState
<1>6. FastResent(w, c, t) \in SegState
  <2>1. FastResent(w, c, t) = [resendts |-> ts, rto |-> w.rto, xmit |-> x, fastack |-> 0,
                               sent |-> t, steady |-> TRUE]
    BY <1>4 DEF SegState
  <2>2. w.rto \in Nat /\ TRUE \in BOOLEAN /\ 0 \in Nat
    BY DEF SegState
  <2> QED BY <1>2, <1>3, <2>1, <2>2 DEF SegState
<1> QED BY <1>5, <1>6 DEF ts, x

\* ikcp_update keeps the timers and the types of the segments.
LEMMA UpdateTimers ==
    ASSUME TypeOK, Plan, Timers, NEW d \in Gaps, NEW j \in {0} \cup Jumps, Update(d, j)
    PROVE  Timers' /\ \A sn \in DOMAIN snd_buf' : snd_buf'[sn] \in SegState
<1>1. Ticks(d, j) /\ (Flushes(j) \/ Waits(j))
  BY UpdateCases
<1>2. /\ time' = time + d /\ time \in Nat /\ d \in Nat /\ time' \in Nat /\ current' \in Stamp
      /\ current' \in Int /\ since \in Nat /\ since <= time /\ j \in Int
  BY <1>1, Width DEF Ticks, Stamp, TypeOK
<1>3. CASE Waits(j)
  <2>1. ASSUME NEW sn \in DOMAIN snd_buf' PROVE Timer(snd_buf'[sn], after', since', current', time') /\ snd_buf'[sn] \in SegState
    <3>1. sn \in DOMAIN snd_buf /\ snd_buf'[sn] = Waiting(j)[sn]
      BY <1>3, <2>1 DEF Waits, Waiting
    <3> DEFINE w == Waiting(j)[sn]
    <3>2. /\ w \in SegState /\ RtoMin <= w.rto /\ w.rto <= RtoMax * w.xmit /\ w.xmit <= MaxXmit
          /\ w.steady => /\ j = 0 /\ after = "flush" /\ w.sent <= since /\ since - w.sent < w.rto
                         /\ w.resendts = Later(current', w.sent + w.rto - time')
      BY <1>1, <3>1, SteadyTimer
    <3> HIDE DEF w
    <3>3. w.steady => after' = "flush" /\ since' = since
      BY <1>3, <3>2 DEF Waits
    <3>4. snd_buf'[sn] = w
      BY <3>1 DEF w
    <3> QED BY <3>2, <3>3, <3>4 DEF Timer
  <2> QED BY <2>1 DEF Timers
<1>4. CASE Flushes(j)
  <2>1. Flush(Waiting(j), current', time') /\ since' = time' /\ after' = "flush"
    BY <1>4 DEF Flushes
  <2>2. ASSUME NEW s \in SegState, s.rto >= RtoMin, s.rto <= RtoMax * s.xmit, s.xmit <= MaxXmit,
               s.sent = time', s.resendts = Later(current', s.rto)
        PROVE  Timer(s, after', since', current', time')
    <3>1. s.rto \in Nat /\ s.rto > 0 /\ s.sent + s.rto - time' = s.rto /\ since' - s.sent = 0
      BY <1>2, <2>1, <2>2, Numbers DEF SegState
    <3> QED BY <1>2, <2>1, <2>2, <3>1 DEF Timer
  <2>3. ASSUME NEW sn \in snd_nxt..(snd_nxt' - 1)
        PROVE  Timer(snd_buf'[sn], after', since', current', time') /\ snd_buf'[sn] \in SegState
    <3> DEFINE s == FirstSent(current', time')
    <3>1. snd_buf'[sn] = s /\ s.xmit <= MaxXmit
      BY <1>2, <2>1, <2>3, FlushEffect
    <3>2. rx_rto \in Nat /\ RtoMin <= rx_rto /\ rx_rto <= RtoMax * 1
      BY Numbers DEF TypeOK
    <3>3. Later(current', rx_rto) \in 0..(Mod - 1)
      BY <1>2, <3>2, LaterStamp
    <3>4. s \in SegState
      BY <1>2, <3>2, <3>3 DEF SegState, FirstSent
    <3>5. s.rto = rx_rto /\ s.xmit = 1 /\ s.sent = time' /\ s.resendts = Later(current', s.rto)
      BY DEF FirstSent
    <3> HIDE DEF s
    <3>6. Timer(s, after', since', current', time')
      BY <2>2, <3>1, <3>2, <3>4, <3>5
    <3> QED BY <3>1, <3>4, <3>6
  <2>4. ASSUME NEW sn \in DOMAIN snd_buf
        PROVE  Timer(snd_buf'[sn], after', since', current', time') /\ snd_buf'[sn] \in SegState
    <3> DEFINE w == Waiting(j)[sn]
               s == Resend(w, current', time')
    <3>1. snd_buf'[sn] = s /\ (s.xmit # w.xmit => s.xmit <= MaxXmit)
      BY <1>2, <2>1, <2>4, FlushEffect
    <3>2. /\ w \in SegState /\ RtoMin <= w.rto /\ w.rto <= RtoMax * w.xmit /\ w.xmit <= MaxXmit
          /\ w.steady => /\ w.sent <= since /\ since - w.sent < w.rto
                         /\ w.resendts = Later(current', w.sent + w.rto - time')
      BY <1>1, <2>4, SteadyTimer
    <3>3. w.steady => (Due(w, current') <=> time' - w.sent >= w.rto)
      BY <1>1, <2>4, DueInTime
    <3> HIDE DEF w
    <3>4. /\ w.rto \in Nat /\ w.xmit \in Nat \ {0} /\ w.xmit + 1 \in Nat \ {0} /\ w.xmit + 1 # w.xmit
          /\ w.sent \in Nat /\ RtoMax * (w.xmit + 1) = RtoMax * w.xmit + RtoMax
          /\ RtoMax * w.xmit \in Nat
      BY <3>2, Scale DEF SegState
    <3>5. CASE Due(w, current')
      <4> DEFINE rto == w.rto + rx_rto \div 2
      <4>1. rto \in Nat /\ RtoMin <= rto /\ rto <= RtoMax * (w.xmit + 1)
        <5>1. rx_rto \in Nat /\ rx_rto <= RtoMax /\ RtoMax \in Nat /\ rx_rto \div 2 \in Nat
              /\ rx_rto \div 2 <= rx_rto
          BY Numbers DEF TypeOK
        <5> QED BY <3>2, <3>4, <5>1, Numbers
      <4>2. Later(current', rto) \in 0..(Mod - 1)
        BY <1>2, <4>1, LaterStamp
      <4> HIDE DEF rto
      <4>3. s = [w EXCEPT !.xmit = @ + 1, !.rto = rto, !.resendts = Later(current', rto),
                          !.sent = time', !.steady = TRUE]
        BY <3>5 DEF Resend, TimedOut, rto
      <4>4. /\ s \in SegState /\ s.rto = rto /\ s.xmit = w.xmit + 1 /\ s.sent = time'
            /\ s.resendts = Later(current', s.rto)
        BY <1>2, <3>2, <3>4, <4>1, <4>2, <4>3 DEF SegState
      <4> HIDE DEF s
      <4>5. Timer(s, after', since', current', time')
        BY <2>2, <3>1, <3>4, <4>1, <4>4
      <4> QED BY <3>1, <4>4, <4>5
    <3>6. CASE ~Due(w, current') /\ w.fastack >= Resent
      <4>2. s = FastResent(w, current', time')
        BY <3>6 DEF Resend
      <4> HIDE DEF s
      <4>3. /\ s \in SegState /\ s.rto = w.rto /\ s.xmit = w.xmit + 1 /\ s.sent = time'
            /\ s.resendts = Later(current', s.rto)
        BY <1>2, <3>2, <4>2, FastResentState
      <4>4. s.rto <= RtoMax * s.xmit
        BY <3>2, <3>4, <4>3, Numbers
      <4>5. Timer(s, after', since', current', time')
        BY <2>2, <3>1, <3>2, <3>4, <4>3, <4>4
      <4> QED BY <3>1, <4>3, <4>5
    <3>7. CASE ~Due(w, current') /\ ~(w.fastack >= Resent)
      <4>1. s = w
        BY <3>7 DEF Resend
      <4>2. w.steady => w.sent <= since' /\ since' - w.sent < w.rto
        BY <1>2, <2>1, <3>2, <3>3, <3>4, <3>7
      <4>3. Timer(w, after', since', current', time')
        BY <2>1, <3>2, <4>2 DEF Timer
      <4> QED BY <3>1, <3>2, <4>1, <4>3
    <3> QED BY <3>5, <3>6, <3>7
  <2>5. DOMAIN snd_buf' = DOMAIN snd_buf \cup snd_nxt..(snd_nxt' - 1)
    BY <1>2, <2>1, FlushEffect
  <2> QED BY <2>3, <2>4, <2>5 DEF Timers
<1> QED BY <1>1, <1>3, <1>4

\* No timer goes off early.
LEMMA UpdateNotEarly ==
    ASSUME TypeOK, Plan, Timers, NEW d \in Gaps, NEW j \in {0} \cup Jumps, Update(d, j),
           NEW sn \in DOMAIN snd_buf, snd_buf'[sn].xmit # snd_buf[sn].xmit,
           snd_buf[sn].steady, jumps' = jumps, snd_buf[sn].fastack < Resent
    PROVE  time' - snd_buf[sn].sent >= snd_buf[sn].rto
<1>1. Ticks(d, j) /\ (Flushes(j) \/ Waits(j))
  BY UpdateCases
<1>2. j = 0 /\ j \in Int
  BY <1>1 DEF Ticks, TypeOK
<1>3. Waiting(j)[sn] = snd_buf[sn]
  BY <1>2 DEF Waiting
<1>4. Flushes(j)
  BY <1>1, <1>3 DEF Waits
<1>5. snd_buf'[sn] = Resend(snd_buf[sn], current', time')
  BY <1>2, <1>3, <1>4, FlushEffect DEF Flushes
<1>6. snd_buf[sn].fastack \in Nat /\ Resent \in Nat
  BY KcpTimersAssumption DEF TypeOK, SegState
<1>7. Due(snd_buf[sn], current')
  BY <1>5, <1>6 DEF Resend
<1> QED BY <1>1, <1>3, <1>7, DueInTime

-----------------------------------------------------------------------------
(* The types, the echoes and the samples *)

\* ikcp_update keeps the types.
LEMMA UpdateTypes ==
    ASSUME TypeOK, Plan, Timers, NEW d \in Gaps, NEW j \in {0} \cup Jumps, Update(d, j)
    PROVE  TypeOK'
<1>1. Ticks(d, j) /\ (Flushes(j) \/ Waits(j))
  BY UpdateCases
<1>2. \A sn \in DOMAIN snd_buf' : snd_buf'[sn] \in SegState
  BY UpdateTimers
<1>3. /\ time' \in Nat /\ current' \in Stamp /\ current' \in Int /\ updated' = TRUE /\ j \in Int
      /\ time <= time' /\ jumps' \in Nat /\ UNCHANGED <<snd_una, rttVars>>
  BY <1>1, Width DEF Ticks, Stamp, TypeOK
<1>4. From(current') \in Stamp
  BY <1>3, FromNear DEF Planned, TypeOK, Stamp
<1>5. Interval \in Int
  BY Numbers
<1>6. CASE Flushes(j)
  <2>1. Flush(Waiting(j), current', time') /\ since' = time' /\ after' = "flush"
    BY <1>6 DEF Flushes
  <2>2. /\ snd_nxt' \in Nat /\ snd_nxt <= snd_nxt' /\ state' \in {0, -1}
        /\ DOMAIN snd_buf' = DOMAIN snd_buf \cup snd_nxt..(snd_nxt' - 1)
    BY <1>3, <2>1, FlushEffect
  <2>3. From(current') \in Int
    BY <1>4, Width DEF Stamp
  <2>4. Later(current', Interval) \in Stamp
    BY <1>3, <1>5, LaterStamp DEF Stamp
  <2>5. Later(From(current'), Interval) \in Stamp
    BY <1>5, <2>3, LaterStamp DEF Stamp
  <2>6. ts_flush' \in Stamp
    BY <1>6, <2>4, <2>5 DEF Flushes
  <2>7. DOMAIN snd_buf' \subseteq snd_una..(snd_nxt' - 1) /\ snd_una \in 0..snd_nxt'
    BY <2>2 DEF TypeOK
  <2> QED BY <1>2, <1>3, <2>1, <2>2, <2>6, <2>7 DEF TypeOK, Stamp, rttVars
<1>7. CASE Waits(j)
  <2>1. DOMAIN snd_buf' = DOMAIN snd_buf
    BY <1>7 DEF Waits, Waiting
  <2>2. ts_flush' \in Stamp /\ UNCHANGED <<state, snd_nxt, echo>>
    BY <1>4, <1>7 DEF Waits
  <2>3. since' \in 0..time' /\ after' \in {"start", "flush", "jump"}
    BY <1>3, <1>7 DEF Waits, TypeOK
  <2> QED BY <1>2, <1>3, <2>1, <2>2, <2>3 DEF TypeOK, Stamp, rttVars
<1> QED BY <1>1, <1>6, <1>7

\* What was sent at this clock echoes it, and what was sent before is as far
\* back as its clock.
LEMMA UpdateEchoes ==
    ASSUME TypeOK, Plan, Timers, Echoes, NEW d \in Gaps, NEW j \in {0} \cup Jumps, Update(d, j)
    PROVE  Echoes'
<1>1. Ticks(d, j) /\ (Flushes(j) \/ Waits(j))
  BY UpdateCases
<1>2. /\ time' = time + d /\ time \in Nat /\ d \in Nat /\ time' \in Nat /\ current' \in Stamp
      /\ current' \in Int /\ current \in Int /\ j \in Int
      /\ jumps' = jumps + (IF j = 0 THEN 0 ELSE 1) /\ jumps \in Nat
      /\ current' = Later(IF updated THEN current ELSE Start, d + j)
  BY <1>1, Width DEF Ticks, Stamp, TypeOK
<1>3. ASSUME NEW a \in echo PROVE Echo(a)'
  <2>1. a.at \in 0..time /\ a.ts \in Stamp /\ (jumps = 0 => a.ts = Later(current, a.at - time))
    BY DEF Echoes, Echo
  <2>2. a.at \in 0..time'
    BY <1>2, <2>1
  <2>3. ASSUME jumps' = 0 PROVE a.ts = Later(current', a.at - time')
    <3>1. j = 0 /\ jumps = 0
      BY <1>2, <2>3
    <3>2. updated
      BY DEF Plan
    <3>3. current' = Later(current, d)
      BY <1>2, <3>1, <3>2
    <3> DEFINE n == a.at - time'
    <3>4. n \in Int /\ d + n = a.at - time
      BY <1>2, <2>1
    <3> HIDE DEF n
    <3>5. Later(current', n) = Later(current, d + n)
      BY <1>2, <3>3, <3>4, LaterTwice
    <3> QED BY <2>1, <3>1, <3>4, <3>5 DEF n
  <2> QED BY <2>1, <2>2, <2>3 DEF Echo
<1>4. ASSUME NEW a \in echo' \ echo PROVE Echo(a)'
  <2>1. a.ts = current' /\ a.at = time'
    BY <1>1, <1>2, FlushEffect DEF Flushes, Waits
  <2>2. Later(current', 0) = current'
    <3>1. current' = (0 * Mod) + current' /\ 0 <= current' /\ current' < Mod /\ current' + 0 = current'
      BY <1>2, Width DEF Stamp
    <3>2. current' % Mod = current'
      BY <1>2, <3>1, Width, OneRemainder
    <3> QED BY <3>1, <3>2 DEF Later
  <2>3. a.at \in 0..time' /\ a.at - time' = 0
    BY <1>2, <2>1
  <2> QED BY <1>2, <2>1, <2>2, <2>3 DEF Echo
<1> QED BY <1>3, <1>4 DEF Echoes

\* ikcp_update takes no sample.
LEMMA UpdateSamples ==
    ASSUME TypeOK, Samples, NEW d \in Gaps, NEW j \in {0} \cup Jumps, Update(d, j)
    PROVE  Samples'
<1>1. Ticks(d, j)
  BY UpdateCases
<1>2. jumps' = 0 => jumps = 0
  BY <1>1 DEF Ticks, TypeOK
<1>3. UNCHANGED <<rx_srtt, rx_rttval, longest>>
  BY <1>1 DEF Ticks, rttVars
<1> QED BY <1>2, <1>3 DEF Samples, RttWithinSamples

-----------------------------------------------------------------------------
(* ikcp_input *)

\* C's division by a positive number.
LEMMA QuotientBound ==
    ASSUME NEW x \in Int, NEW n \in Nat, n > 0
    PROVE  /\ Quotient(x, n) \in Int
           /\ x < 0 => Quotient(x, n) <= 0
           /\ x >= 0 => Quotient(x, n) = x \div n
<1>1. x \div n \in Int /\ -x \in Int
  BY Remainder
<1>2. (-x) \div n \in Int
  BY <1>1, Remainder
<1>3. CASE x >= 0
  BY <1>1, <1>3 DEF Quotient
<1>4. CASE x < 0
  <2>1. Quotient(x, n) = -((-x) \div n)
    BY <1>4 DEF Quotient
  <2> DEFINE q == (-x) \div n
             r == (-x) % n
  <2>2. q \in Int /\ r \in Int /\ r < n /\ -x = (q * n) + r
    BY <1>1, Remainder
  <2>3. -x > 0
    BY <1>4
  <2> HIDE DEF q, r
  <2>4. ~(q <= -1)
    <3>1. SUFFICES ASSUME q <= -1 PROVE FALSE
      OBVIOUS
    <3>2. PICK m \in Nat : q = -1 - m
      BY <2>2, <3>1, -1 - q \in Nat
    <3>3. q * n = -n - (m * n) /\ m * n >= 0 /\ m * n \in Int
      BY <3>2
    <3> QED BY <2>2, <2>3, <3>3
  <2> QED BY <1>4, <2>1, <2>2, <2>4 DEF q
<1> QED BY <1>3, <1>4

\* A weighted mean of the smoothed round trip time and a sample, in 32 bits.
LEMMA SmoothedBound ==
    ASSUME TypeOK, NEW rtt \in Nat, rtt < Half
    PROVE  /\ Smoothed(rtt) \in Int /\ Smoothed(rtt) <= Half
           /\ \A bound \in Nat : rx_srtt <= bound + 1 /\ rtt <= bound => Smoothed(rtt) <= bound
<1> DEFINE y == Signed(7 * rx_srtt)
           z == Signed(y + rtt)
<1>1. rx_srtt \in Int /\ 0 <= rx_srtt /\ 7 * rx_srtt \in Int /\ -Half <= 7 * rx_srtt
  BY Width DEF TypeOK, Half
<1>2. y \in Int /\ -Half <= y /\ y <= 7 * rx_srtt
  BY <1>1, SignedClass, SignedBelow
<1> HIDE DEF y
<1>3. y + rtt \in Int /\ -Half <= y + rtt
  BY <1>2, Width
<1>4. z \in Int /\ z < Half /\ z <= y + rtt
  BY <1>3, SignedClass, SignedBelow
<1> HIDE DEF z
<1>5. Smoothed(rtt) = Quotient(z, 8)
  BY DEF Smoothed, y, z
<1>6. Smoothed(rtt) \in Int /\ (z < 0 => Smoothed(rtt) <= 0) /\ (z >= 0 => Smoothed(rtt) = z \div 8)
  BY <1>4, <1>5, QuotientBound
<1>7. Smoothed(rtt) <= Half
  BY <1>4, <1>6, Width
<1>8. ASSUME NEW bound \in Nat, rx_srtt <= bound + 1, rtt <= bound PROVE Smoothed(rtt) <= bound
  <2>1. z <= 8 * bound + 7
    BY <1>1, <1>2, <1>4, <1>8
  <2> QED BY <1>4, <1>6, <2>1
<1> QED BY <1>6, <1>7, <1>8

\* The variation, when its threefold fits.
LEMMA VariationBound ==
    ASSUME TypeOK, NEW delta \in Nat
    PROVE  LET v == Quotient(Signed(3 * rx_rttval) + delta, 4)
           IN /\ v \in Int
              /\ \A bound \in Nat :
                     3 * bound < Half /\ rx_rttval \in 0..bound /\ delta <= bound => v \in 0..bound
<1> DEFINE y == Signed(3 * rx_rttval)
           v == Quotient(y + delta, 4)
<1>1. rx_rttval \in Int /\ 3 * rx_rttval \in Int
  BY DEF TypeOK
<1>2. y \in Int
  BY <1>1, SignedClass
<1> HIDE DEF y
<1>3. y + delta \in Int
  BY <1>2
<1>4. v \in Int /\ (y + delta >= 0 => v = (y + delta) \div 4)
  BY <1>3, QuotientBound
<1> HIDE DEF v
<1>5. ASSUME NEW bound \in Nat, 3 * bound < Half, rx_rttval \in 0..bound, delta <= bound
      PROVE  v \in 0..bound
  <2>1. -Half <= 3 * rx_rttval /\ 3 * rx_rttval < Half
    BY <1>5, Width
  <2>2. y = 3 * rx_rttval
    BY <1>1, <2>1, SignedSmall DEF y
  <2>3. 0 <= y + delta /\ y + delta <= 4 * bound
    BY <1>2, <1>5, <2>2
  <2> QED BY <1>3, <1>4, <1>5, <2>3
<1> QED BY <1>4, <1>5 DEF v, y

\* ikcp_update_ack keeps the types, and the estimates within the samples.
LEMMA SampleTaken ==
    ASSUME TypeOK, NEW rtt \in Nat, rtt < Half, UpdateAck(rtt)
    PROVE  /\ rx_srtt' \in 0..(Mod \div 2) /\ rx_rttval' \in Int /\ rx_rto' \in RtoMin..RtoMax
           /\ \A bound \in Nat : rx_srtt <= bound + 1 /\ rtt <= bound =>
                  /\ rx_srtt' <= bound + 1
                  /\ 3 * (bound + 1) < Half /\ rx_rttval \in 0..(bound + 1)
                     => rx_rttval' \in 0..(bound + 1)
<1> DEFINE delta == IF rtt >= rx_srtt THEN rtt - rx_srtt ELSE rx_srtt - rtt
           v == Quotient(Signed(3 * rx_rttval) + delta, 4)
<1>1. rx_srtt \in Nat /\ delta \in Nat
  BY Width DEF TypeOK, Half
<1>2. /\ Smoothed(rtt) \in Int /\ Smoothed(rtt) <= Half
      /\ \A bound \in Nat : rx_srtt <= bound + 1 /\ rtt <= bound => Smoothed(rtt) <= bound
  BY SmoothedBound
<1>3. rx_srtt' = IF rx_srtt = 0 THEN rtt ELSE IF Smoothed(rtt) < 1 THEN 1 ELSE Smoothed(rtt)
  BY DEF UpdateAck
<1>4. rx_rttval' = IF rx_srtt = 0 THEN rtt \div 2 ELSE v
  BY DEF UpdateAck
<1>5. /\ v \in Int
      /\ \A bound \in Nat :
             3 * bound < Half /\ rx_rttval \in 0..bound /\ delta <= bound => v \in 0..bound
  BY <1>1, VariationBound
<1>6. rx_srtt' \in 0..Half
  BY <1>2, <1>3, Width
<1>7. rx_rttval' \in Int
  BY <1>4, <1>5
<1>8. rx_rto' \in RtoMin..RtoMax
  <2>1. PICK x : rx_rto' = Bound(x) /\ x \in Int
    <3> DEFINE peak == (4 * rx_rttval') % Mod
    <3>1. 4 * rx_rttval' \in Int
      BY <1>7
    <3>2. peak \in Int
      BY <3>1, Remainder, Width
    <3>3. rx_rto' = Bound(rx_srtt' + (IF peak > Interval THEN peak ELSE Interval))
      BY DEF UpdateAck
    <3>4. rx_srtt' + (IF peak > Interval THEN peak ELSE Interval) \in Int
      BY <1>6, <3>2, Numbers, Width
    <3> QED BY <3>3, <3>4
  <2>2. x % Mod \in Int
    BY <2>1, Remainder, Width
  <2>3. RtoMin \in Int /\ RtoMax \in Int /\ RtoMin <= RtoMax
    BY Numbers DEF TypeOK
  <2> QED BY <2>1, <2>2, <2>3 DEF Bound
<1>9. ASSUME NEW bound \in Nat, rx_srtt <= bound + 1, rtt <= bound
      PROVE  /\ rx_srtt' <= bound + 1
             /\ 3 * (bound + 1) < Half /\ rx_rttval \in 0..(bound + 1)
                => rx_rttval' \in 0..(bound + 1)
  <2>1. Smoothed(rtt) <= bound
    BY <1>2, <1>9
  <2>2. rx_srtt' <= bound + 1
    BY <1>2, <1>3, <1>9, <2>1
  <2>3. delta <= bound + 1 /\ bound + 1 \in Nat
    BY <1>1, <1>9
  <2> HIDE DEF v, delta
  <2>4. ASSUME 3 * (bound + 1) < Half, rx_rttval \in 0..(bound + 1)
        PROVE  rx_rttval' \in 0..(bound + 1)
    <3>1. v \in 0..(bound + 1)
      BY <1>5, <2>3, <2>4
    <3> QED BY <1>4, <1>9, <3>1
  <2> QED BY <2>2, <2>4
<1> QED BY <1>6, <1>7, <1>8, <1>9 DEF Half

\* A set of numbers has a least one.
LEMMA LeastOf ==
    ASSUME NEW S, S \subseteq Nat, S # {}
    PROVE  LET least == CHOOSE sn \in S : \A k \in S : sn <= k
           IN least \in S /\ \A k \in S : least <= k
<1>1. \E sn \in S : \A k \in S : <<k, sn>> \notin OpToRel(<, Nat)
  BY NatLessThanWellFounded, WFMin
<1>2. PICK sn \in S : \A k \in S : <<k, sn>> \notin OpToRel(<, Nat)
  BY <1>1
<1>3. \A k \in S : ~(k < sn) /\ k \in Nat /\ sn \in Nat
  BY <1>2 DEF OpToRel
<1>4. \A k \in S : sn <= k
  BY <1>3
<1> QED BY <1>4

\* The round trip of an acknowledgement: no longer than it really took.
LEMMA RoundTrip ==
    ASSUME TypeOK, Echoes, NEW a \in echo
    PROVE  /\ Diff(current, a.ts) \in Int /\ Diff(current, a.ts) < Half
           /\ time - a.at \in Nat
           /\ jumps = 0 => Diff(current, a.ts) <= time - a.at
<1>1. /\ current \in Int /\ time \in Nat /\ a.at \in 0..time /\ a.ts \in Stamp
      /\ jumps = 0 => a.ts = Later(current, a.at - time)
  BY Width DEF TypeOK, Echoes, Echo
<1>2. Diff(current, a.ts) \in Int /\ Diff(current, a.ts) < Half
  BY <1>1, LaterOfDiff
<1> DEFINE n == a.at - time
<1>3. n \in Int /\ -n = time - a.at /\ -n \in Nat
  BY <1>1
<1> HIDE DEF n
<1>4. Diff(current, Later(current, n)) = Signed(-n)
  BY <1>1, <1>3, DiffOfLater
<1>5. Signed(-n) <= -n
  BY <1>3, SignedBelow, Width
<1>6. jumps = 0 => Diff(current, a.ts) <= time - a.at
  BY <1>1, <1>3, <1>4, <1>5 DEF n
<1> QED BY <1>2, <1>3, <1>6

\* ikcp_input keeps the types.
LEMMA AckTypes ==
    ASSUME TypeOK, Echoes, NEW a \in echo, NEW una \in 0..snd_nxt, Ack(a, una)
    PROVE  TypeOK'
<1> DEFINE left == {sn \in DOMAIN snd_buf : sn >= una /\ sn # a.sn}
           rtt == Diff(current, a.ts)
<1>1. /\ snd_buf' = [sn \in left |-> IF sn < a.sn THEN [snd_buf[sn] EXCEPT !.fastack = @ + 1]
                                      ELSE snd_buf[sn]]
      /\ snd_una' = IF left = {} THEN snd_nxt ELSE CHOOSE sn \in left : \A k \in left : sn <= k
      /\ UNCHANGED <<current, updated, ts_flush, state, snd_nxt, time, jumps, since, after>>
  BY DEF Ack
<1>2. left \subseteq snd_una..(snd_nxt - 1) /\ left \subseteq Nat /\ snd_nxt \in Nat
  BY DEF TypeOK
<1>3. snd_una' \in 0..snd_nxt' /\ DOMAIN snd_buf' \subseteq snd_una'..(snd_nxt' - 1)
  <2>1. DOMAIN snd_buf' = left
    BY <1>1
  <2> HIDE DEF left
  <2>2. CASE left = {}
    BY <1>1, <1>2, <2>1, <2>2
  <2>3. CASE left # {}
    <3>1. snd_una' \in left /\ \A k \in left : snd_una' <= k
      BY <1>1, <1>2, <2>3, LeastOf
    <3> QED BY <1>1, <1>2, <2>1, <3>1
  <2> QED BY <2>2, <2>3
<1>4. ASSUME NEW sn \in DOMAIN snd_buf' PROVE snd_buf'[sn] \in SegState
  <2>1. snd_buf[sn] \in SegState
    BY <1>1 DEF TypeOK
  <2>2. snd_buf'[sn] = snd_buf[sn] \/ snd_buf'[sn] = [snd_buf[sn] EXCEPT !.fastack = @ + 1]
    BY <1>1
  <2>3. [snd_buf[sn] EXCEPT !.fastack = @ + 1] \in SegState
    BY <2>1 DEF SegState
  <2> QED BY <2>1, <2>2, <2>3
<1>5. rx_srtt' \in 0..(Mod \div 2) /\ rx_rttval' \in Int /\ rx_rto' \in RtoMin..RtoMax
  <2>1. rtt \in Int /\ rtt < Half
    BY RoundTrip
  <2>2. CASE rtt >= 0
    <3>1. UpdateAck(rtt) /\ rtt \in Nat
      BY <2>1, <2>2 DEF Ack
    <3> HIDE DEF rtt
    <3> QED BY <2>1, <3>1, SampleTaken
  <2>3. CASE ~(rtt >= 0)
    BY <2>3 DEF Ack, TypeOK, rttVars
  <2> QED BY <2>2, <2>3
<1> QED BY <1>1, <1>3, <1>4, <1>5 DEF TypeOK

\* ikcp_input leaves the plan, the timers and the echoes as they are.
LEMMA AckKeeps ==
    ASSUME TypeOK, Plan, Timers, Echoes, NEW a \in echo, NEW una \in 0..snd_nxt, Ack(a, una)
    PROVE  Plan' /\ Timers' /\ Echoes'
<1>1. /\ UNCHANGED <<current, updated, ts_flush, time, jumps, since, after>>
      /\ echo' \subseteq echo /\ DOMAIN snd_buf' \subseteq DOMAIN snd_buf
  BY DEF Ack
<1>2. Plan'
  <2>1. updated' /\ updated
    BY <1>1 DEF Plan
  <2>2. Within(Interval)' = Within(Interval) /\ Within(JumpLimit)' = Within(JumpLimit)
    BY <1>1 DEF Within
  <2> QED BY <1>1, <2>1, <2>2 DEF Plan
<1>3. Timers'
  <2>1. ASSUME NEW sn \in DOMAIN snd_buf' PROVE Timer(snd_buf'[sn], after', since', current', time')
    <3>1. Timer(snd_buf[sn], after, since, current, time) /\ snd_buf[sn] \in SegState
      BY <1>1 DEF Timers, TypeOK
    <3>2. snd_buf'[sn] = snd_buf[sn] \/ snd_buf'[sn] = [snd_buf[sn] EXCEPT !.fastack = @ + 1]
      BY DEF Ack
    <3> DEFINE s == snd_buf[sn]
               w == snd_buf'[sn]
    <3>3. /\ w.rto = s.rto /\ w.xmit = s.xmit /\ w.steady = s.steady /\ w.sent = s.sent
          /\ w.resendts = s.resendts
      BY <3>1, <3>2 DEF SegState
    <3> HIDE DEF s, w
    <3>4. Timer(s, after', since', current', time')
      BY <1>1, <3>1 DEF s
    <3>5. Timer(w, after', since', current', time')
      BY <3>3, <3>4 DEF Timer
    <3> QED BY <3>5 DEF w
  <2> QED BY <2>1 DEF Timers
<1>4. Echoes'
  BY <1>1 DEF Echoes, Echo
<1> QED BY <1>2, <1>3, <1>4

\* A greater bound.
LEMMA Wider ==
    ASSUME NEW l \in Nat, NEW m \in Nat, l <= m, NEW x \in Int
    PROVE  /\ x <= l + 1 => x <= m + 1
           /\ x \in 0..(l + 1) => x \in 0..(m + 1)
           /\ 3 * (m + 1) < Half => 3 * (l + 1) < Half
BY Width

\* ikcp_input takes true samples.
LEMMA AckSamples ==
    ASSUME TypeOK, Echoes, Samples, NEW a \in echo, NEW una \in 0..snd_nxt, Ack(a, una)
    PROVE  Samples'
<1> DEFINE rtt == Diff(current, a.ts)
<1>1. /\ rtt \in Int /\ rtt < Half /\ time - a.at \in Nat
      /\ jumps = 0 => rtt <= time - a.at
  BY RoundTrip
<1>2. jumps' = jumps /\ longest \in Nat
  BY DEF Ack, Samples
<1>3. CASE rtt >= 0
  <2>1. UpdateAck(rtt) /\ longest' = IF time - a.at > longest THEN time - a.at ELSE longest
    BY <1>3 DEF Ack
  <2> HIDE DEF rtt
  <2>2. longest' \in Nat /\ longest <= longest' /\ time - a.at <= longest' /\ rtt \in Nat
    BY <1>1, <1>2, <1>3, <2>1
  <2>3. ASSUME jumps' = 0
        PROVE  /\ rx_srtt' <= longest' + 1
               /\ 3 * (longest' + 1) < Mod \div 2 => rx_rttval' \in 0..(longest' + 1)
    <3>1. /\ rx_srtt <= longest + 1
          /\ 3 * (longest + 1) < Half => rx_rttval \in 0..(longest + 1)
      BY <1>2, <2>3 DEF Samples, RttWithinSamples, Half
    <3>2. rx_srtt <= longest' + 1 /\ rtt <= longest'
      <4>1. rx_srtt \in Int
        BY Width DEF TypeOK, Half
      <4>2. longest' \in Nat /\ longest \in Nat /\ longest <= longest'
        BY <1>2, <2>2
      <4>4. rx_srtt <= longest' + 1
        BY <3>1, <4>1, <4>2, Wider
      <4>3. rtt <= time - a.at
        BY <1>1, <1>2, <2>3
      <4> QED BY <1>1, <2>2, <4>3, <4>4
    <3>3. 3 * (longest' + 1) < Half => 3 * (longest + 1) < Half /\ rx_rttval \in 0..(longest' + 1)
      <4>1. longest' \in Nat /\ longest \in Nat /\ longest <= longest' /\ rx_rttval \in Int
        BY <1>2, <2>2 DEF TypeOK
      <4> QED BY <3>1, <4>1, Wider
    <3>4. /\ rx_srtt' <= longest' + 1
          /\ 3 * (longest' + 1) < Half /\ rx_rttval \in 0..(longest' + 1)
             => rx_rttval' \in 0..(longest' + 1)
      BY <1>1, <2>1, <2>2, <3>2, SampleTaken
    <3> QED BY <3>3, <3>4 DEF Half
  <2> QED BY <2>2, <2>3 DEF Samples, RttWithinSamples
<1>4. CASE ~(rtt >= 0)
  <2>1. UNCHANGED <<rx_srtt, rx_rttval, longest>>
    BY <1>4 DEF Ack, rttVars
  <2> QED BY <1>2, <2>1 DEF Samples, RttWithinSamples
<1> QED BY <1>3, <1>4

-----------------------------------------------------------------------------
(* The theorems *)

\* Every step keeps the invariant.
LEMMA KTStep == KTInv /\ [Next]_vars => KTInv'
<1> SUFFICES ASSUME KTInv, [Next]_vars PROVE KTInv'
  OBVIOUS
<1>0. TypeOK /\ Plan /\ Timers /\ Echoes /\ Samples
  BY DEF KTInv
<1>1. ASSUME NEW d \in Gaps, NEW j \in {0} \cup Jumps, Update(d, j) PROVE KTInv'
  BY <1>0, <1>1, UpdateTypes, UpdatePlan, UpdateTimers, UpdateEchoes, UpdateSamples DEF KTInv
<1>2. ASSUME NEW a \in echo, NEW una \in 0..snd_nxt, Ack(a, una) PROVE KTInv'
  BY <1>0, <1>2, AckTypes, AckKeeps, AckSamples DEF KTInv
<1>3. CASE UNCHANGED vars
  <2>1. TypeOK' /\ Plan' /\ Samples'
    BY <1>0, <1>3 DEF TypeOK, Plan, Within, Samples, RttWithinSamples, vars, segVars, rttVars
  <2>2. Timers' /\ Echoes'
    BY <1>0, <1>3 DEF Timers, Echoes, Echo, vars, segVars, rttVars
  <2> QED BY <2>1, <2>2 DEF KTInv
<1> QED BY <1>1, <1>2, <1>3 DEF Next

\* The invariant of the clock, the timers and the estimates.
THEOREM TimersInvariance == Spec => []KTInv
BY KTInit, KTStep, PTL DEF Spec

\* The control block keeps its types: the timeout stays between rx_minrto and
\* IKCP_RTO_MAX whatever ikcp_update_ack computes in 32 bits.
THEOREM TimersTypes == Spec => []TypeOK
<1>1. KTInv => TypeOK
  BY DEF KTInv
<1> QED BY <1>1, TimersInvariance, PTL

\* ikcp_update flushes within an interval, and within JumpLimit after the
\* clock has been set, by whatever amount and over the wrap.
THEOREM FlushTheorem == Spec => []FlushGoesOn
<1>1. KTInv => FlushGoesOn
  <2> SUFFICES ASSUME KTInv PROVE FlushGoesOn
    OBVIOUS
  <2>1. time \in Nat /\ since \in Nat /\ Interval \in Nat /\ JumpLimit \in Nat /\ Plan
    BY Numbers DEF KTInv, TypeOK
  <2>2. ASSUME NEW limit \in Nat, Within(limit) PROVE time - since < limit
    BY <2>1, <2>2 DEF Within
  <2> QED BY <2>1, <2>2 DEF FlushGoesOn, Plan
<1> QED BY <1>1, TimersInvariance, PTL

\* ikcp_flush sends what is not acknowledged again within its timeout and one
\* interval, unless the clock has been set.
THEOREM ResendTheorem == Spec => []ResendOnTime
<1>1. KTInv => ResendOnTime
  <2> SUFFICES ASSUME KTInv, NEW sn \in DOMAIN snd_buf, snd_buf[sn].steady
               PROVE  time - snd_buf[sn].sent < snd_buf[sn].rto + Interval
    BY DEF ResendOnTime
  <2>1. /\ time \in Nat /\ since \in Nat /\ Interval \in Nat /\ Plan /\ snd_buf[sn] \in SegState
        /\ Timer(snd_buf[sn], after, since, current, time)
    BY Numbers DEF KTInv, TypeOK, Timers
  <2>2. snd_buf[sn].rto \in Nat /\ snd_buf[sn].sent \in Nat
    BY <2>1 DEF SegState
  <2>3. after = "flush" /\ since - snd_buf[sn].sent < snd_buf[sn].rto
    BY <2>1 DEF Timer
  <2>4. time - since < Interval
    BY <2>1, <2>3 DEF Plan, Within
  <2> QED BY <2>1, <2>2, <2>3, <2>4
<1> QED BY <1>1, TimersInvariance, PTL

\* The estimates of ikcp_update_ack stay within the round trips that
\* ikcp_input has measured, unless the clock has been set.
THEOREM RttTheorem == Spec => []RttWithinSamples
<1>1. KTInv => RttWithinSamples
  BY DEF KTInv, Samples
<1> QED BY <1>1, TimersInvariance, PTL

\* ikcp_flush sends no segment again before its timeout has passed, unless
\* Resent later ones have been acknowledged or the clock has been set.
THEOREM NeverEarlyTheorem == Spec => NeverEarly
<1> DEFINE OnTime == \A sn \in DOMAIN snd_buf \cap DOMAIN snd_buf' :
          (/\ snd_buf'[sn].xmit # snd_buf[sn].xmit
           /\ snd_buf[sn].steady /\ jumps' = jumps /\ snd_buf[sn].fastack < Resent)
          => time' - snd_buf[sn].sent >= snd_buf[sn].rto
<1>1. KTInv /\ [Next]_vars => [OnTime]_vars
  <2> SUFFICES ASSUME KTInv, Next, NEW sn \in DOMAIN snd_buf \cap DOMAIN snd_buf',
                      snd_buf'[sn].xmit # snd_buf[sn].xmit, snd_buf[sn].steady,
                      jumps' = jumps, snd_buf[sn].fastack < Resent
               PROVE  time' - snd_buf[sn].sent >= snd_buf[sn].rto
    OBVIOUS
  <2>1. TypeOK /\ Plan /\ Timers
    BY DEF KTInv
  <2>2. ASSUME NEW d \in Gaps, NEW j \in {0} \cup Jumps, Update(d, j)
        PROVE  time' - snd_buf[sn].sent >= snd_buf[sn].rto
    BY <2>1, <2>2, UpdateNotEarly
  <2>3. ASSUME NEW a \in echo, NEW una \in 0..snd_nxt, Ack(a, una) PROVE FALSE
    <3>1. snd_buf[sn] \in SegState
      BY <2>1 DEF TypeOK
    <3>2. snd_buf'[sn] = snd_buf[sn] \/ snd_buf'[sn] = [snd_buf[sn] EXCEPT !.fastack = @ + 1]
      BY <2>3 DEF Ack
    <3> QED BY <3>1, <3>2 DEF SegState
  <2> QED BY <2>2, <2>3 DEF Next
<1>2. Spec => [][OnTime]_vars
  BY <1>1, TimersInvariance, PTL DEF Spec
<1> QED BY <1>2 DEF NeverEarly
=============================================================================
