--------------------------- MODULE CRingBufProofs ---------------------------
(***************************************************************************)
(* Proofs about CRingBuf, for buffers, alignments, frames and indexes of   *)
(* any size, any number of readers and slots, and any bounds.              *)
(***************************************************************************)
EXTENDS CRingBuf, TLAPS, WellFoundedInduction, FiniteSetTheorems

-----------------------------------------------------------------------------
(* Rings *)

\* A number that is at most one round too big is taken back by one round.
LEMMA Round ==
    ASSUME NEW m \in Nat, NEW x \in Nat, x < 2 * m
    PROVE  x % m = IF x < m THEN x ELSE x - m
<1> DEFINE q == x \div m
           r == x % m
<1>1. q \in Int /\ r \in Int /\ 0 <= r /\ r < m /\ x = (q * m) + r
  OBVIOUS
<1> HIDE DEF q, r
<1>2. CASE q >= 2
  <2>1. PICK k \in Nat : q = 2 + k
    BY <1>1, <1>2, q - 2 \in Nat
  <2>2. q * m = 2 * m + k * m /\ k * m >= 0 /\ k * m \in Int
    BY <2>1
  <2> QED BY <1>1, <2>2
<1>3. CASE q < 0
  <2>1. PICK k \in Nat : q = -1 - k
    BY <1>1, <1>3, -1 - q \in Nat
  <2>2. q * m = -m - (k * m) /\ k * m >= 0 /\ k * m \in Int
    BY <2>1
  <2> QED BY <1>1, <2>2
<1>4. CASE q = 0
  BY <1>1, <1>4 DEF r
<1>5. CASE q = 1
  BY <1>1, <1>5 DEF r
<1> QED BY <1>1, <1>2, <1>3, <1>4, <1>5

\* The sizes of the rings.
LEMMA Sized ==
    /\ BufSize \in Nat /\ BufSize > 0 /\ FrameNum \in Nat /\ FrameNum > 2
    /\ SlotNum \in Nat /\ SlotNum > 0 /\ AlignBytes \in Nat /\ AlignBytes > 0
    /\ Sizes \subseteq 1..BufSize /\ Offset \subseteq Nat /\ Idx \subseteq Nat /\ 0 \in Offset /\ 0 \in Idx
BY CRingBufAssumption DEF Offset, Idx

\* The distance from one offset on to another.
LEMMA BufferLenIs ==
    ASSUME NEW a \in Offset, NEW b \in Offset
    PROVE  /\ BufferLen(a, b) = IF a <= b THEN b - a ELSE BufSize + b - a
           /\ BufferLen(a, b) \in Offset
<1> DEFINE x == BufSize + b - a
<1>1. x \in Nat /\ x < 2 * BufSize /\ a \in Nat /\ b \in Nat /\ b < BufSize /\ BufSize \in Nat
  BY Sized DEF Offset
<1>2. x % BufSize = IF x < BufSize THEN x ELSE x - BufSize
  BY <1>1, Round
<1> QED BY <1>1, <1>2 DEF BufferLen, Offset

\* ADVANCE_OFFSET, within one round.
LEMMA AdvanceOffsetIs ==
    ASSUME NEW a \in Offset, NEW n \in 0..BufSize
    PROVE  /\ AdvanceOffset(a, n) = IF a + n < BufSize THEN a + n ELSE a + n - BufSize
           /\ AdvanceOffset(a, n) \in Offset
<1> DEFINE x == a + n
<1>1. x \in Nat /\ x < 2 * BufSize /\ BufSize \in Nat /\ a \in Nat /\ n \in Nat
  BY Sized DEF Offset
<1>2. x % BufSize = IF x < BufSize THEN x ELSE x - BufSize
  BY <1>1, Round
<1> QED BY <1>1, <1>2 DEF AdvanceOffset, Offset

\* The number of indexes from one to another.
LEMMA StepsIs ==
    ASSUME NEW i \in Idx, NEW j \in Idx
    PROVE  /\ Steps(i, j) = IF i <= j THEN j - i ELSE FrameNum + j - i
           /\ Steps(i, j) \in Idx
<1> DEFINE x == j + FrameNum - i
<1>1. x \in Nat /\ x < 2 * FrameNum /\ i \in Nat /\ j \in Nat /\ j < FrameNum /\ FrameNum \in Nat
  BY Sized DEF Idx
<1>2. x % FrameNum = IF x < FrameNum THEN x ELSE x - FrameNum
  BY <1>1, Round
<1> QED BY <1>1, <1>2 DEF Steps, Idx

\* ADVANCE_INDEX and STEPBACK_INDEX, within one round.
LEMMA AdvanceIndexIs ==
    ASSUME NEW i \in Idx, NEW n \in Idx
    PROVE  /\ AdvanceIndex(i, n) = IF i + n < FrameNum THEN i + n ELSE i + n - FrameNum
           /\ AdvanceIndex(i, n) \in Idx
<1> DEFINE x == i + n
<1>1. x \in Nat /\ x < 2 * FrameNum /\ i \in Nat /\ n \in Nat /\ FrameNum \in Nat
  BY Sized DEF Idx
<1>2. x % FrameNum = IF x < FrameNum THEN x ELSE x - FrameNum
  BY <1>1, Round
<1> QED BY <1>1, <1>2 DEF AdvanceIndex, Idx

LEMMA StepBackIs ==
    ASSUME NEW i \in Idx
    PROVE  /\ StepBackIndex(i) = IF i = 0 THEN FrameNum - 1 ELSE i - 1
           /\ StepBackIndex(i) \in Idx
<1> DEFINE x == i + FrameNum - 1
<1>1. x \in Nat /\ x < 2 * FrameNum /\ i \in Nat /\ FrameNum \in Nat /\ FrameNum > 0
  BY Sized DEF Idx
<1>2. x % FrameNum = IF x < FrameNum THEN x ELSE x - FrameNum
  BY <1>1, Round
<1> QED BY <1>1, <1>2 DEF StepBackIndex, Idx

\* The index after another one.
LEMMA NextIndex ==
    ASSUME NEW i \in Idx
    PROVE  /\ AdvanceIndex(i, 1) = IF i + 1 < FrameNum THEN i + 1 ELSE 0
           /\ AdvanceIndex(i, 1) \in Idx
<1>1. 1 \in Idx /\ i \in Nat /\ i < FrameNum /\ FrameNum \in Nat
  BY Sized DEF Idx
<1> QED BY <1>1, AdvanceIndexIs

\* Which indexes come before another one, counted from i.
LEMMA IndexRangeIs ==
    ASSUME NEW i \in Idx, NEW j \in Idx
    PROVE  IndexRange(i, j) = {x \in Idx : Steps(i, x) < Steps(i, j)}
<1>0. Steps(i, j) \in Idx /\ FrameNum \in Nat /\ FrameNum > 0
  BY StepsIs, Sized
<1>1. ASSUME NEW x \in IndexRange(i, j) PROVE x \in Idx /\ Steps(i, x) < Steps(i, j)
  <2>1. PICK k \in 0..(Steps(i, j) - 1) : x = AdvanceIndex(i, k)
    BY DEF IndexRange
  <2>2. k \in Idx /\ k < Steps(i, j)
    BY <1>0 DEF Idx
  <2>3. x \in Idx /\ x = IF i + k < FrameNum THEN i + k ELSE i + k - FrameNum
    BY <2>1, <2>2, AdvanceIndexIs
  <2>4. Steps(i, x) = IF i <= x THEN x - i ELSE FrameNum + x - i
    BY <2>3, StepsIs
  <2>5. Steps(i, x) = k
    BY <1>0, <2>2, <2>3, <2>4 DEF Idx
  <2> QED BY <2>2, <2>3, <2>5
<1>2. ASSUME NEW x \in Idx, Steps(i, x) < Steps(i, j) PROVE x \in IndexRange(i, j)
  <2>1. Steps(i, x) \in Idx /\ Steps(i, x) = IF i <= x THEN x - i ELSE FrameNum + x - i
    BY StepsIs
  <2> DEFINE k == Steps(i, x)
  <2>4. AdvanceIndex(i, k) = IF i + k < FrameNum THEN i + k ELSE i + k - FrameNum
    BY <2>1, AdvanceIndexIs
  <2>2. AdvanceIndex(i, Steps(i, x)) = x
    BY <1>0, <2>1, <2>4 DEF Idx
  <2>3. Steps(i, x) \in 0..(Steps(i, j) - 1)
    BY <1>0, <1>2, <2>1 DEF Idx
  <2> QED BY <2>2, <2>3 DEF IndexRange
<1> QED BY <1>1, <1>2

\* The bytes of a region are those less than its length from its start on.
LEMMA RegionIs ==
    ASSUME NEW o \in Offset, NEW n \in 0..BufSize
    PROVE  Region(o, n) = {x \in Offset : BufferLen(o, x) < n}
<1>0. n \in Nat /\ BufSize \in Nat /\ n <= BufSize
  BY Sized
<1>1. ASSUME NEW x \in Region(o, n) PROVE x \in Offset /\ BufferLen(o, x) < n
  <2>1. PICK k \in 0..(n - 1) : x = AdvanceOffset(o, k)
    BY DEF Region
  <2>2. k \in 0..BufSize /\ k < n /\ k \in Nat
    BY <1>0
  <2>3. x \in Offset /\ x = IF o + k < BufSize THEN o + k ELSE o + k - BufSize
    BY <2>1, <2>2, AdvanceOffsetIs
  <2>4. BufferLen(o, x) = IF o <= x THEN x - o ELSE BufSize + x - o
    BY <2>3, BufferLenIs
  <2>5. BufferLen(o, x) = k
    BY <1>0, <2>2, <2>3, <2>4 DEF Offset
  <2> QED BY <2>2, <2>3, <2>5
<1>2. ASSUME NEW x \in Offset, BufferLen(o, x) < n PROVE x \in Region(o, n)
  <2>1. BufferLen(o, x) \in Offset /\ BufferLen(o, x) = IF o <= x THEN x - o ELSE BufSize + x - o
    BY BufferLenIs
  <2>2. BufferLen(o, x) \in 0..BufSize
    BY <1>0, <2>1 DEF Offset
  <2> DEFINE k == BufferLen(o, x)
  <2>5. AdvanceOffset(o, k) = IF o + k < BufSize THEN o + k ELSE o + k - BufSize
    BY <2>2, AdvanceOffsetIs
  <2>3. AdvanceOffset(o, BufferLen(o, x)) = x
    BY <1>0, <2>1, <2>5 DEF Offset
  <2>4. BufferLen(o, x) \in 0..(n - 1)
    BY <1>0, <1>2, <2>1 DEF Offset
  <2> QED BY <2>3, <2>4 DEF Region
<1> QED BY <1>1, <1>2

\* A set of numbers has a least one.
LEMMA LeastNat ==
    ASSUME NEW S \in SUBSET Nat, S # {}
    PROVE  \E m \in S : \A n \in S : m <= n
<1>1. PICK m \in S : \A n \in S : <<n, m>> \notin OpToRel(<, Nat)
  BY NatLessThanWellFounded, WFMin
<1>2. \A n \in S : ~(n < m) /\ n \in Nat /\ m \in Nat
  BY <1>1 DEF OpToRel
<1>3. \A n \in S : m <= n
  BY <1>2
<1> QED BY <1>3

-----------------------------------------------------------------------------
(* The list of merged holes *)

HoleType == [owner : Readers, start : Offset, end : Offset, aged : BOOLEAN]

\* What BlackHoleSortMerge makes of some of the holes, from what it makes of
\* those it meets before.
MergeEntry(o, s, table) ==
    IF s = {} THEN <<>> ELSE MergeHole(table[s \ {LastMet(o, s)}], LastMet(o, s))
MergeTable(o, hs) == CHOOSE table : table = [s \in SUBSET hs |-> MergeEntry(o, s, table)]

LEMMA MergeUnfold ==
    ASSUME NEW o, NEW hs
    PROVE  SortMerge(o, hs) = MergeTable(o, hs)[hs]
BY DEF SortMerge, MapThenFoldSet, MergeTable, MergeEntry

\* There is a hole that is met last.
LEMMA LastMetIs ==
    ASSUME NEW o \in Offset, NEW s, s \subseteq HoleType, s # {}
    PROVE  LastMet(o, s) \in s /\ \A g \in s : BufferLen(o, g.start) <= BufferLen(o, LastMet(o, s).start)
<1> DEFINE d(h) == BufSize - BufferLen(o, h.start)
           D == {d(h) : h \in s}
<1>1. \A h \in s : BufferLen(o, h.start) \in Nat /\ d(h) \in Nat
  <2>1. TAKE h \in s
  <2>2. h.start \in Offset
    BY DEF HoleType
  <2>3. BufferLen(o, h.start) \in Offset
    BY <2>2, BufferLenIs
  <2> QED BY <2>3, Sized DEF Offset
<1>2. D \in SUBSET Nat /\ D # {}
  BY <1>1
<1> HIDE DEF d
<1>3. PICK m \in D : \A n \in D : m <= n
  BY <1>2, LeastNat
<1>4. PICK h \in s : \A g \in s : d(h) <= d(g)
  BY <1>3
<1>5. \A g \in s : BufferLen(o, g.start) <= BufferLen(o, h.start)
  <2>1. TAKE g \in s
  <2>2. d(h) <= d(g)
    BY <1>4
  <2> QED BY <1>1, <2>2, Sized DEF d
<1> QED BY <1>5 DEF LastMet

\* The table of the merged holes of every set of holes exists.
LEMMA MergeTableIs ==
    ASSUME NEW o \in Offset, NEW hs, hs \subseteq HoleType, IsFiniteSet(hs)
    PROVE  \A s \in SUBSET hs : MergeTable(o, hs)[s] = MergeEntry(o, s, MergeTable(o, hs))
<1> DEFINE Upto(n, table) == \A s \in SUBSET hs : Cardinality(s) <= n => table[s] = MergeEntry(o, s, table)
           Bad == {n \in Nat : ~\E table : Upto(n, table)}
<1>1. \A s \in SUBSET hs : IsFiniteSet(s) /\ Cardinality(s) \in Nat /\ Cardinality(s) <= Cardinality(hs)
  BY FS_Subset, FS_CardinalityType
<1>2. \A s \in SUBSET hs : s # {} =>
          /\ LastMet(o, s) \in s /\ s \ {LastMet(o, s)} \in SUBSET hs
          /\ Cardinality(s \ {LastMet(o, s)}) = Cardinality(s) - 1
  <2>1. SUFFICES ASSUME NEW s \in SUBSET hs, s # {}
                 PROVE  /\ LastMet(o, s) \in s /\ s \ {LastMet(o, s)} \in SUBSET hs
                        /\ Cardinality(s \ {LastMet(o, s)}) = Cardinality(s) - 1
    OBVIOUS
  <2>2. LastMet(o, s) \in s
    BY <2>1, LastMetIs
  <2> QED BY <1>1, <2>2, FS_RemoveElement
<1>3. Bad = {}
  <2>1. SUFFICES ASSUME Bad # {} PROVE FALSE
    OBVIOUS
  <2>2. PICK n \in Bad : \A k \in Bad : n <= k
    BY <2>1, LeastNat
  <2>3. n # 0
    <3>1. SUFFICES Upto(0, [s \in SUBSET hs |-> <<>>])
      BY <2>2
    <3>2. ASSUME NEW s \in SUBSET hs, Cardinality(s) <= 0 PROVE s = {}
      BY <1>1, <3>2, FS_EmptySet
    <3> QED BY <3>2 DEF MergeEntry
  <2>4. n - 1 \in Nat /\ n - 1 \notin Bad
    BY <2>2, <2>3
  <2>5. PICK table : Upto(n - 1, table)
    BY <2>4
  <2> DEFINE longer == [s \in SUBSET hs |-> MergeEntry(o, s, table)]
  <2>6. ASSUME NEW s \in SUBSET hs, Cardinality(s) <= n PROVE longer[s] = MergeEntry(o, s, longer)
    <3>1. CASE s = {}
      BY <3>1 DEF MergeEntry
    <3>2. CASE s # {}
      <4> DEFINE t == s \ {LastMet(o, s)}
      <4>1. t \in SUBSET hs /\ Cardinality(t) <= n - 1
        BY <1>1, <1>2, <2>2, <2>6, <3>2
      <4>2. longer[t] = table[t]
        BY <2>5, <4>1
      <4> QED BY <3>2, <4>2 DEF MergeEntry
    <3> QED BY <3>1, <3>2
  <2> HIDE DEF longer
  <2>7. Upto(n, longer)
    BY <2>6
  <2> QED BY <2>2, <2>7
<1>4. PICK table : Upto(Cardinality(hs), table)
  BY <1>1, <1>3
<1> DEFINE whole == [s \in SUBSET hs |-> table[s]]
<1>5. whole = [s \in SUBSET hs |-> MergeEntry(o, s, whole)]
  <2>1. ASSUME NEW s \in SUBSET hs PROVE table[s] = MergeEntry(o, s, whole)
    <3>1. table[s] = MergeEntry(o, s, table)
      BY <1>1, <1>4
    <3>2. s # {} => whole[s \ {LastMet(o, s)}] = table[s \ {LastMet(o, s)}]
      BY <1>2
    <3> QED BY <3>1, <3>2 DEF MergeEntry
  <2> QED BY <2>1
<1> HIDE DEF whole
<1>6. MergeTable(o, hs) = [s \in SUBSET hs |-> MergeEntry(o, s, MergeTable(o, hs))]
  BY <1>5 DEF MergeTable
<1> QED BY <1>6

\* Merging one more hole.
LEMMA MergeHoleType ==
    ASSUME NEW merged \in Seq(HoleType), NEW h \in HoleType
    PROVE  MergeHole(merged, h) \in Seq(HoleType)
<1> DEFINE n == Len(merged)
           l == [merged[n] EXCEPT !.end = h.end]
<1>1. n \in Nat /\ Append(merged, h) \in Seq(HoleType)
  OBVIOUS
<1>2. ASSUME n > 0 PROVE [merged EXCEPT ![n].end = h.end] \in Seq(HoleType)
  <2>1. merged[n] \in HoleType
    BY <1>1, <1>2
  <2>2. l = [owner |-> merged[n].owner, start |-> merged[n].start, end |-> h.end,
             aged |-> merged[n].aged]
    BY <2>1 DEF HoleType
  <2>3. l \in HoleType
    BY <2>1, <2>2 DEF HoleType
  <2>4. [merged EXCEPT ![n].end = h.end] = [merged EXCEPT ![n] = l]
    OBVIOUS
  <2> HIDE DEF l
  <2>5. [merged EXCEPT ![n] = l] \in Seq(HoleType)
    BY <1>1, <1>2, <2>3
  <2> QED BY <2>4, <2>5
<1> DEFINE size == BufferLen(merged[n].start, merged[n].end)
           near == n > 0 /\ BufferLen(merged[n].start, h.start) <= size
           wider == BufferLen(merged[n].start, h.end) >= size
<1>3. MergeHole(merged, h) = IF near THEN IF wider THEN [merged EXCEPT ![n].end = h.end] ELSE merged
                             ELSE Append(merged, h)
  BY DEF MergeHole
<1>4. near => n > 0
  OBVIOUS
<1> HIDE DEF near, wider, n
<1> QED BY <1>1, <1>2, <1>3, <1>4

\* The list consists of holes.
LEMMA MergedHoles ==
    ASSUME NEW o \in Offset, NEW hs, hs \subseteq HoleType, IsFiniteSet(hs)
    PROVE  SortMerge(o, hs) \in Seq(HoleType)
<1> DEFINE table == MergeTable(o, hs)
           Bad == {n \in Nat : \E s \in SUBSET hs : Cardinality(s) = n /\ table[s] \notin Seq(HoleType)}
<1>1. \A s \in SUBSET hs : IsFiniteSet(s) /\ Cardinality(s) \in Nat
  BY FS_Subset, FS_CardinalityType
<1>2. Bad = {}
  <2>1. SUFFICES ASSUME Bad # {} PROVE FALSE
    OBVIOUS
  <2>2. PICK n \in Bad : \A k \in Bad : n <= k
    BY <2>1, LeastNat
  <2>3. PICK s \in SUBSET hs : Cardinality(s) = n /\ table[s] \notin Seq(HoleType)
    BY <2>2
  <2>4. table[s] = MergeEntry(o, s, table)
    BY MergeTableIs
  <2>5. s # {}
    BY <2>3, <2>4 DEF MergeEntry
  <2> DEFINE h == LastMet(o, s)
             t == s \ {h}
  <2>6. h \in s
    BY <2>5, LastMetIs
  <2>7. t \in SUBSET hs /\ Cardinality(t) = n - 1 /\ Cardinality(t) \in Nat
    BY <1>1, <2>3, <2>6, FS_RemoveElement
  <2>8. table[t] \in Seq(HoleType)
    <3>1. n - 1 \notin Bad
      BY <2>2, <2>7
    <3> QED BY <2>7, <3>1
  <2>9. table[s] = MergeHole(table[t], h)
    BY <2>4, <2>5 DEF MergeEntry
  <2> DEFINE merged == table[t]
  <2>10. merged \in Seq(HoleType) /\ h \in HoleType
    BY <2>6, <2>8
  <2> HIDE DEF table, h, t, merged
  <2>11. MergeHole(merged, h) \in Seq(HoleType)
    BY <2>10, MergeHoleType
  <2> QED BY <2>3, <2>9, <2>11 DEF merged
<1>3. table[hs] \in Seq(HoleType)
  BY <1>1, <1>2
<1> QED BY <1>3, MergeUnfold

\* BlackholeJump ends at the writer's offset or at the end of a hole.
LEMMA JumpIs ==
    ASSUME NEW o \in Offset, NEW n, NEW hs, hs \subseteq HoleType, IsFiniteSet(hs)
    PROVE  LET merged == SortMerge(o, hs)
               jump == BlackholeJump(o, n, hs)
           IN \E k \in 1..(Len(merged) + 1) :
                /\ jump.at = IF k = 1 THEN o ELSE merged[k - 1].end
                /\ jump.at \in Offset
                /\ jump.fits => k <= Len(merged) /\ Misses(jump.at, n, merged[k])
                /\ ~jump.fits => k = Len(merged) + 1
<1> DEFINE merged == SortMerge(o, hs)
           From(k) == IF k = 1 THEN o ELSE merged[k - 1].end
           fitting == {k \in 1..Len(merged) : Misses(From(k), n, merged[k])}
           jump == BlackholeJump(o, n, hs)
<1>1. merged \in Seq(HoleType)
  BY MergedHoles
<1>2. jump = IF fitting = {} THEN [at |-> From(Len(merged) + 1), fits |-> FALSE]
             ELSE [at |-> From(CHOOSE k \in fitting : \A j \in fitting : k <= j), fits |-> TRUE]
  BY DEF BlackholeJump
<1> HIDE DEF merged, jump
<1>3. \A k \in 1..(Len(merged) + 1) : From(k) \in Offset
  <2>1. TAKE k \in 1..(Len(merged) + 1)
  <2>2. Len(merged) \in Nat
    BY <1>1
  <2>3. CASE k # 1
    <3>1. k - 1 \in 1..Len(merged)
      BY <2>2, <2>3
    <3>2. merged[k - 1] \in HoleType
      BY <1>1, <3>1
    <3> QED BY <2>3, <3>2 DEF HoleType
  <2> QED BY <2>3
<1> HIDE DEF From
<1>4. CASE fitting = {}
  <2>1. Len(merged) + 1 \in 1..(Len(merged) + 1)
    BY <1>1
  <2>2. jump.at = From(Len(merged) + 1) /\ jump.fits = FALSE
    BY <1>2, <1>4
  <2> QED BY <1>3, <2>1, <2>2 DEF From, merged, jump
<1>5. CASE fitting # {}
  <2> DEFINE k == CHOOSE k \in fitting : \A j \in fitting : k <= j
  <2>1. fitting \in SUBSET Nat
    BY <1>1
  <2>2. k \in fitting
    BY <1>5, <2>1, LeastNat
  <2> HIDE DEF k
  <2>3. k \in 1..(Len(merged) + 1) /\ k <= Len(merged) /\ Misses(From(k), n, merged[k])
    BY <1>1, <2>2
  <2>4. jump.at = From(k) /\ jump.fits = TRUE
    BY <1>2, <1>5 DEF k
  <2> QED BY <1>3, <2>3, <2>4 DEF From, merged, jump
<1> QED BY <1>4, <1>5

\* How far on the way from o a hole begins, and how long it is.
MetAt(o, h) == BufferLen(o, h.start)
Size(h) == BufferLen(h.start, h.end)

\* A hole that the offset o is not inside of is left behind within one round.
LEMMA ReachIs ==
    ASSUME NEW o \in Offset, NEW h \in HoleType, ~Inside(o, h)
    PROVE  /\ MetAt(o, h) \in Nat /\ Size(h) \in Nat /\ MetAt(o, h) < BufSize /\ Size(h) < BufSize
           /\ MetAt(o, h) + Size(h) <= BufSize
           /\ h.end # o => MetAt(o, h) + Size(h) < BufSize /\ BufferLen(o, h.end) = MetAt(o, h) + Size(h)
           /\ h.end = o => MetAt(o, h) + Size(h) = 0 \/ MetAt(o, h) + Size(h) = BufSize
<1> DEFINE a == h.start
           e == h.end
<1>1. a \in Offset /\ e \in Offset
  BY DEF HoleType
<1>2. ~(BufferLen(a, o) \in 1..(BufferLen(a, e) - 1))
  BY DEF Inside
<1> SUFFICES /\ BufferLen(o, a) \in Nat /\ BufferLen(a, e) \in Nat
             /\ BufferLen(o, a) < BufSize /\ BufferLen(a, e) < BufSize
             /\ BufferLen(o, a) + BufferLen(a, e) <= BufSize
             /\ e # o => /\ BufferLen(o, a) + BufferLen(a, e) < BufSize
                         /\ BufferLen(o, e) = BufferLen(o, a) + BufferLen(a, e)
             /\ e = o => \/ BufferLen(o, a) + BufferLen(a, e) = 0
                         \/ BufferLen(o, a) + BufferLen(a, e) = BufSize
  BY DEF MetAt, Size
<1> HIDE DEF a, e
<1>3. /\ BufferLen(o, a) = IF o <= a THEN a - o ELSE BufSize + a - o
      /\ BufferLen(a, o) = IF a <= o THEN o - a ELSE BufSize + o - a
      /\ BufferLen(a, e) = IF a <= e THEN e - a ELSE BufSize + e - a
      /\ BufferLen(o, e) = IF o <= e THEN e - o ELSE BufSize + e - o
  BY <1>1, BufferLenIs
<1>4. BufferLen(a, e) \in Int
  BY <1>1, BufferLenIs, Sized
<1>5. o \in Nat /\ a \in Nat /\ e \in Nat /\ BufSize \in Nat /\ o < BufSize /\ a < BufSize /\ e < BufSize
  BY <1>1, Sized DEF Offset
<1>6. BufferLen(a, o) < 1 \/ BufferLen(a, o) >= BufferLen(a, e)
  BY <1>2, <1>3, <1>5
<1> QED BY <1>3, <1>5, <1>6

\* The way from one offset to a later one.
LEMMA LaterIs ==
    ASSUME NEW o \in Offset, NEW a \in Offset, NEW b \in Offset, BufferLen(o, a) <= BufferLen(o, b)
    PROVE  BufferLen(a, b) = BufferLen(o, b) - BufferLen(o, a)
<1>1. /\ BufferLen(o, a) = IF o <= a THEN a - o ELSE BufSize + a - o
      /\ BufferLen(o, b) = IF o <= b THEN b - o ELSE BufSize + b - o
      /\ BufferLen(a, b) = IF a <= b THEN b - a ELSE BufSize + b - a
  BY BufferLenIs
<1>2. o \in Nat /\ a \in Nat /\ b \in Nat /\ BufSize \in Nat /\ o < BufSize /\ a < BufSize /\ b < BufSize
  BY Sized DEF Offset
<1> QED BY <1>1, <1>2

\* The hole l, with the end of h when that lies behind its own.
LEMMA WiderIs ==
    ASSUME NEW o \in Offset, NEW l \in HoleType, NEW h \in HoleType, ~Inside(o, h),
           MetAt(o, l) + Size(l) <= BufSize, MetAt(o, l) <= MetAt(o, h),
           BufferLen(l.start, h.start) <= Size(l)
    PROVE  /\ MetAt(o, h) <= MetAt(o, l) + Size(l)
           /\ BufferLen(l.start, h.end) >= Size(l) =>
                  /\ MetAt(o, l) + BufferLen(l.start, h.end) <= BufSize
                  /\ h.end # o => MetAt(o, h) + Size(h) = MetAt(o, l) + BufferLen(l.start, h.end)
           /\ ~(BufferLen(l.start, h.end) >= Size(l)) /\ h.end # o =>
                  MetAt(o, h) + Size(h) <= MetAt(o, l) + Size(l)
<1>1. l.start \in Offset /\ l.end \in Offset /\ h.start \in Offset /\ h.end \in Offset
  BY DEF HoleType
<1>2. BufferLen(l.start, h.start) = MetAt(o, h) - MetAt(o, l)
  BY <1>1, LaterIs DEF MetAt
<1>3. /\ MetAt(o, h) \in Nat /\ Size(h) \in Nat
      /\ h.end # o => MetAt(o, h) + Size(h) < BufSize /\ BufferLen(o, h.end) = MetAt(o, h) + Size(h)
  BY ReachIs
<1>4. MetAt(o, l) \in Nat /\ Size(l) \in Nat /\ BufSize \in Nat
  BY <1>1, BufferLenIs, Sized DEF MetAt, Size
<1>5. h.end # o => BufferLen(l.start, h.end) = MetAt(o, h) + Size(h) - MetAt(o, l)
  <2>1. SUFFICES ASSUME h.end # o PROVE BufferLen(l.start, h.end) = MetAt(o, h) + Size(h) - MetAt(o, l)
    OBVIOUS
  <2>2. BufferLen(o, l.start) <= BufferLen(o, h.end)
    BY <1>3, <1>4, <2>1 DEF MetAt
  <2>3. BufferLen(l.start, h.end) = BufferLen(o, h.end) - BufferLen(o, l.start)
    BY <1>1, <2>2, LaterIs
  <2>4. BufferLen(o, l.start) = MetAt(o, l)
    BY DEF MetAt
  <2> QED BY <1>3, <1>4, <2>1, <2>3, <2>4
<1>6. h.end = o => MetAt(o, l) + BufferLen(l.start, h.end) <= BufSize
  <2>1. SUFFICES BufferLen(o, l.start) + BufferLen(l.start, o) <= BufSize
    BY DEF MetAt
  <2>2. /\ BufferLen(o, l.start) = IF o <= l.start THEN l.start - o ELSE BufSize + l.start - o
        /\ BufferLen(l.start, o) = IF l.start <= o THEN o - l.start ELSE BufSize + o - l.start
    BY <1>1, BufferLenIs
  <2>3. o \in Nat /\ l.start \in Nat
    BY <1>1, Sized
  <2> QED BY <1>4, <2>2, <2>3
<1> QED BY <1>2, <1>3, <1>4, <1>5, <1>6

\* What holds of the list M of the holes s, merged.
Merged(o, s, M) ==
    /\ M \in Seq(HoleType)
    /\ \A k \in 1..Len(M) : /\ MetAt(o, M[k]) + Size(M[k]) <= BufSize
                            /\ \E g \in s : M[k].start = g.start
    /\ \A j, k \in 1..Len(M) : j < k => MetAt(o, M[j]) + Size(M[j]) < MetAt(o, M[k])
    /\ \A h \in s : h.end # o =>
           \E k \in 1..Len(M) : /\ MetAt(o, M[k]) <= MetAt(o, h)
                                /\ MetAt(o, h) + Size(h) <= MetAt(o, M[k]) + Size(M[k])

\* The holes are merged one by one, in the order in which they are met.
LEMMA MergedOne ==
    ASSUME NEW o \in Offset, NEW s, s \subseteq HoleType, NEW M, Merged(o, s, M),
           NEW h \in HoleType, ~Inside(o, h), \A g \in s : MetAt(o, g) <= MetAt(o, h)
    PROVE  Merged(o, s \cup {h}, MergeHole(M, h))
<1> DEFINE n == Len(M)
           l == M[n]
           near == n > 0 /\ BufferLen(l.start, h.start) <= Size(l)
           wider == BufferLen(l.start, h.end) >= Size(l)
           wide == [M EXCEPT ![n].end = h.end]
           M2 == MergeHole(M, h)
<1>1. M \in Seq(HoleType) /\ n \in Nat /\ M2 \in Seq(HoleType)
  BY MergeHoleType DEF Merged
<1>2. M2 = IF near THEN IF wider THEN wide ELSE M ELSE Append(M, h)
  BY DEF MergeHole, Size
<1>3. /\ \A k \in 1..n : MetAt(o, M[k]) + Size(M[k]) <= BufSize /\ \E g \in s : M[k].start = g.start
      /\ \A j, k \in 1..n : j < k => MetAt(o, M[j]) + Size(M[j]) < MetAt(o, M[k])
      /\ \A g \in s : g.end # o =>
           \E k \in 1..n : /\ MetAt(o, M[k]) <= MetAt(o, g)
                           /\ MetAt(o, g) + Size(g) <= MetAt(o, M[k]) + Size(M[k])
  BY DEF Merged
<1>4. \A k \in 1..n : M[k] \in HoleType /\ MetAt(o, M[k]) \in Nat /\ Size(M[k]) \in Nat
                      /\ MetAt(o, M[k]) <= MetAt(o, h)
  <2>1. TAKE k \in 1..n
  <2>2. M[k] \in HoleType
    BY <1>1
  <2>3. MetAt(o, M[k]) \in Nat /\ Size(M[k]) \in Nat
    BY <2>2, BufferLenIs, Sized DEF MetAt, Size, HoleType
  <2>4. PICK g \in s : M[k].start = g.start
    BY <1>3
  <2> QED BY <2>2, <2>3, <2>4 DEF MetAt
<1>5. /\ MetAt(o, h) \in Nat /\ Size(h) \in Nat /\ MetAt(o, h) + Size(h) <= BufSize
      /\ \A g \in s : MetAt(o, g) \in Nat /\ Size(g) \in Nat
  <2>1. \A g \in s : MetAt(o, g) \in Nat /\ Size(g) \in Nat
    BY BufferLenIs, Sized DEF MetAt, Size, HoleType
  <2> QED BY <2>1, ReachIs
<1>6. CASE near
  <2>1. n \in 1..n /\ l \in HoleType /\ MetAt(o, l) + Size(l) <= BufSize /\ MetAt(o, l) <= MetAt(o, h)
        /\ BufferLen(l.start, h.start) <= Size(l)
    BY <1>1, <1>3, <1>4, <1>6
  <2>2. /\ MetAt(o, h) <= MetAt(o, l) + Size(l)
        /\ wider => /\ MetAt(o, l) + BufferLen(l.start, h.end) <= BufSize
                    /\ h.end # o => MetAt(o, h) + Size(h) = MetAt(o, l) + BufferLen(l.start, h.end)
        /\ ~wider /\ h.end # o => MetAt(o, h) + Size(h) <= MetAt(o, l) + Size(l)
    <3> HIDE DEF l
    <3> QED BY <2>1, WiderIs
  <2>3. CASE ~wider
    <3>1. M2 = M
      BY <1>2, <1>6, <2>3
    <3>2. ASSUME NEW g \in s \cup {h}, g.end # o
          PROVE  \E k \in 1..n : /\ MetAt(o, M[k]) <= MetAt(o, g)
                                 /\ MetAt(o, g) + Size(g) <= MetAt(o, M[k]) + Size(M[k])
      BY <1>3, <2>1, <2>2, <2>3, <3>2
    <3> HIDE DEF M2
    <3> QED BY <1>1, <1>3, <3>1, <3>2 DEF Merged, M2
  <2>4. CASE wider
    <3>1. M2 = wide
      BY <1>2, <1>6, <2>4
    <3>2. /\ Len(M2) = n
          /\ \A k \in 1..n : M2[k].start = M[k].start /\ M2[k].end = (IF k = n THEN h.end ELSE M[k].end)
      <4> DEFINE e == [l EXCEPT !.end = h.end]
      <4>1. wide = [M EXCEPT ![n] = e]
        OBVIOUS
      <4>2. e.start = l.start /\ e.end = h.end
        BY <2>1 DEF HoleType
      <4> HIDE DEF e
      <4>3. Len(wide) = n /\ \A k \in 1..n : wide[k] = IF k = n THEN e ELSE M[k]
        BY <1>1, <4>1
      <4> QED BY <3>1, <4>2, <4>3
    <3>3. \A k \in 1..n : /\ MetAt(o, M2[k]) = MetAt(o, M[k])
                          /\ k # n => Size(M2[k]) = Size(M[k])
                          /\ k = n => Size(M2[k]) = BufferLen(l.start, h.end)
      BY <3>2 DEF MetAt, Size
    <3>4. BufferLen(l.start, h.end) \in Nat
      BY <2>1, BufferLenIs, Sized DEF HoleType
    <3> DEFINE z == BufferLen(l.start, h.end)
    <3>5. \A k \in 1..n : MetAt(o, M2[k]) = MetAt(o, M[k]) /\ Size(M2[k]) \in Nat /\ Size(M2[k]) >= Size(M[k])
                          /\ (k # n => Size(M2[k]) = Size(M[k])) /\ (k = n => Size(M2[k]) = z)
      BY <1>4, <2>4, <3>3, <3>4
    <3>6. z \in Nat /\ MetAt(o, l) + z <= BufSize
          /\ (h.end # o => MetAt(o, h) + Size(h) = MetAt(o, l) + z)
      BY <2>2, <2>4, <3>4
    <3> HIDE DEF M2, wide, wider, near, z
    <3>7. \A k \in 1..n : MetAt(o, M2[k]) + Size(M2[k]) <= BufSize /\ \E g \in s \cup {h} : M2[k].start = g.start
      BY <1>3, <3>2, <3>5, <3>6
    <3>8. \A j, k \in 1..n : j < k => MetAt(o, M2[j]) + Size(M2[j]) < MetAt(o, M2[k])
      BY <1>1, <1>3, <3>5
    <3>9. ASSUME NEW g \in s \cup {h}, g.end # o
          PROVE  \E k \in 1..n : /\ MetAt(o, M2[k]) <= MetAt(o, g)
                                 /\ MetAt(o, g) + Size(g) <= MetAt(o, M2[k]) + Size(M2[k])
      <4>1. CASE g \in s
        <5>1. PICK k \in 1..n : /\ MetAt(o, M[k]) <= MetAt(o, g)
                                /\ MetAt(o, g) + Size(g) <= MetAt(o, M[k]) + Size(M[k])
          BY <1>3, <3>9, <4>1
        <5>2. MetAt(o, g) + Size(g) <= MetAt(o, M2[k]) + Size(M2[k])
          BY <1>4, <1>5, <3>5, <4>1, <5>1
        <5> QED BY <3>5, <5>1, <5>2
      <4>2. CASE g = h
        <5>1. MetAt(o, M2[n]) = MetAt(o, l) /\ Size(M2[n]) = z /\ MetAt(o, l) <= MetAt(o, h)
          BY <2>1, <3>5
        <5>2. MetAt(o, h) + Size(h) = MetAt(o, l) + z
          BY <3>6, <3>9, <4>2
        <5>3. MetAt(o, g) + Size(g) <= MetAt(o, M2[n]) + Size(M2[n])
          BY <1>5, <4>2, <5>1, <5>2
        <5> QED BY <2>1, <4>2, <5>1, <5>3
      <4> QED BY <3>9, <4>1, <4>2
    <3>10. Len(M2) = n
      BY <3>2
    <3> HIDE DEF n
    <3> QED BY <1>1, <3>7, <3>8, <3>9, <3>10 DEF Merged, M2
  <2> QED BY <2>3, <2>4
<1>7. CASE ~near
  <2>1. M2 = Append(M, h)
    BY <1>2, <1>7
  <2>2. Len(M2) = n + 1 /\ (\A k \in 1..n : M2[k] = M[k]) /\ M2[n + 1] = h
    BY <1>1, <2>1
  <2>3. \A j \in 1..n : MetAt(o, M[j]) + Size(M[j]) < MetAt(o, h)
    <3>1. TAKE j \in 1..n
    <3>2. n \in 1..n /\ l \in HoleType /\ MetAt(o, l) <= MetAt(o, h)
      BY <1>1, <1>4
    <3>3. BufferLen(l.start, h.start) = MetAt(o, h) - MetAt(o, l)
      BY <3>2, LaterIs DEF MetAt, HoleType
    <3>4. MetAt(o, l) + Size(l) < MetAt(o, h)
      BY <1>4, <1>5, <1>7, <3>2, <3>3
    <3>5. CASE j = n
      BY <3>4, <3>5
    <3>6. CASE j < n
      <4>1. MetAt(o, M[j]) + Size(M[j]) < MetAt(o, l)
        BY <1>3, <3>2, <3>6
      <4> QED BY <1>4, <1>5, <3>2, <4>1
    <3> QED BY <1>1, <3>5, <3>6
  <2> HIDE DEF M2
  <2>4. \A k \in 1..(n + 1) : k = n + 1 \/ k \in 1..n
    BY <1>1
  <2>5. n + 1 \in 1..(n + 1) /\ \A k \in 1..n : k \in 1..(n + 1)
    BY <1>1
  <2>6. \A k \in 1..(n + 1) : MetAt(o, M2[k]) + Size(M2[k]) <= BufSize
                              /\ \E g \in s \cup {h} : M2[k].start = g.start
    BY <1>3, <1>5, <2>2, <2>4
  <2>7. \A j, k \in 1..(n + 1) : j < k => MetAt(o, M2[j]) + Size(M2[j]) < MetAt(o, M2[k])
    <3>1. TAKE j, k \in 1..(n + 1)
    <3>2. HAVE j < k
    <3>3. j \in 1..n
      BY <1>1, <3>1, <3>2
    <3> QED BY <1>3, <2>2, <2>3, <2>4, <3>2, <3>3
  <2>8. ASSUME NEW g \in s \cup {h}, g.end # o
        PROVE  \E k \in 1..(n + 1) : /\ MetAt(o, M2[k]) <= MetAt(o, g)
                                     /\ MetAt(o, g) + Size(g) <= MetAt(o, M2[k]) + Size(M2[k])
    <3>1. CASE g \in s
      <4>1. PICK k \in 1..n : /\ MetAt(o, M[k]) <= MetAt(o, g)
                              /\ MetAt(o, g) + Size(g) <= MetAt(o, M[k]) + Size(M[k])
        BY <1>3, <2>8, <3>1
      <4> QED BY <2>2, <2>5, <4>1
    <3>2. CASE g = h
      <4>1. M2[n + 1] = g /\ MetAt(o, g) \in Nat /\ Size(g) \in Nat
        BY <1>5, <2>2, <3>2
      <4> QED BY <2>5, <4>1
    <3> QED BY <2>8, <3>1, <3>2
  <2>9. Len(M2) = n + 1 /\ M2 \in Seq(HoleType)
    BY <1>1, <2>2
  <2> HIDE DEF n
  <2> QED BY <2>6, <2>7, <2>8, <2>9 DEF Merged, M2
<1> QED BY <1>6, <1>7

\* BlackHoleSortMerge, for a writer that is not inside of a hole.
LEMMA MergedIs ==
    ASSUME NEW o \in Offset, NEW hs, hs \subseteq HoleType, IsFiniteSet(hs), \A h \in hs : ~Inside(o, h)
    PROVE  Merged(o, hs, SortMerge(o, hs))
<1> DEFINE table == MergeTable(o, hs)
           Bad == {n \in Nat : \E s \in SUBSET hs : Cardinality(s) = n /\ ~Merged(o, s, table[s])}
<1>1. \A s \in SUBSET hs : IsFiniteSet(s) /\ Cardinality(s) \in Nat
  BY FS_Subset, FS_CardinalityType
<1>2. Bad = {}
  <2>1. SUFFICES ASSUME Bad # {} PROVE FALSE
    OBVIOUS
  <2>2. PICK n \in Bad : \A k \in Bad : n <= k
    BY <2>1, LeastNat
  <2>3. PICK s \in SUBSET hs : Cardinality(s) = n /\ ~Merged(o, s, table[s])
    BY <2>2
  <2>4. table[s] = MergeEntry(o, s, table)
    BY MergeTableIs
  <2>5. s # {}
    <3>1. SUFFICES ASSUME s = {} PROVE FALSE
      OBVIOUS
    <3>2. table[s] = <<>>
      BY <2>4, <3>1 DEF MergeEntry
    <3> HIDE DEF table
    <3>3. Merged(o, s, table[s])
      BY <3>1, <3>2 DEF Merged
    <3> QED BY <2>3, <3>3
  <2> DEFINE h == LastMet(o, s)
             t == s \ {h}
             M == table[t]
  <2>6. h \in s /\ \A g \in s : MetAt(o, g) <= MetAt(o, h)
    BY <2>5, LastMetIs DEF MetAt
  <2>7. t \in SUBSET hs /\ Cardinality(t) = n - 1 /\ Cardinality(t) \in Nat
    BY <1>1, <2>3, <2>6, FS_RemoveElement
  <2>8. Merged(o, t, M)
    <3>1. n - 1 \notin Bad
      BY <2>2, <2>7
    <3> QED BY <2>7, <3>1
  <2>9. table[s] = MergeHole(M, h)
    BY <2>4, <2>5 DEF MergeEntry
  <2>10. h \in HoleType /\ ~Inside(o, h) /\ t \subseteq HoleType /\ t \cup {h} = s
         /\ \A g \in t : MetAt(o, g) <= MetAt(o, h)
    BY <2>6
  <2> HIDE DEF table, h, t, M
  <2>11. Merged(o, t \cup {h}, MergeHole(M, h))
    BY <2>8, <2>10, MergedOne
  <2> QED BY <2>3, <2>9, <2>10, <2>11
<1>3. Merged(o, hs, table[hs])
  BY <1>1, <1>2
<1> QED BY <1>3, MergeUnfold

\* n bytes at an offset on the way from o to the hole h that miss the hole end
\* before its start.
LEMMA MissesIs ==
    ASSUME NEW o \in Offset, NEW at \in Offset, NEW n \in 0..BufSize, NEW h \in HoleType,
           BufferLen(o, at) <= MetAt(o, h), MetAt(o, h) + Size(h) <= BufSize,
           BufferLen(o, at) + n < BufSize, Misses(at, n, h)
    PROVE  BufferLen(o, at) + n <= MetAt(o, h)
<1> DEFINE a == h.start
           z == h.end
           e == AdvanceOffset(at, n)
<1>1. a \in Offset /\ z \in Offset
  BY DEF HoleType
<1>2. /\ BufferLen(o, at) <= BufferLen(o, a) /\ BufferLen(o, a) + BufferLen(a, z) <= BufSize
      /\ BufferLen(o, at) + n < BufSize
  BY DEF MetAt, Size
<1>3. \/ at < e /\ a < z /\ at > z /\ e > z
      \/ at < e /\ a < z /\ at < a /\ e <= a
      \/ at < e /\ a >= z /\ at < a /\ at > z /\ e <= a /\ e > z
      \/ at >= e /\ z > a /\ at > z /\ e <= a
  BY DEF Misses
<1>4. SUFFICES BufferLen(o, at) + n <= BufferLen(o, a)
  BY DEF MetAt
<1> HIDE DEF a, z
<1>5. e = IF at + n < BufSize THEN at + n ELSE at + n - BufSize
  BY AdvanceOffsetIs
<1> HIDE DEF e
<1>6. /\ BufferLen(o, a) = IF o <= a THEN a - o ELSE BufSize + a - o
      /\ BufferLen(o, at) = IF o <= at THEN at - o ELSE BufSize + at - o
      /\ BufferLen(a, z) = IF a <= z THEN z - a ELSE BufSize + z - a
  BY <1>1, BufferLenIs
<1>7. o \in Nat /\ a \in Nat /\ z \in Nat /\ at \in Nat /\ n \in Nat /\ BufSize \in Nat
      /\ o < BufSize /\ a < BufSize /\ z < BufSize /\ at < BufSize
  BY <1>1, Sized DEF Offset
<1>8. CASE at < e /\ a < z /\ at > z /\ e > z
  BY <1>2, <1>5, <1>6, <1>7, <1>8
<1>9. CASE at < e /\ a < z /\ at < a /\ e <= a
  BY <1>2, <1>5, <1>6, <1>7, <1>9
<1>10. CASE at < e /\ a >= z /\ at < a /\ at > z /\ e <= a /\ e > z
  BY <1>2, <1>5, <1>6, <1>7, <1>10
<1>11. CASE at >= e /\ z > a /\ at > z /\ e <= a
  BY <1>2, <1>5, <1>6, <1>7, <1>11
<1> QED BY <1>3, <1>8, <1>9, <1>10, <1>11

\* Where BlackholeJump puts n bytes, the writer has left behind a hole or has
\* the bytes before it, unless it has only jumped in a full round.
LEMMA JumpClear ==
    ASSUME NEW o \in Offset, NEW n \in 0..BufSize, NEW hs, hs \subseteq HoleType, IsFiniteSet(hs),
           \A h \in hs : ~Inside(o, h), NEW jump, jump = BlackholeJump(o, n, hs),
           \A h \in hs : jump.fits \/ jump.at # o,
           jump.fits \in BOOLEAN, BufferLen(o, jump.at) + n < BufSize
    PROVE  \A g \in hs : g.end # o => \/ MetAt(o, g) + Size(g) <= BufferLen(o, jump.at)
                                      \/ BufferLen(o, jump.at) + n <= MetAt(o, g)
<1> DEFINE M == SortMerge(o, hs)
           at == jump.at
           d == BufferLen(o, at)
<1>1. PICK k \in 1..(Len(M) + 1) :
          /\ at = IF k = 1 THEN o ELSE M[k - 1].end
          /\ at \in Offset
          /\ jump.fits => k <= Len(M) /\ Misses(at, n, M[k])
          /\ ~jump.fits => k = Len(M) + 1
  BY JumpIs
<1>2. SUFFICES ASSUME NEW g \in hs, g.end # o PROVE MetAt(o, g) + Size(g) <= d \/ d + n <= MetAt(o, g)
  OBVIOUS
<1>3. Merged(o, hs, M)
  BY MergedIs
<1> HIDE DEF M
<1>4. M \in Seq(HoleType) /\ Len(M) \in Nat
  BY <1>3 DEF Merged
<1>5. /\ \A j \in 1..Len(M) : MetAt(o, M[j]) + Size(M[j]) <= BufSize
      /\ \A i, j \in 1..Len(M) : i < j => MetAt(o, M[i]) + Size(M[i]) < MetAt(o, M[j])
  BY <1>3 DEF Merged
<1>6. PICK m \in 1..Len(M) : /\ MetAt(o, M[m]) <= MetAt(o, g)
                             /\ MetAt(o, g) + Size(g) <= MetAt(o, M[m]) + Size(M[m])
  BY <1>2, <1>3 DEF Merged
<1>7. \A j \in 1..Len(M) : /\ M[j] \in HoleType /\ M[j].end \in Offset
                           /\ MetAt(o, M[j]) \in Nat /\ Size(M[j]) \in Nat /\ MetAt(o, M[j]) < BufSize
                           /\ BufferLen(o, M[j].end) = (IF MetAt(o, M[j]) + Size(M[j]) < BufSize
                                                        THEN MetAt(o, M[j]) + Size(M[j]) ELSE 0)
  <2>1. TAKE j \in 1..Len(M)
  <2>2. M[j] \in HoleType
    BY <1>4
  <2> DEFINE h == M[j]
             a == h.start
             z == h.end
  <2>3. a \in Offset /\ z \in Offset
    BY <2>2 DEF HoleType
  <2>4. BufferLen(o, a) + BufferLen(a, z) <= BufSize
    BY <1>5 DEF MetAt, Size
  <2>5. BufferLen(o, a) \in Nat /\ BufferLen(a, z) \in Nat /\ BufferLen(o, a) < BufSize
        /\ BufferLen(o, z) = IF BufferLen(o, a) + BufferLen(a, z) < BufSize
                             THEN BufferLen(o, a) + BufferLen(a, z) ELSE 0
    <3> HIDE DEF a, z, h
    <3>1. /\ BufferLen(o, a) = IF o <= a THEN a - o ELSE BufSize + a - o
          /\ BufferLen(o, z) = IF o <= z THEN z - o ELSE BufSize + z - o
          /\ BufferLen(a, z) = IF a <= z THEN z - a ELSE BufSize + z - a
      BY <2>3, BufferLenIs
    <3>2. o \in Nat /\ a \in Nat /\ z \in Nat /\ BufSize \in Nat /\ o < BufSize /\ a < BufSize /\ z < BufSize
      BY <2>3, Sized DEF Offset
    <3> QED BY <2>4, <3>1, <3>2
  <2> QED BY <2>2, <2>3, <2>5 DEF MetAt, Size
<1>8. d \in Nat /\ n \in Nat /\ BufSize \in Nat /\ MetAt(o, g) \in Nat /\ Size(g) \in Nat
  <2>1. g \in HoleType /\ ~Inside(o, g)
    BY <1>2
  <2>2. MetAt(o, g) \in Nat /\ Size(g) \in Nat
    BY <2>1, ReachIs
  <2>3. d \in Offset
    BY <1>1, BufferLenIs
  <2> HIDE DEF d
  <2>4. BufSize \in Nat /\ Offset \subseteq Nat
    BY Sized
  <2>5. n \in Nat
    BY <2>4
  <2> QED BY <2>2, <2>3, <2>4, <2>5
<1>9. BufferLen(o, o) = 0
  BY BufferLenIs, Sized
<1>10. ASSUME k # 1
       PROVE  k - 1 \in 1..Len(M) /\ at = M[k - 1].end
  BY <1>1, <1>4, <1>10
<1>11. CASE m < k
  <2>1. k # 1 /\ m <= k - 1
    BY <1>11
  <2> DEFINE l == M[k - 1]
  <2>2. k - 1 \in 1..Len(M) /\ at = l.end
    BY <1>10, <2>1
  <2>3. MetAt(o, M[m]) + Size(M[m]) <= MetAt(o, l) + Size(l)
    <3>1. CASE m = k - 1
      BY <1>7, <2>2, <3>1
    <3>2. CASE m < k - 1
      <4>1. MetAt(o, M[m]) + Size(M[m]) < MetAt(o, l)
        BY <1>5, <2>2, <3>2
      <4>2. /\ MetAt(o, M[m]) \in Nat /\ Size(M[m]) \in Nat
            /\ MetAt(o, l) \in Nat /\ Size(l) \in Nat
        BY <1>7, <2>2
      <4> HIDE DEF l
      <4> QED BY <4>1, <4>2
    <3> QED BY <2>1, <3>1, <3>2
  <2>4. d = IF MetAt(o, l) + Size(l) < BufSize THEN MetAt(o, l) + Size(l) ELSE 0
    BY <1>7, <2>2
  <2>5. CASE MetAt(o, l) + Size(l) < BufSize
    BY <1>6, <1>7, <1>8, <2>2, <2>3, <2>4, <2>5
  <2>6. CASE ~(MetAt(o, l) + Size(l) < BufSize)
    <3>1. k > Len(M)
      <4>1. SUFFICES ASSUME k \in 1..Len(M) PROVE FALSE
        BY <1>4
      <4>2. MetAt(o, l) + Size(l) < MetAt(o, M[k])
        BY <1>5, <2>2, <4>1
      <4>3. MetAt(o, M[k]) \in Nat /\ MetAt(o, M[k]) < BufSize /\ MetAt(o, l) \in Nat /\ Size(l) \in Nat
        BY <1>7, <2>2, <4>1
      <4> HIDE DEF l
      <4> QED BY <1>8, <2>6, <4>2, <4>3
    <3>2. at # o
      BY <1>1, <1>2, <3>1
    <3>3. d = 0 /\ at \in Offset
      BY <1>1, <2>4, <2>6
    <3>4. d = IF o <= at THEN at - o ELSE BufSize + at - o
      BY <3>3, BufferLenIs
    <3>5. at \in Nat /\ o \in Nat /\ o < BufSize
      BY <3>3, Sized DEF Offset
    <3> QED BY <1>8, <3>2, <3>3, <3>4, <3>5
  <2> QED BY <2>5, <2>6
<1>12. CASE m >= k
  <2>1. k \in 1..Len(M) /\ jump.fits /\ Misses(at, n, M[k])
    BY <1>1, <1>4, <1>12
  <2>2. d <= MetAt(o, M[k])
    <3>1. CASE k = 1
      BY <1>1, <1>7, <1>9, <2>1, <3>1
    <3>2. CASE k # 1
      <4> DEFINE l == M[k - 1]
      <4>1. MetAt(o, l) + Size(l) < MetAt(o, M[k]) /\ k - 1 \in 1..Len(M) /\ at = l.end
        BY <1>5, <1>10, <2>1, <3>2
      <4>2. d = IF MetAt(o, l) + Size(l) < BufSize THEN MetAt(o, l) + Size(l) ELSE 0
        BY <1>7, <4>1
      <4>3. MetAt(o, M[k]) \in Nat /\ MetAt(o, l) \in Nat /\ Size(l) \in Nat
        BY <1>7, <2>1, <4>1
      <4> HIDE DEF l, d
      <4> QED BY <4>1, <4>2, <4>3
    <3> QED BY <3>1, <3>2
  <2>3. d + n <= MetAt(o, M[k])
    <3> DEFINE h == M[k]
    <3>1. h \in HoleType /\ at \in Offset /\ BufferLen(o, at) <= MetAt(o, h)
          /\ MetAt(o, h) + Size(h) <= BufSize /\ BufferLen(o, at) + n < BufSize /\ Misses(at, n, h)
      BY <1>1, <1>5, <1>7, <2>1, <2>2
    <3> HIDE DEF h, at
    <3>2. BufferLen(o, at) + n <= MetAt(o, h)
      BY <3>1, MissesIs
    <3> QED BY <3>2 DEF h
  <2>4. MetAt(o, M[k]) <= MetAt(o, M[m])
    <3>1. CASE m = k
      BY <1>7, <2>1, <3>1
    <3>2. CASE m > k
      <4>1. MetAt(o, M[k]) + Size(M[k]) < MetAt(o, M[m])
        BY <1>5, <2>1, <3>2
      <4> QED BY <1>7, <2>1, <4>1
    <3> QED BY <1>12, <3>1, <3>2
  <2> QED BY <1>6, <1>7, <1>8, <2>1, <2>3, <2>4
<1> QED BY <1>4, <1>11, <1>12

-----------------------------------------------------------------------------
(* Frames in line *)

\* From index i and offset o on the frames f lie in line up to a writer at
\* index p and offset P: InLine for any frames, writer and position.
Line(f, p, P, i, o) ==
    \A j \in IndexRange(i, p) :
        /\ f[j].length <= BufferLen(f[j].offset, P)
        /\ BufferLen(f[j].offset, P) <= BufferLen(o, P)
        /\ \A k \in IndexRange(AdvanceIndex(j, 1), p) :
               BufferLen(f[k].offset, P) <= BufferLen(f[j].offset, P) - f[j].length

\* Everything from index i and offset o on is whole, the frames of S being
\* whole, and in line.
Good(f, p, P, S, i, o) == IndexRange(i, p) \subseteq S /\ Line(f, p, P, i, o)

\* A writer at p and P can take n bytes and an index slot without reaching
\* the reader at i and o.
RoomFor(p, P, n, i, o) == i # AdvanceIndex(p, 1) /\ WritableSize(o, P) > n

\* The frames, and the length of the whole ones.
Frames(f, S) == f \in [Idx -> Frame] /\ \A j \in S : f[j].length \in 1..(BufSize - 1)

LEMMA FrameIs ==
    ASSUME NEW f \in [Idx -> Frame], NEW j \in Idx
    PROVE  f[j].offset \in Offset /\ f[j].length \in Nat /\ f[j].length \in 0..BufSize
<1>1. f[j] \in Frame
  OBVIOUS
<1> QED BY <1>1, Sized DEF Frame

\* An index in the range of another one, and what lies behind it.
LEMMA RangeLater ==
    ASSUME NEW i \in Idx, NEW p \in Idx, NEW j \in IndexRange(i, p)
    PROVE  /\ j \in Idx /\ j # p /\ i # p /\ j \in IndexRange(j, p) /\ i \in IndexRange(i, p)
           /\ IndexRange(j, p) \subseteq IndexRange(i, p)
           /\ IndexRange(AdvanceIndex(j, 1), p) \subseteq IndexRange(j, p)
           /\ j = AdvanceIndex(p, 1) => i = j
           /\ \A x \in IndexRange(j, p) : x = j \/ x \in IndexRange(AdvanceIndex(j, 1), p)
<1>0. FrameNum \in Nat /\ FrameNum > 2 /\ 0 \in Idx
  BY Sized
<1>1. j \in Idx /\ Steps(i, j) < Steps(i, p)
  BY IndexRangeIs
<1> DEFINE n == AdvanceIndex(j, 1)
<1>2. n \in Idx /\ n = IF j + 1 < FrameNum THEN j + 1 ELSE 0
  BY <1>1, NextIndex
<1> HIDE DEF n
<1>3. Steps(i, i) = 0 /\ Steps(i, p) = (IF i <= p THEN p - i ELSE FrameNum + p - i)
  BY StepsIs, <1>0 DEF Idx
<1>4. Steps(i, j) = (IF i <= j THEN j - i ELSE FrameNum + j - i)
  BY <1>1, StepsIs
<1>5. Steps(j, j) = 0 /\ Steps(j, p) = (IF j <= p THEN p - j ELSE FrameNum + p - j)
  BY <1>1, StepsIs, <1>0 DEF Idx
<1>6. j # p /\ i # p
  BY <1>0, <1>1, <1>3, <1>4 DEF Idx
<1>7. \A x \in Idx : /\ Steps(i, x) = (IF i <= x THEN x - i ELSE FrameNum + x - i)
                     /\ Steps(j, x) = (IF j <= x THEN x - j ELSE FrameNum + x - j)
                     /\ Steps(n, x) = (IF n <= x THEN x - n ELSE FrameNum + x - n)
  BY <1>1, <1>2, StepsIs
<1>8. IndexRange(i, p) = {x \in Idx : Steps(i, x) < Steps(i, p)}
  BY IndexRangeIs
<1>9. IndexRange(j, p) = {x \in Idx : Steps(j, x) < Steps(j, p)}
  BY <1>1, IndexRangeIs
<1>10. IndexRange(n, p) = {x \in Idx : Steps(n, x) < Steps(n, p)}
  BY <1>2, IndexRangeIs
<1>11. j \in IndexRange(j, p) /\ i \in IndexRange(i, p)
  BY <1>0, <1>1, <1>3, <1>5, <1>6, <1>8, <1>9 DEF Idx
<1>12. \A x \in Idx : Steps(j, x) < Steps(j, p) => Steps(i, x) < Steps(i, p)
  <2>1. TAKE x \in Idx
  <2> QED BY <1>0, <1>1, <1>3, <1>4, <1>5, <1>7 DEF Idx
<1>13. \A x \in Idx : Steps(n, x) < Steps(n, p) => Steps(j, x) < Steps(j, p)
  <2>1. TAKE x \in Idx
  <2> QED BY <1>0, <1>1, <1>2, <1>5, <1>6, <1>7 DEF Idx
<1>14. \A x \in Idx : Steps(j, x) < Steps(j, p) => x = j \/ Steps(n, x) < Steps(n, p)
  <2>1. TAKE x \in Idx
  <2> QED BY <1>0, <1>1, <1>2, <1>5, <1>6, <1>7 DEF Idx
<1>15. j = AdvanceIndex(p, 1) => i = j
  <2>1. AdvanceIndex(p, 1) = IF p + 1 < FrameNum THEN p + 1 ELSE 0
    BY NextIndex
  <2> QED BY <1>0, <1>1, <1>3, <1>4, <2>1 DEF Idx
<1> QED BY <1>1, <1>6, <1>8, <1>9, <1>10, <1>11, <1>12, <1>13, <1>14, <1>15 DEF n

\* The ranges when the writer goes on by one index, and the empty range.
LEMMA RangeGrows ==
    ASSUME NEW i \in Idx, NEW p \in Idx, i # AdvanceIndex(p, 1)
    PROVE  /\ IndexRange(i, AdvanceIndex(p, 1)) = IndexRange(i, p) \cup {p}
           /\ p \notin IndexRange(i, p)
           /\ i # p => IndexRange(i, p) # {}
<1>0. FrameNum \in Nat /\ FrameNum > 2
  BY Sized
<1> DEFINE n == AdvanceIndex(p, 1)
<1>1. n \in Idx /\ n = IF p + 1 < FrameNum THEN p + 1 ELSE 0
  BY NextIndex
<1>2. i # n
  OBVIOUS
<1>3. IndexRange(i, n) = {x \in Idx : Steps(i, x) < Steps(i, n)}
  BY <1>1, IndexRangeIs
<1> HIDE DEF n
<1>4. IndexRange(i, p) = {x \in Idx : Steps(i, x) < Steps(i, p)}
  BY IndexRangeIs
<1>5. \A x \in Idx : Steps(i, x) = IF i <= x THEN x - i ELSE FrameNum + x - i
  BY StepsIs
<1>6. \A x \in Idx : Steps(i, x) < Steps(i, n) <=> Steps(i, x) < Steps(i, p) \/ x = p
  <2>1. TAKE x \in Idx
  <2> QED BY <1>0, <1>1, <1>2, <1>5 DEF Idx
<1>7. Steps(i, p) \in Nat /\ Steps(i, i) = 0 /\ (i # p => Steps(i, p) > 0)
  BY <1>0, <1>5 DEF Idx
<1> QED BY <1>3, <1>4, <1>6, <1>7 DEF n

LEMMA RangeEmpty ==
    ASSUME NEW p \in Idx
    PROVE  IndexRange(p, p) = {} /\ p # AdvanceIndex(p, 1)
<1>0. FrameNum \in Nat /\ FrameNum > 2
  BY Sized
<1>1. \A x \in Idx : Steps(p, x) = IF p <= x THEN x - p ELSE FrameNum + x - p
  BY StepsIs
<1>2. IndexRange(p, p) = {x \in Idx : Steps(p, x) < Steps(p, p)}
  BY IndexRangeIs
<1>3. \A x \in Idx : ~(Steps(p, x) < Steps(p, p))
  <2>1. TAKE x \in Idx
  <2> QED BY <1>0, <1>1 DEF Idx
<1>4. AdvanceIndex(p, 1) = IF p + 1 < FrameNum THEN p + 1 ELSE 0
  BY NextIndex
<1>5. p # AdvanceIndex(p, 1)
  BY <1>0, <1>4 DEF Idx
<1> QED BY <1>2, <1>3, <1>5

\* GetWritableSize is what is left of a round.
LEMMA WritableIs ==
    ASSUME NEW a \in Offset, NEW b \in Offset
    PROVE  /\ WritableSize(a, b) = BufSize - BufferLen(a, b)
           /\ BufferLen(a, b) \in Nat /\ BufferLen(a, b) < BufSize
           /\ BufferLen(a, b) = 0 <=> a = b
<1>1. BufferLen(a, b) = IF a <= b THEN b - a ELSE BufSize + b - a
  BY BufferLenIs
<1>2. BufferLen(b, a) = IF b <= a THEN a - b ELSE BufSize + a - b
  BY BufferLenIs
<1>3. BufSize \in Nat /\ BufSize > 0
  BY Sized
<1> QED BY <1>1, <1>2, <1>3 DEF WritableSize, Offset

\* A reader at the writer's position has nothing to read, and all the room.
LEMMA GoodAtEnd ==
    ASSUME NEW f, NEW S, NEW p \in Idx, NEW P \in Offset, NEW n \in Nat, n < BufSize
    PROVE  Good(f, p, P, S, p, P) /\ RoomFor(p, P, n, p, P)
<1>1. WritableSize(P, P) = BufSize
  BY DEF WritableSize
<1> QED BY <1>1, RangeEmpty DEF Good, Line, RoomFor

\* A frame that is not read yet: a reader may go on there.
LEMMA GoodLater ==
    ASSUME NEW f, NEW S, Frames(f, S), NEW p \in Idx, NEW P \in Offset,
           NEW i \in Idx, NEW o \in Offset, Good(f, p, P, S, i, o), NEW j \in IndexRange(i, p)
    PROVE  /\ j \in Idx /\ j \in S /\ Good(f, p, P, S, j, f[j].offset)
           /\ f[j].offset # P /\ o # P
           /\ f[j].length \in 1..(BufSize - 1) /\ f[j].length <= BufferLen(f[j].offset, P)
           /\ BufferLen(f[j].offset, P) <= BufferLen(o, P)
           /\ \A n : n \in Nat /\ RoomFor(p, P, n, i, o) => RoomFor(p, P, n, j, f[j].offset)
<1>0. BufSize \in Nat
  BY Sized
<1>1. /\ j \in Idx /\ j # p /\ j \in IndexRange(j, p)
      /\ IndexRange(j, p) \subseteq IndexRange(i, p)
      /\ (j = AdvanceIndex(p, 1) => i = j)
      /\ \A x \in IndexRange(j, p) : x = j \/ x \in IndexRange(AdvanceIndex(j, 1), p)
  BY RangeLater
<1>2. j \in S /\ f[j].length \in 1..(BufSize - 1)
  BY DEF Good, Frames
<1>3. \A x \in Idx : f[x].offset \in Offset /\ f[x].length \in Nat
  BY FrameIs DEF Frames
<1>4. \A a \in Offset : /\ WritableSize(a, P) = BufSize - BufferLen(a, P)
                        /\ BufferLen(a, P) \in Nat /\ (BufferLen(a, P) = 0 <=> a = P)
  BY WritableIs
<1>5. f[j].length <= BufferLen(f[j].offset, P) /\ BufferLen(f[j].offset, P) <= BufferLen(o, P)
  BY DEF Good, Line
<1>6. f[j].offset \in Offset /\ f[j].offset # P /\ o # P
  BY <1>0, <1>1, <1>2, <1>3, <1>4, <1>5
<1>7. Line(f, p, P, j, f[j].offset)
  <2>1. SUFFICES ASSUME NEW k \in IndexRange(j, p)
                 PROVE  /\ f[k].length <= BufferLen(f[k].offset, P)
                        /\ BufferLen(f[k].offset, P) <= BufferLen(f[j].offset, P)
                        /\ \A x \in IndexRange(AdvanceIndex(k, 1), p) :
                               BufferLen(f[x].offset, P) <= BufferLen(f[k].offset, P) - f[k].length
    BY DEF Line
  <2>2. k \in IndexRange(i, p) /\ k \in Idx
    BY <1>1, RangeLater
  <2>3. /\ f[k].length <= BufferLen(f[k].offset, P)
        /\ \A x \in IndexRange(AdvanceIndex(k, 1), p) :
               BufferLen(f[x].offset, P) <= BufferLen(f[k].offset, P) - f[k].length
    BY <2>2 DEF Good, Line
  <2>4. BufferLen(f[k].offset, P) <= BufferLen(f[j].offset, P)
    <3>1. CASE k = j
      BY <3>1, <1>3, <1>4, <2>2
    <3>2. CASE k \in IndexRange(AdvanceIndex(j, 1), p)
      <4>1. BufferLen(f[k].offset, P) <= BufferLen(f[j].offset, P) - f[j].length
        BY <3>2 DEF Good, Line
      <4> QED BY <4>1, <1>1, <1>3, <1>4, <2>2
    <3> QED BY <1>1, <3>1, <3>2
  <2> QED BY <2>3, <2>4
<1>8. Good(f, p, P, S, j, f[j].offset)
  BY <1>1, <1>7 DEF Good
<1>9. ASSUME NEW n \in Nat, RoomFor(p, P, n, i, o) PROVE RoomFor(p, P, n, j, f[j].offset)
  <2>1. WritableSize(f[j].offset, P) = BufSize - BufferLen(f[j].offset, P)
    BY <1>4, <1>6
  <2>2. WritableSize(o, P) = BufSize - BufferLen(o, P) /\ BufferLen(o, P) \in Nat
    BY <1>4
  <2>3. BufferLen(f[j].offset, P) \in Nat
    BY <1>4, <1>6
  <2>4. WritableSize(f[j].offset, P) > n
    BY <1>0, <1>5, <1>9, <2>1, <2>2, <2>3 DEF RoomFor
  <2> QED BY <1>1, <1>9, <2>4 DEF RoomFor
<1> QED BY <1>1, <1>2, <1>5, <1>6, <1>8, <1>9

\* The distance to the writer when the reader, or the writer, goes on.
LEMMA AheadShrinks ==
    ASSUME NEW a \in Offset, NEW P \in Offset, NEW n \in Nat, n <= BufferLen(a, P)
    PROVE  AdvanceOffset(a, n) \in Offset /\ BufferLen(AdvanceOffset(a, n), P) = BufferLen(a, P) - n
<1>0. BufSize \in Nat /\ BufSize > 0
  BY Sized
<1>1. BufferLen(a, P) = (IF a <= P THEN P - a ELSE BufSize + P - a) /\ BufferLen(a, P) < BufSize
  BY <1>0, BufferLenIs DEF Offset
<1>2. n \in 0..BufSize
  BY <1>0, <1>1 DEF Offset
<1> DEFINE b == AdvanceOffset(a, n)
<1>3. b \in Offset /\ b = IF a + n < BufSize THEN a + n ELSE a + n - BufSize
  BY <1>2, AdvanceOffsetIs
<1> HIDE DEF b
<1>4. BufferLen(b, P) = IF b <= P THEN P - b ELSE BufSize + P - b
  BY <1>3, BufferLenIs
<1>5. BufferLen(b, P) = BufferLen(a, P) - n
  BY <1>0, <1>1, <1>3, <1>4 DEF Offset
<1> QED BY <1>3, <1>5 DEF b

LEMMA AheadGrows ==
    ASSUME NEW a \in Offset, NEW P \in Offset, NEW n \in Nat, BufferLen(a, P) + n < BufSize
    PROVE  AdvanceOffset(P, n) \in Offset /\ BufferLen(a, AdvanceOffset(P, n)) = BufferLen(a, P) + n
<1>0. BufSize \in Nat /\ BufSize > 0
  BY Sized
<1>1. BufferLen(a, P) = (IF a <= P THEN P - a ELSE BufSize + P - a) /\ BufferLen(a, P) \in Nat
  BY <1>0, BufferLenIs DEF Offset
<1>2. n \in 0..BufSize
  BY <1>0, <1>1 DEF Offset
<1> DEFINE b == AdvanceOffset(P, n)
<1>3. b \in Offset /\ b = IF P + n < BufSize THEN P + n ELSE P + n - BufSize
  BY <1>2, AdvanceOffsetIs
<1> HIDE DEF b
<1>4. BufferLen(a, b) = IF a <= b THEN b - a ELSE BufSize + b - a
  BY <1>3, BufferLenIs
<1>5. BufferLen(a, b) = BufferLen(a, P) + n
  BY <1>0, <1>1, <1>3, <1>4 DEF Offset
<1> QED BY <1>3, <1>5 DEF b

\* Two steps on, and the way to where they lead.
LEMMA AdvanceTwice ==
    ASSUME NEW P \in Offset, NEW x \in Nat, NEW y \in Nat, x + y < BufSize
    PROVE  /\ AdvanceOffset(P, x) \in Offset /\ AdvanceOffset(P, x + y) \in Offset
           /\ AdvanceOffset(AdvanceOffset(P, x), y) = AdvanceOffset(P, x + y)
           /\ BufferLen(AdvanceOffset(P, x), AdvanceOffset(P, x + y)) = y
<1>0. BufSize \in Nat /\ BufSize > 0
  BY Sized
<1>1. x \in 0..BufSize /\ y \in 0..BufSize /\ x + y \in 0..BufSize
  BY <1>0
<1> DEFINE b == AdvanceOffset(P, x)
           c == AdvanceOffset(P, x + y)
<1>2. b \in Offset /\ b = IF P + x < BufSize THEN P + x ELSE P + x - BufSize
  BY <1>1, AdvanceOffsetIs
<1>3. c \in Offset /\ c = IF P + (x + y) < BufSize THEN P + (x + y) ELSE P + (x + y) - BufSize
  BY <1>1, AdvanceOffsetIs
<1> HIDE DEF b, c
<1>4. AdvanceOffset(b, y) = IF b + y < BufSize THEN b + y ELSE b + y - BufSize
  BY <1>1, <1>2, AdvanceOffsetIs
<1>5. BufferLen(b, c) = IF b <= c THEN c - b ELSE BufSize + c - b
  BY <1>2, <1>3, BufferLenIs
<1>6. AdvanceOffset(b, y) = c
  BY <1>0, <1>2, <1>3, <1>4 DEF Offset
<1>7. BufferLen(b, c) = y
  BY <1>0, <1>2, <1>3, <1>5 DEF Offset
<1> QED BY <1>2, <1>3, <1>6, <1>7 DEF b, c

\* The frame at a reader's position: behind it the reader may go on.
LEMMA GoodRead ==
    ASSUME NEW f, NEW S, Frames(f, S), NEW p \in Idx, NEW P \in Offset,
           NEW i \in Idx, i # p, Good(f, p, P, S, i, f[i].offset), i \in IndexRange(i, p),
           NEW o, o = AdvanceOffset(f[i].offset, f[i].length)
    PROVE  /\ o \in Offset /\ Good(f, p, P, S, AdvanceIndex(i, 1), o)
           /\ \A n : n \in Nat /\ RoomFor(p, P, n, i, f[i].offset)
                        => RoomFor(p, P, n, AdvanceIndex(i, 1), o)
<1>0. BufSize \in Nat
  BY Sized
<1> DEFINE k == AdvanceIndex(i, 1)
           a == f[i].offset
           l == f[i].length
<1>1. k \in Idx /\ IndexRange(k, p) \subseteq IndexRange(i, p)
  BY RangeLater, NextIndex
<1>2. k # AdvanceIndex(p, 1)
  <2>1. k = IF i + 1 < FrameNum THEN i + 1 ELSE 0
    BY NextIndex
  <2>2. AdvanceIndex(p, 1) = IF p + 1 < FrameNum THEN p + 1 ELSE 0
    BY NextIndex
  <2> QED BY <2>1, <2>2, Sized DEF Idx
<1>3. a \in Offset /\ l \in Nat /\ l <= BufferLen(a, P)
  BY FrameIs DEF Good, Line, Frames
<1>4. o \in Offset /\ BufferLen(o, P) = BufferLen(a, P) - l
  BY <1>3, AheadShrinks
<1>5. ASSUME NEW j \in IndexRange(k, p)
      PROVE  /\ f[j].length <= BufferLen(f[j].offset, P)
             /\ BufferLen(f[j].offset, P) <= BufferLen(o, P)
             /\ \A x \in IndexRange(AdvanceIndex(j, 1), p) :
                    BufferLen(f[x].offset, P) <= BufferLen(f[j].offset, P) - f[j].length
  <2>1. j \in IndexRange(i, p)
    BY <1>1
  <2>2. /\ f[j].length <= BufferLen(f[j].offset, P)
        /\ \A x \in IndexRange(AdvanceIndex(j, 1), p) :
               BufferLen(f[x].offset, P) <= BufferLen(f[j].offset, P) - f[j].length
    BY <2>1 DEF Good, Line
  <2>3. BufferLen(f[j].offset, P) <= BufferLen(a, P) - l
    BY DEF Good, Line
  <2> QED BY <1>4, <2>2, <2>3
<1>6. Good(f, p, P, S, k, o)
  BY <1>1, <1>5 DEF Good, Line
<1>7. ASSUME NEW n \in Nat, RoomFor(p, P, n, i, a) PROVE RoomFor(p, P, n, k, o)
  <2>1. WritableSize(a, P) = BufSize - BufferLen(a, P) /\ BufferLen(a, P) \in Nat
    BY <1>3, WritableIs
  <2>2. WritableSize(o, P) = BufSize - BufferLen(o, P)
    BY <1>4, WritableIs
  <2>3. WritableSize(o, P) > n
    BY <1>0, <1>3, <1>4, <1>7, <2>1, <2>2 DEF RoomFor
  <2> QED BY <1>2, <2>3 DEF RoomFor
<1> QED BY <1>4, <1>6, <1>7

\* The writer commits a frame that it had the room for.
LEMMA GoodCommit ==
    ASSUME NEW f, NEW S, Frames(f, S), NEW p \in Idx, NEW P \in Offset,
           NEW x \in Nat, NEW y \in Nat \ {0}, x + y < BufSize,
           NEW i \in Idx, NEW o \in Offset, Good(f, p, P, S, i, o), RoomFor(p, P, x + y, i, o),
           NEW a, a = AdvanceOffset(P, x),
           NEW g, g[p].offset = a, g[p].length = y, \A j \in Idx : j # p => g[j] = f[j]
    PROVE  /\ Good(g, AdvanceIndex(p, 1), AdvanceOffset(a, y), S \cup {p}, i, o)
           /\ \A j \in IndexRange(i, p) : j # p
<1>0. BufSize \in Nat
  BY Sized
<1> DEFINE q == AdvanceIndex(p, 1)
           Q == AdvanceOffset(a, y)
           n == x + y
<1>1. /\ q \in Idx /\ IndexRange(i, q) = IndexRange(i, p) \cup {p} /\ p \notin IndexRange(i, p)
  BY RangeGrows, NextIndex DEF RoomFor
<1>2. a \in Offset /\ Q = AdvanceOffset(P, n) /\ Q \in Offset /\ BufferLen(a, Q) = y
  BY AdvanceTwice
<1>3. g[p].offset = a /\ g[p].length = y /\ \A j \in IndexRange(i, p) : j \in Idx /\ g[j] = f[j]
  <2>1. \A j \in IndexRange(i, p) : j \in Idx
    BY IndexRangeIs
  <2> QED BY <1>1, <2>1 DEF Frames
<1>4. BufferLen(o, P) \in Nat /\ BufferLen(o, P) + n < BufSize /\ BufferLen(o, Q) = BufferLen(o, P) + n
  <2>1. WritableSize(o, P) = BufSize - BufferLen(o, P) /\ BufferLen(o, P) \in Nat
    BY WritableIs
  <2>2. BufferLen(o, P) + n < BufSize
    BY <1>0, <2>1 DEF RoomFor
  <2> QED BY <1>2, <2>1, <2>2, AheadGrows
<1> HIDE DEF Q, n
<1>5. \A j \in IndexRange(i, p) : /\ f[j].offset \in Offset /\ f[j].length \in Nat
                                  /\ BufferLen(f[j].offset, P) \in Nat
                                  /\ f[j].length <= BufferLen(f[j].offset, P)
                                  /\ BufferLen(f[j].offset, P) <= BufferLen(o, P)
                                  /\ BufferLen(f[j].offset, Q) = BufferLen(f[j].offset, P) + n
  <2>1. TAKE j \in IndexRange(i, p)
  <2>2. f[j].offset \in Offset /\ f[j].length \in Nat
    BY <1>3, FrameIs DEF Frames
  <2>3. f[j].length <= BufferLen(f[j].offset, P) /\ BufferLen(f[j].offset, P) <= BufferLen(o, P)
    BY DEF Good, Line
  <2>4. BufferLen(f[j].offset, P) \in Nat
    BY <2>2, WritableIs
  <2>5. n \in Nat
    BY DEF n
  <2>6. BufferLen(f[j].offset, P) + n < BufSize
    BY <1>0, <1>4, <2>3, <2>4, <2>5
  <2>7. BufferLen(f[j].offset, Q) = BufferLen(f[j].offset, P) + n
    BY <1>2, <2>2, <2>5, <2>6, AheadGrows
  <2> QED BY <2>2, <2>3, <2>4, <2>7
<1>6. n \in Nat /\ y <= n
  BY DEF n
<1>7. Line(g, q, Q, i, o)
  <2>1. SUFFICES ASSUME NEW j \in IndexRange(i, q)
                 PROVE  /\ g[j].length <= BufferLen(g[j].offset, Q)
                        /\ BufferLen(g[j].offset, Q) <= BufferLen(o, Q)
                        /\ \A k \in IndexRange(AdvanceIndex(j, 1), q) :
                               BufferLen(g[k].offset, Q) <= BufferLen(g[j].offset, Q) - g[j].length
    BY DEF Line
  <2>2. CASE j = p
    <3>1. IndexRange(AdvanceIndex(j, 1), q) = {}
      BY <1>1, <2>2, RangeEmpty
    <3>2. g[j].offset = a /\ g[j].length = y
      BY <1>3, <2>2
    <3>3. BufferLen(g[j].offset, Q) = y
      BY <1>2, <3>2
    <3>4. BufferLen(g[j].offset, Q) <= BufferLen(o, Q)
      BY <1>4, <1>6, <3>3
    <3> QED BY <3>1, <3>2, <3>3, <3>4
  <2>3. CASE j \in IndexRange(i, p)
    <3>1. g[j] = f[j]
      BY <1>3, <2>3
    <3>2. g[j].length <= BufferLen(g[j].offset, Q)
      BY <1>5, <1>6, <2>3, <3>1
    <3>3. BufferLen(g[j].offset, Q) <= BufferLen(o, Q)
      BY <1>4, <1>5, <1>6, <2>3, <3>1
    <3>4. ASSUME NEW k \in IndexRange(AdvanceIndex(j, 1), q)
          PROVE  BufferLen(g[k].offset, Q) <= BufferLen(g[j].offset, Q) - g[j].length
      <4>1. j # p /\ j \in Idx /\ AdvanceIndex(j, 1) \in Idx
        BY <1>1, <1>3, <2>3, NextIndex
      <4>2. AdvanceIndex(j, 1) # q
        <5>1. AdvanceIndex(j, 1) = IF j + 1 < FrameNum THEN j + 1 ELSE 0
          BY <4>1, NextIndex
        <5>2. q = IF p + 1 < FrameNum THEN p + 1 ELSE 0
          BY NextIndex
        <5> QED BY <4>1, <5>1, <5>2, Sized DEF Idx
      <4>3. IndexRange(AdvanceIndex(j, 1), q) = IndexRange(AdvanceIndex(j, 1), p) \cup {p}
        BY <4>1, <4>2, RangeGrows
      <4>4. CASE k = p
        <5>1. BufferLen(g[k].offset, Q) = y
          BY <1>2, <1>3, <4>4
        <5>2. BufferLen(g[j].offset, Q) - g[j].length >= n
          BY <1>5, <1>6, <2>3, <3>1
        <5>3. BufferLen(g[j].offset, Q) - g[j].length \in Int
          BY <1>5, <1>6, <2>3, <3>1
        <5> QED BY <1>6, <5>1, <5>2, <5>3
      <4>5. CASE k \in IndexRange(AdvanceIndex(j, 1), p)
        <5>1. k \in IndexRange(i, p)
          BY <2>3, <4>5, RangeLater
        <5>2. BufferLen(f[k].offset, P) <= BufferLen(f[j].offset, P) - f[j].length
          BY <2>3, <4>5 DEF Good, Line
        <5>3. g[k] = f[k]
          BY <1>3, <5>1
        <5>4. BufferLen(f[k].offset, Q) = BufferLen(f[k].offset, P) + n /\ BufferLen(f[k].offset, P) \in Nat
          BY <1>5, <5>1
        <5>5. BufferLen(f[j].offset, Q) = BufferLen(f[j].offset, P) + n /\ BufferLen(f[j].offset, P) \in Nat
              /\ f[j].length \in Nat
          BY <1>5, <2>3
        <5> QED BY <1>6, <3>1, <5>2, <5>3, <5>4, <5>5
      <4> QED BY <4>3, <4>4, <4>5
    <3> QED BY <3>2, <3>3, <3>4
  <2> QED BY <1>1, <2>2, <2>3
<1>8. IndexRange(i, q) \subseteq S \cup {p}
  BY <1>1 DEF Good
<1> QED BY <1>1, <1>7, <1>8 DEF Good, Q

\* Bytes behind the writer that end before the reader, and a frame the reader
\* has not read yet, have nothing in common.
LEMMA Apart ==
    ASSUME NEW P \in Offset, NEW a \in Offset, NEW l \in 0..BufSize, NEW s \in Offset, NEW n \in 0..BufSize,
           l <= BufferLen(a, P), BufferLen(P, s) + n + BufferLen(a, P) <= BufSize
    PROVE  Region(a, l) \cap Region(s, n) = {}
<1>0. BufSize \in Nat /\ BufSize > 0
  BY Sized
<1>1. SUFFICES ASSUME NEW x \in Offset, BufferLen(a, x) < l, BufferLen(s, x) < n PROVE FALSE
  <2>1. Region(a, l) = {x \in Offset : BufferLen(a, x) < l}
    BY RegionIs
  <2>2. Region(s, n) = {x \in Offset : BufferLen(s, x) < n}
    BY RegionIs
  <2> QED BY <2>1, <2>2
<1>2. BufferLen(a, P) = IF a <= P THEN P - a ELSE BufSize + P - a
  BY BufferLenIs
<1>3. BufferLen(P, s) = IF P <= s THEN s - P ELSE BufSize + s - P
  BY BufferLenIs
<1>4. BufferLen(a, x) = IF a <= x THEN x - a ELSE BufSize + x - a
  BY BufferLenIs
<1>5. BufferLen(s, x) = IF s <= x THEN x - s ELSE BufSize + x - s
  BY BufferLenIs
<1> QED BY <1>0, <1>1, <1>2, <1>3, <1>4, <1>5 DEF Offset

\* Of the frames of S, those that have nothing of the y bytes from s on are in T.
Spared(f, S, s, y, T) ==
    \A j \in S : Region(f[j].offset, f[j].length) \cap Region(s, y) = {} => j \in T

\* The writer is granted n bytes behind at, with room from its offset on up to
\* the reader: the frames in the reader's range stay whole.
LEMMA GoodTry ==
    ASSUME NEW f, NEW S, Frames(f, S), NEW p \in Idx, NEW P \in Offset, NEW at \in Offset,
           NEW x \in Nat, NEW y \in Nat \ {0}, NEW i \in Idx, NEW o \in Offset,
           Good(f, p, P, S, i, o), i # AdvanceIndex(p, 1),
           BufferLen(P, at) + x + y < WritableSize(o, P),
           NEW T, Spared(f, S, AdvanceOffset(at, x), y, T)
    PROVE  Good(f, p, at, T, i, o) /\ RoomFor(p, at, x + y, i, o)
<1>0. BufSize \in Nat
  BY Sized
<1> DEFINE D == BufferLen(P, at)
           s == AdvanceOffset(at, x)
<1>1. D \in Nat /\ D < BufSize
  BY WritableIs
<1>2. WritableSize(o, P) = BufSize - BufferLen(o, P) /\ BufferLen(o, P) \in Nat
  BY WritableIs
<1>3. BufferLen(o, P) + D + x + y < BufSize
  BY <1>0, <1>1, <1>2
<1>4. D + x < BufSize /\ BufferLen(P, P) = 0
  BY <1>0, <1>1, <1>2, <1>3, WritableIs
<1>5. AdvanceOffset(P, D) = at
  <2>1. D \in 0..BufSize
    BY <1>0, <1>1
  <2>2. D = IF P <= at THEN at - P ELSE BufSize + at - P
    BY BufferLenIs
  <2>3. AdvanceOffset(P, D) = IF P + D < BufSize THEN P + D ELSE P + D - BufSize
    BY <2>1, AdvanceOffsetIs
  <2>4. D \in Nat /\ P \in Nat /\ at \in Nat /\ P < BufSize /\ at < BufSize
    BY <1>0, <1>1 DEF Offset
  <2> HIDE DEF D
  <2> QED BY <1>0, <2>2, <2>3, <2>4
<1>6. s \in Offset /\ BufferLen(P, s) = D + x
  <2>1. s = AdvanceOffset(P, D + x) /\ s \in Offset
    BY <1>1, <1>4, <1>5, AdvanceTwice
  <2>2. BufferLen(P, AdvanceOffset(P, D + x)) = BufferLen(P, P) + (D + x)
    BY <1>1, <1>4, AheadGrows
  <2> QED BY <1>1, <1>4, <2>1, <2>2
<1>7. \A a \in Offset : BufferLen(a, P) <= BufferLen(o, P) => BufferLen(a, at) = BufferLen(a, P) + D
  <2>1. TAKE a \in Offset
  <2>2. BufferLen(a, P) \in Nat
    BY WritableIs
  <2>3. BufferLen(a, P) <= BufferLen(o, P) => BufferLen(a, P) + D < BufSize
    BY <1>0, <1>1, <1>2, <1>3, <2>2
  <2> HIDE DEF D
  <2> QED BY <1>1, <1>5, <2>3, AheadGrows
<1>8. \A j \in IndexRange(i, p) : /\ j \in Idx /\ j \in S /\ f[j].offset \in Offset /\ f[j].length \in Nat
                                  /\ f[j].length \in 0..BufSize
                                  /\ BufferLen(f[j].offset, P) \in Nat
                                  /\ f[j].length <= BufferLen(f[j].offset, P)
                                  /\ BufferLen(f[j].offset, P) <= BufferLen(o, P)
                                  /\ BufferLen(f[j].offset, at) = BufferLen(f[j].offset, P) + D
  <2>1. TAKE j \in IndexRange(i, p)
  <2>2. j \in Idx /\ j \in S
    BY IndexRangeIs DEF Good
  <2>3. f[j].offset \in Offset /\ f[j].length \in Nat /\ f[j].length \in 0..BufSize
    BY <2>2, FrameIs DEF Frames
  <2>4. f[j].length <= BufferLen(f[j].offset, P) /\ BufferLen(f[j].offset, P) <= BufferLen(o, P)
    BY DEF Good, Line
  <2> QED BY <1>7, <2>2, <2>3, <2>4, WritableIs
<1>9. IndexRange(i, p) \subseteq T
  <2>1. SUFFICES ASSUME NEW j \in IndexRange(i, p)
                 PROVE  Region(f[j].offset, f[j].length) \cap Region(s, y) = {}
    BY <1>8 DEF Spared
  <2>2. BufferLen(P, s) + y + BufferLen(f[j].offset, P) <= BufSize /\ y \in 0..BufSize
    BY <1>0, <1>1, <1>2, <1>3, <1>6, <1>8
  <2>3. f[j].offset \in Offset /\ f[j].length \in 0..BufSize /\ f[j].length <= BufferLen(f[j].offset, P)
    BY <1>8
  <2> HIDE DEF s
  <2> QED BY <1>6, <2>2, <2>3, Apart
<1>10. BufferLen(o, at) = BufferLen(o, P) + D
  BY <1>2, <1>7
<1>11. Line(f, p, at, i, o)
  <2>1. SUFFICES ASSUME NEW j \in IndexRange(i, p)
                 PROVE  /\ f[j].length <= BufferLen(f[j].offset, at)
                        /\ BufferLen(f[j].offset, at) <= BufferLen(o, at)
                        /\ \A k \in IndexRange(AdvanceIndex(j, 1), p) :
                               BufferLen(f[k].offset, at) <= BufferLen(f[j].offset, at) - f[j].length
    BY DEF Line
  <2>2. f[j].length <= BufferLen(f[j].offset, at) /\ BufferLen(f[j].offset, at) <= BufferLen(o, at)
    BY <1>1, <1>2, <1>8, <1>10
  <2>3. ASSUME NEW k \in IndexRange(AdvanceIndex(j, 1), p)
        PROVE  BufferLen(f[k].offset, at) <= BufferLen(f[j].offset, at) - f[j].length
    <3>1. k \in IndexRange(i, p)
      BY RangeLater
    <3>2. BufferLen(f[k].offset, P) <= BufferLen(f[j].offset, P) - f[j].length
      BY DEF Good, Line
    <3>3. BufferLen(f[k].offset, at) = BufferLen(f[k].offset, P) + D /\ BufferLen(f[k].offset, P) \in Nat
      BY <1>8, <3>1
    <3>4. BufferLen(f[j].offset, at) = BufferLen(f[j].offset, P) + D /\ BufferLen(f[j].offset, P) \in Nat
          /\ f[j].length \in Nat
      BY <1>8
    <3> QED BY <1>1, <3>2, <3>3, <3>4
  <2> QED BY <2>2, <2>3
<1>12. WritableSize(o, at) > x + y
  <2>1. WritableSize(o, at) = BufSize - BufferLen(o, at)
    BY WritableIs
  <2> QED BY <1>0, <1>1, <1>2, <1>3, <1>10, <2>1
<1> QED BY <1>9, <1>11, <1>12 DEF Good, RoomFor

-----------------------------------------------------------------------------
(* Searching *)

\* The first index of a set from another one on.
LEMMA FirstFromIs ==
    ASSUME NEW i \in Idx, NEW S, S \subseteq Idx, S # {}
    PROVE  FirstFrom(i, S) \in S
<1> DEFINE D == {Steps(i, j) : j \in S}
<1>1. D \in SUBSET Nat /\ D # {}
  BY StepsIs, Sized
<1>2. PICK m \in D : \A n \in D : m <= n
  BY <1>1, LeastNat
<1>3. \E j \in S : \A k \in S : Steps(i, j) <= Steps(i, k)
  BY <1>2
<1> QED BY <1>3 DEF FirstFrom

LEMMA LastBeforeIs ==
    ASSUME NEW i \in Idx, NEW S, S \subseteq Idx, S # {}
    PROVE  LastBefore(i, S) \in S
<1> DEFINE D == {Steps(j, i) : j \in S}
<1>1. D \in SUBSET Nat /\ D # {}
  BY StepsIs, Sized
<1>2. PICK m \in D : \A n \in D : m <= n
  BY <1>1, LeastNat
<1>3. \E j \in S : \A k \in S : Steps(j, i) <= Steps(k, i)
  BY <1>2
<1> QED BY <1>3 DEF LastBefore

\* MoveAllBlockers sends a reader to a frame that it has not read yet and that
\* is not the one the writer wants next, unless it has read everything.
LEMMA NextForBlockerIs ==
    ASSUME NEW c, c.index \in Idx, productor.index \in Idx, NEW i, i = NextForBlocker(c)
    PROVE  /\ i \in Idx /\ i # productor.index
           /\ c.index # productor.index => i \in IndexRange(c.index, productor.index)
           /\ c.index = AdvanceIndex(productor.index, 1) => i # AdvanceIndex(productor.index, 1)
<1> DEFINE p == productor.index
           n == AdvanceIndex(c.index, 1)
           ahead == IFrames(IndexRange(n, p))
<1>0. FrameNum \in Nat /\ FrameNum > 2 /\ p \in Idx
  BY Sized
<1>1. n \in Idx /\ n = IF c.index + 1 < FrameNum THEN c.index + 1 ELSE 0
  BY NextIndex
<1>2. IndexRange(n, p) = {x \in Idx : Steps(n, x) < Steps(n, p)}
  BY <1>1, IndexRangeIs
<1>3. \A x \in Idx : /\ Steps(n, x) = (IF n <= x THEN x - n ELSE FrameNum + x - n)
                     /\ Steps(c.index, x) = (IF c.index <= x THEN x - c.index ELSE FrameNum + x - c.index)
  BY <1>1, StepsIs
<1>4. IndexRange(c.index, p) = {x \in Idx : Steps(c.index, x) < Steps(c.index, p)}
  BY IndexRangeIs
<1>5. AdvanceIndex(p, 1) = IF p + 1 < FrameNum THEN p + 1 ELSE 0
  BY NextIndex
<1>6. CASE ahead = {}
  <2>1. i = StepBackIndex(p)
    BY <1>6 DEF NextForBlocker
  <2>2. i \in Idx /\ i = IF p = 0 THEN FrameNum - 1 ELSE p - 1
    BY <2>1, StepBackIs
  <2>3. i # p /\ i # AdvanceIndex(p, 1)
    BY <1>0, <1>5, <2>2 DEF Idx
  <2>4. c.index # p => Steps(c.index, i) < Steps(c.index, p)
    BY <1>0, <1>3, <2>2 DEF Idx
  <2> QED BY <1>4, <2>2, <2>3, <2>4
<1>7. CASE ahead # {}
  <2>1. i = FirstFrom(n, ahead)
    BY <1>7 DEF NextForBlocker
  <2>2. ahead \subseteq Idx
    BY <1>2 DEF IFrames
  <2>3. i \in IndexRange(n, p)
    BY <1>1, <1>7, <2>1, <2>2, FirstFromIs DEF IFrames
  <2> HIDE DEF n
  <2>4. i \in Idx /\ Steps(n, i) < Steps(n, p)
    BY <1>2, <2>3
  <2> HIDE DEF p
  <2>8. /\ Steps(n, i) = (IF n <= i THEN i - n ELSE FrameNum + i - n)
        /\ Steps(n, p) = (IF n <= p THEN p - n ELSE FrameNum + p - n)
        /\ Steps(c.index, i) = (IF c.index <= i THEN i - c.index ELSE FrameNum + i - c.index)
        /\ Steps(c.index, p) = (IF c.index <= p THEN p - c.index ELSE FrameNum + p - c.index)
    BY <1>0, <1>3, <2>4
  <2>5. i # p
    BY <2>4, <2>8, <1>0, <1>1 DEF Idx
  <2>6. c.index # p => Steps(c.index, i) < Steps(c.index, p)
    BY <1>0, <1>1, <2>4, <2>8 DEF Idx
  <2>7. i # c.index
    BY <1>0, <1>1, <2>4, <2>8 DEF Idx
  <2> QED BY <1>4, <2>4, <2>5, <2>6, <2>7 DEF p
<1> QED BY <1>6, <1>7

\* FindOldesValidIndex ends at an index.
LEMMA OldestIs ==
    ASSUME productor.index \in Idx
    PROVE  OldestValidIndex \in Idx
<1>0. FrameNum \in Nat /\ FrameNum > 2
  BY Sized
<1> DEFINE Grows(k) == Distance(k) > (IF k = 1 THEN 0 ELSE Distance(k - 1))
           Ends(k) == k = FrameNum - 1 \/ ~Grows(k + 1)
           Found(k) == (\A j \in 1..k : Grows(j)) /\ Ends(k)
<1>1. PICK m \in 0..(FrameNum - 1) : Ends(m) /\ \A k \in 0..(FrameNum - 1) : Ends(k) => m <= k
  <2> DEFINE E == {k \in 0..(FrameNum - 1) : Ends(k)}
  <2>1. E \in SUBSET Nat /\ FrameNum - 1 \in E
    BY <1>0
  <2> QED BY <2>1, LeastNat
<1>2. \A j \in 1..m : Grows(j)
  <2>1. TAKE j \in 1..m
  <2>2. j - 1 \in 0..(FrameNum - 1) /\ j - 1 < m /\ (j - 1) + 1 = j
    BY <1>0
  <2>3. ~Ends(j - 1)
    BY <1>1, <2>2
  <2> QED BY <2>2, <2>3
<1>3. \E k \in 0..(FrameNum - 1) : Found(k)
  BY <1>1, <1>2
<1> DEFINE n == CHOOSE k \in 0..(FrameNum - 1) : Found(k)
<1>4. n \in 0..(FrameNum - 1)
  BY <1>3
<1>5. dataWriten => OldestValidIndex = (productor.index + FrameNum - n) % FrameNum
  BY DEF OldestValidIndex
<1> HIDE DEF n
<1>6. productor.index + FrameNum - n \in Nat
  BY <1>0, <1>4 DEF Idx
<1>7. (productor.index + FrameNum - n) % FrameNum \in Idx
  BY <1>0, <1>6 DEF Idx
<1> QED BY <1>5, <1>7 DEF OldestValidIndex

\* Where InstallConsumer and IndexMoveToSpecifiedTime put a reader.
LEMMA TargetsAre ==
    ASSUME productor.index \in Idx, frameIdx \in [Idx -> Frame]
    PROVE  TimeTargets \subseteq Idx /\ InstallAt[1] \in Idx /\ InstallAt[2] \in Offset
<1>0. 0 \in Idx /\ 0 \in Offset
  BY Sized
<1>1. OldestValidIndex \in Idx /\ AdvanceIndex(OldestValidIndex, 1) \in Idx
  BY OldestIs, NextIndex
<1>2. Searched \subseteq Idx
  BY <1>1, IndexRangeIs DEF Searched
<1>3. TimeTargets \subseteq Idx
  BY <1>0, <1>2 DEF TimeTargets, IFrames
<1> DEFINE seen == IFrames(Searched)
           i == IF seen # {} THEN LastBefore(productor.index, seen) ELSE productor.index
<1>4. seen \subseteq Idx
  BY <1>2 DEF IFrames
<1>5. i \in Idx
  BY <1>4, LastBeforeIs
<1>6. InstallAt = IF productor.exist /\ dataWriten THEN <<i, frameIdx[i].offset>> ELSE <<0, 0>>
  BY DEF InstallAt
<1> HIDE DEF i
<1>7. frameIdx[i].offset \in Offset
  BY <1>5, FrameIs
<1>8. CASE productor.exist /\ dataWriten
  BY <1>3, <1>5, <1>6, <1>7, <1>8
<1>9. CASE ~(productor.exist /\ dataWriten)
  BY <1>0, <1>3, <1>6, <1>9
<1> QED BY <1>8, <1>9

-----------------------------------------------------------------------------
(* Readers that are moved on *)

ConsumerType == [name : Readers \cup {None}, offset : Offset, index : Idx, refStart : Idx,
                 refEnd : Idx, state : {"FREE", "HOLDING", "BLOCKED"}, moved : BOOLEAN]

\* The fields of a consumer, and how each of them is changed.
LEMMA ConsumerIs ==
    ASSUME NEW c \in ConsumerType
    PROVE  /\ c.name \in Readers \cup {None} /\ c.offset \in Offset /\ c.index \in Idx
           /\ c.refStart \in Idx /\ c.refEnd \in Idx
           /\ c.state \in {"FREE", "HOLDING", "BLOCKED"} /\ c.moved \in BOOLEAN
BY DEF ConsumerType

LEMMA SetOffset ==
    ASSUME NEW c \in ConsumerType, NEW v \in Offset, NEW d, d = [c EXCEPT !.offset = v]
    PROVE  /\ d \in ConsumerType /\ d.offset = v
           /\ d.name = c.name /\ d.index = c.index /\ d.refStart = c.refStart /\ d.refEnd = c.refEnd
           /\ d.state = c.state /\ d.moved = c.moved
BY DEF ConsumerType

LEMMA SetIndex ==
    ASSUME NEW c \in ConsumerType, NEW v \in Idx, NEW d, d = [c EXCEPT !.index = v]
    PROVE  /\ d \in ConsumerType /\ d.index = v
           /\ d.name = c.name /\ d.offset = c.offset /\ d.refStart = c.refStart /\ d.refEnd = c.refEnd
           /\ d.state = c.state /\ d.moved = c.moved
BY DEF ConsumerType

LEMMA SetRefStart ==
    ASSUME NEW c \in ConsumerType, NEW v \in Idx, NEW d, d = [c EXCEPT !.refStart = v]
    PROVE  /\ d \in ConsumerType /\ d.refStart = v
           /\ d.name = c.name /\ d.offset = c.offset /\ d.index = c.index /\ d.refEnd = c.refEnd
           /\ d.state = c.state /\ d.moved = c.moved
BY DEF ConsumerType

LEMMA SetRefEnd ==
    ASSUME NEW c \in ConsumerType, NEW v \in Idx, NEW d, d = [c EXCEPT !.refEnd = v]
    PROVE  /\ d \in ConsumerType /\ d.refEnd = v
           /\ d.name = c.name /\ d.offset = c.offset /\ d.index = c.index /\ d.refStart = c.refStart
           /\ d.state = c.state /\ d.moved = c.moved
BY DEF ConsumerType

LEMMA SetState ==
    ASSUME NEW c \in ConsumerType, NEW v \in {"FREE", "HOLDING", "BLOCKED"}, NEW d, d = [c EXCEPT !.state = v]
    PROVE  /\ d \in ConsumerType /\ d.state = v
           /\ d.name = c.name /\ d.offset = c.offset /\ d.index = c.index /\ d.refStart = c.refStart
           /\ d.refEnd = c.refEnd /\ d.moved = c.moved
BY DEF ConsumerType

LEMMA SetMoved ==
    ASSUME NEW c \in ConsumerType, NEW v \in BOOLEAN, NEW d, d = [c EXCEPT !.moved = v]
    PROVE  /\ d \in ConsumerType /\ d.moved = v
           /\ d.name = c.name /\ d.offset = c.offset /\ d.index = c.index /\ d.refStart = c.refStart
           /\ d.refEnd = c.refEnd /\ d.state = c.state
BY DEF ConsumerType

\* MoveConsumer changes the position alone.
LEMMA MoveConsumerIs ==
    ASSUME NEW c \in ConsumerType, NEW i \in Idx, NEW o \in Offset, NEW m, m = MoveConsumer(c, i, o)
    PROVE  /\ m \in ConsumerType
           /\ m.name = c.name /\ m.offset = o /\ m.index = i /\ m.refStart = i /\ m.refEnd = i
           /\ m.state = c.state /\ m.moved = c.moved
<1> DEFINE d == [c EXCEPT !.index = i]
           e == [d EXCEPT !.offset = o]
           g == [e EXCEPT !.refStart = i]
           h == [g EXCEPT !.refEnd = i]
<1>1. m = h
  BY DEF MoveConsumer
<1>2. /\ d \in ConsumerType /\ d.index = i /\ d.name = c.name /\ d.state = c.state /\ d.moved = c.moved
  BY SetIndex
<1> HIDE DEF d
<1>3. /\ e \in ConsumerType /\ e.offset = o /\ e.index = i /\ e.name = c.name /\ e.state = c.state
      /\ e.moved = c.moved
  BY <1>2, SetOffset
<1> HIDE DEF e
<1>4. /\ g \in ConsumerType /\ g.refStart = i /\ g.offset = o /\ g.index = i /\ g.name = c.name
      /\ g.state = c.state /\ g.moved = c.moved
  BY <1>3, SetRefStart
<1> HIDE DEF g
<1>5. /\ h \in ConsumerType /\ h.refEnd = i /\ h.refStart = i /\ h.offset = o /\ h.index = i
      /\ h.name = c.name /\ h.state = c.state /\ h.moved = c.moved
  BY <1>4, SetRefEnd
<1> HIDE DEF h
<1> QED BY <1>1, <1>5

\* A reader that is moved is blocked if it holds a frame.
LEMMA BlockedIs ==
    ASSUME NEW c \in ConsumerType, NEW i \in Idx, NEW o \in Offset, NEW b, b = Blocked(c, i, o)
    PROVE  /\ b \in ConsumerType /\ b.name = c.name /\ b.index = i /\ b.offset = o
           /\ b.state = (IF c.state = "HOLDING" THEN "BLOCKED" ELSE c.state)
           /\ c.state # "FREE" => b.moved = TRUE
<1> DEFINE m == MoveConsumer(c, i, o)
           v == m.moved \/ c.state # "FREE"
           t == IF m.state = "HOLDING" THEN "BLOCKED" ELSE m.state
           n == [m EXCEPT !.moved = v]
           k == [n EXCEPT !.state = t]
<1>1. /\ m \in ConsumerType /\ m.name = c.name /\ m.offset = o /\ m.index = i /\ m.state = c.state
  BY MoveConsumerIs
<1>2. b = k
  BY DEF Blocked
<1>3. v \in BOOLEAN /\ (c.state # "FREE" => v = TRUE)
  OBVIOUS
<1>4. t \in {"FREE", "HOLDING", "BLOCKED"} /\ t = IF c.state = "HOLDING" THEN "BLOCKED" ELSE c.state
  BY <1>1, ConsumerIs
<1> HIDE DEF m, v, t
<1>5. n \in ConsumerType /\ n.moved = v /\ n.name = c.name /\ n.offset = o /\ n.index = i
  BY <1>1, <1>3, SetMoved
<1> HIDE DEF n
<1>6. /\ k \in ConsumerType /\ k.state = t /\ k.moved = v /\ k.name = c.name /\ k.offset = o /\ k.index = i
  BY <1>4, <1>5, SetState
<1> HIDE DEF k
<1> QED BY <1>2, <1>3, <1>4, <1>6

\* MoveAllBlockers for one slot.
MovedOn(c) == Blocked(c, NextForBlocker(c), frameIdx[NextForBlocker(c)].offset)

LEMMA MoveBlockersIs ==
    ASSUME productor.index \in Idx, frameIdx \in [Idx -> Frame],
           NEW cs \in [Slot -> ConsumerType], NEW S
    PROVE  /\ MoveBlockers(cs, S) = [s \in Slot |-> IF s \in S THEN MovedOn(cs[s]) ELSE cs[s]]
           /\ MoveBlockers(cs, S) \in [Slot -> ConsumerType]
<1>1. MoveBlockers(cs, S) = [s \in Slot |-> IF s \in S THEN MovedOn(cs[s]) ELSE cs[s]]
  BY DEF MoveBlockers, MovedOn
<1>2. \A s \in Slot : MovedOn(cs[s]) \in ConsumerType
  <2>1. TAKE s \in Slot
  <2>2. cs[s] \in ConsumerType /\ cs[s].index \in Idx
    BY ConsumerIs
  <2>3. NextForBlocker(cs[s]) \in Idx
    BY <2>2, NextForBlockerIs
  <2>4. frameIdx[NextForBlocker(cs[s])].offset \in Offset
    BY <2>3, FrameIs
  <2> QED BY <2>2, <2>3, <2>4, BlockedIs DEF MovedOn
<1> QED BY <1>1, <1>2

LEMMA MovedOnIs ==
    ASSUME productor.index \in Idx, frameIdx \in [Idx -> Frame], NEW c \in ConsumerType,
           NEW d, d = MovedOn(c)
    PROVE  /\ d \in ConsumerType /\ d.name = c.name /\ d.index \in Idx
           /\ d.index = NextForBlocker(c) /\ d.offset = frameIdx[d.index].offset
           /\ d.state = (IF c.state = "HOLDING" THEN "BLOCKED" ELSE c.state)
           /\ c.state # "FREE" => d.moved = TRUE
           /\ d.index # productor.index
           /\ c.index # productor.index => d.index \in IndexRange(c.index, productor.index)
           /\ c.index = AdvanceIndex(productor.index, 1) => d.index # AdvanceIndex(productor.index, 1)
<1> DEFINE i == NextForBlocker(c)
           o == frameIdx[i].offset
<1>1. c.index \in Idx
  BY ConsumerIs
<1>2. /\ i \in Idx /\ i # productor.index
      /\ c.index # productor.index => i \in IndexRange(c.index, productor.index)
      /\ c.index = AdvanceIndex(productor.index, 1) => i # AdvanceIndex(productor.index, 1)
  BY <1>1, NextForBlockerIs
<1>3. o \in Offset
  BY <1>2, FrameIs
<1>4. d = Blocked(c, i, o)
  BY DEF MovedOn
<1>5. i \in Idx
  BY <1>2
<1> HIDE DEF i, o
<1>6. /\ d \in ConsumerType /\ d.name = c.name /\ d.index = i /\ d.offset = o
      /\ d.state = (IF c.state = "HOLDING" THEN "BLOCKED" ELSE c.state)
      /\ c.state # "FREE" => d.moved = TRUE
  <2>1. \A x \in Idx, y \in Offset : LET e == Blocked(c, x, y) IN
            /\ e \in ConsumerType /\ e.name = c.name /\ e.index = x /\ e.offset = y
            /\ e.state = (IF c.state = "HOLDING" THEN "BLOCKED" ELSE c.state)
            /\ c.state # "FREE" => e.moved = TRUE
    BY BlockedIs
  <2> QED BY <1>3, <1>4, <1>5, <2>1
<1> QED BY <1>2, <1>6 DEF i, o

\* A reader at i and o that has a frame to read has a sound position after
\* MoveAllBlockers.
LEMMA MovedGood ==
    ASSUME productor.index \in Idx, productor.offset \in Offset, Frames(frameIdx, intact),
           NEW c \in ConsumerType, NEW d, d = MovedOn(c), c.index # productor.index,
           Good(frameIdx, productor.index, productor.offset, intact, c.index, c.offset)
    PROVE  Good(frameIdx, productor.index, productor.offset, intact, d.index, d.offset)
<1> DEFINE p == productor.index
           P == productor.offset
<1>1. c.index \in Idx /\ c.offset \in Offset /\ frameIdx \in [Idx -> Frame]
  BY ConsumerIs DEF Frames
<1>2. d.index \in IndexRange(c.index, p) /\ d.offset = frameIdx[d.index].offset
  BY <1>1, MovedOnIs
<1>3. \A j \in IndexRange(c.index, p) : Good(frameIdx, p, P, intact, j, frameIdx[j].offset)
  BY <1>1, GoodLater
<1> QED BY <1>2, <1>3

\* The hole of a frame in use.
LEMMA HoleOfIs ==
    ASSUME frameIdx \in [Idx -> Frame], NEW c \in ConsumerType, c.name # None
    PROVE  /\ HoleOf(c) \in HoleType /\ HoleOf(c).owner = c.name
           /\ HoleOf(c).start = frameIdx[c.refStart].offset
           /\ HoleOf(c).end = AdvanceOffset(frameIdx[c.refEnd].offset, frameIdx[c.refEnd].length)
<1>1. c.name \in Readers /\ c.refStart \in Idx /\ c.refEnd \in Idx
  BY ConsumerIs
<1>2. /\ frameIdx[c.refStart].offset \in Offset /\ frameIdx[c.refEnd].offset \in Offset
      /\ frameIdx[c.refEnd].length \in 0..BufSize
  BY <1>1, FrameIs
<1>3. AdvanceOffset(frameIdx[c.refEnd].offset, frameIdx[c.refEnd].length) \in Offset
  BY <1>2, AdvanceOffsetIs
<1> QED BY <1>1, <1>2, <1>3 DEF HoleOf, HoleType

\* The black holes after MoveAllBlockers of the slots S.
LEMMA HolesAfterIs ==
    ASSUME frameIdx \in [Idx -> Frame], NEW cs \in [Slot -> ConsumerType], NEW S, S \subseteq Valid(cs),
           NEW hs, hs \subseteq HoleType, IsFiniteSet(hs), NEW gs, gs = HolesAfter(cs, S, hs)
    PROVE  /\ gs \subseteq HoleType /\ IsFiniteSet(gs) /\ hs \subseteq gs
           /\ \A g \in gs \ hs : \E s \in S : cs[s].state = "HOLDING" /\ g = HoleOf(cs[s])
           /\ \A s \in S : cs[s].state = "HOLDING" /\ (\A g \in hs : g.owner # cs[s].name)
                               => HoleOf(cs[s]) \in gs
<1> DEFINE Users == {t \in S : cs[t].state = "HOLDING"}
           Sorts(a, b) == a.start < b.start \/ (a.start = b.start /\ a.end <= b.end)
           New == {h \in {HoleOf(c) : c \in {cs[s] : s \in Users}} :
                       ~\E g \in hs : g.owner = h.owner /\ Sorts(g, h)}
<1>1. gs = hs \cup New
  BY DEF HolesAfter, InsertBlackHoles
<1>2. Users \subseteq Slot /\ \A s \in Users : cs[s] \in ConsumerType /\ cs[s].name # None
  BY DEF Valid
<1> HIDE DEF Sorts
<1>3. \A h \in New : \E s \in Users : h = HoleOf(cs[s])
  OBVIOUS
<1>4. \A s \in Users : HoleOf(cs[s]) \in HoleType /\ HoleOf(cs[s]).owner = cs[s].name
  BY <1>2, HoleOfIs
<1>5. \A s \in Users : (\A g \in hs : g.owner # cs[s].name) => HoleOf(cs[s]) \in New
  BY <1>4
<1>6. IsFiniteSet(New)
  <2>1. IsFiniteSet(Slot)
    BY Sized, FS_Interval DEF Slot
  <2>2. IsFiniteSet(Users)
    BY <1>2, <2>1, FS_Subset
  <2> DEFINE Image == {HoleOf(cs[s]) : s \in Users}
             f == [s \in Users |-> HoleOf(cs[s])]
  <2>3. f \in Surjection(Users, Image)
    BY DEF Surjection
  <2>4. IsFiniteSet(Image)
    BY <2>2, <2>3, FS_Surjection
  <2>5. New \subseteq Image
    BY <1>3
  <2> QED BY <2>4, <2>5, FS_Subset
<1> HIDE DEF New
<1>7. IsFiniteSet(gs)
  BY <1>1, <1>6, FS_Union
<1>8. gs \subseteq HoleType
  BY <1>1, <1>3, <1>4
<1>9. \A g \in gs \ hs : \E s \in S : cs[s].state = "HOLDING" /\ g = HoleOf(cs[s])
  BY <1>1, <1>3
<1>10. \A s \in S : cs[s].state = "HOLDING" /\ (\A g \in hs : g.owner # cs[s].name)
                        => HoleOf(cs[s]) \in gs
  BY <1>1, <1>5
<1> QED BY <1>1, <1>7, <1>8, <1>9, <1>10

\* What a reader holds: the frame h is the one at its position, or has been
\* left behind with a hole of just that frame.
HoldOK(f, p, hs, r, c, h) ==
    h # NoFrame =>
        /\ c.state \in {"HOLDING", "BLOCKED"} /\ h.length \in 1..(BufSize - 1)
        /\ c.state = "HOLDING" =>
              /\ c.moved = FALSE /\ c.index # p /\ c.refStart = c.index /\ c.refEnd = c.index
              /\ c.offset = h.offset /\ f[c.index].offset = h.offset /\ f[c.index].length = h.length
              /\ \A g \in hs : g.owner # r
        /\ c.state = "BLOCKED" =>
              /\ c.moved = TRUE
              /\ \E g \in hs : /\ g.owner = r /\ g.start = h.offset
                               /\ g.end = AdvanceOffset(h.offset, h.length)

UniqueNames(cs) ==
    \A s, t \in Slot : cs[s].name = cs[t].name /\ cs[s].name # None => s = t

\* Who moves readers leaves a hole of what they hold.
LEMMA MovedHold ==
    ASSUME productor.index \in Idx, frameIdx \in [Idx -> Frame], NEW cs \in [Slot -> ConsumerType],
           UniqueNames(cs), NEW S, S \subseteq Valid(cs), NEW hs, hs \subseteq HoleType, IsFiniteSet(hs),
           NEW r \in Readers, NEW s \in Slot, cs[s].name = r, NEW h,
           HoldOK(frameIdx, productor.index, hs, r, cs[s], h),
           NEW d, s \notin S => d = cs[s],
           s \in S => d.state = (IF cs[s].state = "HOLDING" THEN "BLOCKED" ELSE cs[s].state),
           s \in S /\ cs[s].state # "FREE" => d.moved = TRUE
    PROVE  HoldOK(frameIdx, productor.index, HolesAfter(cs, S, hs), r, d, h)
<1> DEFINE gs == HolesAfter(cs, S, hs)
           c == cs[s]
<1>0. c \in ConsumerType /\ c.name = r /\ r # None
  BY CRingBufAssumption
<1>1. /\ hs \subseteq gs
      /\ \A g \in gs \ hs : \E t \in S : cs[t].state = "HOLDING" /\ g = HoleOf(cs[t])
      /\ \A t \in S : cs[t].state = "HOLDING" /\ (\A g \in hs : g.owner # cs[t].name)
                          => HoleOf(cs[t]) \in gs
  BY HolesAfterIs
<1> HIDE DEF gs
<1>2. SUFFICES ASSUME h # NoFrame PROVE HoldOK(frameIdx, productor.index, gs, r, d, h)
  BY DEF HoldOK, gs
<1>3. CASE s \in S
  <2>1. /\ d.state = (IF c.state = "HOLDING" THEN "BLOCKED" ELSE c.state)
        /\ c.state # "FREE" => d.moved = TRUE
    BY <1>3
  <2>2. CASE c.state = "HOLDING"
    <3>1. HoleOf(c) \in gs
      BY <1>0, <1>1, <1>2, <1>3, <2>2 DEF HoldOK
    <3>2. /\ HoleOf(c).owner = r /\ HoleOf(c).start = frameIdx[c.refStart].offset
          /\ HoleOf(c).end = AdvanceOffset(frameIdx[c.refEnd].offset, frameIdx[c.refEnd].length)
      BY <1>0, HoleOfIs
    <3>3. HoleOf(c).start = h.offset /\ HoleOf(c).end = AdvanceOffset(h.offset, h.length)
      BY <1>2, <2>2, <3>2 DEF HoldOK
    <3>4. h.length \in 1..(BufSize - 1)
      BY <1>2 DEF HoldOK
    <3> HIDE DEF c
    <3> QED BY <2>1, <2>2, <3>1, <3>2, <3>3, <3>4 DEF HoldOK
  <2>3. CASE c.state # "HOLDING"
    <3>1. c.state = "BLOCKED" /\ h.length \in 1..(BufSize - 1)
      BY <1>2, <2>3 DEF HoldOK
    <3>2. \E g \in hs : g.owner = r /\ g.start = h.offset /\ g.end = AdvanceOffset(h.offset, h.length)
      BY <1>2, <3>1 DEF HoldOK
    <3> HIDE DEF c
    <3> QED BY <1>1, <2>1, <3>1, <3>2 DEF HoldOK
  <2> QED BY <2>2, <2>3
<1>4. CASE s \notin S
  <2>1. d = c
    BY <1>4
  <2>2. \A g \in gs : g \in hs \/ g.owner # r
    <3>1. SUFFICES ASSUME NEW g \in gs, g \notin hs PROVE g.owner # r
      OBVIOUS
    <3>2. PICK t \in S : g = HoleOf(cs[t])
      BY <1>1, <3>1
    <3>3. t \in Slot /\ cs[t].name # None /\ cs[t] \in ConsumerType
      BY DEF Valid
    <3>4. g.owner = cs[t].name
      BY <3>2, <3>3, HoleOfIs
    <3> QED BY <1>4, <3>3, <3>4 DEF UniqueNames
  <2>3. HoldOK(frameIdx, productor.index, hs, r, d, h)
    BY <2>1
  <2> QED BY <1>1, <2>2, <2>3 DEF HoldOK
<1> QED BY <1>3, <1>4

-----------------------------------------------------------------------------
(* The inductive invariant *)

ProductorType == [exist : BOOLEAN, offset : Offset, index : Idx]
WriterType == [pc : {"closed", "clean", "install", "idle", "retry", "write"}, size : 0..BufSize,
               type : FrameType, mode : {"BLOCK", "NON_BLOCK"}, align : Offset, guard : Nat]
HeldType == [index : Idx, offset : Offset, length : 0..BufSize]

\* What the writer is doing.
WriterOK ==
    /\ writer \in WriterType
    /\ writer.pc \in {"retry", "write"} => writer.size > 0
    /\ writer.pc = "write" => writer.align + writer.size < BufSize
    /\ writer.pc # "closed" => version
    /\ writer.pc = "install" => productor.index = 0 /\ productor.offset = 0
    /\ ~version => /\ productor.index = 0 /\ productor.offset = 0
                   /\ \A r \in Readers : slot[r] = NoSlot

\* What the readers have in their own memory.
ReaderOK ==
    /\ slot \in [Readers -> Slot \cup {NoSlot, Opening}]
    /\ held \in [Readers -> HeldType]
    /\ \A r \in Readers : slot[r] \notin Slot => held[r] = NoFrame

\* The memory, and that every slot is another reader's.
Memory ==
    /\ productor \in ProductorType /\ consumers \in [Slot -> ConsumerType]
    /\ Frames(frameIdx, intact) /\ holes \subseteq HoleType /\ IsFiniteSet(holes)
    /\ intact \subseteq Idx /\ trusted \subseteq Readers
    /\ UniqueNames(consumers)

\* A frame h that the reader has been moved away from: none of those it has not
\* read yet lies across it, the writer does not stand at its end when there is
\* nothing to read, and has not been granted any of it.
AwayAt(f, prod, w, c, h) ==
    h # NoFrame /\ c.state = "BLOCKED" =>
        /\ \A j \in IndexRange(c.index, prod.index) :
               \/ f[j].offset = h.offset
               \/ Region(f[j].offset, f[j].length) \cap Region(h.offset, h.length) = {}
        /\ c.index = prod.index /\ w.pc \in {"install", "idle", "retry"} =>
               prod.offset = 0 /\ h.offset + h.length < BufSize
        /\ w.pc = "write" => Region(h.offset, h.length)
                                 \cap Region(AdvanceOffset(prod.offset, w.align), w.size) = {}

\* The position c of reader r, and the frame h that it holds.
Safe(f, prod, S, w, hs, r, c, h) ==
    /\ Good(f, prod.index, prod.offset, S, c.index, c.offset)
    /\ w.pc = "write" => RoomFor(prod.index, prod.offset, w.align + w.size, c.index, c.offset)
    /\ HoldOK(f, prod.index, hs, r, c, h)
    /\ AwayAt(f, prod, w, c, h)

ReadersSafe ==
    \A r \in trusted :
        /\ slot[r] \in Slot /\ consumers[slot[r]].name = r
        /\ Safe(frameIdx, productor, intact, writer, holes, r, consumers[slot[r]], held[r])

IInv == Memory /\ WriterOK /\ ReaderOK /\ ReadersSafe

LEMMA MemoryTypes ==
    ASSUME Memory PROVE TypeOK
BY DEF Memory, TypeOK, ConsumerType, HoleType, ProductorType, Frames

LEMMA ProductorIs ==
    ASSUME NEW prod \in ProductorType
    PROVE  prod.exist \in BOOLEAN /\ prod.offset \in Offset /\ prod.index \in Idx
BY DEF ProductorType

LEMMA WriterIs ==
    ASSUME NEW w \in WriterType
    PROVE  /\ w.size \in 0..BufSize /\ w.size \in Nat /\ w.align \in Offset /\ w.align \in Nat
           /\ w.type \in FrameType /\ w.guard \in Nat
           /\ w.pc \in {"closed", "clean", "install", "idle", "retry", "write"}
<1>1. /\ w.size \in 0..BufSize /\ w.align \in Offset /\ w.type \in FrameType /\ w.guard \in Nat
      /\ w.pc \in {"closed", "clean", "install", "idle", "retry", "write"}
  BY DEF WriterType
<1>2. w.size \in Nat /\ w.align \in Nat
  BY <1>1, Sized DEF Offset
<1> QED BY <1>1, <1>2

\* The writer at rest.
LEMMA WriterAtIs ==
    ASSUME NEW pc \in {"closed", "clean", "install", "idle", "retry", "write"}
    PROVE  WriterAt(pc) \in WriterType /\ WriterAt(pc).pc = pc
BY Sized DEF WriterAt, IdleWriter, WriterType, FrameType

LEMMA IdleIs == IdleWriter \in WriterType /\ IdleWriter.pc = "idle"
BY Sized DEF IdleWriter, WriterType, FrameType

LEMMA FreeIs == FreeSlot \in ConsumerType /\ FreeSlot.name = None /\ NoFrame \in HeldType
               /\ [s \in Slot |-> FreeSlot] \in [Slot -> ConsumerType]
               /\ UniqueNames([s \in Slot |-> FreeSlot])
               /\ NoProductor \in ProductorType /\ NoProductor.index = 0 /\ NoProductor.offset = 0
BY Sized DEF FreeSlot, ConsumerType, NoFrame, HeldType, UniqueNames, NoProductor, ProductorType

\* Without a trusted reader there is nothing to show about readers.
LEMMA NobodySafe ==
    ASSUME trusted' = {} PROVE ReadersSafe'
BY DEF ReadersSafe

LEMMA RingInit ==
    ASSUME Init PROVE IInv
<1>1. Memory
  <2>1. NoFrames \in [Idx -> Frame]
    BY Sized DEF NoFrames, Frame, FrameType
  <2>2. IsFiniteSet({})
    BY FS_EmptySet
  <2> QED BY <2>1, <2>2, FreeIs DEF Init, Memory, Frames
<1>2. WriterOK
  BY WriterAtIs, FreeIs DEF Init, WriterOK, NoSlot
<1>3. ReaderOK
  BY FreeIs DEF Init, ReaderOK, NoSlot
<1>4. ReadersSafe
  BY DEF Init, ReadersSafe
<1> QED BY <1>1, <1>2, <1>3, <1>4 DEF IInv

-----------------------------------------------------------------------------
(* What keeps a reader safe *)

\* Where the writer neither moves nor is given bytes, and the reader's hole
\* stays.
LEMMA SafeSame ==
    ASSUME NEW f, NEW S, NEW prod, NEW w, NEW hs, NEW r, NEW c, NEW h,
           Safe(f, prod, S, w, hs, r, c, h),
           NEW prod2, prod2.index = prod.index, prod2.offset = prod.offset,
           NEW w2, w2 = w \/ /\ w2.pc # "write"
                             /\ w2.pc \in {"install", "idle", "retry"} =>
                                    w.pc \in {"install", "idle", "retry"},
           NEW hs2, (\A g \in hs : g.owner # r) => (\A g \in hs2 : g.owner # r),
           \A g \in hs : g.owner = r =>
               \E g2 \in hs2 : g2.owner = r /\ g2.start = g.start /\ g2.end = g.end
    PROVE  Safe(f, prod2, S, w2, hs2, r, c, h)
<1>1. Good(f, prod2.index, prod2.offset, S, c.index, c.offset)
  BY DEF Safe
<1>2. w2.pc = "write" =>
          RoomFor(prod2.index, prod2.offset, w2.align + w2.size, c.index, c.offset)
  BY DEF Safe
<1>3. HoldOK(f, prod2.index, hs2, r, c, h)
  <2>1. HoldOK(f, prod.index, hs, r, c, h)
    BY DEF Safe
  <2> QED BY <2>1 DEF HoldOK
<1>4. AwayAt(f, prod2, w2, c, h)
  <2>1. AwayAt(f, prod, w, c, h)
    BY DEF Safe
  <2> QED BY <2>1 DEF AwayAt
<1> QED BY <1>1, <1>2, <1>3, <1>4 DEF Safe

\* A reader that holds nothing is safe at a sound position.
LEMMA SafeSound ==
    ASSUME Memory, WriterOK, NEW i \in Idx, NEW o \in Offset, Sound(i, o),
           NEW c, c.index = i, c.offset = o, NEW hs, NEW r
    PROVE  Safe(frameIdx, productor, intact, writer, hs, r, c, NoFrame)
<1> DEFINE p == productor.index
           P == productor.offset
           n == writer.align + writer.size
<1>1. p \in Idx /\ P \in Offset
  BY ProductorIs DEF Memory
<1>2. writer \in WriterType /\ n \in Nat
  BY WriterIs DEF WriterOK
<1>3. Good(frameIdx, p, P, intact, i, o)
  BY DEF Sound, Good, Line, InLine, Ahead
<1>4. ASSUME writer.pc = "write" PROVE RoomFor(p, P, n, i, o)
  <2>1. n < BufSize
    BY <1>4 DEF WriterOK
  <2>2. CASE i = p
    <3>1. o = P
      BY <2>2 DEF Sound
    <3> QED BY <1>1, <1>2, <2>1, <2>2, <3>1, GoodAtEnd
  <2>3. CASE i # p
    <3>1. i # AdvanceIndex(p, 1) /\ BufferLen(P, o) > n /\ o # P
      BY <1>4, <2>3 DEF Sound
    <3> QED BY <3>1 DEF RoomFor, WritableSize
  <2> QED BY <2>2, <2>3
<1> QED BY <1>3, <1>4 DEF Safe, HoldOK, AwayAt

\* An operation of reader r on slot s: its own position is safe if it may rely
\* on it, and the others' is what it was.
LEMMA Operate ==
    ASSUME IInv, UniqueNames(consumers)',
           UNCHANGED <<productor, frameIdx, intact, writer>>,
           NEW r \in Readers, NEW s \in Slot, NEW d, consumers' = [consumers EXCEPT ![s] = d],
           NEW n, holes' = holes \ OwnedBy(n), d.name = n \/ n = None,
           \A q \in Readers \ {r} : slot'[q] = slot[q] /\ held'[q] = held[q],
           \A q \in trusted' :
              \/ q \in trusted /\ q # r /\ slot[q] # s
              \/ /\ q = r /\ slot'[r] = s /\ d.name = r
                 /\ Safe(frameIdx, productor, intact, writer, holes', r, d, held'[r])
    PROVE  ReadersSafe'
<1>1. consumers \in [Slot -> ConsumerType] /\ trusted \subseteq Readers
  BY DEF IInv, Memory
<1>2. SUFFICES ASSUME NEW q \in trusted'
               PROVE  /\ slot'[q] \in Slot /\ consumers'[slot'[q]].name = q
                      /\ Safe(frameIdx', productor', intact', writer', holes', q,
                              consumers'[slot'[q]], held'[q])
  BY DEF ReadersSafe
<1>3. CASE q \in trusted /\ q # r /\ slot[q] # s
  <2>1. /\ slot[q] \in Slot /\ consumers[slot[q]].name = q
        /\ Safe(frameIdx, productor, intact, writer, holes, q, consumers[slot[q]], held[q])
    BY <1>3 DEF IInv, ReadersSafe
  <2>2. slot'[q] = slot[q] /\ held'[q] = held[q] /\ consumers'[slot'[q]] = consumers[slot[q]]
    BY <1>1, <1>3, <2>1
  <2>3. n # q
    <3>1. consumers'[s] = d /\ consumers'[slot[q]].name = q /\ q # None
      BY <1>1, <1>3, <2>1, <2>2, CRingBufAssumption
    <3>2. d.name # q
      BY <1>3, <2>1, <3>1 DEF UniqueNames
    <3> QED BY <3>1, <3>2
  <2>4. \A g \in holes : g.owner = q => g \in holes'
    BY <2>3 DEF OwnedBy
  <2>5. Safe(frameIdx, productor, intact, writer, holes', q, consumers[slot[q]], held[q])
    BY <2>1, <2>4, SafeSame
  <2> QED BY <2>1, <2>2, <2>5
<1>4. CASE /\ q = r /\ slot'[r] = s /\ d.name = r
           /\ Safe(frameIdx, productor, intact, writer, holes', r, d, held'[r])
  <2>1. consumers'[s] = d
    BY <1>1
  <2> QED BY <1>4, <2>1
<1> QED BY <1>2, <1>3, <1>4

-----------------------------------------------------------------------------
(* The steps that leave frames and positions alone *)

\* Nothing changes that the invariant speaks of.
LEMMA InvStutter ==
    ASSUME IInv, UNCHANGED vars PROVE IInv'
<1>1. Memory'
  BY DEF IInv, Memory, vars, shared, Frames, UniqueNames
<1>2. WriterOK' /\ ReaderOK'
  BY DEF IInv, WriterOK, ReaderOK, vars, shared
<1>3. ReadersSafe'
  BY DEF IInv, ReadersSafe, vars, shared
<1> QED BY <1>1, <1>2, <1>3 DEF IInv

LEMMA InvRequestWriteFrame ==
    ASSUME IInv, RequestWriteFrame PROVE IInv'
<1>1. PICK size \in Sizes, type \in FrameType, mode \in Modes :
          writer' = [IdleWriter EXCEPT !.pc = "retry", !.size = size, !.type = type, !.mode = mode]
  BY DEF RequestWriteFrame
<1>2. size \in 0..BufSize /\ size > 0 /\ mode \in {"BLOCK", "NON_BLOCK"} /\ 0 \in Offset
  BY CRingBufAssumption, Sized
<1>3. writer' = [pc |-> "retry", size |-> size, type |-> type, mode |-> mode, align |-> 0, guard |-> 0]
  BY <1>1 DEF IdleWriter
<1>4. writer' \in WriterType /\ writer'.pc = "retry" /\ writer'.size > 0
  BY <1>2, <1>3 DEF WriterType
<1>5. UNCHANGED <<shared, slot, held, intact, trusted>> /\ writer.pc = "idle"
  BY DEF RequestWriteFrame
<1>6. Memory'
  BY <1>5 DEF IInv, Memory, shared, Frames, UniqueNames
<1>7. WriterOK'
  BY <1>4, <1>5 DEF IInv, WriterOK, shared
<1>8. ReaderOK'
  BY <1>5 DEF IInv, ReaderOK
<1>9. ReadersSafe'
  <2>1. SUFFICES ASSUME NEW r \in trusted
                 PROVE  /\ slot[r] \in Slot /\ consumers[slot[r]].name = r
                        /\ Safe(frameIdx, productor, intact, writer', holes, r, consumers[slot[r]], held[r])
    BY <1>5 DEF ReadersSafe, shared
  <2>2. /\ slot[r] \in Slot /\ consumers[slot[r]].name = r
        /\ Safe(frameIdx, productor, intact, writer, holes, r, consumers[slot[r]], held[r])
    BY DEF IInv, ReadersSafe
  <2> QED BY <1>4, <1>5, <2>2, SafeSame
<1> QED BY <1>6, <1>7, <1>8, <1>9 DEF IInv

LEMMA InvOpenWriter ==
    ASSUME IInv, OpenWriter PROVE IInv'
<1>1. /\ writer' = WriterAt(IF version THEN "clean" ELSE "install") /\ version' = TRUE
      /\ UNCHANGED <<productor, consumers, frameIdx, holes, slot, held, intact, trusted>>
  BY DEF OpenWriter
<1>2. writer' \in WriterType /\ writer'.pc = IF version THEN "clean" ELSE "install"
  BY <1>1, WriterAtIs
<1>3. Memory'
  BY <1>1 DEF IInv, Memory, Frames, UniqueNames
<1>4. WriterOK'
  BY <1>1, <1>2 DEF IInv, WriterOK
<1>5. ReaderOK'
  BY <1>1 DEF IInv, ReaderOK
<1>6. ReadersSafe'
  <2>1. CASE version
    <3>1. SUFFICES ASSUME NEW r \in trusted
                   PROVE  /\ slot[r] \in Slot /\ consumers[slot[r]].name = r
                          /\ Safe(frameIdx, productor, intact, writer', holes, r, consumers[slot[r]], held[r])
      BY <1>1 DEF ReadersSafe
    <3>2. /\ slot[r] \in Slot /\ consumers[slot[r]].name = r
          /\ Safe(frameIdx, productor, intact, writer, holes, r, consumers[slot[r]], held[r])
      BY DEF IInv, ReadersSafe
    <3> QED BY <1>2, <2>1, <3>2, SafeSame
  <2>2. CASE ~version
    <3>1. \A r \in Readers : slot[r] = NoSlot /\ NoSlot \notin Slot
      BY <2>2, Sized DEF IInv, WriterOK, NoSlot, Slot
    <3>2. trusted = {}
      BY <3>1 DEF IInv, Memory, ReadersSafe
    <3> QED BY <1>1, <3>2, NobodySafe
  <2> QED BY <2>1, <2>2
<1> QED BY <1>3, <1>4, <1>5, <1>6 DEF IInv

LEMMA InvCleanUsers ==
    ASSUME IInv, CleanUsers PROVE IInv'
<1>1. /\ writer' = WriterAt("install") /\ trusted' = {} /\ writer.pc = "clean"
      /\ productor' = NoProductor /\ consumers' = [s \in Slot |-> FreeSlot]
      /\ UNCHANGED <<frameIdx, holes, version, slot, held, intact>>
  BY DEF CleanUsers
<1>2. writer' \in WriterType /\ writer'.pc = "install"
  BY <1>1, WriterAtIs
<1>3. Memory'
  BY <1>1, FreeIs DEF IInv, Memory, Frames, UniqueNames
<1>4. WriterOK'
  BY <1>1, <1>2, FreeIs DEF IInv, WriterOK
<1>5. ReaderOK'
  BY <1>1 DEF IInv, ReaderOK
<1> QED BY <1>1, <1>3, <1>4, <1>5, NobodySafe DEF IInv

LEMMA InvInstallProductor ==
    ASSUME IInv, InstallProductor PROVE IInv'
<1>1. /\ writer' = IdleWriter /\ writer.pc = "install" /\ version' = version
      /\ productor' = [exist |-> TRUE, offset |-> 0, index |-> 0]
      /\ UNCHANGED <<consumers, frameIdx, holes, slot, held, intact, trusted>>
  BY DEF InstallProductor
<1>2. writer' \in WriterType /\ writer'.pc = "idle" /\ version
      /\ productor.index = 0 /\ productor.offset = 0
  BY <1>1, IdleIs DEF IInv, WriterOK
<1>3. productor' \in ProductorType /\ productor'.index = productor.index
      /\ productor'.offset = productor.offset
  BY <1>1, <1>2, Sized DEF ProductorType
<1>4. Memory'
  BY <1>1, <1>3 DEF IInv, Memory, Frames, UniqueNames
<1>5. WriterOK'
  BY <1>1, <1>2 DEF WriterOK
<1>6. ReaderOK'
  BY <1>1 DEF IInv, ReaderOK
<1>7. ReadersSafe'
  <2>1. SUFFICES ASSUME NEW r \in trusted
                 PROVE  /\ slot[r] \in Slot /\ consumers[slot[r]].name = r
                        /\ Safe(frameIdx, productor', intact, writer', holes, r, consumers[slot[r]], held[r])
    BY <1>1 DEF ReadersSafe
  <2>2. /\ slot[r] \in Slot /\ consumers[slot[r]].name = r
        /\ Safe(frameIdx, productor, intact, writer, holes, r, consumers[slot[r]], held[r])
    BY DEF IInv, ReadersSafe
  <2> QED BY <1>1, <1>2, <1>3, <2>2, SafeSame
<1> QED BY <1>4, <1>5, <1>6, <1>7 DEF IInv

LEMMA InvUnlink ==
    ASSUME Unlink PROVE IInv'
<1>1. /\ productor' = NoProductor /\ consumers' = [s \in Slot |-> FreeSlot]
      /\ frameIdx' = NoFrames /\ holes' = {} /\ version' = FALSE
      /\ writer' = WriterAt("closed") /\ intact' = {} /\ trusted' = {}
      /\ slot' = [q \in Readers |-> NoSlot] /\ held' = [q \in Readers |-> NoFrame]
  BY DEF Unlink
<1>2. Memory'
  <2>1. NoFrames \in [Idx -> Frame]
    BY Sized DEF NoFrames, Frame, FrameType
  <2>2. IsFiniteSet({})
    BY FS_EmptySet
  <2> QED BY <1>1, <2>1, <2>2, FreeIs DEF Memory, Frames, UniqueNames
<1>3. WriterOK'
  BY <1>1, WriterAtIs, FreeIs DEF WriterOK, NoSlot
<1>4. ReaderOK'
  BY <1>1, FreeIs DEF ReaderOK, NoSlot
<1> QED BY <1>1, <1>2, <1>3, <1>4, NobodySafe DEF IInv

LEMMA InvCloseWriter ==
    ASSUME IInv, CloseWriter PROVE IInv'
<1>1. CASE Unlink
  BY <1>1, InvUnlink
<1>2. CASE /\ productor' = NoProductor /\ writer' = WriterAt("closed") /\ trusted' = {}
           /\ UNCHANGED <<consumers, frameIdx, holes, dataWriten, contiBytes, version,
                          slot, held, intact>>
  <2>1. writer' \in WriterType /\ writer'.pc = "closed"
    BY <1>2, WriterAtIs
  <2>2. Memory'
    BY <1>2, FreeIs DEF IInv, Memory, Frames, UniqueNames
  <2>3. WriterOK'
    BY <1>2, <2>1, FreeIs DEF IInv, WriterOK
  <2>4. ReaderOK'
    BY <1>2 DEF IInv, ReaderOK
  <2> QED BY <1>2, <2>2, <2>3, <2>4, NobodySafe DEF IInv
<1> QED BY <1>1, <1>2 DEF CloseWriter

LEMMA InvAge ==
    ASSUME IInv, Age PROVE IInv'
<1>1. PICK h \in holes : holes' = (holes \ {h}) \cup {[h EXCEPT !.aged = TRUE]}
  BY DEF Age
<1>2. UNCHANGED <<productor, consumers, frameIdx, version, writer, slot, held, intact, trusted>>
  BY DEF Age
<1> DEFINE old == [h EXCEPT !.aged = TRUE]
<1>3. h \in HoleType /\ IsFiniteSet(holes) /\ holes \subseteq HoleType
  BY DEF IInv, Memory
<1>4. old \in HoleType /\ old.owner = h.owner /\ old.start = h.start /\ old.end = h.end
  BY <1>3 DEF HoleType
<1> HIDE DEF old
<1>5. holes' \subseteq HoleType /\ IsFiniteSet(holes')
  <2>1. IsFiniteSet(holes \ {h}) /\ IsFiniteSet({old})
    BY <1>3, FS_Subset, FS_Singleton
  <2>2. IsFiniteSet((holes \ {h}) \cup {old})
    BY <2>1, FS_Union
  <2> QED BY <1>1, <1>3, <1>4, <2>2 DEF old
<1>6. \A r : \A g \in holes : g.owner = r =>
               \E g2 \in holes' : g2.owner = r /\ g2.start = g.start /\ g2.end = g.end
  BY <1>1, <1>4 DEF old
<1>7. \A r : (\A g \in holes : g.owner # r) => (\A g \in holes' : g.owner # r)
  BY <1>1, <1>4 DEF old
<1>8. Memory'
  BY <1>2, <1>5 DEF IInv, Memory, Frames, UniqueNames
<1>9. WriterOK' /\ ReaderOK'
  BY <1>2 DEF IInv, WriterOK, ReaderOK
<1>10. ReadersSafe'
  <2>1. SUFFICES ASSUME NEW r \in trusted
                 PROVE  /\ slot[r] \in Slot /\ consumers[slot[r]].name = r
                        /\ Safe(frameIdx, productor, intact, writer, holes', r, consumers[slot[r]], held[r])
    BY <1>2 DEF ReadersSafe
  <2>2. /\ slot[r] \in Slot /\ consumers[slot[r]].name = r
        /\ Safe(frameIdx, productor, intact, writer, holes, r, consumers[slot[r]], held[r])
    BY DEF IInv, ReadersSafe
  <2>3. (\A g \in holes : g.owner # r) => (\A g \in holes' : g.owner # r)
    BY <1>7
  <2>4. \A g \in holes : g.owner = r =>
               \E g2 \in holes' : g2.owner = r /\ g2.start = g.start /\ g2.end = g.end
    BY <1>6
  <2> QED BY <2>2, <2>3, <2>4, SafeSame
<1> QED BY <1>8, <1>9, <1>10 DEF IInv

-----------------------------------------------------------------------------
(* The steps of a reader *)

\* Another slot may be given to a reader, or its fields changed.
LEMMA SlotChanged ==
    ASSUME Memory, NEW s \in Slot, NEW d \in ConsumerType, consumers' = [consumers EXCEPT ![s] = d],
           NEW hs, hs \subseteq holes, holes' = hs,
           d.name = None \/ \A t \in Slot : consumers[t].name = d.name => t = s,
           trusted' \subseteq Readers, UNCHANGED <<productor, frameIdx, intact>>
    PROVE  Memory'
<1>1. consumers \in [Slot -> ConsumerType] /\ UniqueNames(consumers)
  BY DEF Memory
<1>2. consumers' \in [Slot -> ConsumerType]
  BY <1>1
<1>3. \A t \in Slot : consumers'[t] = IF t = s THEN d ELSE consumers[t]
  BY <1>1
<1>4. UniqueNames(consumers)'
  BY <1>1, <1>3 DEF UniqueNames
<1>5. holes' \subseteq HoleType /\ IsFiniteSet(holes')
  BY FS_Subset DEF Memory
<1>6. Frames(frameIdx, intact)'
  BY DEF Memory, Frames
<1> QED BY <1>2, <1>4, <1>5, <1>6 DEF Memory

LEMMA InvDie ==
    ASSUME IInv, NEW r \in Readers, Die(r) PROVE IInv'
<1>1. /\ slot[r] \in Slot /\ slot' = [slot EXCEPT ![r] = NoSlot] /\ held' = [held EXCEPT ![r] = NoFrame]
      /\ trusted' = trusted \ {r} /\ UNCHANGED <<shared, writer, intact>>
  BY DEF Die
<1>2. Memory'
  BY <1>1 DEF IInv, Memory, shared, Frames, UniqueNames
<1>3. slot \in [Readers -> Slot \cup {NoSlot, Opening}] /\ held \in [Readers -> HeldType]
  BY DEF IInv, ReaderOK
<1>4. WriterOK'
  BY <1>1, <1>3 DEF IInv, WriterOK, shared
<1>5. ReaderOK'
  BY <1>1, <1>3, FreeIs DEF IInv, ReaderOK
<1>6. ReadersSafe'
  BY <1>1, <1>3 DEF IInv, ReadersSafe, shared, Memory
<1> QED BY <1>2, <1>4, <1>5, <1>6 DEF IInv

LEMMA InvOpenReader ==
    ASSUME IInv, NEW r \in Readers, OpenReader(r) PROVE IInv'
<1>1. /\ slot[r] = NoSlot /\ slot' = [slot EXCEPT ![r] = Opening] /\ version' = TRUE
      /\ UNCHANGED <<productor, frameIdx, holes, writer, held, intact>>
      /\ \/ consumers' = [s \in Slot |-> FreeSlot] /\ trusted' = {}
         \/ UNCHANGED <<consumers, trusted>>
  BY DEF OpenReader
<1>2. Memory'
  BY <1>1, FreeIs DEF IInv, Memory, Frames, UniqueNames
<1>3. slot \in [Readers -> Slot \cup {NoSlot, Opening}]
  BY DEF IInv, ReaderOK
<1>4. WriterOK'
  BY <1>1 DEF IInv, WriterOK
<1>5. NoSlot \notin Slot
  BY Sized DEF NoSlot, Slot
<1>6. ReaderOK'
  BY <1>1, <1>3, <1>5 DEF IInv, ReaderOK
<1>7. ReadersSafe'
  <2>1. CASE trusted' = {}
    BY <2>1, NobodySafe
  <2>2. CASE UNCHANGED <<consumers, trusted>>
    <3>1. r \notin trusted
      BY <1>1, <1>5 DEF IInv, ReadersSafe
    <3>2. trusted \subseteq Readers
      BY DEF IInv, Memory
    <3>3. SUFFICES ASSUME NEW q \in trusted
                   PROVE  /\ slot'[q] \in Slot /\ consumers[slot'[q]].name = q
                          /\ Safe(frameIdx, productor, intact, writer, holes, q, consumers[slot'[q]], held[q])
      BY <1>1, <2>2 DEF ReadersSafe
    <3>4. slot'[q] = slot[q]
      BY <1>1, <1>3, <3>1, <3>2
    <3> QED BY <3>4 DEF IInv, ReadersSafe
  <2> QED BY <1>1, <2>1, <2>2
<1> QED BY <1>2, <1>4, <1>6, <1>7 DEF IInv

\* Whom Trust leaves.
LEMMA TrustIs ==
    ASSUME trusted \subseteq Readers, NEW r \in Readers, NEW s, NEW name, NEW sound, Trust(r, s, name, sound)
    PROVE  /\ trusted' \subseteq Readers
           /\ \A q \in trusted' : \/ q \in trusted /\ q # r /\ slot[q] # s
                                  \/ q = r /\ sound /\ name = r
BY DEF Trust, Sharing

LEMMA InvUninstall ==
    ASSUME IInv, NEW r \in Readers, Uninstall(r) PROVE IInv'
<1>1. CASE Unlink
  BY <1>1, InvUnlink
<1>2. CASE ~Unlink
  <2> DEFINE s == slot[r]
  <2>1. /\ s \in Slot
        /\ slot' = [slot EXCEPT ![r] = NoSlot] /\ held' = [held EXCEPT ![r] = NoFrame]
        /\ consumers' = [consumers EXCEPT ![s] = FreeSlot]
        /\ Trust(r, s, r, FALSE)
        /\ UNCHANGED <<productor, frameIdx, holes, version, writer, intact>>
    BY <1>2 DEF Uninstall
  <2>2. slot \in [Readers -> Slot \cup {NoSlot, Opening}] /\ held \in [Readers -> HeldType]
    BY DEF IInv, ReaderOK
  <2>3. trusted' \subseteq Readers /\ \A q \in trusted' : q \in trusted /\ q # r /\ slot[q] # s
    BY <2>1, TrustIs DEF IInv, Memory
  <2>4. Memory'
    BY <2>1, <2>3, FreeIs, SlotChanged DEF IInv
  <2>5. WriterOK'
    BY <2>1, <2>2 DEF IInv, WriterOK
  <2>6. ReaderOK'
    BY <2>1, <2>2, FreeIs DEF IInv, ReaderOK
  <2>7. holes' = holes \ OwnedBy(None)
    BY <2>1, CRingBufAssumption DEF OwnedBy, IInv, Memory, HoleType
  <2>8. ReadersSafe'
    <3>1. UniqueNames(consumers)'
      BY <2>4 DEF Memory
    <3>2. \A q \in Readers \ {r} : slot'[q] = slot[q] /\ held'[q] = held[q]
      BY <2>1, <2>2
    <3> HIDE DEF s
    <3>3. UNCHANGED <<productor, frameIdx, intact, writer>>
      BY <2>1
    <3> QED BY <2>1, <2>3, <2>7, <3>1, <3>2, <3>3, Operate
  <2> QED BY <2>4, <2>5, <2>6, <2>8 DEF IInv
<1> QED BY <1>1, <1>2

\* An operation of reader r on slot s, whose black hole it deletes.
LEMMA ReaderStep ==
    ASSUME IInv, NEW r \in Readers, NEW s \in Slot, NEW d \in ConsumerType, NEW h \in HeldType,
           slot[r] # NoSlot, slot' = [slot EXCEPT ![r] = s], held' = [held EXCEPT ![r] = h],
           consumers' = [consumers EXCEPT ![s] = d], holes' = holes \ OwnedBy(d.name),
           d.name = None \/ \A t \in Slot : consumers[t].name = d.name => t = s,
           UNCHANGED <<productor, frameIdx, version, writer, intact>>,
           NEW sound, Trust(r, s, d.name, sound),
           sound /\ d.name = r => Safe(frameIdx, productor, intact, writer, holes', r, d, h)
    PROVE  IInv'
<1>1. slot \in [Readers -> Slot \cup {NoSlot, Opening}] /\ held \in [Readers -> HeldType]
  BY DEF IInv, ReaderOK
<1>2. /\ trusted' \subseteq Readers
      /\ \A q \in trusted' : \/ q \in trusted /\ q # r /\ slot[q] # s
                             \/ q = r /\ sound /\ d.name = r
  BY TrustIs DEF IInv, Memory
<1>3. Memory'
  <2>1. \A t \in Slot : d.name = None \/ (consumers[t].name = d.name => t = s)
    OBVIOUS
  <2>2. holes' \subseteq holes
    OBVIOUS
  <2> QED BY <1>2, <2>1, <2>2, SlotChanged DEF IInv
<1>4. WriterOK'
  BY <1>1 DEF IInv, WriterOK
<1>5. slot'[r] = s /\ held'[r] = h /\ \A q \in Readers \ {r} : slot'[q] = slot[q] /\ held'[q] = held[q]
  BY <1>1
<1>6. ReaderOK'
  <2>1. slot' \in [Readers -> Slot \cup {NoSlot, Opening}] /\ held' \in [Readers -> HeldType]
    BY <1>1
  <2> QED BY <1>5, <2>1 DEF IInv, ReaderOK
<1>7. ReadersSafe'
  <2>1. UniqueNames(consumers)'
    BY <1>3 DEF Memory
  <2>2. \A q \in trusted' :
           \/ q \in trusted /\ q # r /\ slot[q] # s
           \/ /\ q = r /\ slot'[r] = s /\ d.name = r
              /\ Safe(frameIdx, productor, intact, writer, holes', r, d, held'[r])
    BY <1>2, <1>5
  <2>3. UNCHANGED <<productor, frameIdx, intact, writer>>
    OBVIOUS
  <2> QED BY <1>5, <2>1, <2>2, <2>3, Operate
<1> QED BY <1>3, <1>4, <1>6, <1>7 DEF IInv

\* What the steps of a reader with a slot start from.
LEMMA OwnSlot ==
    ASSUME IInv, NEW r \in Readers, slot[r] \in Slot
    PROVE  /\ consumers[slot[r]] \in ConsumerType /\ slot[r] # NoSlot
           /\ slot = [slot EXCEPT ![r] = slot[r]] /\ held = [held EXCEPT ![r] = held[r]]
           /\ held[r] \in HeldType
           /\ productor.index \in Idx /\ productor.offset \in Offset
           /\ Frames(frameIdx, intact) /\ frameIdx \in [Idx -> Frame]
           /\ \/ consumers[slot[r]].name = None
              \/ \A t \in Slot : consumers[t].name = consumers[slot[r]].name => t = slot[r]
<1>1. NoSlot \notin Slot
  BY Sized DEF NoSlot, Slot
<1> QED BY <1>1, ProductorIs DEF IInv, Memory, ReaderOK, UniqueNames, Frames

LEMMA InvSeek ==
    ASSUME IInv, NEW r \in Readers, Seek(r) PROVE IInv'
<1> DEFINE s == slot[r]
           c == consumers[s]
<1>1. PICK i \in {OldestValidIndex} \cup TimeTargets :
          /\ consumers' = [consumers EXCEPT ![s] = MoveConsumer(c, i, frameIdx[i].offset)]
          /\ Trust(r, s, c.name, Sound(i, frameIdx[i].offset))
  BY DEF Seek
<1>2. /\ s \in Slot /\ held[r] = NoFrame /\ holes' = holes \ OwnedBy(c.name)
      /\ UNCHANGED <<productor, frameIdx, version, writer, slot, held, intact>>
  BY DEF Seek
<1>3. /\ c \in ConsumerType /\ s # NoSlot /\ slot = [slot EXCEPT ![r] = s]
      /\ held = [held EXCEPT ![r] = held[r]] /\ held[r] \in HeldType
      /\ productor.index \in Idx /\ frameIdx \in [Idx -> Frame]
      /\ c.name = None \/ \A t \in Slot : consumers[t].name = c.name => t = s
  BY <1>2, OwnSlot
<1>4. i \in Idx
  BY <1>3, OldestIs, TargetsAre
<1> DEFINE o == frameIdx[i].offset
           d == MoveConsumer(c, i, o)
<1>5. o \in Offset
  BY <1>3, <1>4, FrameIs
<1>6. d \in ConsumerType /\ d.name = c.name /\ d.index = i /\ d.offset = o
  BY <1>3, <1>4, <1>5, MoveConsumerIs
<1>7. Sound(i, o) => Safe(frameIdx, productor, intact, writer, holes', r, d, NoFrame)
  BY <1>4, <1>5, <1>6, SafeSound DEF IInv
<1> DEFINE sound == Sound(i, o)
<1>8. Trust(r, s, d.name, sound) /\ consumers' = [consumers EXCEPT ![s] = d]
  BY <1>1, <1>6
<1> HIDE DEF s, c, d, sound
<1>9. sound /\ d.name = r => Safe(frameIdx, productor, intact, writer, holes', r, d, held[r])
  BY <1>2, <1>7 DEF sound
<1> QED BY <1>2, <1>3, <1>6, <1>8, <1>9, ReaderStep DEF s

LEMMA InvDiscardAllData ==
    ASSUME IInv, NEW r \in Readers, DiscardAllData(r) PROVE IInv'
<1> DEFINE s == slot[r]
           c == consumers[s]
           p == productor.index
           P == productor.offset
           m == MoveConsumer(c, p, P)
           v == FALSE
           n == [m EXCEPT !.state = "FREE"]
           d == [n EXCEPT !.moved = v]
<1>1. /\ s \in Slot /\ holes' = holes \ OwnedBy(c.name)
      /\ consumers' = [consumers EXCEPT ![s] = d]
      /\ held' = [held EXCEPT ![r] = NoFrame] /\ Trust(r, s, c.name, TRUE)
      /\ UNCHANGED <<productor, frameIdx, version, writer, slot, intact>>
  BY DEF DiscardAllData
<1>2. /\ c \in ConsumerType /\ s # NoSlot /\ slot = [slot EXCEPT ![r] = s]
      /\ p \in Idx /\ P \in Offset
      /\ c.name = None \/ \A t \in Slot : consumers[t].name = c.name => t = s
  BY <1>1, OwnSlot
<1>3. m \in ConsumerType /\ m.name = c.name /\ m.index = p /\ m.offset = P
  BY <1>2, MoveConsumerIs
<1>4. v \in BOOLEAN
  OBVIOUS
<1> HIDE DEF m, v
<1>9. n \in ConsumerType /\ n.name = c.name /\ n.index = p /\ n.offset = P
  BY <1>3, SetState
<1> HIDE DEF n
<1>5. d \in ConsumerType /\ d.name = c.name /\ d.index = p /\ d.offset = P
  BY <1>4, <1>9, SetMoved
<1> HIDE DEF d
<1>6. Safe(frameIdx, productor, intact, writer, holes', r, d, NoFrame)
  <2>1. writer.pc = "write" => writer.align + writer.size < BufSize
    BY DEF IInv, WriterOK
  <2>2. writer.align + writer.size \in Nat
    BY WriterIs DEF IInv, WriterOK
  <2>3. Good(frameIdx, p, P, intact, p, P)
    BY <1>2, Sized, GoodAtEnd
  <2>4. writer.pc = "write" => RoomFor(p, P, writer.align + writer.size, p, P)
    BY <1>2, <2>1, <2>2, GoodAtEnd
  <2> QED BY <1>5, <2>3, <2>4 DEF Safe, HoldOK, AwayAt
<1> DEFINE sound == TRUE
<1>7. Trust(r, s, d.name, sound)
  BY <1>1, <1>5
<1> HIDE DEF s, c, sound
<1> QED BY <1>1, <1>2, <1>5, <1>6, <1>7, FreeIs, ReaderStep DEF s

\* A reader that has something to read has its index in its range.
LEMMA RangeSelf ==
    ASSUME NEW i \in Idx, NEW p \in Idx, i # p
    PROVE  i \in IndexRange(i, p)
<1>1. Steps(i, p) = (IF i <= p THEN p - i ELSE FrameNum + p - i)
  BY StepsIs
<1>2. Steps(i, i) = 0
  BY StepsIs, Sized DEF Idx
<1>3. IndexRange(i, p) = {x \in Idx : Steps(i, x) < Steps(i, p)}
  BY IndexRangeIs
<1>4. Steps(i, i) < Steps(i, p)
  BY <1>1, <1>2, Sized DEF Idx
<1> QED BY <1>3, <1>4

\* How a reader gives back a frame, and takes one.
LEMMA Release ==
    ASSUME NEW c \in ConsumerType, NEW d, d = [c EXCEPT !.state = "FREE", !.moved = FALSE]
    PROVE  d \in ConsumerType /\ d.name = c.name /\ d.index = c.index /\ d.offset = c.offset
<1> DEFINE v == FALSE
           n == [c EXCEPT !.state = "FREE"]
           e == [n EXCEPT !.moved = v]
<1>1. d = e
  OBVIOUS
<1>2. v \in BOOLEAN
  OBVIOUS
<1> HIDE DEF v
<1>3. n \in ConsumerType /\ n.name = c.name /\ n.index = c.index /\ n.offset = c.offset
  BY SetState
<1> HIDE DEF n
<1>4. e \in ConsumerType /\ e.name = c.name /\ e.index = c.index /\ e.offset = c.offset
  BY <1>2, <1>3, SetMoved
<1> HIDE DEF e
<1> QED BY <1>1, <1>4

LEMMA Take ==
    ASSUME NEW c \in ConsumerType, NEW d, d = [c EXCEPT !.state = "HOLDING", !.moved = FALSE]
    PROVE  /\ d \in ConsumerType /\ d.name = c.name /\ d.index = c.index /\ d.offset = c.offset
           /\ d.refStart = c.refStart /\ d.refEnd = c.refEnd
           /\ d.state = "HOLDING" /\ d.moved = FALSE
<1> DEFINE v == FALSE
           n == [c EXCEPT !.state = "HOLDING"]
           e == [n EXCEPT !.moved = v]
<1>1. d = e
  OBVIOUS
<1>2. v \in BOOLEAN /\ v = FALSE
  OBVIOUS
<1> HIDE DEF v
<1>3. /\ n \in ConsumerType /\ n.name = c.name /\ n.index = c.index /\ n.offset = c.offset
      /\ n.refStart = c.refStart /\ n.refEnd = c.refEnd /\ n.state = "HOLDING"
  BY SetState
<1> HIDE DEF n
<1>4. /\ e \in ConsumerType /\ e.name = c.name /\ e.index = c.index /\ e.offset = c.offset
      /\ e.refStart = c.refStart /\ e.refEnd = c.refEnd /\ e.state = "HOLDING" /\ e.moved = v
  BY <1>2, <1>3, SetMoved
<1> HIDE DEF e
<1> QED BY <1>1, <1>2, <1>4

LEMMA InvInstallConsumer ==
    ASSUME IInv, NEW r \in Readers, InstallConsumer(r) PROVE IInv'
<1> DEFINE own == {s \in Slot : consumers[s].name = r}
           free == IF own # {} THEN own ELSE Slot \ Valid(consumers)
           s == CHOOSE t \in free : \A u \in free : t <= u
           i == InstallAt[1]
           o == InstallAt[2]
           e == [FreeSlot EXCEPT !.name = r]
           d == MoveConsumer(e, i, o)
           sound == Sound(i, o)
<1>1. /\ slot[r] = Opening /\ free # {} /\ slot' = [slot EXCEPT ![r] = s]
      /\ consumers' = [consumers EXCEPT ![s] = d]
      /\ holes' = holes \ OwnedBy(r) /\ Trust(r, s, r, sound)
      /\ UNCHANGED <<productor, frameIdx, version, writer, held, intact>>
  BY DEF InstallConsumer
<1>2. s \in free
  <2>1. free \in SUBSET Nat
    BY DEF Slot
  <2> QED BY <1>1, <2>1, LeastNat
<1>3. s \in Slot /\ \A t \in Slot : consumers[t].name = r => t = s
  BY <1>2, CRingBufAssumption DEF IInv, Memory, UniqueNames, Valid
<1>4. Opening # NoSlot /\ Opening \notin Slot
  BY Sized DEF Opening, NoSlot, Slot
<1>5. held[r] = NoFrame /\ held' = [held EXCEPT ![r] = NoFrame]
  BY <1>1, <1>4 DEF IInv, ReaderOK
<1>6. i \in Idx /\ o \in Offset
  BY TargetsAre, ProductorIs DEF IInv, Memory, Frames
<1>7. e \in ConsumerType /\ e.name = r
  BY Sized DEF FreeSlot, ConsumerType
<1> HIDE DEF e, i, o
<1>8. d \in ConsumerType /\ d.name = r /\ d.index = i /\ d.offset = o
  BY <1>6, <1>7, MoveConsumerIs
<1> HIDE DEF d
<1>9. sound => Safe(frameIdx, productor, intact, writer, holes', r, d, NoFrame)
  BY <1>6, <1>8, SafeSound DEF IInv
<1> HIDE DEF sound, s
<1>10. holes' = holes \ OwnedBy(d.name) /\ Trust(r, s, d.name, sound)
       /\ \A t \in Slot : consumers[t].name = d.name => t = s
  BY <1>1, <1>3, <1>8
<1>11. slot[r] # NoSlot /\ UNCHANGED <<productor, frameIdx, version, writer, intact>>
  BY <1>1, <1>4
<1>12. slot' = [slot EXCEPT ![r] = s] /\ consumers' = [consumers EXCEPT ![s] = d] /\ s \in Slot
  BY <1>1, <1>3
<1> QED BY <1>5, <1>8, <1>9, <1>10, <1>11, <1>12, FreeIs, ReaderStep

LEMMA InvRequestReadFrame ==
    ASSUME IInv, NEW r \in Readers, RequestReadFrame(r) PROVE IInv'
<1> DEFINE s == slot[r]
           c == consumers[s]
           f == frameIdx[c.index]
           m == MoveConsumer(c, c.index, f.offset)
           d == [m EXCEPT !.state = "HOLDING", !.moved = FALSE]
           h == [index |-> c.index, offset |-> f.offset, length |-> f.length]
           sound == r \in trusted
<1>1. /\ s \in Slot /\ c.index # productor.index
      /\ holes' = holes \ OwnedBy(c.name)
      /\ consumers' = [consumers EXCEPT ![s] = d]
      /\ held' = [held EXCEPT ![r] = h] /\ Trust(r, s, c.name, sound)
      /\ UNCHANGED <<productor, frameIdx, version, writer, slot, intact>>
  BY DEF RequestReadFrame
<1>2. /\ c \in ConsumerType /\ s # NoSlot /\ slot = [slot EXCEPT ![r] = s]
      /\ productor.index \in Idx /\ productor.offset \in Offset
      /\ Frames(frameIdx, intact) /\ frameIdx \in [Idx -> Frame]
      /\ c.name = None \/ \A t \in Slot : consumers[t].name = c.name => t = s
  BY <1>1, OwnSlot
<1>3. c.index \in Idx /\ c.offset \in Offset
  BY <1>2, ConsumerIs
<1>4. f.offset \in Offset /\ f.length \in 0..BufSize
  BY <1>2, <1>3, FrameIs
<1>5. h \in HeldType /\ h.offset = f.offset /\ h.length = f.length
  BY <1>3, <1>4 DEF HeldType
<1>6. /\ m \in ConsumerType /\ m.name = c.name /\ m.index = c.index /\ m.offset = f.offset
      /\ m.refStart = c.index /\ m.refEnd = c.index
  BY <1>2, <1>3, <1>4, MoveConsumerIs
<1> HIDE DEF m
<1>7. /\ d \in ConsumerType /\ d.name = c.name /\ d.index = c.index /\ d.offset = f.offset
      /\ d.refStart = c.index /\ d.refEnd = c.index /\ d.state = "HOLDING" /\ d.moved = FALSE
  BY <1>6, Take
<1> HIDE DEF d, h
<1>8. ASSUME sound, d.name = r PROVE Safe(frameIdx, productor, intact, writer, holes', r, d, h)
  <2> DEFINE p == productor.index
             P == productor.offset
             n == writer.align + writer.size
  <2>1. Safe(frameIdx, productor, intact, writer, holes, r, c, held[r])
    BY <1>8 DEF IInv, ReadersSafe
  <2>2. c.index \in IndexRange(c.index, p)
    BY <1>1, <1>2, <1>3, RangeSelf
  <2>3. Good(frameIdx, p, P, intact, c.index, c.offset)
    BY <2>1 DEF Safe
  <2>4. /\ Good(frameIdx, p, P, intact, c.index, f.offset) /\ f.length \in 1..(BufSize - 1)
        /\ \A x : x \in Nat /\ RoomFor(p, P, x, c.index, c.offset) => RoomFor(p, P, x, c.index, f.offset)
    BY <1>2, <1>3, <2>2, <2>3, GoodLater
  <2>5. n \in Nat
    BY WriterIs DEF IInv, WriterOK
  <2>6. writer.pc = "write" => RoomFor(p, P, n, c.index, f.offset)
    BY <2>1, <2>4, <2>5 DEF Safe
  <2>7. \A g \in holes' : g.owner # r
    BY <1>1, <1>7, <1>8 DEF OwnedBy
  <2>8. HoldOK(frameIdx, p, holes', r, d, h)
    BY <1>1, <1>5, <1>7, <2>4, <2>7 DEF HoldOK
  <2>9. AwayAt(frameIdx, productor, writer, d, h)
    BY <1>7 DEF AwayAt
  <2> QED BY <1>7, <2>4, <2>6, <2>8, <2>9 DEF Safe
<1>9. holes' = holes \ OwnedBy(d.name) /\ Trust(r, s, d.name, sound)
      /\ (d.name = None \/ \A t \in Slot : consumers[t].name = d.name => t = s)
  BY <1>1, <1>2, <1>7
<1> HIDE DEF sound, c
<1>10. /\ slot[r] # NoSlot /\ slot' = [slot EXCEPT ![r] = s]
       /\ UNCHANGED <<productor, frameIdx, version, writer, intact>>
       /\ consumers' = [consumers EXCEPT ![s] = d] /\ held' = [held EXCEPT ![r] = h] /\ s \in Slot
  BY <1>1, <1>2
<1> HIDE DEF s
<1> QED BY <1>5, <1>7, <1>8, <1>9, <1>10, ReaderStep

LEMMA InvCommitRead ==
    ASSUME IInv, NEW r \in Readers, CommitRead(r) PROVE IInv'
<1> DEFINE s == slot[r]
           c == consumers[s]
           i == AdvanceIndex(c.refEnd, 1)
           o == AdvanceOffset(c.offset, held[r].length)
           next == IF c.moved THEN c ELSE MoveConsumer(c, i, o)
           d == [next EXCEPT !.state = "FREE", !.moved = FALSE]
           sound == r \in trusted
<1>1. /\ s \in Slot /\ held[r] # NoFrame
      /\ holes' = holes \ OwnedBy(c.name)
      /\ consumers' = [consumers EXCEPT ![s] = d]
      /\ held' = [held EXCEPT ![r] = NoFrame] /\ Trust(r, s, c.name, sound)
      /\ UNCHANGED <<productor, frameIdx, version, writer, slot, intact>>
  BY DEF CommitRead
<1>2. /\ c \in ConsumerType /\ s # NoSlot /\ slot = [slot EXCEPT ![r] = s]
      /\ productor.index \in Idx /\ productor.offset \in Offset
      /\ Frames(frameIdx, intact) /\ held[r] \in HeldType
      /\ c.name = None \/ \A t \in Slot : consumers[t].name = c.name => t = s
  BY <1>1, OwnSlot
<1>3. c.index \in Idx /\ c.offset \in Offset /\ c.refEnd \in Idx /\ held[r].length \in 0..BufSize
  BY <1>2, ConsumerIs DEF HeldType
<1>4. i \in Idx /\ o \in Offset
  BY <1>3, NextIndex, AdvanceOffsetIs
<1> HIDE DEF i, o
<1> DEFINE m == MoveConsumer(c, i, o)
<1>5. m \in ConsumerType /\ m.name = c.name /\ m.index = i /\ m.offset = o
  BY <1>2, <1>4, MoveConsumerIs
<1>6. next = (IF c.moved THEN c ELSE m)
  OBVIOUS
<1> HIDE DEF m, next
<1>7. next \in ConsumerType /\ next.name = c.name
      /\ (IF c.moved THEN next = c ELSE next.index = i /\ next.offset = o)
  BY <1>2, <1>5, <1>6
<1>8. d \in ConsumerType /\ d.name = next.name /\ d.index = next.index /\ d.offset = next.offset
  BY <1>7, Release
<1> HIDE DEF d
<1>9. ASSUME sound, d.name = r PROVE Safe(frameIdx, productor, intact, writer, holes', r, d, NoFrame)
  <2> DEFINE p == productor.index
             P == productor.offset
             n == writer.align + writer.size
  <2>1. Safe(frameIdx, productor, intact, writer, holes, r, c, held[r])
    BY <1>9 DEF IInv, ReadersSafe
  <2>2. /\ Good(frameIdx, p, P, intact, c.index, c.offset)
        /\ HoldOK(frameIdx, p, holes, r, c, held[r])
        /\ writer.pc = "write" => RoomFor(p, P, n, c.index, c.offset)
    BY <2>1 DEF Safe
  <2>3. n \in Nat
    BY WriterIs DEF IInv, WriterOK
  <2>4. CASE c.state = "BLOCKED"
    <3>1. c.moved = TRUE
      BY <1>1, <2>2, <2>4 DEF HoldOK
    <3>2. d.index = c.index /\ d.offset = c.offset
      BY <1>7, <1>8, <3>1
    <3> QED BY <2>2, <3>2 DEF Safe, HoldOK, AwayAt
  <2>5. CASE c.state = "HOLDING"
    <3>1. /\ c.moved = FALSE /\ c.index # p /\ c.refEnd = c.index
          /\ c.offset = held[r].offset /\ frameIdx[c.index].offset = held[r].offset
          /\ frameIdx[c.index].length = held[r].length
      BY <1>1, <2>2, <2>5 DEF HoldOK
    <3>2. d.index = i /\ d.offset = o
      BY <1>7, <1>8, <3>1
    <3>3. c.index \in IndexRange(c.index, p)
      BY <1>2, <1>3, <3>1, RangeSelf
    <3>4. i = AdvanceIndex(c.index, 1) /\ c.offset = frameIdx[c.index].offset
          /\ o = AdvanceOffset(frameIdx[c.index].offset, frameIdx[c.index].length)
      BY <3>1 DEF i, o
    <3> DEFINE j == c.index
    <3>5. j \in Idx /\ j # p /\ j \in IndexRange(j, p) /\ Good(frameIdx, p, P, intact, j, frameIdx[j].offset)
      BY <1>3, <2>2, <3>1, <3>3, <3>4
    <3> HIDE DEF j
    <3>6. /\ Good(frameIdx, p, P, intact, AdvanceIndex(j, 1), AdvanceOffset(frameIdx[j].offset, frameIdx[j].length))
          /\ \A x : x \in Nat /\ RoomFor(p, P, x, j, frameIdx[j].offset)
                        => RoomFor(p, P, x, AdvanceIndex(j, 1), AdvanceOffset(frameIdx[j].offset, frameIdx[j].length))
      BY <1>2, <3>5, GoodRead
    <3>7. Good(frameIdx, p, P, intact, i, o) /\ (writer.pc = "write" => RoomFor(p, P, n, i, o))
      BY <2>2, <2>3, <3>4, <3>6 DEF j
    <3> QED BY <3>2, <3>7 DEF Safe, HoldOK, AwayAt
  <2> QED BY <1>1, <2>2, <2>4, <2>5 DEF HoldOK
<1>10. holes' = holes \ OwnedBy(d.name) /\ Trust(r, s, d.name, sound)
      /\ (d.name = None \/ \A t \in Slot : consumers[t].name = d.name => t = s)
  BY <1>1, <1>2, <1>7, <1>8
<1> HIDE DEF sound, c
<1>11. /\ slot[r] # NoSlot /\ slot' = [slot EXCEPT ![r] = s]
       /\ UNCHANGED <<productor, frameIdx, version, writer, intact>>
       /\ consumers' = [consumers EXCEPT ![s] = d] /\ held' = [held EXCEPT ![r] = NoFrame] /\ s \in Slot
  BY <1>1, <1>2
<1> HIDE DEF s
<1> QED BY <1>8, <1>9, <1>10, <1>11, FreeIs, ReaderStep

-----------------------------------------------------------------------------
(* The writer commits, and resets its readers *)

LEMMA SetProductor ==
    ASSUME NEW prod \in ProductorType, NEW o \in Offset, NEW i \in Idx,
           NEW q, q = [prod EXCEPT !.index = i, !.offset = o]
    PROVE  q \in ProductorType /\ q.index = i /\ q.offset = o
<1> DEFINE n == [prod EXCEPT !.index = i]
           e == [n EXCEPT !.offset = o]
<1>1. q = e
  OBVIOUS
<1>2. n \in ProductorType /\ n.index = i
  BY DEF ProductorType
<1> HIDE DEF n
<1>3. e \in ProductorType /\ e.index = i /\ e.offset = o
  BY <1>2 DEF ProductorType
<1> HIDE DEF e
<1> QED BY <1>1, <1>3

\* A safe reader is safe after the commit.
LEMMA SafeCommit ==
    ASSUME Frames(frameIdx, intact), productor \in ProductorType, writer \in WriterType,
           writer.pc = "write", writer.size > 0, writer.align + writer.size < BufSize,
           NEW r, NEW c \in ConsumerType, NEW h,
           Safe(frameIdx, productor, intact, writer, holes, r, c, h),
           NEW a, a = AdvanceOffset(productor.offset, writer.align),
           frameIdx'[productor.index].offset = a,
           frameIdx'[productor.index].length = writer.size,
           \A j \in Idx : j # productor.index => frameIdx'[j] = frameIdx[j],
           productor'.index = AdvanceIndex(productor.index, 1),
           productor'.offset = AdvanceOffset(a, writer.size), writer'.pc = "idle",
           intact' = intact \cup {productor.index}
    PROVE  Safe(frameIdx', productor', intact', writer', holes, r, c, h)
<1> DEFINE f == frameIdx
           g == frameIdx'
           S == intact
           prod == productor
           prod2 == productor'
           w == writer
           w2 == writer'
           hs == holes
           p == prod.index
           P == prod.offset
           i == c.index
           o == c.offset
           x == w.align
           y == w.size
<1>1. p \in Idx /\ P \in Offset /\ i \in Idx /\ o \in Offset /\ f \in [Idx -> Frame]
  BY ProductorIs, ConsumerIs DEF Frames
<1>2. x \in Nat /\ y \in Nat \ {0} /\ x + y < BufSize
  BY WriterIs
<1>3. /\ Good(f, p, P, S, i, o) /\ RoomFor(p, P, x + y, i, o)
      /\ HoldOK(f, p, hs, r, c, h) /\ AwayAt(f, prod, w, c, h)
  BY DEF Safe
<1>4. /\ a = AdvanceOffset(P, x) /\ g[p].offset = a /\ g[p].length = y
      /\ \A j \in Idx : j # p => g[j] = f[j]
  OBVIOUS
<1>5. /\ Good(g, AdvanceIndex(p, 1), AdvanceOffset(a, y), S \cup {p}, i, o)
      /\ \A j \in IndexRange(i, p) : j # p
  <2> HIDE DEF p, P, i, o, x, y
  <2> QED BY <1>1, <1>2, <1>3, <1>4, GoodCommit
<1>6. i # AdvanceIndex(p, 1) /\ IndexRange(i, AdvanceIndex(p, 1)) = IndexRange(i, p) \cup {p}
  BY <1>1, <1>3, RangeGrows DEF RoomFor
<1>7. g[p].offset = a /\ g[p].length = y /\ \A j \in IndexRange(i, p) : g[j] = f[j]
  <2>1. \A j \in IndexRange(i, p) : j \in Idx
    BY <1>1, IndexRangeIs
  <2> QED BY <1>1, <1>5, <2>1
<1>8. i # p => g[i] = f[i]
  BY <1>1, <1>7, RangeSelf
<1>9. HoldOK(g, prod2.index, hs, r, c, h)
  BY <1>3, <1>6, <1>8 DEF HoldOK
<1>10. AwayAt(g, prod2, w2, c, h)
  <2>1. SUFFICES ASSUME h # NoFrame, c.state = "BLOCKED"
                 PROVE  \A j \in IndexRange(i, prod2.index) :
                            \/ g[j].offset = h.offset
                            \/ Region(g[j].offset, g[j].length) \cap Region(h.offset, h.length) = {}
    BY <1>6 DEF AwayAt
  <2>2. TAKE j \in IndexRange(i, prod2.index)
  <2>3. CASE j = p
    <3>1. Region(h.offset, h.length) \cap Region(a, y) = {}
      BY <1>3, <2>1 DEF AwayAt
    <3> QED BY <1>7, <2>3, <3>1
  <2>4. CASE j \in IndexRange(i, p)
    <3>1. \/ f[j].offset = h.offset
          \/ Region(f[j].offset, f[j].length) \cap Region(h.offset, h.length) = {}
      BY <1>3, <2>1, <2>4 DEF AwayAt
    <3> QED BY <1>7, <2>4, <3>1
  <2> QED BY <1>6, <2>2, <2>3, <2>4
<1> QED BY <1>5, <1>9, <1>10 DEF Safe

LEMMA InvCommitWrite ==
    ASSUME IInv, CommitWrite PROVE IInv'
<1> DEFINE a == AdvanceOffset(productor.offset, writer.align)
           p == productor.index
           new == [offset |-> a, length |-> writer.size, frameType |-> writer.type]
<1>1. /\ writer.pc = "write" /\ frameIdx' = [frameIdx EXCEPT ![p] = new]
      /\ productor' = [productor EXCEPT !.index = AdvanceIndex(p, 1), !.offset = AdvanceOffset(a, writer.size)]
      /\ intact' = intact \cup {p} /\ writer' = IdleWriter
      /\ UNCHANGED <<consumers, holes, version, slot, held, trusted>>
  BY DEF CommitWrite
<1>2. /\ productor \in ProductorType /\ p \in Idx /\ productor.offset \in Offset
      /\ Frames(frameIdx, intact) /\ frameIdx \in [Idx -> Frame]
      /\ consumers \in [Slot -> ConsumerType] /\ intact \subseteq Idx
  BY ProductorIs DEF IInv, Memory, Frames
<1>3. /\ writer \in WriterType /\ writer.size \in Nat \ {0} /\ writer.align \in Nat
      /\ writer.align + writer.size < BufSize /\ writer.type \in FrameType
  BY <1>1, WriterIs DEF IInv, WriterOK
<1>4. a \in Offset /\ AdvanceOffset(a, writer.size) \in Offset
  BY <1>2, <1>3, AdvanceTwice
<1>5. AdvanceIndex(p, 1) \in Idx
  BY <1>2, NextIndex
<1>6. /\ productor' \in ProductorType /\ productor'.index = AdvanceIndex(p, 1)
      /\ productor'.offset = AdvanceOffset(a, writer.size)
  <2> DEFINE i == AdvanceIndex(p, 1)
             o == AdvanceOffset(a, writer.size)
             q == [productor EXCEPT !.index = i, !.offset = o]
  <2>1. productor' = q
    BY <1>1
  <2>2. i \in Idx /\ o \in Offset /\ productor \in ProductorType
    BY <1>2, <1>4, <1>5
  <2>3. q \in ProductorType /\ q.index = i /\ q.offset = o
    <3> HIDE DEF i, o
    <3> DEFINE n == [productor EXCEPT !.index = i]
               e == [n EXCEPT !.offset = o]
    <3>1. n \in ProductorType /\ n.index = i
      BY <2>2 DEF ProductorType
    <3>2. q = e
      BY <2>2 DEF ProductorType
    <3> HIDE DEF n
    <3>3. e \in ProductorType /\ e.index = i /\ e.offset = o
      BY <2>2, <3>1 DEF ProductorType
    <3> QED BY <3>2, <3>3
  <2> HIDE DEF q
  <2> QED BY <2>1, <2>3
<1>7. writer' \in WriterType /\ writer'.pc = "idle"
  BY <1>1, IdleIs
<1>8. Frames(frameIdx', intact')
  <2>1. new \in Frame /\ new.length \in 1..(BufSize - 1)
    BY <1>3, <1>4, Sized DEF Frame
  <2> HIDE DEF new
  <2>2. frameIdx' \in [Idx -> Frame] /\ \A j \in Idx : frameIdx'[j] = IF j = p THEN new ELSE frameIdx[j]
    BY <1>1, <1>2, <2>1
  <2> QED BY <1>1, <1>2, <2>1, <2>2 DEF Frames
<1>9. Memory'
  BY <1>1, <1>2, <1>6, <1>8 DEF IInv, Memory, Frames, UniqueNames
<1>10. /\ frameIdx'[p].offset = a /\ frameIdx'[p].length = writer.size
       /\ \A j \in Idx : j # p => frameIdx'[j] = frameIdx[j]
  BY <1>1, <1>2
<1>11. WriterOK'
  BY <1>1, <1>7 DEF IInv, WriterOK
<1>12. ReaderOK'
  BY <1>1 DEF IInv, ReaderOK
<1>13. ReadersSafe'
  <2>1. SUFFICES ASSUME NEW r \in trusted
                 PROVE  /\ slot[r] \in Slot /\ consumers[slot[r]].name = r
                        /\ Safe(frameIdx', productor', intact', writer', holes, r, consumers[slot[r]], held[r])
    BY <1>1 DEF ReadersSafe
  <2>2. /\ slot[r] \in Slot /\ consumers[slot[r]].name = r
        /\ Safe(frameIdx, productor, intact, writer, holes, r, consumers[slot[r]], held[r])
    BY DEF IInv, ReadersSafe
  <2>3. consumers[slot[r]] \in ConsumerType
    BY <1>2, <2>2
  <2>4. Safe(frameIdx', productor', intact', writer', holes, r, consumers[slot[r]], held[r])
    <3>1. /\ writer.pc = "write" /\ writer.size > 0 /\ intact' = intact \cup {p}
          /\ a = AdvanceOffset(productor.offset, writer.align)
      BY <1>1, <1>3
    <3> HIDE DEF a
    <3> QED BY <1>2, <1>3, <1>6, <1>7, <1>10, <2>2, <2>3, <3>1, SafeCommit
  <2> QED BY <2>2, <2>4
<1> QED BY <1>9, <1>11, <1>12, <1>13 DEF IInv

\* A reader that ResetAllUser sends back to the start.
LEMMA StartIs ==
    ASSUME NEW c \in ConsumerType, NEW d, d = Blocked(c, 0, 0)
    PROVE  /\ d \in ConsumerType /\ d.name = c.name /\ d.index = 0 /\ d.offset = 0
           /\ d.state = (IF c.state = "HOLDING" THEN "BLOCKED" ELSE c.state)
           /\ c.state # "FREE" => d.moved = TRUE
<1>1. \A i \in Idx, o \in Offset : LET e == Blocked(c, i, o) IN
          /\ e \in ConsumerType /\ e.name = c.name /\ e.index = i /\ e.offset = o
          /\ e.state = (IF c.state = "HOLDING" THEN "BLOCKED" ELSE c.state)
          /\ c.state # "FREE" => e.moved = TRUE
  BY BlockedIs
<1> QED BY <1>1, Sized

LEMMA SafeReset ==
    ASSUME Memory, NEW r \in Readers, NEW s \in Slot, consumers[s].name = r, NEW h \in HeldType,
           HoldOK(frameIdx, productor.index, holes, r, consumers[s], h),
           NEW prod, prod.index = 0, prod.offset = 0, NEW w, w.pc = "idle", NEW S,
           NEW d, d = Blocked(consumers[s], 0, 0),
           NEW hs, hs = HolesAfter(consumers, Valid(consumers), holes),
           \A g \in hs : g.end >= g.start
    PROVE  Safe(frameIdx, prod, S, w, hs, r, d, h)
<1>1. /\ consumers[s] \in ConsumerType /\ productor.index \in Idx /\ frameIdx \in [Idx -> Frame]
      /\ 0 \in Offset /\ 0 \in Idx /\ s \in Valid(consumers)
  BY Sized, ProductorIs, CRingBufAssumption DEF Memory, Frames, Valid
<1>2. /\ d \in ConsumerType /\ d.index = 0 /\ d.offset = 0
      /\ d.state = (IF consumers[s].state = "HOLDING" THEN "BLOCKED" ELSE consumers[s].state)
      /\ consumers[s].state # "FREE" => d.moved = TRUE
  BY <1>1, StartIs
<1>3. HoldOK(frameIdx, productor.index, hs, r, d, h)
  <2>1. Valid(consumers) \subseteq Valid(consumers)
    OBVIOUS
  <2> QED BY <1>1, <1>2, <2>1, MovedHold DEF Memory
<1>4. d.state # "HOLDING"
  BY <1>2
<1>5. HoldOK(frameIdx, 0, hs, r, d, h)
  BY <1>3, <1>4 DEF HoldOK
<1>6. Good(frameIdx, 0, 0, S, 0, 0)
  BY <1>1, Sized, GoodAtEnd
<1>7. AwayAt(frameIdx, prod, w, d, h)
  <2>1. SUFFICES ASSUME h # NoFrame, d.state = "BLOCKED"
                 PROVE  h.offset + h.length < BufSize /\ IndexRange(0, 0) = {}
    BY <1>2 DEF AwayAt
  <2>2. PICK g \in hs : g.start = h.offset /\ g.end = AdvanceOffset(h.offset, h.length)
    BY <1>3, <2>1 DEF HoldOK
  <2>3. h.offset \in Offset /\ h.length \in 1..(BufSize - 1)
    BY <1>3, <2>1 DEF HoldOK, HeldType
  <2>4. h.length \in 0..BufSize
    BY <2>3, Sized
  <2>5. AdvanceOffset(h.offset, h.length)
            = (IF h.offset + h.length < BufSize THEN h.offset + h.length ELSE h.offset + h.length - BufSize)
    BY <2>3, <2>4, AdvanceOffsetIs
  <2>6. h.offset + h.length < BufSize
    BY <2>2, <2>3, <2>5, Sized DEF Offset
  <2> QED BY <2>6, <1>1, RangeEmpty
<1> QED BY <1>2, <1>5, <1>6, <1>7 DEF Safe

LEMMA InvResetAllUser ==
    ASSUME IInv, ResetAllUser PROVE IInv'
<1>1. /\ productor.exist /\ writer.pc \in {"idle", "write"}
      /\ consumers' = [s \in Slot |->
             IF s \in Valid(consumers) THEN Blocked(consumers[s], 0, 0) ELSE consumers[s]]
      /\ holes' = HolesAfter(consumers, Valid(consumers), holes)
      /\ productor' = [productor EXCEPT !.offset = 0, !.index = 0]
      /\ writer' = IdleWriter
      /\ trusted' = (IF \E h \in holes' : h.end < h.start THEN {} ELSE trusted)
      /\ UNCHANGED <<frameIdx, version, slot, held, intact>>
  BY DEF ResetAllUser
<1>2. /\ productor \in ProductorType /\ productor.index \in Idx
      /\ Frames(frameIdx, intact) /\ frameIdx \in [Idx -> Frame] /\ 0 \in Offset /\ 0 \in Idx
      /\ consumers \in [Slot -> ConsumerType] /\ intact \subseteq Idx
      /\ Valid(consumers) \subseteq Slot /\ holes \subseteq HoleType /\ IsFiniteSet(holes)
      /\ trusted' \subseteq trusted
  BY <1>1, Sized, ProductorIs DEF IInv, Memory, Frames, Valid
<1>3. productor' \in ProductorType /\ productor'.index = 0 /\ productor'.offset = 0
  BY <1>1, <1>2 DEF ProductorType
<1>4. writer' \in WriterType /\ writer'.pc = "idle"
  BY <1>1, IdleIs
<1>5. \A s \in Slot : /\ consumers'[s] \in ConsumerType /\ consumers'[s].name = consumers[s].name
                      /\ s \in Valid(consumers) => consumers'[s] = Blocked(consumers[s], 0, 0)
  <2>1. TAKE s \in Slot
  <2>2. consumers'[s] = IF s \in Valid(consumers) THEN Blocked(consumers[s], 0, 0) ELSE consumers[s]
    BY <1>1
  <2>3. consumers[s] \in ConsumerType
    BY <1>2
  <2> DEFINE b == Blocked(consumers[s], 0, 0)
  <2>4. b \in ConsumerType /\ b.name = consumers[s].name
    BY <2>3, StartIs
  <2> HIDE DEF b
  <2> QED BY <2>2, <2>3, <2>4 DEF b
<1>6. consumers' \in [Slot -> ConsumerType]
  BY <1>1, <1>5
<1>7. UniqueNames(consumers')
  BY <1>5 DEF IInv, Memory, UniqueNames
<1>8. holes' \subseteq HoleType /\ IsFiniteSet(holes')
  <2>1. Valid(consumers) \subseteq Valid(consumers)
    OBVIOUS
  <2> QED BY <1>1, <1>2, <2>1, HolesAfterIs
<1>9. Memory'
  BY <1>1, <1>2, <1>3, <1>6, <1>7, <1>8 DEF IInv, Memory
<1>10. WriterOK'
  BY <1>1, <1>3, <1>4 DEF IInv, WriterOK
<1>11. ReaderOK'
  BY <1>1 DEF IInv, ReaderOK
<1>12. ReadersSafe'
  <2>1. SUFFICES ASSUME NEW r \in trusted'
                 PROVE  /\ slot[r] \in Slot /\ consumers'[slot[r]].name = r
                        /\ Safe(frameIdx, productor', intact, writer', holes', r, consumers'[slot[r]], held[r])
    BY <1>1 DEF ReadersSafe
  <2>2. /\ r \in Readers /\ slot[r] \in Slot /\ consumers[slot[r]].name = r
        /\ Safe(frameIdx, productor, intact, writer, holes, r, consumers[slot[r]], held[r])
        /\ r # None
    BY <1>2, CRingBufAssumption DEF IInv, ReadersSafe, Memory
  <2>3. HoldOK(frameIdx, productor.index, holes, r, consumers[slot[r]], held[r])
    BY <2>2 DEF Safe
  <2>4. \A g \in holes' : g.end >= g.start
    <3>1. \A g \in holes' : ~(g.end < g.start)
      BY <1>1
    <3>2. \A g \in holes' : g.end \in Nat /\ g.start \in Nat
      BY <1>8, Sized DEF HoleType
    <3> QED BY <3>1, <3>2
  <2>5. consumers'[slot[r]] = Blocked(consumers[slot[r]], 0, 0) /\ consumers'[slot[r]].name = r
    BY <1>5, <2>2 DEF Valid
  <2>6. held[r] \in HeldType /\ Memory
    BY <2>2 DEF IInv, ReaderOK
  <2>7. holes' = HolesAfter(consumers, Valid(consumers), holes)
    BY <1>1
  <2> DEFINE s == slot[r]
             h == held[r]
             hs == holes'
             d == consumers'[s]
             prod == productor'
             w == writer'
  <2>8. /\ s \in Slot /\ consumers[s].name = r /\ h \in HeldType
        /\ HoldOK(frameIdx, productor.index, holes, r, consumers[s], h)
        /\ d = Blocked(consumers[s], 0, 0) /\ hs = HolesAfter(consumers, Valid(consumers), holes)
        /\ prod.index = 0 /\ prod.offset = 0 /\ w.pc = "idle" /\ \A g \in hs : g.end >= g.start
    BY <1>3, <1>4, <2>2, <2>3, <2>4, <2>5, <2>6, <2>7
  <2> HIDE DEF s, h, hs, d, prod, w
  <2>9. Safe(frameIdx, prod, intact, w, hs, r, d, h)
    BY <2>2, <2>6, <2>8, SafeReset
  <2> QED BY <2>2, <2>5, <2>9 DEF s, h, hs, d, prod, w
<1> QED BY <1>9, <1>10, <1>11, <1>12 DEF IInv


-----------------------------------------------------------------------------
(* The writer asks for room: the readers it moves *)

\* Two frames one behind the other on the way to the writer at P.
LEMMA Behind ==
    ASSUME NEW P \in Offset, NEW a \in Offset, NEW l \in 0..BufSize, NEW b \in Offset, NEW m \in 0..BufSize,
           l <= BufferLen(a, P), m <= BufferLen(b, P), BufferLen(b, P) <= BufferLen(a, P) - l
    PROVE  Region(b, m) \cap Region(a, l) = {}
<1>1. SUFFICES ASSUME NEW x \in Region(b, m), x \in Region(a, l) PROVE FALSE
  OBVIOUS
<1>2. x \in Offset /\ BufferLen(a, x) < l /\ BufferLen(b, x) < m
  BY <1>1, RegionIs
<1>3. /\ BufferLen(a, P) = IF a <= P THEN P - a ELSE BufSize + P - a
      /\ BufferLen(b, P) = IF b <= P THEN P - b ELSE BufSize + P - b
      /\ BufferLen(a, x) = IF a <= x THEN x - a ELSE BufSize + x - a
      /\ BufferLen(b, x) = IF b <= x THEN x - b ELSE BufSize + x - b
  BY <1>2, BufferLenIs
<1>4. a \in Nat /\ b \in Nat /\ x \in Nat /\ P \in Nat /\ l \in Nat /\ m \in Nat /\ BufSize \in Nat
      /\ a < BufSize /\ b < BufSize /\ x < BufSize /\ P < BufSize
  BY <1>2, Sized DEF Offset
<1> QED BY <1>2, <1>3, <1>4

\* What MoveAllBlockers does to a reader that has a frame to read.
LEMMA SafeMovedOn ==
    ASSUME productor.index \in Idx, productor.offset \in Offset, Frames(frameIdx, intact),
           NEW c \in ConsumerType, c.index # productor.index, NEW h \in HeldType,
           NEW w, w.pc = "retry", NEW hs, NEW r,
           Safe(frameIdx, productor, intact, w, hs, r, c, h), NEW d, d = MovedOn(c),
           NEW gs, HoldOK(frameIdx, productor.index, gs, r, d, h)
    PROVE  Safe(frameIdx, productor, intact, w, gs, r, d, h)
<1> DEFINE p == productor.index
           P == productor.offset
<1>1. c.index \in Idx /\ c.offset \in Offset /\ frameIdx \in [Idx -> Frame]
  BY ConsumerIs DEF Frames
<1>2. /\ d.index \in IndexRange(c.index, p) /\ d.index # p /\ d.index \in Idx
      /\ d.state = (IF c.state = "HOLDING" THEN "BLOCKED" ELSE c.state)
  BY <1>1, MovedOnIs
<1>3. /\ Good(frameIdx, p, P, intact, c.index, c.offset) /\ HoldOK(frameIdx, p, hs, r, c, h)
      /\ AwayAt(frameIdx, productor, w, c, h)
  BY DEF Safe
<1>4. Good(frameIdx, p, P, intact, d.index, d.offset)
  BY <1>3, MovedGood
<1>5. AwayAt(frameIdx, productor, w, d, h)
  <2>1. SUFFICES ASSUME h # NoFrame, d.state = "BLOCKED", NEW j \in IndexRange(d.index, p)
                 PROVE  \/ frameIdx[j].offset = h.offset
                        \/ Region(frameIdx[j].offset, frameIdx[j].length)
                               \cap Region(h.offset, h.length) = {}
    BY <1>2 DEF AwayAt
  <2>2. j \in IndexRange(c.index, p)
    BY <1>1, <1>2, <2>1, RangeLater
  <2>3. CASE c.state = "BLOCKED"
    BY <1>3, <2>1, <2>2, <2>3 DEF AwayAt
  <2>4. CASE c.state = "HOLDING"
    <3> DEFINE i == c.index
    <3>1. /\ frameIdx[i].offset = h.offset /\ frameIdx[i].length = h.length
      BY <1>3, <2>1, <2>4 DEF HoldOK
    <3>2. CASE j = i
      BY <3>1, <3>2
    <3>3. CASE j # i
      <4>1. i \in IndexRange(i, p) /\ j \in IndexRange(AdvanceIndex(i, 1), p)
        BY <1>1, <2>2, <3>3, RangeLater, RangeSelf
      <4>2. /\ frameIdx[i].length <= BufferLen(frameIdx[i].offset, P)
            /\ frameIdx[j].length <= BufferLen(frameIdx[j].offset, P)
            /\ BufferLen(frameIdx[j].offset, P) <= BufferLen(frameIdx[i].offset, P) - frameIdx[i].length
        BY <1>3, <2>2, <4>1 DEF Good, Line
      <4>3. /\ frameIdx[i].offset \in Offset /\ frameIdx[i].length \in 0..BufSize
            /\ frameIdx[j].offset \in Offset /\ frameIdx[j].length \in 0..BufSize
        <5>1. i \in Idx /\ j \in Idx
          BY <1>1, <2>2, RangeLater
        <5> HIDE DEF i
        <5> QED BY <1>1, <5>1, FrameIs
      <4> HIDE DEF i
      <4>4. Region(frameIdx[j].offset, frameIdx[j].length)
                \cap Region(frameIdx[i].offset, frameIdx[i].length) = {}
        BY <4>2, <4>3, Behind
      <4> QED BY <3>1, <4>4
    <3> QED BY <3>2, <3>3
  <2> QED BY <1>2, <1>3, <2>1, <2>3, <2>4 DEF HoldOK
<1> QED BY <1>4, <1>5 DEF Safe

\* One round of MoveAllBlockers, for the readers of the slots S.
LEMMA SafeRound ==
    ASSUME productor.index \in Idx, productor.offset \in Offset, Frames(frameIdx, intact),
           NEW cs \in [Slot -> ConsumerType], UniqueNames(cs), NEW S, S \subseteq Valid(cs),
           NEW hs, hs \subseteq HoleType, IsFiniteSet(hs), NEW w, w.pc = "retry",
           NEW r \in Readers, NEW s \in Slot, cs[s].name = r, NEW h \in HeldType,
           Safe(frameIdx, productor, intact, w, hs, r, cs[s], h),
           s \in S => cs[s].index # productor.index
    PROVE  Safe(frameIdx, productor, intact, w, HolesAfter(cs, S, hs), r, MoveBlockers(cs, S)[s], h)
<1> DEFINE c == cs[s]
           d == MoveBlockers(cs, S)[s]
           gs == HolesAfter(cs, S, hs)
<1> SUFFICES Safe(frameIdx, productor, intact, w, gs, r, d, h)
  OBVIOUS
<1>1. /\ c \in ConsumerType /\ frameIdx \in [Idx -> Frame]
      /\ d = IF s \in S THEN MovedOn(c) ELSE c
  BY MoveBlockersIs DEF Frames
<1>2. HoldOK(frameIdx, productor.index, hs, r, c, h)
  BY DEF Safe
<1>3. HoldOK(frameIdx, productor.index, gs, r, d, h)
  <2>1. s \in S => /\ d.state = (IF c.state = "HOLDING" THEN "BLOCKED" ELSE c.state)
                   /\ c.state # "FREE" => d.moved = TRUE
    BY <1>1, MovedOnIs
  <2>2. s \notin S => d = cs[s]
    BY <1>1
  <2> HIDE DEF d
  <2> QED BY <1>1, <1>2, <2>1, <2>2, MovedHold
<1>4. CASE s \notin S
  <2>1. d = c
    BY <1>1, <1>4
  <2>2. Safe(frameIdx, productor, intact, w, hs, r, c, h)
    OBVIOUS
  <2> HIDE DEF d, gs, c
  <2> QED BY <1>3, <2>1, <2>2 DEF Safe
<1>5. CASE s \in S
  <2>1. d = MovedOn(c) /\ c.index # productor.index
    BY <1>1, <1>5
  <2>2. Safe(frameIdx, productor, intact, w, hs, r, c, h)
    OBVIOUS
  <2> HIDE DEF d, gs, c
  <2> QED BY <1>1, <1>3, <2>1, <2>2, SafeMovedOn
<1> QED BY <1>4, <1>5


\* The readers after MoveAllBlockers, for any consumers cs.
LEMMA RoundTypes ==
    ASSUME productor.index \in Idx, frameIdx \in [Idx -> Frame],
           NEW cs \in [Slot -> ConsumerType], UniqueNames(cs), NEW S, S \subseteq Valid(cs),
           NEW hs, hs \subseteq HoleType, IsFiniteSet(hs)
    PROVE  /\ MoveBlockers(cs, S) \in [Slot -> ConsumerType] /\ UniqueNames(MoveBlockers(cs, S))
           /\ \A s \in Slot : /\ MoveBlockers(cs, S)[s].name = cs[s].name
                              /\ s \notin S => MoveBlockers(cs, S)[s] = cs[s]
                              /\ s \in S => /\ MoveBlockers(cs, S)[s].index # productor.index
                                            /\ cs[s].index = AdvanceIndex(productor.index, 1) =>
                                                   MoveBlockers(cs, S)[s].index # AdvanceIndex(productor.index, 1)
           /\ HolesAfter(cs, S, hs) \subseteq HoleType /\ IsFiniteSet(HolesAfter(cs, S, hs))
<1> DEFINE ds == MoveBlockers(cs, S)
<1>1. ds \in [Slot -> ConsumerType] /\ ds = [s \in Slot |-> IF s \in S THEN MovedOn(cs[s]) ELSE cs[s]]
  BY MoveBlockersIs
<1>2. \A c \in ConsumerType : LET d == MovedOn(c) IN
          /\ d.name = c.name /\ d.index # productor.index
          /\ c.index = AdvanceIndex(productor.index, 1) => d.index # AdvanceIndex(productor.index, 1)
  BY MovedOnIs
<1> HIDE DEF ds
<1>3. \A s \in Slot : /\ ds[s].name = cs[s].name
                      /\ s \notin S => ds[s] = cs[s]
                      /\ s \in S => /\ ds[s].index # productor.index
                                    /\ cs[s].index = AdvanceIndex(productor.index, 1) =>
                                           ds[s].index # AdvanceIndex(productor.index, 1)
  BY <1>1, <1>2
<1>4. UniqueNames(ds)
  <2>1. SUFFICES ASSUME NEW s \in Slot, NEW t \in Slot, ds[s].name = ds[t].name, ds[s].name # None
                 PROVE  s = t
    BY DEF UniqueNames
  <2>2. ds[s].name = cs[s].name /\ ds[t].name = cs[t].name
    BY <1>3
  <2> QED BY <2>1, <2>2 DEF UniqueNames
<1>5. HolesAfter(cs, S, hs) \subseteq HoleType /\ IsFiniteSet(HolesAfter(cs, S, hs))
  BY HolesAfterIs
<1>6. ds \in [Slot -> ConsumerType]
  BY <1>1
<1> QED BY <1>3, <1>4, <1>5, <1>6 DEF ds

\* The readers and holes when RequestWriteFrame has moved those at the next
\* index slot and forgotten the holes that are overdue.
Kept == holes \ {h \in holes : h.aged}
FirstMoved == IF writer.mode = "BLOCK" THEN consumers ELSE MoveBlockers(consumers, IndexBlockers(consumers))
FirstHoles == IF writer.mode = "BLOCK" THEN Kept ELSE HolesAfter(consumers, IndexBlockers(consumers), Kept)

LEMMA FirstTypes ==
    ASSUME Memory
    PROVE  /\ FirstMoved \in [Slot -> ConsumerType] /\ UniqueNames(FirstMoved)
           /\ FirstHoles \subseteq HoleType /\ IsFiniteSet(FirstHoles)
           /\ \A s \in Slot : /\ FirstMoved[s].name = consumers[s].name
                              /\ FirstMoved[s].index = productor.index => FirstMoved[s] = consumers[s]
           /\ writer.mode # "BLOCK" \/ IndexBlockers(consumers) = {} =>
                  \A s \in Valid(FirstMoved) : FirstMoved[s].index # AdvanceIndex(productor.index, 1)
<1>1. /\ productor.index \in Idx /\ frameIdx \in [Idx -> Frame] /\ consumers \in [Slot -> ConsumerType]
      /\ UniqueNames(consumers) /\ IndexBlockers(consumers) \subseteq Valid(consumers)
      /\ Kept \subseteq HoleType /\ IsFiniteSet(Kept)
  <2>1. IsFiniteSet(Kept)
    BY FS_Subset DEF Memory, Kept
  <2> QED BY <2>1, ProductorIs DEF Memory, Frames, IndexBlockers, Kept
<1> DEFINE S == IndexBlockers(consumers)
           ds == MoveBlockers(consumers, S)
           gs == HolesAfter(consumers, S, Kept)
<1>2. /\ ds \in [Slot -> ConsumerType] /\ UniqueNames(ds)
      /\ \A s \in Slot : /\ ds[s].name = consumers[s].name
                         /\ s \notin S => ds[s] = consumers[s]
                         /\ s \in S => /\ ds[s].index # productor.index
                                       /\ consumers[s].index = AdvanceIndex(productor.index, 1) =>
                                              ds[s].index # AdvanceIndex(productor.index, 1)
      /\ gs \subseteq HoleType /\ IsFiniteSet(gs)
  BY <1>1, RoundTypes
<1>3. S = {s \in Valid(consumers) : consumers[s].index = AdvanceIndex(productor.index, 1)}
  BY DEF IndexBlockers
<1>4. FirstMoved = (IF writer.mode = "BLOCK" THEN consumers ELSE ds)
      /\ FirstHoles = (IF writer.mode = "BLOCK" THEN Kept ELSE gs)
  BY DEF FirstMoved, FirstHoles
<1> HIDE DEF S, ds, gs
<1>5. /\ FirstMoved \in [Slot -> ConsumerType] /\ UniqueNames(FirstMoved)
      /\ FirstHoles \subseteq HoleType /\ IsFiniteSet(FirstHoles)
  BY <1>1, <1>2, <1>4
<1>6. ASSUME NEW s \in Slot
      PROVE  /\ FirstMoved[s].name = consumers[s].name
             /\ FirstMoved[s].index = productor.index => FirstMoved[s] = consumers[s]
  BY <1>2, <1>4
<1>7. ASSUME writer.mode # "BLOCK" \/ S = {}, NEW s \in Valid(FirstMoved)
      PROVE  FirstMoved[s].index # AdvanceIndex(productor.index, 1)
  <2>1. s \in Slot /\ s \in Valid(consumers)
    BY <1>6, <1>7 DEF Valid
  <2>2. CASE writer.mode = "BLOCK"
    BY <1>3, <1>4, <1>7, <2>1, <2>2
  <2>3. CASE writer.mode # "BLOCK"
    BY <1>2, <1>3, <1>4, <1>7, <2>1, <2>3
  <2> QED BY <2>2, <2>3
<1> QED BY <1>5, <1>6, <1>7 DEF S

LEMMA FirstSafe ==
    ASSUME IInv, writer.pc = "retry", NEW r \in trusted \ Overdue
    PROVE  /\ slot[r] \in Slot /\ FirstMoved[slot[r]].name = r
           /\ Safe(frameIdx, productor, intact, writer, FirstHoles, r, FirstMoved[slot[r]], held[r])
<1> DEFINE s == slot[r]
<1>1. /\ s \in Slot /\ consumers[s].name = r /\ r \in Readers
      /\ Safe(frameIdx, productor, intact, writer, holes, r, consumers[s], held[r])
  BY DEF IInv, ReadersSafe, Memory
<1>2. /\ productor.index \in Idx /\ productor.offset \in Offset /\ Frames(frameIdx, intact)
      /\ frameIdx \in [Idx -> Frame] /\ consumers \in [Slot -> ConsumerType]
      /\ UniqueNames(consumers) /\ IndexBlockers(consumers) \subseteq Valid(consumers)
      /\ Kept \subseteq HoleType /\ IsFiniteSet(Kept) /\ held[r] \in HeldType
  <2>1. IsFiniteSet(Kept)
    BY FS_Subset DEF IInv, Memory, Kept
  <2> QED BY <1>1, <2>1, ProductorIs DEF IInv, Memory, Frames, IndexBlockers, Kept, ReaderOK
<1>3. \A g \in holes : g.owner = r => g \in Kept
  BY DEF Overdue, Kept
<1>4. Safe(frameIdx, productor, intact, writer, Kept, r, consumers[s], held[r])
  <2>1. (\A g \in holes : g.owner # r) => (\A g \in Kept : g.owner # r)
    BY DEF Kept
  <2>2. \A g \in holes : g.owner = r =>
            \E g2 \in Kept : g2.owner = r /\ g2.start = g.start /\ g2.end = g.end
    BY <1>3
  <2> DEFINE c == consumers[s]
             h == held[r]
  <2>3. Safe(frameIdx, productor, intact, writer, holes, r, c, h)
    BY <1>1
  <2> HIDE DEF c, h
  <2>4. \A hs2 : ((\A g \in holes : g.owner # r) => (\A g \in hs2 : g.owner # r))
                 /\ (\A g \in holes : g.owner = r =>
                       \E g2 \in hs2 : g2.owner = r /\ g2.start = g.start /\ g2.end = g.end)
                 => Safe(frameIdx, productor, intact, writer, hs2, r, c, h)
    BY <2>3, SafeSame
  <2>5. Safe(frameIdx, productor, intact, writer, Kept, r, c, h)
    BY <2>1, <2>2, <2>4
  <2> QED BY <2>5 DEF c, h
<1>5. CASE writer.mode = "BLOCK"
  BY <1>1, <1>4, <1>5 DEF FirstMoved, FirstHoles
<1>6. CASE writer.mode # "BLOCK"
  <2> DEFINE S == IndexBlockers(consumers)
  <2>1. s \in S => consumers[s].index # productor.index
    BY <1>2, RangeEmpty DEF IndexBlockers
  <2>2. Safe(frameIdx, productor, intact, writer, HolesAfter(consumers, S, Kept), r,
             MoveBlockers(consumers, S)[s], held[r])
    <3> DEFINE h == held[r]
    <3>1. h \in HeldType /\ Safe(frameIdx, productor, intact, writer, Kept, r, consumers[s], h)
      BY <1>2, <1>4
    <3>2. S \subseteq Valid(consumers) /\ s \in Slot /\ consumers[s].name = r
      BY <1>1, <1>2
    <3> HIDE DEF h, S, s
    <3>3. Safe(frameIdx, productor, intact, writer, HolesAfter(consumers, S, Kept), r,
             MoveBlockers(consumers, S)[s], h)
      BY <1>1, <1>2, <2>1, <3>1, <3>2, SafeRound
    <3> QED BY <3>3 DEF h
  <2>3. MoveBlockers(consumers, S)[s].name = r
    BY <1>1, <1>2, RoundTypes
  <2> QED BY <1>1, <1>6, <2>2, <2>3 DEF FirstMoved, FirstHoles
<1> QED BY <1>5, <1>6


\* The writer tries again, or gives up.
LEMMA GuardIs ==
    ASSUME NEW w \in WriterType, w.pc = "retry", w.size > 0,
           NEW w2, w2 = IdleWriter \/ w2 = [w EXCEPT !.guard = @ + 1]
    PROVE  /\ w2 \in WriterType /\ w2.pc \in {"idle", "retry"}
           /\ w2.pc = "retry" => w2.size > 0
<1>1. CASE w2 = IdleWriter
  BY <1>1, IdleIs
<1>2. CASE w2 = [w EXCEPT !.guard = @ + 1]
  <2> DEFINE n == w.guard + 1
             e == [w EXCEPT !.guard = n]
  <2>1. n \in Nat /\ w2 = e
    BY <1>2, WriterIs
  <2> HIDE DEF n
  <2>2. e \in WriterType /\ e.pc = w.pc /\ e.size = w.size
    BY <2>1 DEF WriterType
  <2> HIDE DEF e
  <2> QED BY <2>1, <2>2
<1> QED BY <1>1, <1>2

LEMMA InvTryFails ==
    ASSUME IInv, writer.pc = "retry", NEW blockers, blockers \subseteq Valid(FirstMoved),
           TryFails(FirstMoved, FirstHoles, blockers),
           trusted' \subseteq trusted \ (Overdue \cup MovedPastEnd),
           UNCHANGED <<frameIdx, version, slot, held>>
    PROVE  IInv'
<1> DEFINE ds == MoveBlockers(FirstMoved, blockers)
           gs == HolesAfter(FirstMoved, blockers, FirstHoles)
<1>1. /\ Memory /\ productor \in ProductorType /\ productor.index \in Idx /\ productor.offset \in Offset
      /\ Frames(frameIdx, intact) /\ frameIdx \in [Idx -> Frame] /\ writer \in WriterType /\ writer.size > 0
      /\ intact \subseteq Idx /\ trusted \subseteq Readers
  BY ProductorIs DEF IInv, Memory, Frames, WriterOK
<1>2. /\ FirstMoved \in [Slot -> ConsumerType] /\ UniqueNames(FirstMoved)
      /\ FirstHoles \subseteq HoleType /\ IsFiniteSet(FirstHoles)
      /\ \A s \in Slot : FirstMoved[s].index = productor.index => FirstMoved[s] = consumers[s]
  BY <1>1, FirstTypes
<1>3. /\ ds \in [Slot -> ConsumerType] /\ UniqueNames(ds)
      /\ \A s \in Slot : /\ ds[s].name = FirstMoved[s].name
                         /\ s \in blockers => ds[s].index # productor.index
      /\ gs \subseteq HoleType /\ IsFiniteSet(gs)
  <2>1. \A cs \in [Slot -> ConsumerType] : \A S, hs :
           UniqueNames(cs) /\ S \subseteq Valid(cs) /\ hs \subseteq HoleType /\ IsFiniteSet(hs) =>
           /\ MoveBlockers(cs, S) \in [Slot -> ConsumerType] /\ UniqueNames(MoveBlockers(cs, S))
           /\ \A s \in Slot : /\ MoveBlockers(cs, S)[s].name = cs[s].name
                              /\ s \in S => MoveBlockers(cs, S)[s].index # productor.index
           /\ HolesAfter(cs, S, hs) \subseteq HoleType /\ IsFiniteSet(HolesAfter(cs, S, hs))
    BY <1>1, RoundTypes
  <2> QED BY <1>2, <2>1
<1>4. /\ writer.mode = "BLOCK" => consumers' = FirstMoved /\ holes' = FirstHoles
      /\ writer.mode # "BLOCK" => consumers' = ds /\ holes' = gs
      /\ writer' = IdleWriter \/ writer' = [writer EXCEPT !.guard = @ + 1]
      /\ UNCHANGED <<productor, intact>>
  BY DEF TryFails
<1>5. /\ writer' \in WriterType /\ writer'.pc \in {"idle", "retry"}
      /\ writer'.pc = "retry" => writer'.size > 0
  BY <1>1, <1>4, GuardIs
<1>6. /\ consumers' \in [Slot -> ConsumerType] /\ UniqueNames(consumers')
      /\ holes' \subseteq HoleType /\ IsFiniteSet(holes')
  <2> HIDE DEF ds, gs
  <2> QED BY <1>2, <1>3, <1>4
<1>7. Memory'
  <2>1. UNCHANGED <<productor, frameIdx, intact>> /\ trusted' \subseteq Readers
    BY <1>1, <1>4
  <2> QED BY <1>1, <1>6, <2>1 DEF Memory
<1>8. WriterOK'
  BY <1>4, <1>5 DEF IInv, WriterOK
<1>9. ReaderOK'
  BY DEF IInv, ReaderOK
<1>10. ReadersSafe'
  <2>1. SUFFICES ASSUME NEW r \in trusted'
                 PROVE  /\ slot[r] \in Slot /\ consumers'[slot[r]].name = r
                        /\ Safe(frameIdx, productor, intact, writer', holes', r, consumers'[slot[r]], held[r])
    BY <1>4 DEF ReadersSafe
  <2> DEFINE s == slot[r]
             c == FirstMoved[s]
             d == consumers'[s]
             h == held[r]
             w2 == writer'
             hs == holes'
  <2>2. /\ s \in Slot /\ c.name = r /\ r \in Readers /\ h \in HeldType
        /\ Safe(frameIdx, productor, intact, writer, FirstHoles, r, c, h)
    <3>1. r \in trusted \ Overdue /\ r \in Readers
      BY <1>1
    <3> QED BY <3>1, FirstSafe DEF IInv, ReaderOK
  <2>3. d.name = r /\ Safe(frameIdx, productor, intact, writer, hs, r, d, h)
    <3>1. CASE writer.mode = "BLOCK"
      BY <1>4, <2>2, <3>1
    <3>2. CASE writer.mode # "BLOCK"
      <4>1. d = ds[s] /\ hs = gs
        BY <1>4, <3>2
      <4>2. s \in blockers => c.index # productor.index
        <5>1. SUFFICES ASSUME s \in blockers, c.index = productor.index PROVE FALSE
          OBVIOUS
        <5>2. consumers[s].index = productor.index
          BY <1>2, <2>2, <5>1
        <5>3. d.index # productor.index
          BY <1>3, <2>2, <4>1, <5>1
        <5>4. r \in MovedPastEnd
          BY <2>2, <5>2, <5>3 DEF MovedPastEnd
        <5> QED BY <5>4
      <4>3. Safe(frameIdx, productor, intact, writer, gs, r, ds[s], h)
        <5> HIDE DEF s, h, d, hs
        <5>1. s \in Slot /\ FirstMoved[s].name = r /\ h \in HeldType /\ r \in Readers
              /\ Safe(frameIdx, productor, intact, writer, FirstHoles, r, FirstMoved[s], h)
              /\ (s \in blockers => FirstMoved[s].index # productor.index)
          BY <2>2, <4>2
        <5> HIDE DEF c
        <5> QED BY <1>1, <1>2, <5>1, SafeRound
      <4> QED BY <1>3, <2>2, <4>1, <4>3
    <3> QED BY <3>1, <3>2
  <2>4. w2.pc \in {"idle", "retry"}
    BY <1>5
  <2>5. writer.pc \in {"install", "idle", "retry"}
    OBVIOUS
  <2> HIDE DEF d, h, w2, hs, s
  <2>6. Safe(frameIdx, productor, intact, w2, hs, r, d, h)
    BY <2>3, <2>4, <2>5 DEF Safe, AwayAt
  <2> QED BY <2>2, <2>3, <2>6 DEF s, d, w2, hs, h
<1> QED BY <1>7, <1>8, <1>9, <1>10 DEF IInv


-----------------------------------------------------------------------------
(* The writer asks for room: the bytes it is granted *)

\* Bytes of which, on the way from P, the ones end before the others begin.
LEMMA Arcs ==
    ASSUME NEW P \in Offset, NEW a \in Offset, NEW l \in 0..BufSize, NEW at \in Offset,
           NEW x \in Nat, NEW y \in Nat, BufferLen(P, a) + l <= BufSize,
           BufferLen(P, at) + x + y < BufSize,
           BufferLen(P, a) + l <= BufferLen(P, at) \/ BufferLen(P, at) + x + y <= BufferLen(P, a)
    PROVE  Region(a, l) \cap Region(AdvanceOffset(at, x), y) = {}
<1> DEFINE s == AdvanceOffset(at, x)
<1>1. BufferLen(P, at) \in Nat /\ x \in 0..BufSize /\ y \in 0..BufSize
  <2> DEFINE d == BufferLen(P, at)
  <2>1. d \in Offset /\ d + x + y < BufSize
    BY BufferLenIs
  <2> HIDE DEF d
  <2>2. d \in Nat /\ BufSize \in Nat
    BY <2>1, Sized
  <2>3. x \in 0..BufSize /\ y \in 0..BufSize
    BY <2>1, <2>2
  <2> QED BY <2>2, <2>3 DEF d
<1>2. s \in Offset /\ s = IF at + x < BufSize THEN at + x ELSE at + x - BufSize
  BY <1>1, AdvanceOffsetIs
<1> HIDE DEF s
<1> SUFFICES ASSUME NEW z \in Region(a, l), z \in Region(s, y) PROVE FALSE
  BY DEF s
<1>3. z \in Offset /\ BufferLen(a, z) < l /\ BufferLen(s, z) < y
  BY <1>1, <1>2, RegionIs
<1>4. /\ BufferLen(P, a) = IF P <= a THEN a - P ELSE BufSize + a - P
      /\ BufferLen(P, at) = IF P <= at THEN at - P ELSE BufSize + at - P
      /\ BufferLen(a, z) = IF a <= z THEN z - a ELSE BufSize + z - a
      /\ BufferLen(s, z) = IF s <= z THEN z - s ELSE BufSize + z - s
  BY <1>2, <1>3, BufferLenIs
<1>5. /\ P \in Nat /\ a \in Nat /\ at \in Nat /\ z \in Nat /\ s \in Nat /\ l \in Nat /\ BufSize \in Nat
      /\ P < BufSize /\ a < BufSize /\ at < BufSize /\ z < BufSize /\ s < BufSize
  BY <1>2, <1>3, Sized DEF Offset
<1>6. CASE BufferLen(P, a) + l <= BufferLen(P, at)
  BY <1>2, <1>3, <1>4, <1>5, <1>6
<1>7. CASE BufferLen(P, at) + x + y <= BufferLen(P, a)
  BY <1>2, <1>3, <1>4, <1>5, <1>7
<1> QED BY <1>6, <1>7

\* A frame that ends where the writer stands, and one not read yet: the latter
\* begins at least as far behind.
LEMMA EndsHere ==
    ASSUME NEW P \in Offset, NEW a \in Offset, NEW l \in 1..(BufSize - 1), P = AdvanceOffset(a, l),
           NEW b \in Offset, b # P, NEW m \in 1..(BufSize - 1),
           b = a \/ Region(b, m) \cap Region(a, l) = {}
    PROVE  BufferLen(P, a) = BufSize - l /\ BufferLen(b, P) >= l
<1>1. l \in 0..BufSize /\ m \in 0..BufSize /\ l \in Nat /\ m \in Nat /\ l > 0 /\ m > 0 /\ l < BufSize
  BY Sized
<1>2. P = IF a + l < BufSize THEN a + l ELSE a + l - BufSize
  BY <1>1, AdvanceOffsetIs
<1>3. /\ BufferLen(P, a) = IF P <= a THEN a - P ELSE BufSize + a - P
      /\ BufferLen(b, P) = IF b <= P THEN P - b ELSE BufSize + P - b
      /\ BufferLen(a, b) = IF a <= b THEN b - a ELSE BufSize + b - a
  BY BufferLenIs
<1>4. BufferLen(b, b) = 0
  BY BufferLenIs, Sized
<1>5. b \in Region(b, m)
  BY <1>1, <1>4, RegionIs
<1>6. b = a \/ ~(BufferLen(a, b) < l)
  <2>1. SUFFICES ASSUME b # a, BufferLen(a, b) < l PROVE FALSE
    OBVIOUS
  <2>2. b \in Region(a, l)
    BY <1>1, <2>1, RegionIs
  <2> QED BY <1>5, <2>1, <2>2
<1>7. a \in Nat /\ b \in Nat /\ P \in Nat /\ BufSize \in Nat /\ a < BufSize /\ b < BufSize /\ P < BufSize
  BY Sized DEF Offset
<1> QED BY <1>1, <1>2, <1>3, <1>6, <1>7

\* The writer is granted bytes that no reader waits for and that are in no hole.
LEMMA SafeGranted ==
    ASSUME productor \in ProductorType, Frames(frameIdx, intact), writer.pc = "retry",
           NEW hs, hs \subseteq HoleType, NEW r, NEW c \in ConsumerType, NEW h \in HeldType,
           Safe(frameIdx, productor, intact, writer, hs, r, c, h),
           c.index # AdvanceIndex(productor.index, 1),
           NEW at \in Offset, NEW x \in Nat, NEW y \in Nat \ {0}, NEW n \in Nat, x + y <= n,
           BufferLen(productor.offset, at) + n < BufSize,
           BufferLen(productor.offset, at) + n < WritableSize(c.offset, productor.offset),
           \A g \in hs : ~Inside(productor.offset, g),
           \A g \in hs : g.end # productor.offset =>
               \/ MetAt(productor.offset, g) + Size(g) <= BufferLen(productor.offset, at)
               \/ BufferLen(productor.offset, at) + n <= MetAt(productor.offset, g),
           productor'.index = productor.index, productor'.offset = at,
           writer'.pc = "write", writer'.align = x, writer'.size = y,
           intact' = {j \in intact : Region(frameIdx[j].offset, frameIdx[j].length)
                                         \cap Region(AdvanceOffset(at, x), y) = {}}
    PROVE  Safe(frameIdx, productor', intact', writer', hs, r, c, h)
<1> DEFINE p == productor.index
           P == productor.offset
           d == BufferLen(P, at)
           i == c.index
           o == c.offset
<1>1. /\ p \in Idx /\ P \in Offset /\ i \in Idx /\ o \in Offset /\ frameIdx \in [Idx -> Frame]
      /\ d \in Nat
  BY ProductorIs, ConsumerIs, BufferLenIs, Sized DEF Frames
<1>2. /\ Good(frameIdx, p, P, intact, i, o) /\ HoldOK(frameIdx, p, hs, r, c, h)
      /\ AwayAt(frameIdx, productor, writer, c, h)
  BY DEF Safe
<1>3. Good(frameIdx, p, at, intact', i, o) /\ RoomFor(p, at, x + y, i, o)
  <2> DEFINE T == intact'
             f == frameIdx
             S == intact
  <2>1. BufferLen(P, at) + x + y < WritableSize(o, P)
    <3>1. WritableSize(o, P) = BufSize - BufferLen(o, P) /\ BufferLen(o, P) \in Nat /\ BufSize \in Nat
      BY <1>1, WritableIs, Sized
    <3>2. d + n < BufSize - BufferLen(o, P)
      BY <3>1
    <3> HIDE DEF P, o, d
    <3>3. d + x + y < BufSize - BufferLen(o, P)
      BY <1>1, <3>1, <3>2
    <3> QED BY <3>1, <3>3 DEF d
  <2>2. /\ Spared(f, S, AdvanceOffset(at, x), y, T)
        /\ i # AdvanceIndex(p, 1) /\ Frames(f, S) /\ Good(f, p, P, S, i, o)
    BY <1>2 DEF Spared
  <2> HIDE DEF p, P, i, o, T, f, S
  <2>3. Good(f, p, at, T, i, o) /\ RoomFor(p, at, x + y, i, o)
    BY <1>1, <2>1, <2>2, GoodTry
  <2> QED BY <2>3 DEF T, f
<1>4. ASSUME h # NoFrame, c.state = "BLOCKED"
      PROVE  Region(h.offset, h.length) \cap Region(AdvanceOffset(at, x), y) = {}
  <2> DEFINE a == h.offset
             l == h.length
  <2>1. a \in Offset /\ l \in 1..(BufSize - 1) /\ l \in 0..BufSize /\ l \in Nat
    BY <1>2, <1>4, Sized DEF HoldOK, HeldType
  <2>2. PICK g \in hs : g.owner = r /\ g.start = a /\ g.end = AdvanceOffset(a, l)
    BY <1>2, <1>4 DEF HoldOK
  <2>3. g \in HoleType /\ ~Inside(P, g)
    BY <2>2
  <2>4. /\ MetAt(P, g) \in Nat /\ MetAt(P, g) = BufferLen(P, a)
        /\ MetAt(P, g) + Size(g) <= BufSize /\ Size(g) = BufferLen(a, AdvanceOffset(a, l))
    BY <1>1, <2>2, <2>3, ReachIs DEF MetAt, Size
  <2>5. Size(g) = l
    <3>1. AdvanceOffset(a, l) = (IF a + l < BufSize THEN a + l ELSE a + l - BufSize)
          /\ AdvanceOffset(a, l) \in Offset
      BY <2>1, AdvanceOffsetIs
    <3> DEFINE e == AdvanceOffset(a, l)
    <3> HIDE DEF e, a, l
    <3>2. BufferLen(a, e) = IF a <= e THEN e - a ELSE BufSize + e - a
      BY <2>1, <3>1, BufferLenIs DEF e
    <3>3. a \in Nat /\ a < BufSize /\ BufSize \in Nat
      BY <2>1, Sized DEF Offset
    <3> QED BY <2>1, <2>4, <3>1, <3>2, <3>3 DEF e
  <2>6. BufferLen(P, a) + l <= d \/ d + n <= BufferLen(P, a)
    <3>1. CASE g.end # P
      BY <2>2, <2>4, <2>5, <3>1
    <3>2. CASE g.end = P
      <4>1. i # p
        <5>1. SUFFICES ASSUME i = p PROVE FALSE
          OBVIOUS
        <5>2. P = 0 /\ a + l < BufSize
          BY <1>2, <1>4, <5>1 DEF AwayAt
        <5>3. AdvanceOffset(a, l) = a + l
          BY <2>1, <5>2, AdvanceOffsetIs
        <5>4. a + l = 0
          BY <2>2, <3>2, <5>2, <5>3
        <5> HIDE DEF a, l
        <5>5. a \in Nat /\ l \in Nat /\ l > 0
          BY <2>1, Sized
        <5> QED BY <5>4, <5>5
      <4>2. i \in IndexRange(i, p)
        BY <1>1, <4>1, RangeSelf
      <4> DEFINE b == frameIdx[i].offset
                 m == frameIdx[i].length
      <4>3. /\ b \in Offset /\ b # P /\ m \in 1..(BufSize - 1) /\ BufferLen(b, P) <= BufferLen(o, P)
        <5>1. b \in Offset
          BY <1>1, FrameIs
        <5> HIDE DEF i, o, p, P
        <5> QED BY <1>1, <1>2, <4>2, <5>1, GoodLater
      <4>4. b = a \/ Region(b, m) \cap Region(a, l) = {}
        BY <1>2, <1>4, <4>2 DEF AwayAt
      <4>5. P = AdvanceOffset(a, l)
        BY <2>2, <3>2
      <4>6. BufferLen(P, a) = BufSize - l /\ BufferLen(b, P) >= l
        <5> HIDE DEF a, l, b, m, P
        <5> QED BY <1>1, <2>1, <4>3, <4>4, <4>5, EndsHere
      <4>7. WritableSize(o, P) = BufSize - BufferLen(o, P) /\ BufferLen(o, P) \in Nat /\ BufferLen(b, P) \in Nat
        BY <1>1, <4>3, WritableIs
      <4>8. d + n < BufSize - BufferLen(o, P)
        BY <4>7
      <4> HIDE DEF a, l, b, m, P, d, o
      <4> QED BY <1>1, <2>1, <4>3, <4>6, <4>7, <4>8, Sized
    <3> QED BY <3>1, <3>2
  <2>7. /\ BufferLen(P, a) + l <= BufSize /\ d + x + y < BufSize
        /\ BufferLen(P, a) + l <= d \/ d + x + y <= BufferLen(P, a)
    <3>1. BufferLen(P, a) \in Nat /\ BufSize \in Nat
      BY <2>4, Sized
    <3>2. BufferLen(P, a) + l <= BufSize /\ d + n < BufSize
      BY <2>4, <2>5
    <3> HIDE DEF a, l, d
    <3> QED BY <1>1, <2>1, <2>6, <3>1, <3>2
  <2> HIDE DEF a, l, P
  <2>8. Region(a, l) \cap Region(AdvanceOffset(at, x), y) = {}
    BY <1>1, <2>1, <2>7, Arcs
  <2> QED BY <2>8 DEF a, l
<1>5. AwayAt(frameIdx, productor', writer', c, h)
  BY <1>2, <1>4 DEF AwayAt
<1> QED BY <1>2, <1>3, <1>5 DEF Safe


\* ALIGN_UP goes on by less than the alignment.
LEMMA AlignUpIs ==
    ASSUME NEW at \in Offset
    PROVE  AlignUp(at) \in Nat /\ at <= AlignUp(at) /\ AlignUp(at) < at + AlignBytes /\ AlignBytes <= BufSize
<1> DEFINE A == AlignBytes
           m == at + A - 1
           k == m \div A
<1>1. A \in Nat /\ A > 0 /\ at \in Nat /\ BufSize \in Nat /\ BufSize > 0 /\ BufSize % A = 0
  BY Sized, CRingBufAssumption
<1>2. m \in Nat
  BY <1>1
<1>3. AlignBytes <= BufSize
  <2>1. ASSUME A > BufSize PROVE FALSE
    <3>1. BufSize % A = BufSize
      BY <1>1, <2>1
    <3> QED BY <1>1, <3>1
  <2> QED BY <1>1, <2>1
<1>4. AlignUp(at) = k * A /\ m = at + A - 1
  BY DEF AlignUp
<1> HIDE DEF m, A
<1>5. k \in Nat
  BY <1>1, <1>2
<1>6. m % A \in 0..(A - 1)
  BY <1>1, <1>2
<1>7. m = A * (m \div A) + (m % A)
  BY <1>1, <1>2
<1> DEFINE z == m % A
<1>8. z \in 0..(A - 1) /\ m = A * k + z
  BY <1>6, <1>7
<1> HIDE DEF k, z
<1>9. k * A = A * k /\ A * k \in Nat
  BY <1>1, <1>5
<1> DEFINE n == A * k
<1>10. n \in Nat /\ m = n + z /\ AlignUp(at) = n
  BY <1>4, <1>8, <1>9
<1> HIDE DEF n
<1>11. at <= n /\ n < at + A
  BY <1>1, <1>4, <1>8, <1>10
<1> QED BY <1>3, <1>10, <1>11 DEF A

\* Where the frame begins: at the offset, or at the next aligned one.
LEMMA StartsAt ==
    ASSUME NEW at \in Offset, NEW align \in {0, AlignBytes},
           NEW start, start = IF align = 0 THEN at ELSE AlignUp(at) % BufSize
    PROVE  /\ BufferLen(at, start) \in Nat /\ BufferLen(at, start) \in Offset
           /\ BufferLen(at, start) <= align
           /\ AdvanceOffset(at, BufferLen(at, start)) = start
<1>1. /\ at \in Nat /\ at < BufSize /\ BufSize \in Nat /\ BufSize > 0
      /\ AlignBytes \in Nat /\ AlignBytes > 0 /\ Offset \subseteq Nat
  BY Sized DEF Offset
<1>2. start \in Offset /\ (align = 0 => start = at)
      /\ (align # 0 => align = AlignBytes /\
             \E u \in Nat : at <= u /\ u < at + AlignBytes /\ AlignBytes <= BufSize
                            /\ start = IF u < BufSize THEN u ELSE u - BufSize)
  <2>1. CASE align = 0
    BY <2>1
  <2>2. CASE align # 0
    <3> DEFINE u == AlignUp(at)
    <3>1. u \in Nat /\ at <= u /\ u < at + AlignBytes /\ AlignBytes <= BufSize
      BY AlignUpIs
    <3>2. start = u % BufSize /\ align = AlignBytes
      BY <2>2
    <3> HIDE DEF u
    <3>3. u < 2 * BufSize
      BY <1>1, <3>1
    <3>4. u % BufSize = IF u < BufSize THEN u ELSE u - BufSize
      BY <1>1, <3>1, <3>3, Round
    <3>5. start = IF u < BufSize THEN u ELSE u - BufSize
      BY <3>2, <3>4
    <3>6. start \in Offset
      BY <1>1, <3>1, <3>3, <3>5 DEF Offset
    <3> QED BY <2>2, <3>1, <3>2, <3>5, <3>6
  <2> QED BY <2>1, <2>2
<1> DEFINE x == BufferLen(at, start)
<1>3. x = (IF at <= start THEN start - at ELSE BufSize + start - at) /\ x \in Offset
  BY <1>2, BufferLenIs
<1>4. start \in Nat /\ start < BufSize /\ x \in Nat
  BY <1>1, <1>2, <1>3 DEF Offset
<1> HIDE DEF x
<1>5. x <= align
  <2>1. CASE align = 0
    BY <1>1, <1>2, <1>3, <2>1
  <2>2. CASE align # 0
    <3>1. PICK u \in Nat : at <= u /\ u < at + AlignBytes /\ AlignBytes <= BufSize
                           /\ start = IF u < BufSize THEN u ELSE u - BufSize
      BY <1>2, <2>2
    <3>2. align = AlignBytes
      BY <1>2, <2>2
    <3> QED BY <1>1, <1>3, <1>4, <3>1, <3>2
  <2> QED BY <2>1, <2>2
<1>6. AdvanceOffset(at, x) = start
  <2>1. x \in 0..BufSize
    BY <1>1, <1>3 DEF Offset
  <2>2. AdvanceOffset(at, x) = IF at + x < BufSize THEN at + x ELSE at + x - BufSize
    BY <2>1, AdvanceOffsetIs
  <2> QED BY <1>1, <1>3, <1>4, <2>2
<1> QED BY <1>3, <1>4, <1>5, <1>6 DEF x

\* The writer gets the pointer.
LEMMA InvTrySucceeds ==
    ASSUME IInv, writer.pc = "retry", writer.mode # "BLOCK" \/ IndexBlockers(consumers) = {},
           NEW align \in {0, AlignBytes}, NEW n, n = writer.size + align,
           NEW jump, jump = BlackholeJump(productor.offset, n, FirstHoles),
           BufferLen(productor.offset, jump.at) + n < BufSize,
           \A s \in Valid(FirstMoved) :
               BufferLen(productor.offset, jump.at) + n
                   < WritableSize(FirstMoved[s].offset, productor.offset),
           TrySucceeds(FirstMoved, FirstHoles, jump.at, align),
           trusted' \subseteq trusted \ Overdue,
           trusted' # {} => \A h \in FirstHoles : ~Inside(productor.offset, h)
                                                  /\ (jump.fits \/ jump.at # productor.offset),
           UNCHANGED <<frameIdx, version, slot, held>>
    PROVE  IInv'
<1> DEFINE P == productor.offset
           cs == FirstMoved
           hs == FirstHoles
           at == jump.at
           start == IF align = 0 THEN at ELSE AlignUp(at) % BufSize
           x == BufferLen(at, start)
           y == writer.size
           d == BufferLen(P, at)
<1>1. /\ Memory /\ productor \in ProductorType /\ productor.index \in Idx /\ P \in Offset
      /\ Frames(frameIdx, intact) /\ frameIdx \in [Idx -> Frame] /\ writer \in WriterType
      /\ y \in Nat \ {0} /\ intact \subseteq Idx /\ trusted \subseteq Readers
  BY ProductorIs, WriterIs DEF IInv, Memory, Frames, WriterOK
<1>2. /\ cs \in [Slot -> ConsumerType] /\ UniqueNames(cs) /\ hs \subseteq HoleType /\ IsFiniteSet(hs)
      /\ \A s \in Valid(cs) : cs[s].index # AdvanceIndex(productor.index, 1)
  BY <1>1, FirstTypes
<1>3. at \in Offset /\ jump.fits \in BOOLEAN
  <2>1. at \in Offset
    BY <1>1, <1>2, JumpIs
  <2>2. jump.fits \in BOOLEAN
    BY DEF BlackholeJump
  <2> QED BY <2>1, <2>2
<1>4. /\ consumers' = cs /\ holes' = hs /\ productor' = [productor EXCEPT !.offset = at]
      /\ writer' = [writer EXCEPT !.pc = "write", !.align = x]
      /\ intact' = {i \in intact :
                       Region(frameIdx[i].offset, frameIdx[i].length) \cap Region(start, y) = {}}
  BY DEF TrySucceeds
<1>5. /\ BufferLen(at, start) \in Nat /\ BufferLen(at, start) \in Offset
      /\ BufferLen(at, start) <= align /\ AdvanceOffset(at, BufferLen(at, start)) = start
  <2> HIDE DEF at
  <2> QED BY <1>3, StartsAt
<1>6. productor' \in ProductorType /\ productor'.index = productor.index /\ productor'.offset = at
  <2> HIDE DEF at
  <2> QED BY <1>1, <1>3, <1>4 DEF ProductorType
<1> HIDE DEF start
<1>7. writer' \in WriterType /\ writer'.pc = "write" /\ writer'.align = x /\ writer'.size = y
  <2>1. x \in Offset /\ writer' = [writer EXCEPT !.pc = "write", !.align = x]
    BY <1>4, <1>5
  <2> HIDE DEF x
  <2> DEFINE m == [writer EXCEPT !.pc = "write"]
             e == [m EXCEPT !.align = x]
  <2>2. m \in WriterType /\ m.pc = "write" /\ m.size = writer.size
    BY <1>1 DEF WriterType
  <2>3. writer' = e
    BY <1>1, <2>1 DEF WriterType
  <2> HIDE DEF m
  <2>4. e \in WriterType /\ e.pc = m.pc /\ e.align = x /\ e.size = m.size
    BY <2>1, <2>2 DEF WriterType
  <2> HIDE DEF e
  <2> QED BY <2>2, <2>3, <2>4
<1>8. x \in Nat /\ n \in Nat /\ x + y <= n /\ d \in Nat /\ x + y < BufSize /\ d + n < BufSize
  <2>1. AlignBytes \in Nat /\ BufSize \in Nat
    BY Sized
  <2>2. d \in Nat
    BY <1>1, <1>3, WritableIs
  <2>3. x \in Nat /\ x <= align /\ align \in Nat /\ y \in Nat /\ n = y + align /\ d + n < BufSize
    BY <1>1, <1>5, <2>1
  <2> HIDE DEF x, y, d
  <2> QED BY <2>1, <2>2, <2>3
<1>9. intact' = {i \in intact : Region(frameIdx[i].offset, frameIdx[i].length)
                                    \cap Region(AdvanceOffset(at, x), y) = {}}
  BY <1>4, <1>5
<1>10. Memory'
  <2>1. Frames(frameIdx', intact') /\ intact' \subseteq Idx
    BY <1>1, <1>4 DEF Frames
  <2> HIDE DEF cs, hs, at, x
  <2>2. /\ productor' \in ProductorType /\ consumers' \in [Slot -> ConsumerType]
        /\ holes' \subseteq HoleType /\ IsFiniteSet(holes') /\ trusted' \subseteq Readers
        /\ UniqueNames(consumers')
    BY <1>1, <1>2, <1>4, <1>6
  <2> QED BY <2>1, <2>2 DEF Memory
<1>11. WriterOK'
  <2>1. version /\ version' = version
    BY DEF IInv, WriterOK
  <2> HIDE DEF x, y
  <2> QED BY <1>1, <1>7, <1>8, <2>1 DEF WriterOK
<1>12. ReaderOK'
  BY DEF IInv, ReaderOK
<1>13. ReadersSafe'
  <2>1. SUFFICES ASSUME NEW r \in trusted'
                 PROVE  /\ slot[r] \in Slot /\ consumers'[slot[r]].name = r
                        /\ Safe(frameIdx, productor', intact', writer', holes', r, consumers'[slot[r]], held[r])
    BY DEF ReadersSafe
  <2> DEFINE s == slot[r]
             c == cs[s]
             h == held[r]
  <2>2. /\ s \in Slot /\ c.name = r /\ r \in Readers /\ h \in HeldType /\ r # None
        /\ Safe(frameIdx, productor, intact, writer, hs, r, c, h)
    <3>1. r \in trusted \ Overdue /\ r \in Readers
      BY <1>1
    <3> QED BY <3>1, FirstSafe, CRingBufAssumption DEF IInv, ReaderOK
  <2>3. s \in Valid(cs) /\ c \in ConsumerType
    BY <1>2, <2>2 DEF Valid
  <2>4. c.index # AdvanceIndex(productor.index, 1) /\ d + n < WritableSize(c.offset, P)
    BY <1>2, <2>3
  <2>5. \A g \in hs : ~Inside(P, g) /\ (jump.fits \/ at # P)
    BY <2>1
  <2>6. \A g \in hs : g.end # P => MetAt(P, g) + Size(g) <= d \/ d + n <= MetAt(P, g)
    <3>1. n \in 0..BufSize /\ jump = BlackholeJump(P, n, hs)
      BY <1>8, Sized
    <3> HIDE DEF hs, P
    <3> QED BY <1>1, <1>2, <1>3, <1>8, <2>5, <3>1, JumpClear
  <2>7. Safe(frameIdx, productor', intact', writer', hs, r, c, h)
    <3>1. writer.pc = "retry"
      OBVIOUS
    <3> HIDE DEF hs, c, h, at, x, y, cs, s
    <3> QED BY <1>1, <1>2, <1>3, <1>6, <1>7, <1>8, <1>9, <2>2, <2>3, <2>4, <2>5, <2>6, <3>1, SafeGranted
  <2>8. consumers'[s] = c /\ holes' = hs
    BY <1>4
  <2> HIDE DEF s, c, h, hs
  <2> QED BY <2>2, <2>7, <2>8 DEF s, h
<1> QED BY <1>10, <1>11, <1>12, <1>13 DEF IInv


\* One iteration of RequestWriteFrame.
LEMMA InvTryWrite ==
    ASSUME IInv, TryWrite PROVE IInv'
<1> DEFINE P == productor.offset
           cs == FirstMoved
           hs == FirstHoles
           align == IF writer.type = "I" \/ contiBytes >= MaxContinuousSize THEN AlignBytes ELSE 0
           n == writer.size + align
           jump == BlackholeJump(P, n, hs)
           need == Need(P, jump.at, align)
           TooSmall(m) == {s \in Valid(cs) : WritableSize(cs[s].offset, P) <= m}
           lost == \E h \in hs : Inside(P, h) \/ (~jump.fits /\ jump.at = P)
           waiting == IndexBlockers(consumers)
<1>1. /\ writer.pc = "retry"
      /\ \/ TryFails(cs, hs, {})
         \/ TryFails(cs, hs, TooSmall(writer.size))
         \/ TryFails(cs, hs, TooSmall(need))
         \/ /\ writer.mode = "NON_BLOCK" \/ waiting = {}
            /\ need < BufSize /\ TooSmall(need) = {}
            /\ TrySucceeds(cs, hs, jump.at, align)
      /\ trusted' = (IF lost THEN {} ELSE trusted \ (Overdue \cup MovedPastEnd))
      /\ UNCHANGED <<frameIdx, dataWriten, contiBytes, version, slot, held, bounds>>
  BY DEF TryWrite, FirstMoved, FirstHoles, Kept
<1> HIDE DEF lost
<1>2. trusted' \subseteq trusted \ (Overdue \cup MovedPastEnd) /\ trusted' \subseteq trusted \ Overdue
  BY <1>1
<1>3. /\ {} \subseteq Valid(cs) /\ TooSmall(writer.size) \subseteq Valid(cs)
      /\ TooSmall(need) \subseteq Valid(cs) /\ UNCHANGED <<frameIdx, version, slot, held>>
  BY <1>1
<1>4. ASSUME NEW S, S \subseteq Valid(cs), TryFails(cs, hs, S) PROVE IInv'
  <2>1. UNCHANGED <<frameIdx, version, slot, held>> /\ writer.pc = "retry"
    BY <1>1
  <2> QED BY <1>2, <1>4, <2>1, InvTryFails
<1>5. ASSUME writer.mode = "NON_BLOCK" \/ waiting = {}, need < BufSize, TooSmall(need) = {},
             TrySucceeds(cs, hs, jump.at, align)
      PROVE  IInv'
  <2>1. align \in {0, AlignBytes}
    OBVIOUS
  <2>2. /\ productor.index \in Idx /\ P \in Offset /\ writer \in WriterType /\ writer.size \in Nat
        /\ cs \in [Slot -> ConsumerType] /\ hs \subseteq HoleType /\ IsFiniteSet(hs)
    BY ProductorIs, WriterIs, FirstTypes DEF IInv, Memory, WriterOK
  <2>3. jump.at \in Offset
    BY <2>2, JumpIs
  <2>4. BufferLen(P, jump.at) \in Nat /\ align \in Nat /\ BufSize \in Nat
    BY <2>1, <2>2, <2>3, WritableIs, Sized
  <2>5. n = writer.size + align /\ need = BufferLen(P, jump.at) + n /\ n \in Nat
    BY <2>2, <2>4 DEF Need
  <2>6. BufferLen(P, jump.at) + n < BufSize
    BY <1>5, <2>5
  <2>7. \A s \in Valid(cs) : BufferLen(P, jump.at) + n < WritableSize(cs[s].offset, P)
    <3>1. TAKE s \in Valid(cs)
    <3>2. cs[s] \in ConsumerType
      BY <2>2 DEF Valid
    <3>3. cs[s].offset \in Offset
      BY <3>2, ConsumerIs
    <3>4. WritableSize(cs[s].offset, P) = BufSize - BufferLen(cs[s].offset, P)
          /\ BufferLen(cs[s].offset, P) \in Nat
      BY <2>2, <3>3, WritableIs
    <3>5. ~(WritableSize(cs[s].offset, P) <= need)
      BY <1>5
    <3> HIDE DEF P, cs, n, jump, need, align
    <3> QED BY <2>4, <2>5, <3>4, <3>5
  <2>8. trusted' # {} => \A h \in hs : ~Inside(P, h) /\ (jump.fits \/ jump.at # P)
    BY <1>1 DEF lost
  <2>9. writer.mode # "BLOCK" \/ waiting = {}
    BY <1>5
  <2>10. UNCHANGED <<frameIdx, version, slot, held>> /\ writer.pc = "retry" /\ jump = BlackholeJump(P, n, hs)
         /\ TrySucceeds(cs, hs, jump.at, align)
    BY <1>1, <1>5
  <2> HIDE DEF jump, n, align, need, TooSmall
  <2> QED BY <1>2, <2>1, <2>5, <2>6, <2>7, <2>8, <2>9, <2>10, InvTrySucceeds
<1> HIDE DEF TooSmall, need, jump, n, align, cs, hs, P, waiting
<1> QED BY <1>1, <1>3, <1>4, <1>5

-----------------------------------------------------------------------------
(* The invariant of the ring buffer *)

LEMMA InvNext ==
    ASSUME IInv, Next PROVE IInv'
<1>1. CASE RequestWriteFrame
  BY <1>1, InvRequestWriteFrame
<1>2. CASE TryWrite
  BY <1>2, InvTryWrite
<1>3. CASE CommitWrite
  BY <1>3, InvCommitWrite
<1>4. CASE ResetAllUser
  BY <1>4, InvResetAllUser
<1>5. CASE OpenWriter
  BY <1>5, InvOpenWriter
<1>6. CASE CleanUsers
  BY <1>6, InvCleanUsers
<1>7. CASE InstallProductor
  BY <1>7, InvInstallProductor
<1>8. CASE CloseWriter
  BY <1>8, InvCloseWriter
<1>9. CASE Age
  BY <1>9, InvAge
<1>10. ASSUME NEW r \in Readers, Reader(r) PROVE IInv'
  <2>1. CASE OpenReader(r)
    BY <2>1, InvOpenReader
  <2>2. CASE InstallConsumer(r)
    BY <2>2, InvInstallConsumer
  <2>3. CASE Uninstall(r)
    BY <2>3, InvUninstall
  <2>4. CASE Die(r)
    BY <2>4, InvDie
  <2>5. CASE RequestReadFrame(r)
    BY <2>5, InvRequestReadFrame
  <2>6. CASE CommitRead(r)
    BY <2>6, InvCommitRead
  <2>7. CASE DiscardAllData(r)
    BY <2>7, InvDiscardAllData
  <2>8. CASE Seek(r)
    BY <2>8, InvSeek
  <2> QED BY <1>10, <2>1, <2>2, <2>3, <2>4, <2>5, <2>6, <2>7, <2>8 DEF Reader
<1> QED BY <1>1, <1>2, <1>3, <1>4, <1>5, <1>6, <1>7, <1>8, <1>9, <1>10 DEF Next


\* A region may be given by an offset that is not wrapped yet.
LEMMA RegionShift ==
    ASSUME NEW P \in Offset, NEW x \in Nat, NEW y \in Nat, x + y < BufSize
    PROVE  Region(P + x, y) = Region(AdvanceOffset(P, x), y)
<1>1. BufSize \in Nat /\ BufSize > 0 /\ P \in Nat /\ P < BufSize /\ x \in 0..BufSize
  BY Sized DEF Offset
<1> DEFINE s == AdvanceOffset(P, x)
<1>2. s = (IF P + x < BufSize THEN P + x ELSE P + x - BufSize) /\ s \in Nat
  BY <1>1, AdvanceOffsetIs, Sized
<1> HIDE DEF s
<1>3. \A k \in 0..(y - 1) : AdvanceOffset(P + x, k) = AdvanceOffset(s, k)
  <2>1. TAKE k \in 0..(y - 1)
  <2> DEFINE m == P + x + k
  <2>2. m \in Nat /\ m < 2 * BufSize /\ k \in Nat
    BY <1>1
  <2> DEFINE q == s + k
  <2>3. q \in Nat /\ q < 2 * BufSize
    BY <1>1, <1>2, <2>2
  <2>4. m % BufSize = (IF m < BufSize THEN m ELSE m - BufSize)
    <3> HIDE DEF m
    <3> QED BY <1>1, <2>2, Round
  <2>5. q % BufSize = (IF q < BufSize THEN q ELSE q - BufSize)
    <3> HIDE DEF q
    <3> QED BY <1>1, <2>3, Round
  <2>6. m % BufSize = q % BufSize
    BY <1>1, <1>2, <2>2, <2>4, <2>5
  <2> QED BY <2>6 DEF AdvanceOffset
<1>4. Region(P + x, y) = Region(s, y)
  BY <1>3 DEF Region
<1> QED BY <1>4 DEF s

\* The frame that a trusted reader holds, and the bytes granted to the writer.
LEMMA HeldApart ==
    ASSUME IInv, NEW r \in trusted, writer.pc = "write"
    PROVE  HeldRegion(r) \cap Granted = {}
<1> DEFINE p == productor.index
           P == productor.offset
           x == writer.align
           y == writer.size
           s == AdvanceOffset(P, x)
           c == consumers[slot[r]]
           h == held[r]
<1>1. /\ p \in Idx /\ P \in Offset /\ c \in ConsumerType /\ h \in HeldType
      /\ Frames(frameIdx, intact) /\ frameIdx \in [Idx -> Frame]
      /\ Safe(frameIdx, productor, intact, writer, holes, r, c, h)
  BY ProductorIs DEF IInv, Memory, ReadersSafe, ReaderOK, Frames
<1>2. /\ x \in Nat /\ y \in Nat /\ y > 0 /\ x + y < BufSize /\ y \in 0..BufSize
  BY WriterIs DEF IInv, WriterOK
<1>3. Granted = Region(s, y)
  <2>1. Granted = Region(P + x, y)
    BY DEF Granted
  <2> HIDE DEF x, y, P, s
  <2>2. Region(P + x, y) = Region(AdvanceOffset(P, x), y)
    BY <1>1, <1>2, RegionShift
  <2> QED BY <2>1, <2>2 DEF s
<1>4. /\ Good(frameIdx, p, P, intact, c.index, c.offset) /\ RoomFor(p, P, x + y, c.index, c.offset)
      /\ HoldOK(frameIdx, p, holes, r, c, h) /\ AwayAt(frameIdx, productor, writer, c, h)
  BY <1>1 DEF Safe
<1> SUFFICES Region(h.offset, h.length) \cap Region(s, y) = {}
  BY <1>3 DEF HeldRegion
<1>5. CASE h = NoFrame
  <2>1. h.length = 0
    BY <1>5 DEF NoFrame
  <2>2. Region(h.offset, h.length) = {}
    BY <2>1 DEF Region
  <2> QED BY <2>2
<1>6. CASE h # NoFrame /\ c.state = "BLOCKED"
  BY <1>4, <1>6 DEF AwayAt
<1>7. CASE h # NoFrame /\ c.state = "HOLDING"
  <2> DEFINE i == c.index
             a == frameIdx[i].offset
             l == frameIdx[i].length
  <2>1. i # p /\ a = h.offset /\ l = h.length /\ i \in Idx /\ c.offset \in Offset
    BY <1>1, <1>4, <1>7, ConsumerIs DEF HoldOK
  <2>2. a \in Offset /\ l \in 0..BufSize
    BY <1>1, <2>1, FrameIs
  <2> DEFINE o == c.offset
             n == x + y
  <2>3. i \in IndexRange(i, p)
    BY <1>1, <2>1, RangeSelf
  <2>4. l <= BufferLen(a, P) /\ RoomFor(p, P, n, i, a)
    <3>1. n \in Nat /\ RoomFor(p, P, n, i, o) /\ Good(frameIdx, p, P, intact, i, o)
          /\ i \in Idx /\ o \in Offset
      BY <1>2, <1>4, <2>1
    <3>2. \A m \in Nat : RoomFor(p, P, m, i, o) => RoomFor(p, P, m, i, a)
      <4> HIDE DEF i, p, P, o, n
      <4> QED BY <1>1, <2>3, <3>1, GoodLater
    <3>3. l <= BufferLen(a, P)
      <4> HIDE DEF i, p, P, o, n
      <4> QED BY <1>1, <2>3, <3>1, GoodLater
    <3> QED BY <3>1, <3>2, <3>3
  <2>5. WritableSize(a, P) > n /\ WritableSize(a, P) = BufSize - BufferLen(a, P) /\ BufferLen(a, P) \in Nat
    BY <1>1, <2>2, <2>4, WritableIs DEF RoomFor
  <2>6. BufferLen(P, P) = 0 /\ BufSize \in Nat
    BY <1>1, WritableIs, Sized
  <2>7. s \in Offset /\ BufferLen(P, s) = x
    <3>1. BufferLen(P, P) + x < BufSize
      BY <1>2, <2>6
    <3>2. AdvanceOffset(P, x) \in Offset /\ BufferLen(P, AdvanceOffset(P, x)) = BufferLen(P, P) + x
      <4> HIDE DEF P, x
      <4> QED BY <1>1, <1>2, <3>1, AheadGrows
    <3> QED BY <1>2, <2>6, <3>2
  <2>8. BufferLen(P, s) + y + BufferLen(a, P) <= BufSize
    <3>1. n < BufSize - BufferLen(a, P)
      BY <2>5
    <3> HIDE DEF a, P, s
    <3> QED BY <1>2, <2>5, <2>6, <2>7, <3>1
  <2> HIDE DEF a, l, s, P, y
  <2>9. Region(a, l) \cap Region(s, y) = {}
    BY <1>1, <1>2, <2>2, <2>4, <2>7, <2>8, Apart
  <2> QED BY <2>1, <2>9 DEF a, l
<1> QED BY <1>4, <1>5, <1>6, <1>7 DEF HoldOK

-----------------------------------------------------------------------------
(* The theorems *)

\* In every run of the writer and the readers over the shared memory, crashes
\* and takeovers included, the memory is well-formed, the writer has room for
\* what it was granted and every trusted reader stands at a sound position,
\* its frame its own or in a black hole of just its bytes.
THEOREM RingInvariance == Spec => []IInv
<1>1. Init => IInv
  BY RingInit
<1>2. IInv /\ [Next]_vars => IInv'
  BY InvNext, InvStutter
<1> QED BY <1>1, <1>2, PTL DEF Spec

\* Every operation of CRingBuf leaves offsets below m_bufSize, indexes below
\* MAX_FRAME_NUM and the states of the users among those of the code.
THEOREM RingTypes == Spec => []TypeOK
<1>1. IInv => TypeOK
  BY MemoryTypes DEF IInv
<1> QED BY <1>1, RingInvariance, PTL

\* What a reader has not read yet is overwritten only after MoveAllBlockers has
\* moved it past that frame: RequestWriteFrame never takes bytes of a frame
\* from the index of a trusted reader on.
THEOREM UnreadTheorem == Spec => []UnreadIntact
<1>1. IInv => UnreadIntact
  BY DEF IInv, ReadersSafe, Safe, Good, UnreadIntact
<1> QED BY <1>1, RingInvariance, PTL

\* MoveAllBlockers and ResetAllUserNoLock leave a black hole of just the frame
\* that a moved reader holds, and it stays until CommitRead or until it is
\* overdue.
THEOREM HoleTheorem == Spec => []HoleCovers
<1>1. IInv => HoleCovers
  BY DEF IInv, ReadersSafe, Safe, HoldOK, HoleCovers
<1> QED BY <1>1, RingInvariance, PTL

\* RequestWriteFrame never gives the writer bytes of the frame that a trusted
\* reader holds a pointer to: BlackholeJump and the sizes compared in
\* __RequestWritePtr keep it off the frames in use.
THEOREM HeldTheorem == Spec => []HeldIntact
<1>1. IInv => HeldIntact
  <2>1. SUFFICES ASSUME IInv, NEW r \in trusted PROVE HeldRegion(r) \cap Granted = {}
    BY DEF HeldIntact
  <2>2. CASE writer.pc = "write"
    BY <2>1, <2>2, HeldApart
  <2>3. CASE writer.pc # "write"
    BY <2>3 DEF Granted
  <2> QED BY <2>2, <2>3
<1> QED BY <1>1, RingInvariance, PTL
=============================================================================
