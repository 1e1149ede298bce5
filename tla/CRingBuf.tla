------------------------------ MODULE CRingBuf ------------------------------
(***************************************************************************)
(* The ring buffer of media frames in shared memory                        *)
(* (common/ringbuffer/CRingBuf.cpp): one writer and several readers, each  *)
(* a process or thread of its own, which get pointers into the buffer and  *)
(* use them outside the lock.  Every critical section is one action.       *)
(*                                                                         *)
(* A reader that is too slow is moved on by the writer; when it holds a    *)
(* frame at that moment the frame becomes a black hole, a region that the  *)
(* writer jumps over until the reader commits or the hole is 20 s old.     *)
(*                                                                         *)
(* Offsets are counted in units of half the alignment.  Frames are read    *)
(* one at a time and whatever their type, as ringbuffer.cpp does; the      *)
(* fields that only liveStream, RequestReadContinuousFrames and the        *)
(* statistics use are left out.                                            *)
(*                                                                         *)
(* History variables: intact, the index slots whose frame has not been     *)
(* overwritten; trusted, the readers that may rely on their position: see  *)
(* Trust.                                                                  *)
(***************************************************************************)
EXTENDS Integers, Sequences, FiniteSets, Folds

CONSTANTS Readers,     \* the users that read; the name of each is its own
          SlotNum,     \* MAX_CONSUMER_NUM
          BufSize,     \* m_bufSize
          AlignBytes,  \* CRB_DEFAULT_ALIGNMENT
          FrameNum,    \* MAX_FRAME_NUM
          RetryNum,    \* MAX_RETRY_TIME
          Sizes,       \* sizes of the frames written
          Modes,       \* CRB_WRITE_MODE_E's of the writer
          MaxWrites,   \* bound: frames requested in a behaviour
          MaxRestarts, \* bound: times the writer opens, closes or resets
          MaxVisits    \* bound: times a reader opens the buffer

None == "none"            \* no name

ASSUME CRingBufAssumption ==
    /\ SlotNum \in Nat \ {0} /\ BufSize \in Nat \ {0} /\ AlignBytes \in Nat \ {0}
    /\ FrameNum \in Nat \ {0, 1, 2} /\ RetryNum \in Nat \ {0}
    /\ MaxWrites \in Nat /\ MaxRestarts \in Nat /\ MaxVisits \in Nat
    /\ BufSize % AlignBytes = 0 /\ Sizes \subseteq 1..BufSize
    /\ Modes \subseteq {"BLOCK", "NON_BLOCK"} /\ None \notin Readers

Slot == 1..SlotNum
Idx == 0..(FrameNum - 1)
Offset == 0..(BufSize - 1)
FrameType == {"I", "P"}
NoSlot == 0
Opening == -1             \* a reader between mapping the file and its slot
NoFrame == [index |-> 0, offset |-> 0, length |-> 0]

VARIABLES productor,      \* exist, offset, index
          consumers,      \* slot -> name, offset, index, refStart, refEnd, ...
          frameIdx,       \* index slot -> offset, length, frameType
          holes,          \* the black holes
          dataWriten,
          contiBytes,     \* contiBytesWriten, up to MAX_CONTINUOUS_SIZE
          version,        \* the file has been initialized
          writer,         \* what the writer is doing: pc and m_last...
          slot,           \* m_userIdx of each reader
          held,           \* the frame each reader has a pointer to
          bounds, intact, trusted

shared == <<productor, consumers, frameIdx, holes, dataWriten, contiBytes, version>>
vars == <<shared, writer, slot, held, bounds, intact, trusted>>

-----------------------------------------------------------------------------
(* Arithmetic on offsets and indexes *)

BufferLen(from, to) == (BufSize + to - from) % BufSize
\* Slip: an offset at the end of the buffer is not yet wrapped.
AdvanceOffsetLate(o, n) == IF o + n = BufSize THEN BufSize ELSE (o + n) % BufSize

AdvanceOffset(o, n) == (o + n) % BufSize
AdvanceIndex(i, n) == (i + n) % FrameNum
StepBackIndex(i) == (i + FrameNum - 1) % FrameNum
AlignUp(o) == ((o + AlignBytes - 1) \div AlignBytes) * AlignBytes

\* The bytes of a region.
Region(o, n) == {AdvanceOffset(o, k) : k \in 0..(n - 1)}

\* GetWritableSize: equal offsets mean that the reader has read everything.
WritableSize(read, write) == IF read = write THEN BufSize ELSE BufferLen(write, read)

MaxContinuousSize == BufSize \div 5

-----------------------------------------------------------------------------
(* Users *)

FreeSlot == [name |-> None, offset |-> 0, index |-> 0, refStart |-> 0,
             refEnd |-> 0, state |-> "FREE", moved |-> FALSE]
NoProductor == [exist |-> FALSE, offset |-> 0, index |-> 0]
NoFrames == [i \in Idx |-> [offset |-> 0, length |-> 0, frameType |-> "I"]]
IdleWriter == [pc |-> "idle", size |-> 0, type |-> "I", mode |-> "BLOCK",
               align |-> 0, guard |-> 0]
WriterAt(pc) == [IdleWriter EXCEPT !.pc = pc]

Valid(cs) == {s \in Slot : cs[s].name # None}
UserNum == Cardinality(Valid(consumers)) + (IF productor.exist THEN 1 ELSE 0)

\* MoveConsumer
MoveConsumer(c, i, o) ==
    [c EXCEPT !.index = i, !.offset = o, !.refStart = i, !.refEnd = i]

OwnedBy(name) == {h \in holes : h.owner = name}

Init ==
    /\ productor = NoProductor
    /\ consumers = [s \in Slot |-> FreeSlot]
    /\ frameIdx = NoFrames
    /\ holes = {} /\ dataWriten = FALSE /\ contiBytes = 0 /\ version = FALSE
    /\ writer = WriterAt("closed")
    /\ slot = [r \in Readers |-> NoSlot] /\ held = [r \in Readers |-> NoFrame]
    /\ bounds = [writes |-> 0, restarts |-> 0, visits |-> 0] /\ intact = {} /\ trusted = {}

-----------------------------------------------------------------------------
(* Searching the index *)

\* FindOldesValidIndex: back from the newest frame while the distance grows.
Distance(k) == BufferLen(frameIdx[(productor.index + FrameNum - k) % FrameNum].offset,
                         productor.offset)
OldestValidIndex ==
    IF ~dataWriten THEN productor.index
    ELSE LET Grows(k) == Distance(k) > (IF k = 1 THEN 0 ELSE Distance(k - 1))
             n == CHOOSE k \in 0..(FrameNum - 1) :
                      /\ \A j \in 1..k : Grows(j)
                      /\ k = FrameNum - 1 \/ ~Grows(k + 1)
         IN (productor.index + FrameNum - n) % FrameNum

\* The indexes from i up to, and without, j.
Steps(i, j) == (j + FrameNum - i) % FrameNum
IndexRange(i, j) == {AdvanceIndex(i, k) : k \in 0..(Steps(i, j) - 1)}

\* The first of a non-empty set of indexes from i on, and the last before i.
FirstFrom(i, S) == CHOOSE j \in S : \A k \in S : Steps(i, j) <= Steps(i, k)
LastBefore(i, S) == CHOOSE j \in S : \A k \in S : Steps(j, i) <= Steps(k, i)

IFrames(S) == {i \in S : frameIdx[i].frameType = "I"}

\* What IndexFindLatestFrame(PRODUCTOR_INDEX, oldest, I) walks over.
Searched == IF dataWriten /\ OldestValidIndex # productor.index
            THEN IndexRange(AdvanceIndex(OldestValidIndex, 1), productor.index)
            ELSE {}

\* IndexFindSpecifiedTimeFrameInstance: an I frame old enough, or the last
\* one it has passed, or index 0.
TimeTargets ==
    LET seen == IFrames(Searched \cup (IF OldestValidIndex = 0 THEN {0} ELSE {}))
    IN IF ~dataWriten \/ OldestValidIndex = productor.index THEN {}
       ELSE IF seen = {} THEN {0} ELSE seen

-----------------------------------------------------------------------------
(* Black holes *)

\* Of some holes the one that a writer at o meets last.
LastMet(o, hs) ==
    CHOOSE h \in hs : \A g \in hs : BufferLen(o, g.start) <= BufferLen(o, h.start)

\* A hole is merged with the one met before if it overlaps or touches it.
MergeHole(merged, h) ==
    LET n == Len(merged)
        l == merged[n]
        size == BufferLen(l.start, l.end)
    IN IF n > 0 /\ BufferLen(l.start, h.start) <= size
       THEN IF BufferLen(l.start, h.end) >= size THEN [merged EXCEPT ![n].end = h.end] ELSE merged
       ELSE Append(merged, h)

\* BlackHoleSortMerge: the holes merged, in the order in which a writer at o
\* meets them.
SortMerge(o, hs) ==
    MapThenFoldSet(LAMBDA h, merged : MergeHole(merged, h), <<>>,
                   LAMBDA h : h, LAMBDA left : LastMet(o, left), hs)

\* The conditions under which n bytes written at o miss the hole h.
Misses(o, n, h) ==
    LET e == AdvanceOffset(o, n)
    IN \/ o < e /\ h.start < h.end /\ o > h.end /\ e > h.end
       \/ o < e /\ h.start < h.end /\ o < h.start /\ e <= h.start
       \/ o < e /\ h.start >= h.end /\ o < h.start /\ o > h.end
                /\ e <= h.start /\ e > h.end
       \/ o >= e /\ h.end > h.start /\ o > h.end /\ e <= h.start

\* Slip: only the nearest hole is looked at.
BlackholeJumpOnce(o, n, hs) ==
    LET merged == SortMerge(o, hs)
    IN IF hs = {} \/ Misses(o, n, merged[1]) THEN [at |-> o, fits |-> TRUE]
       ELSE [at |-> merged[1].end, fits |-> FALSE]

\* BlackholeJump: from hole to hole until n bytes fit before the next one.
BlackholeJump(o, n, hs) ==
    LET merged == SortMerge(o, hs)
        From(k) == IF k = 1 THEN o ELSE merged[k - 1].end
        fitting == {k \in 1..Len(merged) : Misses(From(k), n, merged[k])}
    IN IF fitting = {} THEN [at |-> From(Len(merged) + 1), fits |-> FALSE]
       ELSE [at |-> From(CHOOSE k \in fitting : \A j \in fitting : k <= j), fits |-> TRUE]

\* The offset o is behind the start of the hole h and before its end.
Inside(o, h) == BufferLen(h.start, o) \in 1..(BufferLen(h.start, h.end) - 1)

\* The hole for the frame that the user of a slot holds.
HoleOf(c) == [owner |-> c.name, start |-> frameIdx[c.refStart].offset,
              end |-> AdvanceOffset(frameIdx[c.refEnd].offset, frameIdx[c.refEnd].length),
              aged |-> FALSE]

\* InsertBlackHole refuses a second hole of an owner whose first sorts before.
InsertBlackHoles(cs, hs) ==
    LET Sorts(a, b) == a.start < b.start \/ (a.start = b.start /\ a.end <= b.end)
    IN hs \cup {h \in {HoleOf(c) : c \in cs} :
                  ~\E g \in hs : g.owner = h.owner /\ Sorts(g, h)}

-----------------------------------------------------------------------------
(* The writer moves readers on *)

\* Where MoveAllBlockers sends the reader of a slot: to the next I frame, or
\* to the newest frame.
NextForBlocker(c) ==
    LET ahead == IFrames(IndexRange(AdvanceIndex(c.index, 1), productor.index))
    IN IF ahead = {} THEN StepBackIndex(productor.index)
       ELSE FirstFrom(AdvanceIndex(c.index, 1), ahead)

\* A reader that is moved, and to where; who holds a frame gets blocked.
Blocked(c, i, o) ==
    [MoveConsumer(c, i, o) EXCEPT
        !.moved = (@ \/ c.state # "FREE"),
        !.state = IF @ = "HOLDING" THEN "BLOCKED" ELSE @]

\* MoveAllBlockers of the slots S: consumers, and holes.
MoveBlockers(cs, S) ==
    [s \in Slot |-> IF s \in S
                    THEN LET i == NextForBlocker(cs[s])
                         IN Blocked(cs[s], i, frameIdx[i].offset)
                    ELSE cs[s]]
\* Slip: no hole for a frame in use.
HolesNone(cs, S, hs) == hs
HolesAfter(cs, S, hs) == InsertBlackHoles({cs[s] : s \in {t \in S : cs[t].state = "HOLDING"}}, hs)

\* IndexFindBlocker: who waits at the index slot after the writer's.
IndexBlockers(cs) == {s \in Valid(cs) : cs[s].index = AdvanceIndex(productor.index, 1)}

-----------------------------------------------------------------------------
(* The writer *)

\* RequestWriteFrame begins: the frame to write.
RequestWriteFrame ==
    /\ productor.exist /\ writer.pc = "idle" /\ bounds.writes < MaxWrites
    /\ \E size \in Sizes, type \in FrameType, mode \in Modes :
         writer' = [IdleWriter EXCEPT !.pc = "retry", !.size = size,
                                      !.type = type, !.mode = mode]
    /\ bounds' = [bounds EXCEPT !.writes = @ + 1]
    /\ UNCHANGED <<shared, slot, held, intact, trusted>>

\* The readers whose hole is older than BLACKHOLE_MAX_LIFE_SEC lose it.
Overdue == {h.owner : h \in {g \in holes : g.aged}}

\* The readers that had read everything and are moved on all the same: the
\* search of MoveAllBlockers then begins behind the writer's index.
MovedPastEnd == {r \in Readers : /\ slot[r] \in Slot
                                 /\ consumers[slot[r]].index = productor.index
                                 /\ consumers'[slot[r]].index # productor.index}

\* Slip: the bytes skipped on the way over the black holes are forgotten.
NeedWithoutJump(o, at, align) == align + writer.size

\* The bytes that the frame takes from o on when it goes to at.
Need(o, at, align) == BufferLen(o, at) + align + writer.size

\* No room in this round: the blockers move, or the writer gives up.
TryFails(cs, hs, blockers) ==
    /\ IF writer.mode = "BLOCK"
       THEN consumers' = cs /\ holes' = hs /\ writer' = IdleWriter
       ELSE /\ consumers' = MoveBlockers(cs, blockers)
            /\ holes' = HolesAfter(cs, blockers, hs)
            /\ writer' = IF writer.guard + 1 < RetryNum
                         THEN [writer EXCEPT !.guard = @ + 1] ELSE IdleWriter
    /\ UNCHANGED <<productor, intact>>

\* __RequestWritePtr with room: the pointer given to the writer.
TrySucceeds(cs, hs, o, align) ==
    LET start == IF align = 0 THEN o ELSE AlignUp(o) % BufSize
        granted == Region(start, writer.size)
    IN /\ consumers' = cs /\ holes' = hs
       /\ productor' = [productor EXCEPT !.offset = o]
       /\ writer' = [writer EXCEPT !.pc = "write", !.align = BufferLen(o, start)]
       /\ intact' = {i \in intact :
              Region(frameIdx[i].offset, frameIdx[i].length) \cap granted = {}}

\* One iteration of the loop of RequestWriteFrame, under the lock.
TryWrite ==
    LET aged == holes \ {h \in holes : h.aged}
        waiting == IndexBlockers(consumers)
        cs == IF writer.mode = "BLOCK" THEN consumers ELSE MoveBlockers(consumers, waiting)
        hs == IF writer.mode = "BLOCK" THEN aged ELSE HolesAfter(consumers, waiting, aged)
        align == IF writer.type = "I" \/ contiBytes >= MaxContinuousSize
                 THEN AlignBytes ELSE 0
        o == productor.offset
        Room(s) == WritableSize(cs[s].offset, o)
        TooSmall(n) == {s \in Valid(cs) : Room(s) <= n}
        jump == BlackholeJump(o, writer.size + align, hs)
        need == Need(o, jump.at, align)
    IN /\ productor.exist /\ writer.pc = "retry"
       /\ \/ /\ writer.mode = "BLOCK" /\ waiting # {}
             /\ TryFails(cs, hs, {})
          \/ /\ writer.mode = "NON_BLOCK" \/ waiting = {}
             /\ writer.size >= BufSize \/ TooSmall(writer.size) # {}
             /\ TryFails(cs, hs, TooSmall(writer.size))
          \/ /\ writer.mode = "NON_BLOCK" \/ waiting = {}
             /\ writer.size < BufSize /\ TooSmall(writer.size) = {}
             /\ need >= BufSize \/ TooSmall(need) # {}
             /\ TryFails(cs, hs, TooSmall(need))
          \/ /\ writer.mode = "NON_BLOCK" \/ waiting = {}
             /\ need < BufSize /\ TooSmall(need) = {}
             /\ TrySucceeds(cs, hs, jump.at, align)
       /\ trusted' = IF \E h \in hs : Inside(o, h) \/ (~jump.fits /\ jump.at = o)
                     THEN {} ELSE trusted \ (Overdue \cup MovedPastEnd)
       /\ UNCHANGED <<frameIdx, dataWriten, contiBytes, version, slot, held, bounds>>

\* CommitWrite of the whole frame.
CommitWrite ==
    LET start == AdvanceOffset(productor.offset, writer.align)
    IN /\ productor.exist /\ writer.pc = "write"
       /\ frameIdx' = [frameIdx EXCEPT ![productor.index] =
              [offset |-> start, length |-> writer.size, frameType |-> writer.type]]
       /\ productor' = [productor EXCEPT !.index = AdvanceIndex(@, 1),
                                         !.offset = AdvanceOffset(start, writer.size)]
       /\ dataWriten' = TRUE
       /\ contiBytes' = IF writer.align > 0 THEN 0
                        ELSE IF contiBytes + writer.size < MaxContinuousSize
                        THEN contiBytes + writer.size ELSE MaxContinuousSize
       /\ intact' = intact \cup {productor.index}
       /\ writer' = IdleWriter
       /\ UNCHANGED <<consumers, holes, version, slot, held, bounds, trusted>>

Restart == bounds.restarts < MaxRestarts /\ bounds' = [bounds EXCEPT !.restarts = @ + 1]

\* ResetAllUser: every reader back to the start, those that hold a frame with
\* a black hole.
ResetAllUser ==
    /\ productor.exist /\ writer.pc \in {"idle", "write"} /\ Restart
    /\ consumers' = [s \in Slot |->
           IF s \in Valid(consumers) THEN Blocked(consumers[s], 0, 0) ELSE consumers[s]]
    /\ holes' = HolesAfter(consumers, Valid(consumers), holes)
    /\ productor' = [productor EXCEPT !.offset = 0, !.index = 0]
    /\ dataWriten' = FALSE /\ contiBytes' = 0
    /\ writer' = IdleWriter
    /\ trusted' = IF \E h \in holes' : h.end < h.start THEN {} ELSE trusted
    /\ UNCHANGED <<frameIdx, version, slot, held, intact>>

\* The constructor for the writer, of the first process or of one that takes
\* over after a crash: it maps the file, which may be new.
OpenWriter ==
    /\ Restart
    /\ writer' = WriterAt(IF version THEN "clean" ELSE "install")
    /\ version' = TRUE
    /\ UNCHANGED <<productor, consumers, frameIdx, holes, dataWriten, contiBytes, slot,
                   held, intact, trusted>>

\* CleanProductor and CleanAllConsumer, two critical sections taken as one:
\* every user is wiped out of an old file; frames and black holes stay.
CleanUsers ==
    /\ writer.pc = "clean"
    /\ productor' = NoProductor /\ consumers' = [s \in Slot |-> FreeSlot]
    /\ writer' = WriterAt("install") /\ trusted' = {}
    /\ UNCHANGED <<frameIdx, holes, dataWriten, contiBytes, version, slot, held, bounds,
                   intact>>

\* InstallProductor, whose slot is always empty by now.
InstallProductor ==
    /\ writer.pc = "install"
    /\ productor' = [exist |-> TRUE, offset |-> 0, index |-> 0]
    /\ dataWriten' = FALSE /\ contiBytes' = 0
    /\ writer' = IdleWriter
    /\ UNCHANGED <<consumers, frameIdx, holes, version, slot, held, bounds, intact, trusted>>

\* The last user deletes the file.  Whoever has it mapped without a slot
\* keeps the old one to himself and is no user of this buffer any more.
Unlink ==
    /\ productor' = NoProductor /\ consumers' = [s \in Slot |-> FreeSlot]
    /\ frameIdx' = NoFrames /\ holes' = {}
    /\ dataWriten' = FALSE /\ contiBytes' = 0 /\ version' = FALSE
    /\ writer' = WriterAt("closed") /\ intact' = {} /\ trusted' = {}
    /\ slot' = [q \in Readers |-> NoSlot] /\ held' = [q \in Readers |-> NoFrame]

\* The writer's destructor clears its slot; the data stay.
CloseWriter ==
    /\ productor.exist /\ writer.pc = "idle" /\ Restart
    /\ \/ Valid(consumers) = {} /\ Unlink
       \/ /\ Valid(consumers) # {}
          /\ productor' = NoProductor /\ writer' = WriterAt("closed") /\ trusted' = {}
          /\ UNCHANGED <<consumers, frameIdx, holes, dataWriten, contiBytes, version,
                         slot, held, intact>>

\* 20 s pass for a black hole.
Age ==
    /\ \E h \in holes : /\ ~h.aged
                        /\ holes' = (holes \ {h}) \cup {[h EXCEPT !.aged = TRUE]}
    /\ UNCHANGED <<productor, consumers, frameIdx, dataWriten, contiBytes, version, writer,
                   slot, held, bounds, intact, trusted>>

-----------------------------------------------------------------------------
(* The readers *)

\* The other readers with the same slot: the slot may have been given anew
\* after the writer had wiped it out.
Sharing(r, s) == {q \in Readers \ {r} : slot[q] = s}

\* The bytes from a frame's first up to the writer.
Ahead(j) == BufferLen(frameIdx[j].offset, productor.offset)

\* From index i and offset o on the frames lie one behind the other, up to
\* the writer.
InLine(i, o) ==
    \A j \in IndexRange(i, productor.index) :
        /\ frameIdx[j].length <= Ahead(j) /\ Ahead(j) <= BufferLen(o, productor.offset)
        /\ \A k \in IndexRange(AdvanceIndex(j, 1), productor.index) :
               Ahead(k) <= Ahead(j) - frameIdx[j].length

\* A position from which everything up to the writer is there to be read in
\* order, and stays there when the writer commits what it has been granted.
Sound(i, o) ==
    /\ IndexRange(i, productor.index) \subseteq intact /\ InLine(i, o)
    /\ i = productor.index <=> o = productor.offset
    /\ writer.pc = "write" /\ i # productor.index =>
           /\ i # AdvanceIndex(productor.index, 1)
           /\ BufferLen(productor.offset, o) > writer.align + writer.size

\* Who may rely on its position after an operation of r on slot s: r when the
\* slot is its own and the position sound, and nobody else at that slot.
Trust(r, s, name, sound) ==
    trusted' = (trusted \ ({r} \cup Sharing(r, s)))
                   \cup (IF sound /\ name = r THEN {r} ELSE {})

\* Where InstallConsumer puts a new reader: index and offset.
InstallAt ==
    LET seen == IFrames(Searched)
        i == IF seen # {} THEN LastBefore(productor.index, seen) ELSE productor.index
    IN IF productor.exist /\ dataWriten THEN <<i, frameIdx[i].offset>> ELSE <<0, 0>>

\* The constructor for a reader: it maps the file, and wipes out all readers
\* when there are as many users as slots.
OpenReader(r) ==
    /\ slot[r] = NoSlot /\ bounds.visits < MaxVisits
    /\ bounds' = [bounds EXCEPT !.visits = @ + 1]
    /\ slot' = [slot EXCEPT ![r] = Opening] /\ version' = TRUE
    /\ IF UserNum >= SlotNum
       THEN consumers' = [s \in Slot |-> FreeSlot] /\ trusted' = {}
       ELSE UNCHANGED <<consumers, trusted>>
    /\ UNCHANGED <<productor, frameIdx, holes, dataWriten, contiBytes, writer, held,
                   intact>>

\* InstallUser and InstallConsumer: the slot with the reader's name, or the
\* first free one.
InstallConsumer(r) ==
    LET own == {s \in Slot : consumers[s].name = r}
        free == IF own # {} THEN own ELSE Slot \ Valid(consumers)
        s == CHOOSE t \in free : \A u \in free : t <= u
    IN /\ slot[r] = Opening /\ free # {}
       /\ slot' = [slot EXCEPT ![r] = s]
       /\ consumers' = [consumers EXCEPT ![s] =
              MoveConsumer([FreeSlot EXCEPT !.name = r], InstallAt[1], InstallAt[2])]
       /\ holes' = holes \ OwnedBy(r)
       /\ Trust(r, s, r, Sound(InstallAt[1], InstallAt[2]))
       /\ UNCHANGED <<productor, frameIdx, dataWriten, contiBytes, version, writer, held,
                      bounds, intact>>

\* The reader's destructor: it clears its slot, whoever may have it now.
Uninstall(r) ==
    /\ slot[r] \in Slot
    /\ \/ Valid(consumers) \subseteq {slot[r]} /\ ~productor.exist /\ Unlink
       \/ /\ ~(Valid(consumers) \subseteq {slot[r]} /\ ~productor.exist)
          /\ slot' = [slot EXCEPT ![r] = NoSlot] /\ held' = [held EXCEPT ![r] = NoFrame]
          /\ consumers' = [consumers EXCEPT ![slot[r]] = FreeSlot]
          /\ Trust(r, slot[r], r, FALSE)
          /\ UNCHANGED <<productor, frameIdx, holes, dataWriten, contiBytes, version,
                         writer, intact>>
    /\ UNCHANGED bounds

\* The reader's process dies: its slot stays.
Die(r) ==
    /\ slot[r] \in Slot
    /\ slot' = [slot EXCEPT ![r] = NoSlot] /\ held' = [held EXCEPT ![r] = NoFrame]
    /\ trusted' = trusted \ {r}
    /\ UNCHANGED <<shared, writer, bounds, intact>>

\* RequestReadFrame finds a frame that can be read.
RequestReadFrame(r) ==
    LET c == consumers[slot[r]]
        f == frameIdx[c.index]
    IN /\ slot[r] \in Slot /\ held[r] = NoFrame
       /\ c.index # productor.index /\ f.length > 0
       /\ f.offset # productor.offset
       /\ BufferLen(f.offset, productor.offset) >= f.length
       /\ holes' = holes \ OwnedBy(c.name)
       /\ consumers' = [consumers EXCEPT ![slot[r]] =
              [MoveConsumer(c, c.index, f.offset) EXCEPT !.state = "HOLDING", !.moved = FALSE]]
       /\ held' = [held EXCEPT ![r] =
              [index |-> c.index, offset |-> f.offset, length |-> f.length]]
       /\ Trust(r, slot[r], c.name, r \in trusted)
       /\ UNCHANGED <<productor, frameIdx, dataWriten, contiBytes, version, writer, slot,
                      bounds, intact>>

\* CommitRead of the whole frame.
CommitRead(r) ==
    LET c == consumers[slot[r]]
        next == IF c.moved THEN c
                ELSE MoveConsumer(c, AdvanceIndex(c.refEnd, 1),
                                  AdvanceOffset(c.offset, held[r].length))
    IN /\ slot[r] \in Slot /\ held[r] # NoFrame
       /\ holes' = holes \ OwnedBy(c.name)
       /\ consumers' = [consumers EXCEPT ![slot[r]] =
              [next EXCEPT !.state = "FREE", !.moved = FALSE]]
       /\ held' = [held EXCEPT ![r] = NoFrame]
       /\ Trust(r, slot[r], c.name, r \in trusted)
       /\ UNCHANGED <<productor, frameIdx, dataWriten, contiBytes, version, writer, slot,
                      bounds, intact>>

\* DiscardAllData
DiscardAllData(r) ==
    LET c == consumers[slot[r]]
    IN /\ slot[r] \in Slot
       /\ holes' = holes \ OwnedBy(c.name)
       /\ consumers' = [consumers EXCEPT ![slot[r]] =
              [MoveConsumer(c, productor.index, productor.offset) EXCEPT
                  !.state = "FREE", !.moved = FALSE]]
       /\ held' = [held EXCEPT ![r] = NoFrame]
       /\ Trust(r, slot[r], c.name, TRUE)
       /\ UNCHANGED <<productor, frameIdx, dataWriten, contiBytes, version, writer, slot,
                      bounds, intact>>

\* IndexMoveToOldest and IndexMoveToSpecifiedTime, between two frames.
Seek(r) ==
    LET c == consumers[slot[r]]
    IN /\ slot[r] \in Slot /\ held[r] = NoFrame
       /\ \E i \in {OldestValidIndex} \cup TimeTargets :
            /\ consumers' = [consumers EXCEPT ![slot[r]] =
                                MoveConsumer(c, i, frameIdx[i].offset)]
            /\ Trust(r, slot[r], c.name, Sound(i, frameIdx[i].offset))
       /\ holes' = holes \ OwnedBy(c.name)
       /\ UNCHANGED <<productor, frameIdx, dataWriten, contiBytes, version, writer, slot, held,
                      bounds, intact>>

Reader(r) == \/ OpenReader(r) \/ InstallConsumer(r) \/ Uninstall(r) \/ Die(r)
             \/ RequestReadFrame(r) \/ CommitRead(r) \/ DiscardAllData(r) \/ Seek(r)

Next == \/ RequestWriteFrame \/ TryWrite \/ CommitWrite \/ ResetAllUser
        \/ OpenWriter \/ CleanUsers \/ InstallProductor \/ CloseWriter \/ Age
        \/ \E r \in Readers : Reader(r)

Spec == Init /\ [][Next]_vars

-----------------------------------------------------------------------------
(* Types *)

Frame == [offset : Offset, length : 0..BufSize, frameType : FrameType]

TypeOK ==
    /\ productor \in [exist : BOOLEAN, offset : Offset, index : Idx]
    /\ consumers \in [Slot -> [name : Readers \cup {None}, offset : Offset, index : Idx,
                               refStart : Idx, refEnd : Idx,
                               state : {"FREE", "HOLDING", "BLOCKED"}, moved : BOOLEAN]]
    /\ frameIdx \in [Idx -> Frame]
    /\ holes \subseteq [owner : Readers, start : Offset, end : Offset, aged : BOOLEAN]
    /\ intact \subseteq Idx /\ trusted \subseteq Readers

-----------------------------------------------------------------------------
(* Properties *)

\* The bytes that the writer has a pointer to, and those that reader r has.
Granted == IF writer.pc = "write"
           THEN Region(productor.offset + writer.align, writer.size) ELSE {}
HeldRegion(r) == Region(held[r].offset, held[r].length)

\* The writer is never given bytes of a frame that a reader holds, as long as
\* that reader's position is sound and its hole not overdue: this is what the
\* black holes of MoveAllBlockers and ResetAllUserNoLock are for.
HeldIntact == \A r \in trusted : HeldRegion(r) \cap Granted = {}

\* Every frame from a reader's index up to the writer's is whole: what the
\* reader has not read yet is overwritten only after MoveAllBlockers has moved
\* the reader past it.
UnreadIntact ==
    \A r \in trusted : IndexRange(consumers[slot[r]].index, productor.index) \subseteq intact

\* A reader that was moved on while it held a frame has a black hole of just
\* that frame until it commits.
HoleCovers ==
    \A r \in trusted :
        held[r] # NoFrame /\ consumers[slot[r]].state = "BLOCKED" =>
            \E h \in holes : /\ h.owner = r /\ h.start = held[r].offset
                             /\ h.end = AdvanceOffset(held[r].offset, held[r].length)

\* MoveAllBlockers makes a hole around what a reader still holds "to make sure
\* we wont overwrite the buffer": the writer is never given bytes of a hole that
\* is not overdue.
HolesAvoided ==
    \A h \in holes : ~h.aged => Region(h.start, BufferLen(h.start, h.end)) \cap Granted = {}
=============================================================================
