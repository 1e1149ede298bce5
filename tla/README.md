# TLA+ models and proofs of Mbedtls-KCP

This directory models the program in TLA+, checks the models with TLC on small
instances, and proves the main results for all instances with TLAPS. Paths are
relative to `src/`; `cpp/` stands for `app/src/main/cpp/` and `java/` for
`app/src/main/java/com/switchbot/doorbell/`.

## 1. The system

An Android app talks to a video doorbell. `MainActivity.onResume` first *binds*
over TCP (an AES-encrypted hello, the doorbell's hello, an acknowledgement) and
then starts a KCP session over UDP. One native library, `kcpwrapper`, is built
from eight files directly under `cpp/`; `cpp/common/` is a larger library of
which nothing is built into the app, and `cpp/mbedtls/` is vendored.

| component | state it keeps | operations | talks to |
|---|---|---|---|
| KCP control block, `cpp/ikcp/ikcp.c` | `snd_queue`, `snd_buf`, `rcv_buf`, `rcv_queue`, `acklist`, `snd_una`, `snd_nxt`, `rcv_nxt`, `rmt_wnd`, `probe`, timers | `ikcp_send`, `ikcp_input`, `ikcp_recv`, `ikcp_update`/`ikcp_flush` | the peer, through `udp_output` and `recvfrom` |
| session, `java/KcpClient.kt` with `cpp/kcp_wrapper.cpp` | `running`, `recvThread`, the globals `kcp` and `udp_fd`, `recvBuffer` | `start`, `stop`, `send`; the receive thread | two threads share the control block without a lock |
| binding, `cpp/tcp_client.c`, `cpp/tcp_jni.cpp`, `java/TcpClient.java`, `java/MainActivity.kt` | a `TcpClient` per connection, `client_quadruples`, `g_last_enc` | `init`, `connect`, `bindDevice` | the doorbell's TCP server; starts the session |
| quadruple table, `cpp/repeater_aes.c` | `client_quadruples`, up to 5 `repeater_quadruples`, one mutex | add, update, delete, sync, get | the binding |
| AES and padding, `cpp/wo_aes.c`, `cpp/aes_key_gen.c` | a key schedule | encrypt, decrypt, PKCS7 | mbedtls |
| socket helpers, `cpp/common_sock.c` | none | send all, receive all | the binding |
| task queue, `cpp/common/task_queue/task_queue.c` | a list of messages, a count of events, the flags `init` and `iLoopThreadRun` | init, put a message or an event, stop, deinit | producers, and a thread that calls back |
| ring buffer, `cpp/common/ringbuffer/CRingBuf.cpp` | a shared mapping: writer, readers, frame index, black holes | request and commit, for writing and reading; seek, reset, open, close | processes that write and read media frames |
| queues, character buffer (`cpp/common/`) | lists and arrays under a mutex | push, pop | library users |
| the rest of `cpp/common/` | tables, files, third-party code | | |

**What is hard.** *KCP:* UDP loses, reorders and repeats datagrams, so every
acknowledgement, window and sequence number in a header may be old; the window
that closed has to be reopened although the message that says so may be lost.
*Session:* the main thread and the receive thread use one control block without
a lock, and `stop` waits only 100 ms before it frees the block. *Binding:* each
step may fail, the answer may come after the timeout, and both ends should agree
on the outcome. *Timers:* clocks of 32 bits that wrap, taken from a wall clock
that is set while the session runs. *Library:* flags read outside the lock,
pointers into shared memory that outlive the critical section, processes that
die or reopen in between, wake-ups that come too early. `PROJECT.json` lists these hazards at
their lines, with the properties that cover them.

**What makes each part correct.** KCP: what is read is a prefix of what was
sent, in whole messages, and everything sent arrives. Session: nobody works on a
freed block, nothing leaks, receive threads end. Binding: KCP starts only with a
device that has proved its key, the device and the app agree, resources are
released. Table and queues: no duplicates, bounds kept, nothing used after the
unlock that protected it.

## 2. Modules

| module | models | checked by |
|---|---|---|
| `Kcp` | two control blocks and the network between them | `MCKcp`, two runs |
| `KcpChannel` | what the two blocks promise: a pair of message channels | refined by `Kcp` |
| `KcpProofs`, `KcpDeliveryProofs` | theorems about `Kcp` | TLAPS |
| `KcpTimers`, `KcpTimersProofs` | the clock, the timers and the round trip estimate of one control block | `MCKcpTimers`, one run; TLAPS |
| `KcpSession`, `KcpSessionProofs` | `KcpClient` and `kcp_wrapper.cpp` | one run, TLAPS |
| `KcpSendRace` | `snd_queue` under `ikcp_send` and `ikcp_flush` | one run (finding) |
| `TcpHello`, `TcpHelloProofs` | `onResume` and `tcp_client_send_hello` | two runs, one a finding; TLAPS |
| `RepeaterAes`, `RepeaterAesProofs` | the table of `repeater_aes.c` | two runs, one a finding; TLAPS |
| `TaskQueue`, `TaskQueueProofs` | the task queue, its thread and its callers | one run, TLAPS |
| `WorkQueue` | what a task queue promises | refined by `TaskQueue` |
| `CRingBuf`, `CRingBufProofs` | the ring buffer in shared memory | `MCCRingBuf`, two runs, one a finding; TLAPS |

Definitions whose comment begins with *Slip* are plausible mistakes. No
specification uses them; replacing a definition by its slip has to break the
property `PROJECT.json` names with it, which shows that the property depends on
what the code does.

### Kcp

Each variable is a function of the endpoint and has the name of the field of
`struct IKCPCB`. `snd_buf` and `rcv_buf`, which the code keeps sorted by `sn`,
are functions from sequence numbers to fragments; the FIFO queues are sequences.
A fragment is the message it belongs to and its `frg`; `written` and `read`
record what went into `ikcp_send` and came out of `ikcp_recv`.

* `Send` is `ikcp_send` in message mode. It may run between two segments of a
  datagram, as it is called from another thread.
* `Input` and `InputRest` are the loop of `ikcp_input`, one segment a step:
  `ParseHeader` (window, `ikcp_parse_una`, for an ACK `ikcp_parse_ack`,
  `ikcp_shrink_buf`), then `Push` (`ikcp_ack_push`, `ikcp_parse_data`), or the
  flag `IKCP_ASK_TELL`.
* `Recv` is `ikcp_recv` with `ikcp_peeksize`: the merge loop, the move from
  `rcv_buf` to `rcv_queue`, and the fast recover. `RecvFrags` is the size of
  the caller's buffer.
* `Flush` is `ikcp_flush`: acknowledgements, window probes, the move from
  `snd_queue` into the window, then first transmissions and whatever
  retransmissions are due, packed into datagrams of `MtuSegs` segments.

Abstractions. *Time:* in any flush any set of segments may be due for
retransmission and the probe timer may have run out; so the safety results hold
for every choice of timers, RTO and fast retransmit. *Sequence numbers* are
naturals, which is right while fewer than 2^31 segments are outstanding and the
oldest datagram in the network is younger than that. *Congestion control* is off
in `initKcp` (`ikcp_nodelay(kcp, 1, 10, 2, 1)`). *Datagrams* come from the peer
only and are well formed; UDP drops damaged ones. `net` is a set, so that a
datagram that is in flight twice is one that may be delivered twice
(`AllowDup`).

### KcpChannel

Two independent channels of whole messages: `ChSend` appends the fragments of a
message, `ChRecv` delivers the next whole message. `Kcp` implements it with
`written` and `read` mapped to themselves, every other step being a stutter.

### KcpTimers

`Kcp` lets every timer fire at any time; `KcpTimers` counts them. `Update` is
`ikcp_update` with the `ikcp_flush` it may call (`Flush`, with `FirstSent`,
`TimedOut` and `FastResent` for the three reasons to send a segment), after some
time has passed and, possibly, the wall clock has been set. `Ack` is `ikcp_input`
of a datagram with one acknowledgement: `UpdateAck` (`ikcp_update_ack`), the
lists, `fastack`. `echo` holds the acknowledgements the network may deliver at
any later time: sequence number and echoed timestamp. `Diff` is `_itimediff`,
and `Mod` stands for 2^32: timestamps, differences and products wrap as they do
in the code. `time` is the time that really passes; `steady` and `after` say
whether the clock has been set since a segment was sent, or since the last flush.

`ClockAssumption` says what signed differences of 32 bits take for granted: two
calls of `ikcp_update` are, with an interval, less than half of the clock apart,
and so is the timeout of a segment that has been sent `MaxXmit` times. `MaxXmit`
bounds the transmissions of one segment in a behaviour. Each adds up to
`IKCP_RTO_MAX` to the timeout, which the code never caps: with 60 s the
assumption allows for 35791 transmissions, long after `dead_link`; beyond them
`resendts` would be taken for the past.

Three things the model makes visible and no property forbids: `fastack` is not
reset by a timeout, so that a fast retransmit may follow it; a clock set back
leaves every `resendts` that far in the future, and only acknowledgements or
skips help then; `state` becomes -1 after `dead_link` transmissions and nothing
reads it.

### KcpSession

The main thread (`Start`, `InitSocket`, `InitBlock`, `Spawn`; `Stop`, `Join`,
`ReleaseFree`, `ReleaseClear`, `ReleaseClose`; `Send`) and the receive threads,
one per start. A native call on the control block is two steps: it reads the
global `kcp`, and it returns; between them `block[t]` is the block it works on.
Blocks and sockets are numbered by the start that made them, so that a stale
pointer can be told from a new one. `bind` succeeds only while no socket of the
app holds the port and may fail at any time, for instance because another process
holds it; `initServerSock` only logs that, and the session goes on with a socket
that is not in `bound`. `Join` may give up at any time (100 ms pass
while the thread is in a call), which `timedOut` records.

### KcpSendRace

The assignments of `iqueue_add_tail` and `iqueue_del`, one a step, on the links
of `snd_queue`. `onResume` calls `KcpClient.send` right after
`KcpClient.start`, so both run at once in the app as it is.

### TcpHello

`onResume` step by step: the plain client of `TcpClient.init`, the client of
`tcp_client_send_hello`, its hello, `select`, the frame, its verification and
the acknowledgement, `exit`, and `KcpClient.start`. The server is external: it
answers a hello at any time with any frame, or closes the connection. `excuse`
records how a round failed.

### RepeaterAes

The table of quadruples, several threads calling its functions. Each function is
one step, its critical section, but for two: `Update` leaves the lock before
`Add`, and the thread that called `repeater_aes_enc_get` reads key and IV
(`ReadKey`, `ReadIv`) through a pointer after the unlock. A read a change
overlaps may be torn; `race` records what has happened since the pointer was
taken: the entry was updated in place, or one at or before it was removed
(`"moved"`) and the pointer stands for another entry or for none. The app of this repository only builds this file and uses
its client quadruple; the table is an interface for a hub that serves extenders,
and its mutex shows that calls from several threads are expected.

The functions that remove entries move the later ones down: `Keep` leaves the
entries at a set of places, in their order.

### TaskQueue and WorkQueue

The owner's steps (`InitFlags`, `InitLocks`, `Spawn`; `StopAsync`; `DeinitStop`,
`Join`, `Destroy`, `Clear`) follow `Message_Init` and `Message_Deinit`
assignment by assignment where another thread can see the difference: the flags
are set before the mutex is made, and cleared after it is destroyed.
`Message_Thread` is `Check`, one of `TakeNode`, `TakeEvent` and `Wait` in its
critical section, and `ReadCb` or `WriteCb` outside it.

A producer of messages reads `init` (`Call`), then `iLoopThreadRun` (`Test`), and
takes the mutex later still (`PutMsg`); `Message_PutEvent` tests only
`iLoopThreadRun` (`CallEvent`, `PutEvent`). Nothing is locked in between, so a
caller may find `init` of one life of the queue and `iLoopThreadRun` of the next,
and either may find the mutex gone or not yet made (`PutLate`). The code enforces
nothing here. `sound` says which callers keep the rules it needs, each a condition
on what the *other* thread does:

* no put begins between the flags and the locks of `Message_Init`;
* no put is past its tests when `Message_Deinit` begins;
* no put is under way when the next `Message_Init` begins.

`NoUseAfterDestroy` shows that these suffice: a put may begin while
`Message_Deinit` runs, and may have read `init` before it did, as long as it
returns before the next `Message_Init`.

`WorkQueue` is the promise: while the queue is open each message is handled once
and in order, and only closing it drops messages. A message that is being called
back for still counts as pending.

### CRingBuf

One writer and several readers, each a process, share a mapping. Every critical
section of the process-shared mutex is one action; between a request and its
commit a reader holds a pointer into the buffer (`held`) and the writer may write
to the bytes it was granted (`Granted`). `TryWrite` is `RequestWriteFrame`: the
alignment, `Need`, `MoveBlockers` (`MoveAllBlockers`, which moves slow readers
on and leaves a black hole where one of them still holds a frame), and
`BlackholeJump`, the search for a place between the holes. `CommitWrite` adds to
the frame index. Readers open (`OpenReader`, `InstallConsumer`), read, commit,
seek, discard, close, and die; the writer opens, resets, closes. `Age` is a hole
becoming 20 s old, after which the writer ignores it.

Offsets are counted in half alignments; a ring of eight holds two frames of
three units with their padding, or a frame and a hole. Two history variables say
what the properties are about. `intact` is the set of index slots whose frame
has not been overwritten. `trusted` is the set of readers that may rely on their
position. The properties of `ringbuf` speak of these readers only, so each way
to lose trust is an exception of what they say:

* the reader's slot is wiped out or given to another reader, as happens when a
  reader opens a full table or a writer takes an old file over (`CleanUsers`),
  or the writer closes;
* its hole becomes overdue, which the writer is meant to ignore;
* it had read everything and is moved on all the same (`MovedPastEnd`): the
  search of `MoveAllBlockers` then starts beyond the newest frame;
* it opens the buffer at, or seeks to, a position that is not `Sound`: the frames
  from there to the writer have to be whole, to lie one behind the other, and to
  be out of reach of what the writer has been granted (see the findings);
* every reader loses it when the holes leave no room and `BlackholeJump` comes
  back to where it began, or when the writer's offset lies inside a hole
  (`TryWrite`), which `ResetAllUser` brings about if a hole wraps around the end.

A reader regains trust by `DiscardAllData` or by a new sound position.

## 3. Runs

| run | bounds | shows |
|---|---|---|
| `kcp_reorder` | one sender, 3 fragments, messages of 1 or 2, windows 2, 2 datagrams in flight of one segment each, duplication | type invariant, `InOrderDelivery`, `NoSegmentLost`, `NothingReadyWaits`, `WindowsRespected`, `NoStepBack`, and that `Kcp` implements `KcpChannel` |
| `kcp_live` | one sender, 3 fragments, 1 datagram of up to 4 segments in flight each way, losses | every message arrives (`ImplementsFairChannel`), a closed window opens again (`ZeroWindowEnds`), and the inductive invariant `IInv` |
| `timers` | 2 segments, clock steps of 1 and 3, intervals of 2, one jump of the clock, by -20, -4 or 60, 13 units of time from 8 before the wrap | `FlushGoesOn`, `ResendOnTime`, `NeverEarly`, `RttWithinSamples` |
| `session` | 3 starts | `NoUseAfterRelease`, `OneReceiver`, `NothingLeaks`, `ReceiversEnd` |
| `send_race` | 3 segments | finding: an accepted segment that is lost |
| `hello` | 2 rounds, 33 answers | `KcpNeedsHello`, `AckStartsKcp`, `HelloCleansUp`, `ResumeEnds` |
| `hello_return` | 1 round | finding: 0 without an exchange |
| `quadruples` | 2 threads, 3 MACs, a table of 2 | the table's bound, `DuplicatesBounded`, `EncOfMac` |
| `quadruples_sync` | 1 thread, lists of 3 | finding: a listed entry is removed |
| `taskqueue` | 2 producers, 2 lives of the queue, 4 puts | `NoUseAfterDestroy`, `ImplementsQueue`, `MessagesHandled`, `DeinitEnds` |
| `ringbuf` | 2 readers, 2 openings by them, 3 slots and index entries, 3 frames, 2 openings or resets of the writer, blocking or not | `HeldIntact`, `UnreadIntact`, `HoleCovers` |
| `ringbuf_holes` | 4 index entries, no reset | finding: the writer gets bytes of a hole |

Traffic in both directions at once, with headers that carry data and
acknowledgements of both, is covered by the proofs, which fix nothing about
`MaxSegs`.

**Why the bounds suffice.** Windows of two and three fragments make every window
case happen: a full window, a segment beyond it, one before it, a hole filled
late, `rcv_queue` full with segments waiting in `rcv_buf`, and a window that
closes and reopens. Two datagrams in flight are the least that can be reordered,
and a duplicate can be older than either. `MaxSegs`, `NetCap` and `AckCap` are
bounds of the model (fragments sent, datagrams in flight, acknowledgements
pending before more input is taken); the proofs do not depend on their values.
Three starts let two receive threads survive their `stop` while a third starts.
Two rounds of the binding let an answer arrive in the round after its own.
More MACs than table entries, and lists longer than the table, make the bound
matter; two threads are enough for each of the two gaps in the locking.
Two lives of a task queue let a caller of the first one meet the second, and
four puts fill the list while the thread calls back. In `timers` `Mod` is 128 in
place of 2^32 and the clock starts at 120, so that every behaviour of any length
crosses the wrap; jumps of -20 and 60 are beyond the limit after which
`ikcp_update` replans (5 in place of 10000), -4 is within; timeouts of 3 to 9 are
of the order of the interval, which is when flush and timer interfere; `MaxXmit`
is 7, and a segment is sent no more than six times in 13 units. In
`ringbuf` three frames in a ring for two make the writer go round and meet each
reader; larger instances, with three openings by readers (2.7 million states) or
four frames (2.3 million), pass as well.

**Deadlock** is checked where the system runs for ever (`Kcp`, `KcpSession`, `RepeaterAes`);
`TcpHello` ends after its last round, `TaskQueue`, `CRingBuf` and `KcpTimers`
stop at the bounds of a behaviour, and the finding runs stop where a crash would.

**Fairness.** *Kcp:* the receive thread calls `updateKcp` and `receiveData` for
ever, so the rest of a datagram is parsed (`InputRest`, weakly fair), and
`receiveData` calls `ikcp_recv` after every `ikcp_input`: a datagram that is
being taken apart delays `Recv` and never keeps it away, which makes it strongly
fair. `Input` and `FlushAll` are strongly fair: a flush in which every timer has
run out and of which the network loses nothing happens again and again, and a
datagram that keeps being sent is received. This is what "UDP does not lose
everything" and "time passes" amount to; without it nothing needs to arrive.
`KcpTimers` supports the second: `FlushGoesOn` and `ResendOnTime` bound the time
to the next flush and to the next retransmission. *KcpSession:* the scheduler
runs each receive thread; the main thread, driven by the user, is not fair.
*TaskQueue:* the scheduler runs `Message_Thread`, waits end by their timeout of
2 s, callbacks return, and `pthread_join` returns once the thread has ended;
owner and producers are not fair.
*TcpHello:* the main thread runs on, and `select` ends by its timeout; the
server is not fair.

## 4. Findings

1. `send_race`: `ikcp_send` and `ikcp_flush` change `kcp->snd_queue` from two
   threads without a lock. If flush unlinks the only entry between two
   assignments of `iqueue_add_tail`, the new segment is reachable backwards but
   not forwards: flush finds the queue empty, the segment is never sent, and
   what is sent later is chained behind it.
2. `hello_return`: `tcp_client_send_hello` returns 0 when `select` fails (for
   instance with `EINTR`) and when the server hello has no data, though its
   comment reserves 0 for success; `MainActivity` starts KCP on 0. A frame with
   a wrong magic number, type or text makes it return a positive length.
3. `quadruples_sync`: `repeater_sync_quadruples` converts only the first
   `MAX_AES_KEY_NUM` strings of its list and deletes an entry whose MAC stands
   further back, where its comments say that all strings are converted and that
   the entries *not* in the list are deleted.

4. `ringbuf_holes`: when the black holes leave no room for a frame,
   `BlackholeJump` comes back to where its search began, a whole round further;
   `BUFFER_LEN` makes that 0, and `__RequestWritePtr` grants the bytes at the
   writer's offset although they lie in a hole that a reader still uses. The
   comment where the hole is made says that it is there to make sure the buffer
   is not overwritten. The step in which this happens takes trust from every
   reader, so that `HeldIntact` and `UnreadIntact`, in the `ringbuf` run, say
   that nothing else in the code overwrites what a reader uses.

Two more known weaknesses of the table are bounded rather than excluded: racing
updates may add a MAC as often as there are threads (`DuplicatesBounded`), and a
pointer taken before its entry or one before it is removed may deliver the key of
another MAC, or none. `EncOfMac` says that nothing else can make it do so: an
update under the pointer delivers a torn value or a key and an IV of different
updates, but never those of another MAC.

The task queue has a weakness of this kind: its flags are tested without the
mutex, so that a put which breaks one of the three rules above locks a mutex
that is destroyed or not yet made. `NoUseAfterDestroy` excuses these callers and
does not catch them; what it shows is that they are the only ones, and that
`Message_Thread` is never among them.

A weakness of the ring buffer is an exception of its properties too:
`FindOldesValidIndex` (CRingBuf.cpp:879) measures distances to the writer's
committed offset, while the writer may hold granted bytes beyond it. A seek to
the oldest frame at that moment may give a reader bytes that are being
overwritten; such a reader is not `trusted`.

Two known weaknesses of the session and the binding are stated as exceptions of
properties that hold otherwise. `NoUseAfterRelease` and `OneReceiver` hold until
a `join(100)` gives up. `HelloCleansUp` holds unless connecting, sending or
receiving failed: then the socket stays open (`connected` is 0 already), the
client is freed twice (`send_client_hello` and then the exit), or never.
`KcpNeedsHello` excuses the rounds of the finding `hello_return`, in which 0 is
returned without an exchange.

## 5. Proofs

`KcpProofs` proves for all windows, message sizes and bounds, and for a network
that loses, reorders and repeats datagrams at will:

* `Invariance`: `Spec => [](TypeOK /\ IInv)`;
* `TypeCorrect`, `InOrderTheorem` and `NoLossTheorem`: `TypeOK`,
  `InOrderDelivery` and `NoSegmentLost` are invariants.

The only assumption is `KcpAssumption` on the constants (two different
endpoints, positive windows, sizes in `Nat`).

**The argument.** `InOrderDelivery` is not inductive: a datagram in flight could
carry a wrong fragment or acknowledge what the peer does not hold. `IInv` adds,
for each endpoint,

* `SenderInv`: `snd_queue` continues, from `snd_nxt`, what was written, and what
  `snd_buf` holds under `sn` is the fragment written at that place;
* `ReceiverInv`: the same of `rcv_buf`, which lies at or beyond `rcv_nxt`;
  `rcv_nxt` is at most the peer's `snd_nxt`; what `acklist` names is held;
* `WireInv`: each segment in flight is `Truthful`. Its `una` is at most the
  sender's `rcv_nxt`, data is what was written under its `sn`, and an
  acknowledgement names a segment its sender holds. Both are monotone: `rcv_nxt`
  only grows and what is held stays held, so that a segment remains truthful
  however late it comes (`StillTruthful`). This is why old and repeated
  datagrams do no harm.

One lemma per action (`SendStep`, `InputStep`, `InputRestStep`, `RecvStep`,
`FlushStep`) shows the invariant kept. They share `Combine`, which leaves only
the endpoint that moves and what it sends to look at; `MoveInOrder`, that moving
segments to `rcv_queue` extends the stream; `HeaderEffect`, that taking in a
header forgets only what the peer holds.

`KcpDeliveryProofs` proves first `WindowTheorem`, `NothingWaitsTheorem` and
`NoStepBackTheorem`. The invariant `WInv` says of each endpoint that `snd_buf`
lies between `snd_una` and `snd_nxt`, which are at most a window apart
(`Sending`), and that `rcv_buf` lies within a window of `rcv_nxt` with a segment
at `rcv_nxt` only if `rcv_queue` is full (`Receiving`). `WindowsRespected` alone
is not inductive, since it does not say *where* the buffers lie: an
acknowledgement could shrink `snd_buf` to a `snd_una` beyond `snd_nxt`. The
lemma all receiving steps share, `MoveWindow`, is that the loop that fills
`rcv_queue` stops at a gap or at the window.

It then proves `ChannelRefinement`, `Spec => ImplementsChannel`. That
`read` is a prefix of `written` does not show that `ikcp_recv` returns *whole*
messages; for that, `WholeMessages` shows that in `written` each fragment's
`frg` counts down to 0 at the end of its message (`CountsDown`). By
`InOrderDelivery` the same holds of what waits in `rcv_queue`, so the merge loop
stops where the message ended (`MergeEnds`), and `ikcp_recv` is the channel's
delivery of the next message (`RecvChannel`). `Send` is the channel's `ChSend`,
and the other actions are stutters.

`KcpTimersProofs` proves all five properties of `KcpTimers`, for every even `Mod`,
any intervals and timeouts that `ClockAssumption` allows, and any jumps of the
wall clock. Of the parts of `KTInv`,

* `Plan` says where `ts_flush` is: ahead of the clock by what is left of the
  interval, or of `JumpLimit` after a jump. `FlushGoesOn` compares two *times*
  and says nothing of `ts_flush`, and a state with `ts_flush` half a clock away
  would satisfy it and never flush again; hence the strengthening;
* `Timers` says the same of `resendts`, for a segment whose timer is steady: it
  was not due at the last flush (`since`), and is due `rto` after it was sent.
  Together with `Plan` this is `ResendOnTime`; that the timer is due *only* then
  (`DueInTime`) is `NeverEarly`. `rto` is at most `RtoMax` for each transmission;
* `Echoes` says that an acknowledgement under way carries the clock of the
  transmission it is for, as far back as that was, so that the sample is at most
  the real round trip (`RoundTrip`); beyond half a clock it is less.

Underneath lies arithmetic modulo `Mod`: a remainder is unique (`OneRemainder`),
so that clocks may be moved on in one go or in two (`LaterTwice`),
`_itimediff` of two clocks `n` apart is `n` as a signed number (`DiffOfLater`),
and every timestamp is as far away as `_itimediff` says (`LaterOfDiff`).
`SmoothedBound` shows that the wrapping product of `ikcp_update_ack` can only make
the smoothed round trip time too small; the variation is right as long as its
threefold fits (`VariationBound`), which `RttWithinSamples` asks for.

`KcpSessionProofs` proves all four safety properties of `KcpSession` for any
number of starts. Of the parts of `KSInv`, `Globals` says what `kcp`, `udp_fd`,
the blocks and the sockets are at each step of `start` and `stop`, and `Client`
ties `running` and `recvThread` to the main thread's place; the two give
`SessionLeakFree`: a stopped session leaves no block and no socket behind, and a
start finds none, whether or not `bind` succeeds. `Receivers` says that until a join gives up only `recvThread`
lives, only while the session is up, and works on the session's block; this
gives `SessionSafety` and `SingleReceiver`.

`TcpHelloProofs` proves the safety properties of `TcpHello` for any number of
rounds. `HInv` has a part for the rounds to come (`Future`), the round under way,
step by step (`Current`), and the rounds that are over (`Past`), besides types
and that a connected client has an open socket (`Sockets`). The properties are
about rounds that are over; `Agreed` and `Clean`, at the exit of the round under
way, are what makes them so.

`RepeaterAesProofs` proves the table's bound, `RepeaterDuplicates` and
`RepeaterReads` for any finite set of threads, any MACs and any size of the
table. `DuplicatesBounded` counts the entries of a MAC *together with* the
additions of it that are under way, which is what makes it inductive;
For `EncOfMac`, `AllFaithful` says that no entry holds a key or an IV of another
MAC, and `Unmoved` that the slot of a thread nobody has moved is still an entry of
its MAC. Every function that removes entries is a `Keep`: `KeepTable` says that
what is left are entries of the old table, and `KeepSlots` that those before the
first place removed stay where they are. The latter rests on `FixedPrefix`, of an
increasing sequence of places, which looks at the least place that is moved.

`TaskQueueProofs` proves `QueueSafety` and `QueueRefinement`, that
`TaskQueue` implements `WorkQueue`, for any number of producers, lives and
messages. `TQInv` says when the locks exist and what the flags then are
(`Lifecycle`), and that a caller that keeps the rules is past its tests only while
nobody makes or tears down the queue, and has not even begun before the locks are
made (`SoundCallers`); the latter carries a caller over the gap between its reads
of `init` and `iLoopThreadRun`. In the refinement the message
being called back for and the list make up the abstract `pending` (`Waiting`).

`CRingBufProofs` proves all four properties of `CRingBuf`, for buffers,
alignments and indexes of any size, any number of readers and slots, frames of
any size, and any number of restarts. Neither `UnreadIntact` nor `HeldIntact` is
inductive: each says that nothing *has been* overwritten, and nothing of where
the writer may go next. `IInv` says so for every trusted reader (`Safe`):

* `Good`: from its index on the frames are whole and lie one behind the other up
  to the writer, so that a frame the reader is moved on to, or reads next, is
  again ahead of the writer by what `GetWritableSize` says;
* `RoomFor`: what the writer has been granted ends before the reader, so that the
  position is still good after the commit, which moves the writer that far;
* `HoldOK`: the frame it holds is the one at its position, or there is a hole of
  just that frame;
* `AwayAt`: the frame that it holds and has been moved away from is crossed by no
  frame it has yet to read and by nothing granted, and the writer does not stand
  at its end when there is nothing to read. The last is what a reset and the
  next frames need: the search of `BlackholeJump` starts at the writer's offset.

`TryWrite` has two parts. That readers stay safe when they are moved on is
`SafeMovedOn` for one of them and `SafeRound` for a round of `MoveAllBlockers`;
that a reader which is *not* moved has room enough left is the comparison of
sizes in `__RequestWritePtr` (`SafeGranted`). That the grant lies clear of the
holes is `JumpClear`. `BlackHoleSortMerge` is a fold over a set of holes, and
`MergedIs` shows of any finite set that the result is in the order in which the
writer meets the holes, that its holes lie apart, and that it covers every hole
of the set (but one that ends where the writer stands, which is the last bullet
above). As no induction over data is at hand, the proof takes a smallest set
for which this fails, by cardinality, and looks at the hole that is merged last.
The other actions move the writer to the start (`ResetAllUser`), change what
one reader has (`Safe` of the others mentions only their own slots and holes),
or take trust away.

Assumptions: the named assumption of each module (`KcpAssumption`,
`KcpTimersAssumption`, `SessionAssumption`, `HelloAssumption`, `RepeaterAssumption`,
`TaskQueueAssumption`, `CRingBufAssumption`), which state only that bounds are
natural numbers, the windows positive, the threads of the table finite, and no
MAC or reader the model's "none"; for `KcpTimers` besides these
`ClockAssumption`; for `CRingBuf` that sizes are positive, no frame is longer
than the buffer, the buffer's length is a multiple of the alignment (512 bytes;
the buffer consists of whole pages), and the index has three slots or more
(`MAX_FRAME_NUM` is 896).

**Checked by TLC only:** the finding runs, and liveness (`ImplementsFairChannel`,
`ZeroWindowEnds`, `ReceiversEnd`, `ResumeEnds`, `MessagesHandled`, `DeinitEnds`),
which is out of the prover's reach. Every safety property of the other runs is
a theorem.

## 6. Not modelled

* `ikcp.c`: stream mode (never switched on), congestion control (switched off in
  `initKcp`), `ikcp_check` (it changes nothing and nobody calls it), the values
  of the probe timers, failing allocation, `ikcp_setmtu`, and datagrams that
  `ikcp_input` rejects. A message longer than the buffer of `receiveData` stays
  at the head of `rcv_queue` for ever; `Kcp` has that guard (`RecvFrags`), and
  `kcp_live` keeps messages within it.
* `KcpClient.kt`: `recvBuffer` and the AES packages. It belongs to the receive
  thread as long as `OneReceiver` holds; `stop` does not empty it, so a package
  cut off by `stop` shifts those of the next session.
* `tcp_client.c`: `TcpClient.sendData`, `recvData` and `release`, which the app
  does not call.
* `common_sock.c`: loops over `send`, `recv` and `select` that keep no state
  between calls; `TcpHello` takes their outcome as complete or failed.
* `repeater_aes.c`: the client quadruple, the master MAC and the default key
  (copies under the mutex), load and save (commented out in the source).
* `wo_aes.c`, `aes_key_gen.c`: sequential computations on the caller's buffer,
  and random strings. The cipher is mbedtls.
* `task_queue.c`: the synchronous mode, in which `Message_Init` runs the loop
  itself, the detached mode, which nothing switches on, and failing system calls.
* `CRingBuf.cpp`: `RequestReadContinuousFrames`, `RequestReadNextFrameStamp`
  (which moves a reader on without a hold on the frame), the requests for bytes
  instead of frames (`RequestWritePtr`, `RequestReadPtr`), the `liveStream` mode,
  statistics, dumps, and the recovery of a mutex whose owner died. A commit is of
  the whole request, never of a smaller size or of 0. A reader commits before it
  requests again: a request while it holds a frame deletes the hole of that frame
  (line 1549), and after it nothing protects the pointer it still has. A read that
  fails deletes the reader's hole too, which changes nothing when it holds
  nothing. The refusal to write when no consumer is installed (line 1308) asks for
  `pOutBlockers == NULL`, as in `RequestWritePtr`; `RequestWriteFrame` always
  passes an array, in blocking mode too, so that it does not apply to frames.
  `ringbuffer.cpp` is its C interface; `ringbuf.c` an older buffer for one thread.
* Queues, character buffer: one short critical section per call, or one thread.
  The two weaknesses of the queues (a bound that one of two put functions does
  not test; a buffer shared by all consumers) are visible in a single function
  and would only be restated by a property.
* The rest of `cpp/common/`: parsers for BLE and UART, codecs and file formats,
  directories, parameters in files, wrappers of nng and of system calls, a state
  machine library, a second copy of KCP. None of it is built into the app.
* `cpp/mbedtls/` is vendored, and most of the repository's lines. The map's share
  of all lines is small for this reason: the parts with state of their own that
  several actors change are modelled, and what is left is third-party code,
  tables of constants, codecs and system calls.

## 7. What could follow

* `KcpSession` and `Kcp` are joined by their interface only: the session says
  when a control block may be used, `Kcp` what happens while it is. A module that
  composes them would restart one end of `Kcp` with the other still running, with
  the same `conv`; the code has no handshake that would tell the two sessions
  apart, so the properties of `Kcp` end with the session.
* `CRingBuf` with continuous reads and the `liveStream` mode, whose readers hold
  several frames at a time.
