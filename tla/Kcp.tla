-------------------------------- MODULE Kcp --------------------------------
(***************************************************************************)
(* Two KCP control blocks (ikcp/ikcp.c) talking over UDP.                  *)
(*                                                                         *)
(* Each variable is a function of the endpoint and keeps the name of the   *)
(* field of struct IKCPCB it stands for.  A queue of segments that the     *)
(* code keeps sorted by sn (snd_buf, rcv_buf) is a function from the sn's  *)
(* it holds to the payload; the FIFO queues (snd_queue, rcv_queue,         *)
(* acklist) are sequences, and the counters nsnd_que, nrcv_que, ... are    *)
(* their lengths.  Sequence numbers are naturals: fewer than 2^31 segments *)
(* are sent, so _itimediff is subtraction.                                 *)
(*                                                                         *)
(* Clocks are left out: a retransmission timer, fast retransmit or window  *)
(* probe timer may be due in any ikcp_flush.  The congestion window is     *)
(* off, as initKcp configures it (ikcp_nodelay(kcp, 1, 10, 2, 1)).         *)
(*                                                                         *)
(* written and read are history variables: the fragments ikcp_send has     *)
(* accepted and the fragments ikcp_recv has returned, in order.            *)
(***************************************************************************)
EXTENDS Integers, Sequences, FiniteSets

CONSTANTS A, B,        \* the two endpoints
          SndWnd,      \* kcp->snd_wnd
          RcvWnd,      \* kcp->rcv_wnd
          InitRmtWnd,  \* kcp->rmt_wnd before the peer has advertised one
          MtuSegs,     \* segments that fit into one datagram (mtu)
          RecvFrags,   \* fragments that fit into the buffer given to ikcp_recv
          MaxFrags,    \* most fragments of one message
          MaxSegs,     \* bound: fragments each endpoint sends in a behaviour
          NetCap,      \* bound: datagrams in flight towards an endpoint
          AckCap,      \* bound: acknowledgements pending at an endpoint
          AllowDup     \* whether UDP may deliver a datagram twice

ASSUME KcpAssumption ==
    /\ A # B
    /\ SndWnd \in Nat \ {0} /\ RcvWnd \in Nat \ {0} /\ InitRmtWnd \in Nat
    /\ MtuSegs \in Nat \ {0} /\ RecvFrags \in Nat \ {0}
    /\ MaxFrags \in 1..255 /\ NetCap \in Nat /\ AckCap \in Nat
    /\ MaxSegs \in [{A, B} -> Nat] /\ AllowDup \in BOOLEAN

Peer == {A, B}
Other(p) == IF p = A THEN B ELSE A

VARIABLES snd_queue, snd_buf, snd_una, snd_nxt, rmt_wnd,
          rcv_nxt, rcv_buf, rcv_queue, acklist, probe, probe_wait,
          inp,           \* rest of the datagram an ikcp_input call is parsing
          net,           \* datagrams in flight towards each endpoint
          written, read

sndVars == <<snd_queue, snd_buf, snd_una, snd_nxt, rmt_wnd>>
rcvVars == <<rcv_nxt, rcv_buf, rcv_queue, acklist>>
vars == <<snd_queue, snd_buf, snd_una, snd_nxt, rmt_wnd, rcv_nxt, rcv_buf,
          rcv_queue, acklist, probe, probe_wait, inp, net, written, read>>

-----------------------------------------------------------------------------
(* A fragment: the message it belongs to (named by the position of its     *)
(* first fragment) and how many fragments of that message follow it.       *)
Frag == [msg : Nat, frg : Nat]

Segment ==
    [cmd : {"PUSH"}, sn : Nat, una : Nat, wnd : Nat, seg : Frag]
        \cup [cmd : {"ACK"}, sn : Nat, una : Nat, wnd : Nat]
        \cup [cmd : {"WASK", "WINS"}, una : Nat, wnd : Nat]

MinOf(a, b) == IF a <= b THEN a ELSE b
Keep(f, S) == [x \in S |-> f[x]]

-----------------------------------------------------------------------------
(* The helpers of ikcp_input on the sender's list. *)

\* Slip: _itimediff(una, seg->sn) >= 0 also drops the segment una itself.
ParseUnaInclusive(buf, una) == Keep(buf, {n \in DOMAIN buf : n > una})

ParseUna(buf, una) == Keep(buf, {n \in DOMAIN buf : n >= una})

\* Slip: an acknowledgement taken as cumulative.
ParseAckUpTo(buf, una, nxt, sn) ==
    IF sn < una \/ sn >= nxt THEN buf ELSE Keep(buf, {n \in DOMAIN buf : n > sn})

ParseAck(buf, una, nxt, sn) ==
    IF sn < una \/ sn >= nxt THEN buf ELSE Keep(buf, DOMAIN buf \ {sn})

\* snd_una becomes the oldest unacknowledged sn, snd_nxt when there is none.
ShrinkBuf(buf, nxt) ==
    IF DOMAIN buf = {} THEN nxt
    ELSE CHOOSE m \in DOMAIN buf : \A n \in DOMAIN buf : m <= n

\* Slip: an if in place of the while.
MovesOne(n, buf, queueLen, nxt) ==
    n = IF nxt \in DOMAIN buf /\ queueLen < RcvWnd THEN 1 ELSE 0

\* The loop that moves rcv_buf -> rcv_queue stops after exactly n segments.
Moves(n, buf, queueLen, nxt) ==
    /\ \A i \in 0..(n - 1) : nxt + i \in DOMAIN buf /\ queueLen + i < RcvWnd
    /\ ~(nxt + n \in DOMAIN buf /\ queueLen + n < RcvWnd)

\* Slip: iqueue_add in place of iqueue_add_tail.
MoveToHead(p, buf, queue) ==
    \E n \in 0..Cardinality(DOMAIN buf) :
        /\ Moves(n, buf, Len(queue), rcv_nxt[p])
        /\ rcv_buf' = [rcv_buf EXCEPT ![p] =
                          Keep(buf, DOMAIN buf \ (rcv_nxt[p]..(rcv_nxt[p] + n - 1)))]
        /\ rcv_queue' = [rcv_queue EXCEPT ![p] =
                          [i \in 1..n |-> buf[rcv_nxt[p] + n - i]] \o queue]
        /\ rcv_nxt' = [rcv_nxt EXCEPT ![p] = @ + n]

\* The receive side of p once n segments of buf have moved behind queue.
MoveToQueue(p, buf, queue) ==
    \E n \in 0..Cardinality(DOMAIN buf) :
        /\ Moves(n, buf, Len(queue), rcv_nxt[p])
        /\ rcv_buf' = [rcv_buf EXCEPT ![p] =
                          Keep(buf, DOMAIN buf \ (rcv_nxt[p]..(rcv_nxt[p] + n - 1)))]
        /\ rcv_queue' = [rcv_queue EXCEPT ![p] =
                          queue \o [i \in 1..n |-> buf[rcv_nxt[p] + i - 1]]]
        /\ rcv_nxt' = [rcv_nxt EXCEPT ![p] = @ + n]

WndUnused(p) == IF Len(rcv_queue[p]) < RcvWnd THEN RcvWnd - Len(rcv_queue[p]) ELSE 0

-----------------------------------------------------------------------------
Init ==
    /\ snd_queue = [p \in Peer |-> <<>>] /\ snd_buf = [p \in Peer |-> <<>>]
    /\ snd_una = [p \in Peer |-> 0] /\ snd_nxt = [p \in Peer |-> 0]
    /\ rmt_wnd = [p \in Peer |-> InitRmtWnd]
    /\ rcv_nxt = [p \in Peer |-> 0] /\ rcv_buf = [p \in Peer |-> <<>>]
    /\ rcv_queue = [p \in Peer |-> <<>>] /\ acklist = [p \in Peer |-> <<>>]
    /\ probe = [p \in Peer |-> {}] /\ probe_wait = [p \in Peer |-> FALSE]
    /\ inp = [p \in Peer |-> <<>>] /\ net = [p \in Peer |-> {}]
    /\ written = [p \in Peer |-> <<>>] /\ read = [p \in Peer |-> <<>>]

\* Slip: frg counts one fragment too few.
FragmentsShort(m, count) == [i \in 1..count |-> [msg |-> m, frg |-> count - i - 1]]

\* The fragments of a message of count fragments that starts at position m.
Fragments(m, count) == [i \in 1..count |-> [msg |-> m, frg |-> count - i]]

(* ikcp_send: split the message and append it to snd_queue.  The main      *)
(* thread calls it, so it may run while an ikcp_input loop is under way.   *)
Send(p) ==
    \E count \in 1..MaxFrags :
        /\ Len(written[p]) + count <= MaxSegs[p]
        /\ LET frags == Fragments(Len(written[p]) + 1, count)
           IN /\ snd_queue' = [snd_queue EXCEPT ![p] = @ \o frags]
              /\ written' = [written EXCEPT ![p] = @ \o frags]
        /\ UNCHANGED <<snd_buf, snd_una, snd_nxt, rmt_wnd, rcvVars, probe,
                       probe_wait, inp, net, read>>

-----------------------------------------------------------------------------
(* ikcp_input *)

AckPush(p, sn) == acklist' = [acklist EXCEPT ![p] = Append(@, sn)]

\* ikcp_parse_data: keep a segment that is not there yet, then move.
ParseData(p, sn, seg) ==
    LET buf == IF sn \in DOMAIN rcv_buf[p] THEN rcv_buf[p]
               ELSE [n \in DOMAIN rcv_buf[p] \cup {sn} |->
                         IF n = sn THEN seg ELSE rcv_buf[p][n]]
    IN MoveToQueue(p, buf, rcv_queue[p])

\* Slip: a segment that has been received before is not acknowledged again.
PushOnce(p, sn, seg) ==
    \/ /\ sn >= rcv_nxt[p] + RcvWnd \/ sn < rcv_nxt[p]
       /\ UNCHANGED rcvVars
    \/ /\ sn \in rcv_nxt[p]..(rcv_nxt[p] + RcvWnd - 1)
       /\ AckPush(p, sn)
       /\ ParseData(p, sn, seg)

\* A segment beyond the window is ignored; an old one is only acknowledged.
Push(p, sn, seg) ==
    \/ /\ sn >= rcv_nxt[p] + RcvWnd
       /\ UNCHANGED rcvVars
    \/ /\ sn < rcv_nxt[p]
       /\ AckPush(p, sn)
       /\ UNCHANGED <<rcv_nxt, rcv_buf, rcv_queue>>
    \/ /\ sn \in rcv_nxt[p]..(rcv_nxt[p] + RcvWnd - 1)
       /\ AckPush(p, sn)
       /\ ParseData(p, sn, seg)

\* Slip: snd_una taken from the header, however old the datagram is.
ParseHeaderTrusting(p, s) ==
    /\ rmt_wnd' = [rmt_wnd EXCEPT ![p] = s.wnd]
    /\ snd_buf' = [snd_buf EXCEPT ![p] = ParseUna(@, s.una)]
    /\ snd_una' = [snd_una EXCEPT ![p] = s.una]

\* Slip: the window is taken only from a header that acknowledges something.
ParseHeaderNews(p, s) ==
    LET b1 == ParseUna(snd_buf[p], s.una)
        b2 == IF s.cmd = "ACK"
              THEN ParseAck(b1, ShrinkBuf(b1, snd_nxt[p]), snd_nxt[p], s.sn)
              ELSE b1
    IN /\ rmt_wnd' = [rmt_wnd EXCEPT ![p] = IF b2 # snd_buf[p] THEN s.wnd ELSE @]
       /\ snd_buf' = [snd_buf EXCEPT ![p] = b2]
       /\ snd_una' = [snd_una EXCEPT ![p] = ShrinkBuf(b2, snd_nxt[p])]

\* The header of a segment: the window, una and, of an ACK, sn.
ParseHeader(p, s) ==
    LET b1 == ParseUna(snd_buf[p], s.una)
        b2 == IF s.cmd = "ACK"
              THEN ParseAck(b1, ShrinkBuf(b1, snd_nxt[p]), snd_nxt[p], s.sn)
              ELSE b1
    IN /\ rmt_wnd' = [rmt_wnd EXCEPT ![p] = s.wnd]
       /\ snd_buf' = [snd_buf EXCEPT ![p] = b2]
       /\ snd_una' = [snd_una EXCEPT ![p] = ShrinkBuf(b2, snd_nxt[p])]

\* One iteration of the loop of ikcp_input.
ParseSegment(p, s) ==
    /\ ParseHeader(p, s)
    /\ \/ s.cmd = "PUSH" /\ Push(p, s.sn, s.seg) /\ UNCHANGED probe
       \/ s.cmd = "WASK" /\ probe' = [probe EXCEPT ![p] = @ \cup {"ASK_TELL"}]
                         /\ UNCHANGED rcvVars
       \/ s.cmd \in {"ACK", "WINS"} /\ UNCHANGED <<rcvVars, probe>>
    /\ UNCHANGED <<snd_queue, snd_nxt, probe_wait, written, read>>

(* recvfrom hands a datagram to ikcp_input, which parses its first segment *)
(* here and the others in InputRest.  The network delivers in any order    *)
(* and may keep a copy for later.                                          *)
Input(p) ==
    /\ inp[p] = <<>> /\ Len(acklist[p]) < AckCap
    /\ \E d \in net[p] :
        /\ ParseSegment(p, Head(d))
        /\ inp' = [inp EXCEPT ![p] = Tail(d)]
        /\ \/ net' = [net EXCEPT ![p] = @ \ {d}]
           \/ AllowDup /\ UNCHANGED net

InputRest(p) ==
    /\ inp[p] # <<>>
    /\ ParseSegment(p, Head(inp[p]))
    /\ inp' = [inp EXCEPT ![p] = Tail(@)]
    /\ UNCHANGED net

-----------------------------------------------------------------------------
(* ikcp_recv returns the message at the head of rcv_queue when all of it   *)
(* is there and it fits into the caller's buffer.                          *)

\* Slip: the loop does not stop at the end of a message.
MessageLenRunsOn(n, q) == n = Len(q)

\* The loop that merges fragments stops after n of them.
MessageLen(n, q) ==
    /\ \A i \in 1..(n - 1) : q[i].frg # 0
    /\ q[n].frg = 0 \/ n = Len(q)

Recv(p) ==
    LET q == rcv_queue[p]
        full == Len(q) >= RcvWnd
    IN /\ inp[p] = <<>> /\ q # <<>>
       /\ Len(q) >= q[1].frg + 1
       /\ \E n \in 1..Len(q) :
            /\ MessageLen(n, q) /\ n <= RecvFrags
            /\ read' = [read EXCEPT ![p] = @ \o SubSeq(q, 1, n)]
            /\ MoveToQueue(p, rcv_buf[p], SubSeq(q, n + 1, Len(q)))
       /\ probe' = [probe EXCEPT ![p] =
                       IF full /\ Len(rcv_queue'[p]) < RcvWnd
                       THEN @ \cup {"ASK_TELL"} ELSE @]
       /\ UNCHANGED <<sndVars, acklist, probe_wait, inp, net, written>>

-----------------------------------------------------------------------------
(* ikcp_flush *)

Acks(p) == [i \in 1..Len(acklist[p]) |->
               [cmd |-> "ACK", sn |-> acklist[p][i],
                una |-> rcv_nxt[p], wnd |-> WndUnused(p)]]

Probe(p, cmd) == [cmd |-> cmd, una |-> rcv_nxt[p], wnd |-> WndUnused(p)]

Data(p, sn, buf) == [cmd |-> "PUSH", sn |-> sn, una |-> rcv_nxt[p],
                     wnd |-> WndUnused(p), seg |-> buf[sn]]

\* Slip: the window counted from snd_nxt in place of snd_una.
RoomFromNxt(p) == MinOf(Len(snd_queue[p]), MinOf(SndWnd, rmt_wnd[p]))

\* How many segments the window lets flush move from snd_queue to snd_buf.
Room(p) ==
    LET last == snd_una[p] + MinOf(SndWnd, rmt_wnd[p])
    IN IF snd_nxt[p] < last THEN MinOf(Len(snd_queue[p]), last - snd_nxt[p]) ELSE 0

\* The enumerations of a set of sequence numbers in the order of snd_buf.
Ascending(S) == {f \in [1..Cardinality(S) -> S] :
                    \A i, j \in 1..Cardinality(S) : i < j => f[i] < f[j]}

\* Packing into the mtu-sized buffer: every MtuSegs segments a datagram.
Datagrams(s) ==
    {SubSeq(s, k + 1, MinOf(k + MtuSegs, Len(s))) :
        k \in {j \in 0..(Len(s) - 1) : j % MtuSegs = 0}}

\* UDP takes some of the datagrams and drops the others.
Output(p, lost, dgrams) ==
    /\ Cardinality(net[Other(p)] \cup (dgrams \ lost)) <= NetCap
    /\ net' = [net EXCEPT ![Other(p)] = @ \cup (dgrams \ lost)]

(* due: segments of snd_buf whose retransmission is due; elapsed: the      *)
(* probe timer has run out; lossless: the network takes every datagram.    *)
FlushWith(p, due, elapsed, lossless) ==
    LET n == Room(p)
        ask == rmt_wnd[p] = 0 /\ probe_wait[p] /\ elapsed
        wask == IF ask THEN <<Probe(p, "WASK")>> ELSE <<>>
        wins == IF "ASK_TELL" \in probe[p] THEN <<Probe(p, "WINS")>> ELSE <<>>
        fresh == snd_nxt[p]..(snd_nxt[p] + n - 1)
        buf == [sn \in DOMAIN snd_buf[p] \cup fresh |->
                   IF sn \in fresh THEN snd_queue[p][sn - snd_nxt[p] + 1]
                   ELSE snd_buf[p][sn]]
    IN /\ inp[p] = <<>>
       /\ snd_buf' = [snd_buf EXCEPT ![p] = buf]
       /\ snd_queue' = [snd_queue EXCEPT ![p] = SubSeq(@, n + 1, Len(@))]
       /\ snd_nxt' = [snd_nxt EXCEPT ![p] = @ + n]
       /\ acklist' = [acklist EXCEPT ![p] = <<>>]
       /\ probe' = [probe EXCEPT ![p] = {}]
       /\ probe_wait' = [probe_wait EXCEPT ![p] = (rmt_wnd[p] = 0)]
       /\ \E order \in Ascending(due \cup fresh) :
            LET data == [i \in DOMAIN order |-> Data(p, order[i], buf)]
                out == Datagrams(Acks(p) \o wask \o wins \o data)
            IN \E lost \in IF lossless THEN {{}} ELSE SUBSET out : Output(p, lost, out)
       /\ UNCHANGED <<snd_una, rmt_wnd, rcv_nxt, rcv_buf, rcv_queue, inp, written, read>>

Flush(p) == \E due \in SUBSET DOMAIN snd_buf[p], elapsed \in BOOLEAN :
                FlushWith(p, due, elapsed, FALSE)

\* Every timer has run out and UDP loses nothing: what keeps happening.
FlushAll(p) == FlushWith(p, DOMAIN snd_buf[p], TRUE, TRUE)

Next == \E p \in Peer : Send(p) \/ Input(p) \/ InputRest(p) \/ Recv(p) \/ Flush(p)

Spec == Init /\ [][Next]_vars

(* The recvThread of KcpClient calls updateKcp and receiveData for ever,   *)
(* and receiveData calls ikcp_recv after every ikcp_input, so a datagram   *)
(* that is being taken apart delays it but never keeps it away; time       *)
(* passes, and UDP does not lose every datagram.                           *)
Fairness == \A p \in Peer : /\ WF_vars(InputRest(p)) /\ SF_vars(Recv(p))
                            /\ SF_vars(Input(p)) /\ SF_vars(FlushAll(p))
FairSpec == Spec /\ Fairness

-----------------------------------------------------------------------------
(* Types *)

\* A segment list indexed by sequence number.
IsBuffer(f) == DOMAIN f \subseteq Nat /\ \A n \in DOMAIN f : f[n] \in Frag

\* The fields of struct IKCPCB, the datagrams and the histories.
TypeOK ==
    /\ DOMAIN snd_buf = Peer /\ DOMAIN rcv_buf = Peer
    /\ \A p \in Peer : IsBuffer(snd_buf[p]) /\ IsBuffer(rcv_buf[p])
    /\ snd_queue \in [Peer -> Seq(Frag)] /\ rcv_queue \in [Peer -> Seq(Frag)]
    /\ written \in [Peer -> Seq(Frag)] /\ read \in [Peer -> Seq(Frag)]
    /\ snd_una \in [Peer -> Nat] /\ snd_nxt \in [Peer -> Nat]
    /\ rcv_nxt \in [Peer -> Nat] /\ rmt_wnd \in [Peer -> Nat]
    /\ acklist \in [Peer -> Seq(Nat)]
    /\ probe \in [Peer -> SUBSET {"ASK_TELL"}] /\ probe_wait \in [Peer -> BOOLEAN]
    /\ inp \in [Peer -> Seq(Segment)]
    /\ net \in [Peer -> SUBSET (Seq(Segment) \ {<<>>})]

-----------------------------------------------------------------------------
(* Properties *)

(* What ikcp_recv has returned is a prefix of what the peer gave           *)
(* ikcp_send: nothing lost, repeated, reordered or mixed up, whatever UDP  *)
(* does.  What waits in rcv_queue continues that prefix up to rcv_nxt.     *)
InOrder(p) ==
    LET w == written[Other(p)]
    IN /\ Len(read[p]) + Len(rcv_queue[p]) = rcv_nxt[p]
       /\ rcv_nxt[p] <= Len(w)
       /\ \A i \in 1..Len(read[p]) : read[p][i] = w[i]
       /\ \A i \in 1..Len(rcv_queue[p]) : rcv_queue[p][i] = w[Len(read[p]) + i]
InOrderDelivery == \A p \in Peer : InOrder(p)

\* p holds the segment sn of its peer: moved to rcv_queue or in rcv_buf.
Holds(p, sn) == sn < rcv_nxt[p] \/ sn \in DOMAIN rcv_buf[p]

(* The sender forgets a segment (ikcp_parse_una, ikcp_parse_ack) only when *)
(* the peer holds it: there is no other copy to retransmit.                *)
NoSegmentLost ==
    \A p \in Peer : \A sn \in 0..(snd_nxt[p] - 1) :
        sn \in DOMAIN snd_buf[p] \/ Holds(Other(p), sn)

(* A segment that could be moved to rcv_queue never waits in rcv_buf:      *)
(* after ikcp_input and ikcp_recv the segment rcv_nxt is there only when   *)
(* rcv_queue is full.  Otherwise it would sit there until another arrives. *)
NothingReadyWaits ==
    \A p \in Peer : rcv_nxt[p] \in DOMAIN rcv_buf[p] => Len(rcv_queue[p]) >= RcvWnd

(* Windows: rcv_queue never outgrows rcv_wnd, rcv_buf stays inside         *)
(* [rcv_nxt, rcv_nxt + rcv_wnd), and at most snd_wnd segments are in       *)
(* flight.                                                                 *)
WindowsRespected ==
    \A p \in Peer :
        /\ Len(rcv_queue[p]) <= RcvWnd
        /\ DOMAIN rcv_buf[p] \subseteq rcv_nxt[p]..(rcv_nxt[p] + RcvWnd - 1)
        /\ DOMAIN snd_buf[p] \subseteq snd_una[p]..(snd_nxt[p] - 1)
        /\ snd_nxt[p] - snd_una[p] \in 0..SndWnd

\* The counters do not go back, and what was read stays read.
Forward == \A p \in Peer : /\ snd_una'[p] >= snd_una[p]
                           /\ rcv_nxt'[p] >= rcv_nxt[p]
                           /\ \A i \in 1..Len(read[p]) : read'[p][i] = read[p][i]

(* A reordered or repeated datagram carries an old una and an old wnd; it  *)
(* never moves snd_una or rcv_nxt back, nor takes back what was read.      *)
NoStepBack == [][Forward]_vars

\* The pair of control blocks implements the message channel.
Channel == INSTANCE KcpChannel
               WITH A <- A, B <- B, MaxFrags <- MaxFrags, MaxSegs <- MaxSegs,
                    written <- written, read <- read
ImplementsChannel == Channel!ChSpec
ImplementsFairChannel == Channel!ChFairSpec

(* A sender that knows a zero window learns in the end that it is open     *)
(* again: the WINS of ikcp_recv may be lost, the window probes go on.      *)
ZeroWindowEnds == \A p \in Peer : rmt_wnd[p] = 0 ~> rmt_wnd[p] # 0

-----------------------------------------------------------------------------
(* The inductive invariant behind InOrderDelivery and NoSegmentLost.       *)

\* f is what p sends with sequence number sn.
Carries(p, sn, f) == sn < snd_nxt[p] /\ f = written[p][sn + 1]

SenderInv(p) ==
    /\ snd_nxt[p] + Len(snd_queue[p]) = Len(written[p])
    /\ \A i \in 1..Len(snd_queue[p]) : snd_queue[p][i] = written[p][snd_nxt[p] + i]
    /\ \A sn \in DOMAIN snd_buf[p] : Carries(p, sn, snd_buf[p][sn])

ReceiverInv(p) ==
    /\ rcv_nxt[p] <= snd_nxt[Other(p)]
    /\ \A sn \in DOMAIN rcv_buf[p] :
          sn >= rcv_nxt[p] /\ Carries(Other(p), sn, rcv_buf[p][sn])
    /\ \A i \in 1..Len(acklist[p]) : Holds(p, acklist[p][i])

\* A segment on its way to p says what is true of its sender.
Truthful(p, s) ==
    /\ s.una <= rcv_nxt[Other(p)]
    /\ s.cmd = "PUSH" => Carries(Other(p), s.sn, s.seg)
    /\ s.cmd = "ACK" => Holds(Other(p), s.sn)

AllTruthful(p, d) == \A i \in 1..Len(d) : Truthful(p, d[i])

WireInv(p) == AllTruthful(p, inp[p]) /\ \A d \in net[p] : AllTruthful(p, d)

IInv == /\ InOrderDelivery /\ NoSegmentLost
        /\ \A p \in Peer : SenderInv(p) /\ ReceiverInv(p) /\ WireInv(p)

=============================================================================
