------------------------- MODULE KcpDeliveryProofs -------------------------
(***************************************************************************)
(* Proofs about Kcp, continued: the windows are respected, no segment that *)
(* is ready waits, and the two control blocks implement KcpChannel, so     *)
(* ikcp_recv returns the messages given to ikcp_send whole, once and in    *)
(* order.  All of it for all windows, message sizes and bounds.            *)
(***************************************************************************)
EXTENDS KcpProofs

-----------------------------------------------------------------------------
(* Windows *)

\* snd_buf lies between snd_una and snd_nxt, which are at most a window apart.
Sending(p) ==
    /\ DOMAIN snd_buf[p] \subseteq snd_una[p]..(snd_nxt[p] - 1)
    /\ snd_nxt[p] - snd_una[p] \in 0..SndWnd

\* rcv_queue and rcv_buf are within the window, and nothing ready waits.
Receiving(p) ==
    /\ Len(rcv_queue[p]) <= RcvWnd
    /\ DOMAIN rcv_buf[p] \subseteq rcv_nxt[p]..(rcv_nxt[p] + RcvWnd - 1)
    /\ rcv_nxt[p] \in DOMAIN rcv_buf[p] => Len(rcv_queue[p]) >= RcvWnd

WInv == \A p \in Peer : Sending(p) /\ Receiving(p)

-----------------------------------------------------------------------------
\* The loop of ikcp_parse_data and ikcp_recv stops at a gap or a full queue.
LEMMA MoveWindow ==
    ASSUME TypeOK, NEW p \in Peer, NEW buf, IsBuffer(buf),
           NEW queue \in Seq(Frag), MoveToQueue(p, buf, queue),
           DOMAIN buf \subseteq rcv_nxt[p]..(rcv_nxt[p] + RcvWnd - 1), Len(queue) <= RcvWnd
    PROVE  Receiving(p)' /\ \A r \in Peer \ {p} : Receiving(r) => Receiving(r)'
<1>0. rcv_nxt[p] \in Nat /\ Len(queue) \in Nat /\ RcvWnd \in Nat
  BY Types, LenProperties, KcpAssumption
<1>1. PICK n \in Nat : /\ Moves(n, buf, Len(queue), rcv_nxt[p])
                       /\ rcv_nxt' = [rcv_nxt EXCEPT ![p] = @ + n]
  <2>1. PICK k \in 0..Cardinality(DOMAIN buf) :
            /\ Moves(k, buf, Len(queue), rcv_nxt[p])
            /\ rcv_nxt' = [rcv_nxt EXCEPT ![p] = @ + k]
    BY DEF MoveToQueue
  <2>2. k \in Nat
    OBVIOUS
  <2> QED BY <2>1, <2>2
<1>2. /\ Moved(p, buf, queue)
      /\ \A r \in Peer \ {p} : /\ rcv_queue'[r] = rcv_queue[r] /\ rcv_buf'[r] = rcv_buf[r]
                              /\ rcv_nxt'[r] = rcv_nxt[r]
  BY MoveEffect
<1>3. rcv_nxt'[p] = rcv_nxt[p] + n
  BY <1>1 DEF TypeOK
<1>4. /\ DOMAIN rcv_buf'[p] = DOMAIN buf \ (rcv_nxt[p]..(rcv_nxt[p] + n - 1))
      /\ Len(rcv_queue'[p]) = Len(queue) + n
  <2>1. PICK m \in Nat :
          /\ rcv_nxt'[p] = rcv_nxt[p] + m
          /\ DOMAIN rcv_buf'[p] = DOMAIN buf \ (rcv_nxt[p]..(rcv_nxt[p] + m - 1))
          /\ Len(rcv_queue'[p]) = Len(queue) + m
    BY <1>2 DEF Moved
  <2>2. m = n
    BY <1>0, <1>3, <2>1
  <2> QED BY <2>1, <2>2
<1>5. Len(queue) + n <= RcvWnd
  <2>1. CASE n = 0
    BY <1>0, <2>1
  <2>2. CASE n # 0
    <3>1. n - 1 \in 0..(n - 1)
      BY <2>2
    <3>2. Len(queue) + (n - 1) < RcvWnd
      BY <1>1, <3>1 DEF Moves
    <3> QED BY <1>0, <3>2
  <2> QED BY <2>1, <2>2
<1>6. rcv_nxt[p] + n \in DOMAIN buf => Len(queue) + n >= RcvWnd
  BY <1>0, <1>1 DEF Moves
<1>7. Receiving(p)'
  <2>1. \A sn \in DOMAIN rcv_buf'[p] : sn \in rcv_nxt'[p]..(rcv_nxt'[p] + RcvWnd - 1)
    BY <1>0, <1>3, <1>4
  <2> QED BY <1>3, <1>4, <1>5, <1>6, <2>1 DEF Receiving
<1>8. \A r \in Peer \ {p} : Receiving(r) => Receiving(r)'
  BY <1>2 DEF Receiving
<1> QED BY <1>7, <1>8

\* A segment is taken into rcv_buf only if it is within the window.
LEMMA PushWindow ==
    ASSUME TypeOK, WInv, NEW p \in Peer, NEW sn \in Nat, NEW seg \in Frag, Push(p, sn, seg)
    PROVE  \A r \in Peer : Receiving(r)'
<1>1. CASE UNCHANGED <<rcv_nxt, rcv_buf, rcv_queue>>
  BY <1>1 DEF WInv, Receiving
<1>2. CASE sn \in rcv_nxt[p]..(rcv_nxt[p] + RcvWnd - 1) /\ ParseData(p, sn, seg)
  <2> DEFINE buf == IF sn \in DOMAIN rcv_buf[p] THEN rcv_buf[p]
                    ELSE [n \in DOMAIN rcv_buf[p] \cup {sn} |->
                              IF n = sn THEN seg ELSE rcv_buf[p][n]]
  <2>1. IsBuffer(rcv_buf[p]) /\ rcv_queue[p] \in Seq(Frag)
    BY Types
  <2>2. IsBuffer(buf) /\ DOMAIN buf = DOMAIN rcv_buf[p] \cup {sn}
    BY <2>1 DEF IsBuffer
  <2>3. MoveToQueue(p, buf, rcv_queue[p])
    BY <1>2 DEF ParseData
  <2> HIDE DEF buf
  <2>4. Receiving(p)
    BY DEF WInv
  <2>5. DOMAIN buf \subseteq rcv_nxt[p]..(rcv_nxt[p] + RcvWnd - 1) /\ Len(rcv_queue[p]) <= RcvWnd
    BY <1>2, <2>2, <2>4 DEF Receiving
  <2> QED BY <2>1, <2>2, <2>3, <2>5, MoveWindow DEF WInv
<1> QED BY <1>1, <1>2 DEF Push, rcvVars

\* ikcp_parse_una, ikcp_parse_ack and ikcp_shrink_buf keep snd_buf in the window.
LEMMA HeaderWindow ==
    ASSUME TypeOK, WInv, NEW p \in Peer, NEW s, ParseHeader(p, s), UNCHANGED snd_nxt
    PROVE  \A r \in Peer : Sending(r)' /\ snd_una'[r] >= snd_una[r]
<1> DEFINE b1 == ParseUna(snd_buf[p], s.una)
           b2 == IF s.cmd = "ACK"
                 THEN ParseAck(b1, ShrinkBuf(b1, snd_nxt[p]), snd_nxt[p], s.sn)
                 ELSE b1
<1>1. DOMAIN b1 \subseteq DOMAIN snd_buf[p]
  BY DEF ParseUna, Keep
<1>2. DOMAIN b2 \subseteq DOMAIN b1
  <2> HIDE DEF b1
  <2> QED BY DEF ParseAck, Keep
<1>3. /\ snd_buf' = [snd_buf EXCEPT ![p] = b2]
      /\ snd_una' = [snd_una EXCEPT ![p] = ShrinkBuf(b2, snd_nxt[p])]
  BY DEF ParseHeader
<1> HIDE DEF b1, b2
<1>4. Sending(p) /\ snd_una[p] \in Nat /\ snd_nxt[p] \in Nat /\ SndWnd \in Nat
  BY Types, KcpAssumption DEF WInv
<1>5. DOMAIN b2 \subseteq snd_una[p]..(snd_nxt[p] - 1)
  BY <1>1, <1>2, <1>4 DEF Sending
<1>6. DOMAIN b2 \subseteq Nat
  BY <1>4, <1>5
<1> DEFINE una == ShrinkBuf(b2, snd_nxt[p])
<1>7. /\ una \in Nat /\ \A n \in DOMAIN b2 : una <= n
      /\ una \in snd_una[p]..snd_nxt[p]
  <2>1. /\ una \in Nat /\ (DOMAIN b2 = {} => una = snd_nxt[p])
        /\ \A n \in DOMAIN b2 : una <= n
        /\ DOMAIN b2 # {} => una \in DOMAIN b2
    BY <1>4, <1>6, ShrinkBufBound
  <2> HIDE DEF una
  <2>2. CASE DOMAIN b2 = {}
    BY <1>4, <2>1, <2>2 DEF Sending
  <2>3. CASE DOMAIN b2 # {}
    BY <1>4, <1>5, <2>1, <2>3
  <2> QED BY <2>1, <2>2, <2>3
<1>8. snd_una'[p] = una /\ snd_buf'[p] = b2
      /\ \A r \in Peer \ {p} : snd_una'[r] = snd_una[r] /\ snd_buf'[r] = snd_buf[r]
  BY <1>3 DEF TypeOK
<1> HIDE DEF una
<1>9. Sending(p)'
  <2>1. \A n \in DOMAIN b2 : n \in una..(snd_nxt[p] - 1)
    BY <1>4, <1>5, <1>7
  <2>2. snd_nxt[p] - una \in 0..SndWnd
    BY <1>4, <1>7 DEF Sending
  <2> QED BY <1>8, <2>1, <2>2 DEF Sending
<1>10. \A r \in Peer \ {p} : Sending(r)'
  BY <1>8 DEF Sending, WInv
<1>11. \A r \in Peer : snd_una'[r] >= snd_una[r]
  BY <1>4, <1>7, <1>8, Types
<1> QED BY <1>9, <1>10, <1>11

\* One iteration of the loop of ikcp_input.
LEMMA ParseWindow ==
    ASSUME TypeOK, WInv, NEW p \in Peer, NEW s \in Segment, ParseSegment(p, s)
    PROVE  WInv'
<1>1. \A r \in Peer : Sending(r)'
  BY HeaderWindow DEF ParseSegment
<1>2. CASE s.cmd = "PUSH" /\ Push(p, s.sn, s.seg)
  <2>1. s.sn \in Nat /\ s.seg \in Frag
    BY <1>2 DEF Segment
  <2> QED BY <1>1, <1>2, <2>1, PushWindow DEF WInv
<1>3. CASE UNCHANGED rcvVars
  BY <1>1, <1>3 DEF WInv, Receiving, rcvVars
<1> QED BY <1>2, <1>3 DEF ParseSegment

\* ikcp_recv takes a message out of rcv_queue and moves what is ready.
LEMMA RecvWindow == ASSUME TypeOK, WInv, NEW p \in Peer, Recv(p) PROVE WInv'
<1>1. PICK n \in 1..Len(rcv_queue[p]) :
        MoveToQueue(p, rcv_buf[p], SubSeq(rcv_queue[p], n + 1, Len(rcv_queue[p])))
  BY DEF Recv
<1>2. UNCHANGED <<snd_buf, snd_una, snd_nxt>>
  BY DEF Recv, sndVars
<1> DEFINE rest == SubSeq(rcv_queue[p], n + 1, Len(rcv_queue[p]))
<1>3. rcv_queue[p] \in Seq(Frag) /\ IsBuffer(rcv_buf[p]) /\ Len(rcv_queue[p]) \in Nat
  BY Types
<1>4. rest \in Seq(Frag) /\ Len(rest) = Len(rcv_queue[p]) - n
  BY <1>3, CutPoints
<1> HIDE DEF rest
<1>5. Receiving(p) /\ RcvWnd \in Nat
  BY KcpAssumption DEF WInv
<1>6. \A r \in Peer : Receiving(r)'
  <2>1. Len(rest) <= RcvWnd
    BY <1>3, <1>4, <1>5 DEF Receiving
  <2>2. MoveToQueue(p, rcv_buf[p], rest)
    BY <1>1 DEF rest
  <2> QED BY <1>3, <1>4, <1>5, <2>1, <2>2, MoveWindow DEF Receiving, WInv
<1> QED BY <1>2, <1>6 DEF WInv, Sending

\* ikcp_flush moves no more segments into snd_buf than the window has room for.
LEMMA FlushWindow ==
    ASSUME TypeOK, WInv, NEW p \in Peer, NEW due \in SUBSET DOMAIN snd_buf[p],
           NEW elapsed \in BOOLEAN, FlushWith(p, due, elapsed, FALSE)
    PROVE  WInv'
<1> DEFINE n == Room(p)
           fresh == snd_nxt[p]..(snd_nxt[p] + n - 1)
           buf == [sn \in DOMAIN snd_buf[p] \cup fresh |->
                      IF sn \in fresh THEN snd_queue[p][sn - snd_nxt[p] + 1]
                      ELSE snd_buf[p][sn]]
<1>1. /\ snd_buf' = [snd_buf EXCEPT ![p] = buf]
      /\ snd_nxt' = [snd_nxt EXCEPT ![p] = @ + n]
      /\ UNCHANGED <<snd_una, rcv_nxt, rcv_buf, rcv_queue>>
  BY DEF FlushWith
<1>2. DOMAIN buf = DOMAIN snd_buf[p] \cup fresh
  OBVIOUS
<1>3. n \in 0..Len(snd_queue[p]) /\ Len(snd_queue[p]) \in Nat
  BY RoomBound, Types
<1>4. /\ snd_una[p] \in Nat /\ snd_nxt[p] \in Nat /\ rmt_wnd[p] \in Nat /\ SndWnd \in Nat
      /\ Sending(p)
  BY Types, KcpAssumption DEF WInv
<1>5. snd_nxt[p] + n - snd_una[p] <= SndWnd
  <2> DEFINE last == snd_una[p] + MinOf(SndWnd, rmt_wnd[p])
  <2>1. last \in Nat /\ last <= snd_una[p] + SndWnd
    BY <1>4 DEF MinOf
  <2>2. n = IF snd_nxt[p] < last THEN MinOf(Len(snd_queue[p]), last - snd_nxt[p]) ELSE 0
    BY DEF Room
  <2>3. snd_nxt[p] - snd_una[p] \in 0..SndWnd
    BY <1>4 DEF Sending
  <2> HIDE DEF last, n
  <2> QED BY <1>3, <1>4, <2>1, <2>2, <2>3 DEF MinOf
<1> HIDE DEF n, buf
<1>6. /\ snd_nxt'[p] = snd_nxt[p] + n /\ snd_buf'[p] = buf
      /\ \A r \in Peer \ {p} : snd_nxt'[r] = snd_nxt[r] /\ snd_buf'[r] = snd_buf[r]
  BY <1>1 DEF TypeOK
<1>7. Sending(p)'
  <2>1. \A sn \in DOMAIN buf : sn \in snd_una[p]..(snd_nxt[p] + n - 1)
    BY <1>2, <1>3, <1>4 DEF Sending
  <2> QED BY <1>1, <1>3, <1>4, <1>5, <1>6, <2>1 DEF Sending
<1>8. \A r \in Peer \ {p} : Sending(r)'
  BY <1>1, <1>6 DEF WInv, Sending
<1>9. \A r \in Peer : Receiving(r)'
  BY <1>1 DEF WInv, Receiving
<1> QED BY <1>7, <1>8, <1>9 DEF WInv

\* Every step of either endpoint preserves the windows.
LEMMA WindowNext == ASSUME TypeOK, WInv, [Next]_vars PROVE WInv'
<1>1. ASSUME NEW p \in Peer, Send(p) PROVE WInv'
  BY <1>1 DEF Send, rcvVars, WInv, Sending, Receiving
<1>2. ASSUME NEW p \in Peer, Input(p) PROVE WInv'
  <2>1. PICK d \in net[p] : ParseSegment(p, Head(d))
    BY <1>2 DEF Input
  <2>2. d \in Seq(Segment) /\ d # <<>>
    BY Types
  <2>3. Head(d) \in Segment
    BY <2>2, HeadTailProperties
  <2> QED BY <2>1, <2>3, ParseWindow
<1>3. ASSUME NEW p \in Peer, InputRest(p) PROVE WInv'
  <2>1. inp[p] \in Seq(Segment) /\ inp[p] # <<>> /\ ParseSegment(p, Head(inp[p]))
    BY <1>3, Types DEF InputRest
  <2>2. Head(inp[p]) \in Segment
    BY <2>1, HeadTailProperties
  <2> QED BY <2>1, <2>2, ParseWindow
<1>4. ASSUME NEW p \in Peer, Recv(p) PROVE WInv'
  BY <1>4, RecvWindow
<1>5. ASSUME NEW p \in Peer, Flush(p) PROVE WInv'
  BY <1>5, FlushWindow DEF Flush
<1>6. CASE UNCHANGED vars
  BY <1>6 DEF vars, WInv, Sending, Receiving
<1> QED BY <1>1, <1>2, <1>3, <1>4, <1>5, <1>6 DEF Next

\* Both control blocks begin with empty lists.
LEMMA WindowInit == Init => WInv
<1> SUFFICES ASSUME Init, NEW p \in Peer PROVE Sending(p) /\ Receiving(p)
  BY DEF WInv
<1>1. /\ snd_buf[p] = <<>> /\ snd_una[p] = 0 /\ snd_nxt[p] = 0
      /\ rcv_nxt[p] = 0 /\ rcv_buf[p] = <<>> /\ rcv_queue[p] = <<>>
  BY DEF Init
<1> QED BY <1>1, KcpAssumption DEF Sending, Receiving

(* The windows hold in every reachable state.                              *)
THEOREM WindowInvariance == Spec => []WInv
<1>1. TypeOK /\ WInv /\ [Next]_vars => WInv'
  BY WindowNext
<1> QED BY WindowInit, TypeCorrect, <1>1, PTL DEF Spec

-----------------------------------------------------------------------------
(* Nothing steps back                                                      *)

\* The loop that moves segments never moves rcv_nxt back.
LEMMA MoveForward ==
    ASSUME TypeOK, NEW p \in Peer, NEW buf, IsBuffer(buf),
           NEW queue \in Seq(Frag), MoveToQueue(p, buf, queue)
    PROVE  \A r \in Peer : rcv_nxt'[r] >= rcv_nxt[r]
<1>1. Moved(p, buf, queue) /\ \A r \in Peer \ {p} : rcv_nxt'[r] = rcv_nxt[r]
  BY MoveEffect
<1>2. \A r \in Peer : rcv_nxt[r] \in Nat
  BY Types
<1> QED BY <1>1, <1>2 DEF Moved

\* One iteration of the loop of ikcp_input moves neither counter back.
LEMMA ParseForward ==
    ASSUME TypeOK, WInv, NEW p \in Peer, NEW s \in Segment, ParseSegment(p, s)
    PROVE  \A r \in Peer : snd_una'[r] >= snd_una[r] /\ rcv_nxt'[r] >= rcv_nxt[r]
<1>0. \A r \in Peer : rcv_nxt[r] \in Nat
  BY Types
<1>1. \A r \in Peer : snd_una'[r] >= snd_una[r]
  BY HeaderWindow DEF ParseSegment
<1>2. CASE UNCHANGED rcv_nxt
  BY <1>0, <1>1, <1>2
<1>3. CASE s.cmd = "PUSH" /\ ParseData(p, s.sn, s.seg)
  <2> DEFINE buf == IF s.sn \in DOMAIN rcv_buf[p] THEN rcv_buf[p]
                    ELSE [n \in DOMAIN rcv_buf[p] \cup {s.sn} |->
                              IF n = s.sn THEN s.seg ELSE rcv_buf[p][n]]
  <2>1. s.sn \in Nat /\ s.seg \in Frag /\ IsBuffer(rcv_buf[p]) /\ rcv_queue[p] \in Seq(Frag)
    BY <1>3, Types DEF Segment
  <2>2. IsBuffer(buf)
    BY <2>1 DEF IsBuffer
  <2>3. MoveToQueue(p, buf, rcv_queue[p])
    BY <1>3 DEF ParseData
  <2> HIDE DEF buf
  <2> QED BY <1>1, <2>1, <2>2, <2>3, MoveForward
<1> QED BY <1>2, <1>3 DEF ParseSegment, Push, rcvVars

\* No step of either endpoint moves a counter back or changes what was read.
LEMMA ForwardNext == ASSUME TypeOK, WInv, [Next]_vars PROVE Forward
<1>0. \A r \in Peer : snd_una[r] \in Nat /\ rcv_nxt[r] \in Nat
  BY Types
<1>1. CASE UNCHANGED <<snd_una, rcv_nxt, read>>
  BY <1>0, <1>1 DEF Forward
<1>2. ASSUME NEW p \in Peer, Input(p) PROVE Forward
  <2>1. PICK d \in net[p] : ParseSegment(p, Head(d))
    BY <1>2 DEF Input
  <2>2. d \in Seq(Segment) /\ d # <<>>
    BY Types
  <2>3. Head(d) \in Segment /\ read' = read
    BY <2>1, <2>2, HeadTailProperties DEF ParseSegment
  <2> QED BY <2>1, <2>3, ParseForward DEF Forward
<1>3. ASSUME NEW p \in Peer, InputRest(p) PROVE Forward
  <2>1. inp[p] \in Seq(Segment) /\ inp[p] # <<>> /\ ParseSegment(p, Head(inp[p]))
    BY <1>3, Types DEF InputRest
  <2>2. Head(inp[p]) \in Segment /\ read' = read
    BY <2>1, HeadTailProperties DEF ParseSegment
  <2> QED BY <2>1, <2>2, ParseForward DEF Forward
<1>4. ASSUME NEW p \in Peer, Recv(p) PROVE Forward
  <2>1. PICK n \in 1..Len(rcv_queue[p]) :
          /\ read' = [read EXCEPT ![p] = @ \o SubSeq(rcv_queue[p], 1, n)]
          /\ MoveToQueue(p, rcv_buf[p], SubSeq(rcv_queue[p], n + 1, Len(rcv_queue[p])))
    BY <1>4 DEF Recv
  <2>2. /\ rcv_queue[p] \in Seq(Frag) /\ IsBuffer(rcv_buf[p]) /\ read[p] \in Seq(Frag)
        /\ Len(rcv_queue[p]) \in Nat
    BY Types
  <2>3. /\ SubSeq(rcv_queue[p], 1, n) \in Seq(Frag)
        /\ SubSeq(rcv_queue[p], n + 1, Len(rcv_queue[p])) \in Seq(Frag)
    BY <2>2, CutPoints
  <2>4. \A r \in Peer : rcv_nxt'[r] >= rcv_nxt[r]
    BY <2>1, <2>2, <2>3, MoveForward
  <2>5. UNCHANGED snd_una
    BY <1>4 DEF Recv, sndVars
  <2>6. \A i \in 1..Len(read[p]) : read'[p][i] = read[p][i]
    <3>1. read'[p] = read[p] \o SubSeq(rcv_queue[p], 1, n)
      BY <2>1 DEF TypeOK
    <3> QED BY <2>2, <2>3, <3>1, ConcatPoints
  <2>7. \A r \in Peer \ {p} : read'[r] = read[r]
    BY <2>1 DEF TypeOK
  <2> QED BY <1>0, <2>4, <2>5, <2>6, <2>7 DEF Forward
<1> QED BY <1>1, <1>2, <1>3, <1>4 DEF Next, Send, Flush, FlushWith, rcvVars, vars

(* Reordered and repeated datagrams never move snd_una or rcv_nxt back,    *)
(* nor take back what ikcp_recv has returned.                              *)
THEOREM NoStepBackTheorem == Spec => NoStepBack
<1>1. TypeOK /\ WInv /\ [Next]_vars => [Forward]_vars
  BY ForwardNext
<1> QED BY <1>1, TypeCorrect, WindowInvariance, PTL DEF Spec, NoStepBack

-----------------------------------------------------------------------------
(* Neither the send window nor the receive window is ever exceeded.        *)
THEOREM WindowTheorem == Spec => []WindowsRespected
<1>1. WInv => WindowsRespected
  BY DEF WInv, Sending, Receiving, WindowsRespected
<1> QED BY WindowInvariance, <1>1, PTL

(* A segment that could be moved to rcv_queue never waits in rcv_buf.      *)
THEOREM NothingWaitsTheorem == Spec => []NothingReadyWaits
<1>1. WInv => NothingReadyWaits
  BY DEF WInv, Receiving, NothingReadyWaits
<1> QED BY WindowInvariance, <1>1, PTL

-----------------------------------------------------------------------------
(* Whole messages and the channel *)

\* From the fragment at position i to the end of its message frg counts down.
CountsDown(w, i) ==
    /\ i + w[i].frg <= Len(w)
    /\ \A j \in 0..w[i].frg : w[i + j].frg = w[i].frg - j

\* w consists of whole messages.
Whole(w) == \A i \in 1..Len(w) : CountsDown(w, i)

MInv == \A p \in Peer : Whole(written[p])

-----------------------------------------------------------------------------
(* ikcp_send writes whole messages *)

\* A fragment's countdown is a natural number.
LEMMA Countdown ==
    ASSUME NEW w \in Seq(Frag), NEW i \in 1..Len(w)
    PROVE  w[i] \in Frag /\ w[i].frg \in Nat
<1>1. w[i] \in Frag
  OBVIOUS
<1> QED BY <1>1 DEF Frag

\* The fragments of one more message behind whole messages.
LEMMA WholeAppend ==
    ASSUME NEW w \in Seq(Frag), Whole(w), NEW m \in Nat, NEW count \in 1..MaxFrags
    PROVE  Whole(w \o Fragments(m, count))
<1> DEFINE t == Fragments(m, count)
           s == w \o t
<1>1. count \in Nat /\ Len(w) \in Nat
  BY KcpAssumption
<1>2. t \in Seq(Frag) /\ Len(t) = count
  BY <1>1 DEF Fragments, Frag
<1>3. \A i \in 1..count : t[i].frg = count - i
  BY <1>1 DEF Fragments
<1> HIDE DEF t
<1>4. /\ Len(s) = Len(w) + count
      /\ \A i \in 1..Len(w) : s[i] = w[i]
      /\ \A i \in 1..count : s[Len(w) + i] = t[i]
  <2>1. t \in Seq(Frag)
    BY <1>2
  <2>2. /\ Len(s) = Len(w) + Len(t)
        /\ \A i \in 1..Len(w) : s[i] = w[i]
        /\ \A i \in 1..Len(t) : s[Len(w) + i] = t[i]
    BY <2>1, ConcatPoints
  <2> HIDE DEF s
  <2> QED BY <1>2, <2>2
<1>5. \A i \in 1..Len(w) : w[i].frg \in Nat
  BY Countdown
<1> HIDE DEF s
<1>6. ASSUME NEW i \in 1..Len(w) PROVE CountsDown(s, i)
  <2>1. i + w[i].frg <= Len(w) /\ \A j \in 0..w[i].frg : w[i + j].frg = w[i].frg - j
    BY DEF Whole, CountsDown
  <2>2. \A j \in 0..w[i].frg : i + j \in 1..Len(w)
    BY <1>1, <1>5, <2>1
  <2>3. s[i] = w[i] /\ \A j \in 0..w[i].frg : s[i + j] = w[i + j]
    BY <1>4, <2>2
  <2>4. \A j \in 0..s[i].frg : s[i + j].frg = s[i].frg - j
    BY <2>1, <2>3
  <2>5. i + s[i].frg <= Len(s)
    BY <1>1, <1>4, <1>5, <2>1, <2>3
  <2> QED BY <2>4, <2>5 DEF CountsDown
<1>7. ASSUME NEW k \in 1..count PROVE CountsDown(s, Len(w) + k)
  <2>1. s[Len(w) + k].frg = count - k
    BY <1>3, <1>4
  <2>2. ASSUME NEW j \in 0..(count - k) PROVE s[Len(w) + k + j].frg = count - k - j
    <3>1. k + j \in 1..count /\ Len(w) + (k + j) = Len(w) + k + j
          /\ count - (k + j) = count - k - j
      BY <1>1
    <3>2. s[Len(w) + (k + j)].frg = count - (k + j)
      BY <1>3, <1>4, <3>1
    <3> QED BY <3>1, <3>2
  <2>3. Len(w) + k + (count - k) <= Len(s)
    BY <1>1, <1>4
  <2> QED BY <2>1, <2>2, <2>3 DEF CountsDown
<1>8. ASSUME NEW i \in 1..Len(s) PROVE CountsDown(s, i)
  <2>1. CASE i \in 1..Len(w)
    BY <1>6, <2>1
  <2>2. CASE i \notin 1..Len(w)
    <3>1. i - Len(w) \in 1..count /\ Len(w) + (i - Len(w)) = i
      BY <1>1, <1>4, <2>2
    <3> QED BY <1>7, <3>1
  <2> QED BY <2>1, <2>2
<1> QED BY <1>8 DEF Whole, s, t

\* Every step leaves whole messages.
LEMMA WholeNext == ASSUME TypeOK, MInv, [Next]_vars PROVE MInv'
<1>1. CASE UNCHANGED written
  BY <1>1 DEF MInv, Whole, CountsDown
<1>2. ASSUME NEW p \in Peer, Send(p) PROVE MInv'
  <2>1. PICK count \in 1..MaxFrags :
          written' = [written EXCEPT ![p] = @ \o Fragments(Len(written[p]) + 1, count)]
    BY <1>2 DEF Send
  <2>2. written[p] \in Seq(Frag) /\ Len(written[p]) + 1 \in Nat
    BY Types
  <2>3. Whole(written[p] \o Fragments(Len(written[p]) + 1, count))
    BY <2>2, WholeAppend DEF MInv
  <2>4. /\ written'[p] = written[p] \o Fragments(Len(written[p]) + 1, count)
        /\ \A r \in Peer \ {p} : written'[r] = written[r]
    BY <2>1 DEF TypeOK
  <2>5. ASSUME NEW r \in Peer PROVE Whole(written'[r])
    BY <2>3, <2>4 DEF MInv
  <2> QED BY <2>5 DEF MInv, Whole, CountsDown
<1> QED BY <1>1, <1>2 DEF Next, Input, InputRest, ParseSegment, Recv, Flush, FlushWith, vars

(* What was given to ikcp_send always consists of whole messages.          *)
THEOREM WholeMessages == Spec => []MInv
<1>1. Init => MInv
  BY DEF Init, MInv, Whole
<1>2. TypeOK /\ MInv /\ [Next]_vars => MInv'
  BY WholeNext
<1> QED BY <1>1, <1>2, TypeCorrect, PTL DEF Spec

-----------------------------------------------------------------------------
(* ikcp_recv returns a whole message *)

\* The merge loop stops where the message that stands at the head ends.
LEMMA MergeEnds ==
    ASSUME NEW q \in Seq(Frag), q # <<>>, Len(q) >= q[1].frg + 1,
           \A j \in 0..q[1].frg : q[1 + j].frg = q[1].frg - j,
           NEW n \in 1..Len(q), MessageLen(n, q)
    PROVE  q[n].frg = 0 /\ \A i \in 1..(n - 1) : q[i].frg # 0
<1>1. Len(q) \in Nat /\ q[1].frg \in Nat
  BY Countdown
<1>2. (\A i \in 1..(n - 1) : q[i].frg # 0) /\ (q[n].frg = 0 \/ n = Len(q))
  BY DEF MessageLen
<1>3. q[1 + q[1].frg].frg = 0
  BY <1>1
<1>4. CASE n = Len(q)
  <2>1. ~(1 + q[1].frg \in 1..(n - 1))
    BY <1>2, <1>3
  <2>2. 1 + q[1].frg = n
    BY <1>1, <1>4, <2>1
  <2> QED BY <1>2, <1>3, <2>2
<1> QED BY <1>2, <1>4

\* What waits in rcv_queue begins with a message that counts down.
LEMMA HeadCountsDown ==
    ASSUME TypeOK, IInv, MInv, NEW p \in Peer,
           rcv_queue[p] # <<>>, Len(rcv_queue[p]) >= rcv_queue[p][1].frg + 1
    PROVE  \A j \in 0..rcv_queue[p][1].frg :
              rcv_queue[p][1 + j].frg = rcv_queue[p][1].frg - j
<1> DEFINE q == rcv_queue[p]
           w == written[Other(p)]
           len == Len(read[p])
<1>1. Other(p) \in Peer
  BY OtherPeer
<1>2. q \in Seq(Frag) /\ Len(q) \in Nat /\ len \in Nat /\ Len(w) \in Nat /\ rcv_nxt[p] \in Nat
  BY <1>1, Types
<1>3. /\ len + Len(q) = rcv_nxt[p] /\ rcv_nxt[p] <= Len(w)
      /\ \A i \in 1..Len(q) : q[i] = w[len + i]
  BY DEF IInv, InOrderDelivery, InOrder
<1>4. Len(q) >= 1 /\ q[1].frg \in Nat
  <2>1. 1 \in 1..Len(q)
    BY <1>2
  <2> QED BY <1>2, <2>1, Countdown
<1>5. Whole(w)
  BY <1>1 DEF MInv
<1> HIDE DEF q, w, len
<1>6. q[1] = w[len + 1] /\ len + 1 \in 1..Len(w)
  BY <1>2, <1>3, <1>4
<1>7. \A j \in 0..q[1].frg : w[len + 1 + j].frg = q[1].frg - j
  BY <1>5, <1>6 DEF Whole, CountsDown
<1>8. ASSUME NEW j \in 0..q[1].frg PROVE q[1 + j].frg = q[1].frg - j
  <2>1. 1 + j \in 1..Len(q) /\ len + (1 + j) = len + 1 + j
    BY <1>2, <1>4 DEF q
  <2> QED BY <1>3, <1>7, <2>1
<1> QED BY <1>8 DEF q

\* ikcp_recv receives the next message of the channel.
LEMMA RecvChannel ==
    ASSUME TypeOK, IInv, MInv, NEW p \in Peer, Recv(p)
    PROVE  Channel!ChRecv(p)
<1> DEFINE q == rcv_queue[p]
           w == written[Other(p)]
           len == Len(read[p])
<1>1. PICK n \in 1..Len(q) :
        /\ MessageLen(n, q)
        /\ read' = [read EXCEPT ![p] = @ \o SubSeq(q, 1, n)]
  BY DEF Recv
<1>2. q # <<>> /\ Len(q) >= q[1].frg + 1 /\ written' = written
  BY DEF Recv
<1>3. Other(p) \in Peer /\ Channel!Far(p) = Other(p)
  BY OtherPeer DEF Channel!Far, Other
<1>4. /\ q \in Seq(Frag) /\ w \in Seq(Frag) /\ Len(q) \in Nat /\ len \in Nat
      /\ Len(w) \in Nat /\ rcv_nxt[p] \in Nat /\ read[p] \in Seq(Frag)
  BY <1>3, Types
<1>5. /\ len + Len(q) = rcv_nxt[p] /\ rcv_nxt[p] <= Len(w)
      /\ \A i \in 1..Len(q) : q[i] = w[len + i]
  BY DEF IInv, InOrderDelivery, InOrder
<1>6. q[n].frg = 0 /\ \A i \in 1..(n - 1) : q[i].frg # 0
  BY <1>1, <1>2, <1>4, HeadCountsDown, MergeEnds
<1> DEFINE rd == read[p] \o SubSeq(q, 1, n)
<1>7. rd \in Seq(Frag) /\ Len(rd) = len + n
  BY <1>4, CutPoints, ConcatPoints
<1>8. \A i \in 1..Len(rd) : rd[i] = w[i]
  BY ReadOn DEF InStream
<1>9. read' = [read EXCEPT ![p] = rd]
  BY <1>1
<1> HIDE DEF q, w, len, rd
<1>10. n \in Nat /\ n >= 1 /\ n <= Len(q) /\ len + n \in 1..Len(w)
  BY <1>4, <1>5
<1>11. rd = SubSeq(w, 1, len + n)
  <2>1. /\ SubSeq(w, 1, len + n) \in Seq(Frag) /\ Len(SubSeq(w, 1, len + n)) = len + n
        /\ \A i \in 1..(len + n) : SubSeq(w, 1, len + n)[i] = w[i]
    BY <1>4, <1>10, CutPoints
  <2> QED BY <1>7, <1>8, <2>1, SeqEqual
<1>12. w[len + n].frg = 0
  BY <1>5, <1>6
<1>13. ASSUME NEW i \in (len + 1)..(len + n - 1) PROVE w[i].frg # 0
  <2>1. i - len \in 1..(n - 1) /\ i - len \in 1..Len(q) /\ len + (i - len) = i
    BY <1>4, <1>10
  <2> QED BY <1>5, <1>6, <2>1
<1>14. Channel!NextMessage(p, len + n)
  <2>1. len + n \in (len + 1)..Len(w)
    BY <1>4, <1>10
  <2> QED BY <1>3, <1>12, <1>13, <2>1 DEF Channel!NextMessage, w, len
<1> QED BY <1>2, <1>3, <1>9, <1>10, <1>11, <1>14 DEF Channel!ChRecv, w

-----------------------------------------------------------------------------
\* Every step of the control blocks is a step of the channel or a stutter.
LEMMA ChannelStep ==
    ASSUME TypeOK, IInv, MInv, [Next]_vars
    PROVE  [Channel!ChNext]_(Channel!chVars)
<1> USE DEF Channel!chVars
<1>1. Channel!Ends = Peer
  BY DEF Channel!Ends, Peer
<1>2. ASSUME NEW p \in Peer, Send(p) PROVE Channel!ChNext
  <2>1. Channel!ChSend(p)
    BY <1>2 DEF Send, Fragments, Channel!ChSend
  <2> QED BY <1>1, <2>1 DEF Channel!ChNext
<1>3. ASSUME NEW p \in Peer, Recv(p) PROVE Channel!ChNext
  BY <1>1, <1>3, RecvChannel DEF Channel!ChNext
<1>4. ASSUME NEW p \in Peer, Input(p) \/ InputRest(p) \/ Flush(p)
      PROVE  UNCHANGED <<written, read>>
  BY <1>4 DEF Input, InputRest, ParseSegment, Flush, FlushWith
<1>5. CASE UNCHANGED vars
  BY <1>5 DEF vars
<1> QED BY <1>2, <1>3, <1>4, <1>5 DEF Next

(* The two control blocks over a network that loses, reorders and repeats  *)
(* datagrams implement the message channel: ikcp_recv returns exactly the  *)
(* messages given to the peer's ikcp_send, whole, once and in order.       *)
THEOREM ChannelRefinement == Spec => ImplementsChannel
<1>1. Init => Channel!ChInit
  BY DEF Init, Channel!ChInit, Channel!Ends, Peer
<1>2. Spec => [][Channel!ChNext]_(Channel!chVars)
  BY Invariance, WholeMessages, ChannelStep, PTL DEF Spec
<1> QED BY <1>1, <1>2, PTL DEF Spec, ImplementsChannel, Channel!ChSpec
=============================================================================
