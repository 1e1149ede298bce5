----------------------------- MODULE KcpProofs -----------------------------
(***************************************************************************)
(* Proofs about Kcp: for all windows, bounds and message sizes, and an     *)
(* unbounded lossy, reordering and duplicating network, ikcp_recv returns  *)
(* a prefix of what the peer sent, and no segment is forgotten before the  *)
(* peer holds it.                                                          *)
(***************************************************************************)
EXTENDS Kcp, TLAPS, FiniteSetTheorems, WellFoundedInduction, SequenceTheorems

-----------------------------------------------------------------------------
(* Lemmas about the operators *)

\* There are two endpoints, each the other one's peer.
LEMMA OtherPeer ==
    ASSUME NEW p \in Peer
    PROVE  /\ Other(p) \in Peer /\ Other(p) # p /\ Other(Other(p)) = p
           /\ \A r \in Peer : r = p \/ r = Other(p)
BY KcpAssumption DEF Peer, Other

\* Positions in two adjacent runs of length a and b of a sequence of length c.
LEMMA Positions ==
    ASSUME NEW a \in Nat, NEW b \in Nat, NEW c \in Nat, a + b <= c
    PROVE  /\ \A i \in 1..a : i \in 1..c
           /\ \A i \in 1..b : a + i \in 1..c
OBVIOUS

\* Two ways of counting to position i of what follows a and b.
LEMMA Sums ==
    ASSUME NEW a \in Nat, NEW b \in Nat, NEW m \in Nat, NEW i \in Int, a + b = m
    PROVE  a + (b + i) = m + i /\ (m + i - 1) + 1 = a + (b + i)
OBVIOUS

\* A position behind the first n of c, counted from the start and behind a others.
LEMMA Shift ==
    ASSUME NEW a \in Nat, NEW c \in Nat, NEW n \in Nat, n <= c, NEW i \in 1..(c - n)
    PROVE  i \in 1..(c - n) /\ n + i \in 1..c /\ a + (n + i) = a + n + i
OBVIOUS

\* A concatenation, position by position.
LEMMA ConcatPoints ==
    ASSUME NEW S, NEW s \in Seq(S), NEW t \in Seq(S)
    PROVE  /\ s \o t \in Seq(S) /\ Len(s \o t) = Len(s) + Len(t)
           /\ \A i \in 1..Len(s) : (s \o t)[i] = s[i]
           /\ \A i \in 1..Len(t) : (s \o t)[Len(s) + i] = t[i]
<1>1. /\ s \o t \in Seq(S) /\ Len(s \o t) = Len(s) + Len(t)
      /\ \A i \in 1..(Len(s) + Len(t)) :
            (s \o t)[i] = IF i <= Len(s) THEN s[i] ELSE t[i - Len(s)]
  BY ConcatProperties
<1>2. Len(s) \in Nat /\ Len(t) \in Nat
  OBVIOUS
<1>3. ASSUME NEW i \in 1..Len(t) PROVE (s \o t)[Len(s) + i] = t[i]
  <2>1. /\ Len(s) + i \in 1..(Len(s) + Len(t)) /\ ~(Len(s) + i <= Len(s))
        /\ Len(s) + i - Len(s) = i
    BY <1>2
  <2> QED
    BY <2>1, <1>1
<1>4. ASSUME NEW i \in 1..Len(s) PROVE (s \o t)[i] = s[i]
  BY <1>1, <1>2
<1> QED
  BY <1>1, <1>3, <1>4

\* A set of naturals has a least element.
LEMMA LeastNat ==
    ASSUME NEW S \in SUBSET Nat, S # {}
    PROVE  \E m \in S : \A n \in S : m <= n
<1>1. \E m \in S : \A n \in S : ~ (<<n, m>> \in OpToRel(<, Nat))
  BY WFMin, NatLessThanWellFounded
<1>2. PICK m \in S : \A n \in S : ~ (<<n, m>> \in OpToRel(<, Nat))
  BY <1>1
<1>3. \A n \in S : ~ (n < m)
  BY <1>2 DEF OpToRel
<1>4. \A n \in S : n \in Nat /\ m \in Nat
  OBVIOUS
<1>5. \A n \in S : m <= n
  BY <1>3, <1>4
<1> QED
  BY <1>5

\* ikcp_shrink_buf: snd_una is at most every sn of the list, and at most nxt.
LEMMA ShrinkBufBound ==
    ASSUME NEW buf, DOMAIN buf \subseteq Nat, NEW nxt \in Nat
    PROVE  /\ ShrinkBuf(buf, nxt) \in Nat
           /\ DOMAIN buf = {} => ShrinkBuf(buf, nxt) = nxt
           /\ \A n \in DOMAIN buf : ShrinkBuf(buf, nxt) <= n
           /\ DOMAIN buf # {} => ShrinkBuf(buf, nxt) \in DOMAIN buf
<1>1. CASE DOMAIN buf = {}
  BY <1>1 DEF ShrinkBuf
<1>2. CASE DOMAIN buf # {}
  <2> DEFINE m == CHOOSE m \in DOMAIN buf : \A n \in DOMAIN buf : m <= n
  <2>1. \E k \in DOMAIN buf : \A n \in DOMAIN buf : k <= n
    BY <1>2, LeastNat
  <2>2. m \in DOMAIN buf /\ \A n \in DOMAIN buf : m <= n
    BY <2>1
  <2>3. ShrinkBuf(buf, nxt) = m
    BY <1>2 DEF ShrinkBuf
  <2> HIDE DEF m
  <2> QED
    BY <1>2, <2>2, <2>3
<1> QED
  BY <1>1, <1>2

\* Packing: each datagram is a nonempty run of the segments to be sent.
LEMMA DatagramsAreRuns ==
    ASSUME NEW T, NEW s \in Seq(T), NEW d \in Datagrams(s)
    PROVE  /\ d \in Seq(T) \ {<<>>}
           /\ \A i \in 1..Len(d) : \E j \in 1..Len(s) : d[i] = s[j]
<1>1. PICK k \in 0..(Len(s) - 1) : d = SubSeq(s, k + 1, MinOf(k + MtuSegs, Len(s)))
  BY DEF Datagrams
<1>2. MinOf(k + MtuSegs, Len(s)) \in (k + 1)..Len(s)
  BY KcpAssumption DEF MinOf
<1> QED
  BY <1>1, <1>2

\* The effect of the loop that moves rcv_buf -> rcv_queue.
Moved(p, buf, queue) ==
    \E n \in Nat :
        /\ rcv_nxt'[p] = rcv_nxt[p] + n
        /\ \A i \in 0..(n - 1) : rcv_nxt[p] + i \in DOMAIN buf
        /\ DOMAIN rcv_buf'[p] = DOMAIN buf \ (rcv_nxt[p]..(rcv_nxt[p] + n - 1))
        /\ \A sn \in DOMAIN rcv_buf'[p] : rcv_buf'[p][sn] = buf[sn]
        /\ Len(rcv_queue'[p]) = Len(queue) + n
        /\ \A i \in 1..Len(queue) : rcv_queue'[p][i] = queue[i]
        /\ \A i \in 1..n :
              rcv_queue'[p][Len(queue) + i] = buf[rcv_nxt[p] + i - 1]

\* MoveToQueue changes the receive side of p alone, and as Moved says.
LEMMA MoveEffect ==
    ASSUME TypeOK, NEW p \in Peer, NEW buf, IsBuffer(buf),
           NEW queue \in Seq(Frag), MoveToQueue(p, buf, queue)
    PROVE  /\ rcv_queue' \in [Peer -> Seq(Frag)] /\ rcv_nxt' \in [Peer -> Nat]
           /\ DOMAIN rcv_buf' = Peer
           /\ \A r \in Peer \ {p} : /\ rcv_queue'[r] = rcv_queue[r]
                                    /\ rcv_buf'[r] = rcv_buf[r]
                                    /\ rcv_nxt'[r] = rcv_nxt[r]
           /\ IsBuffer(rcv_buf'[p])
           /\ Moved(p, buf, queue)
<1>1. PICK n \in 0..Cardinality(DOMAIN buf) :
        /\ Moves(n, buf, Len(queue), rcv_nxt[p])
        /\ rcv_buf' = [rcv_buf EXCEPT ![p] =
                          Keep(buf, DOMAIN buf \ (rcv_nxt[p]..(rcv_nxt[p] + n - 1)))]
        /\ rcv_queue' = [rcv_queue EXCEPT ![p] =
                          queue \o [i \in 1..n |-> buf[rcv_nxt[p] + i - 1]]]
        /\ rcv_nxt' = [rcv_nxt EXCEPT ![p] = @ + n]
  BY DEF MoveToQueue
<1> DEFINE moved == [i \in 1..n |-> buf[rcv_nxt[p] + i - 1]]
<1>2. n \in Nat
  OBVIOUS
<1>3. rcv_nxt[p] \in Nat /\ rcv_nxt'[p] = rcv_nxt[p] + n
  BY <1>1 DEF TypeOK
<1>4. \A i \in 0..(n - 1) : rcv_nxt[p] + i \in DOMAIN buf
  BY <1>1 DEF Moves
<1>5. \A i \in 1..n : rcv_nxt[p] + i - 1 \in DOMAIN buf
  <2>1. SUFFICES ASSUME NEW i \in 1..n PROVE rcv_nxt[p] + i - 1 \in DOMAIN buf
    OBVIOUS
  <2>2. i - 1 \in 0..(n - 1)
    BY <1>2
  <2>3. rcv_nxt[p] + (i - 1) \in DOMAIN buf
    BY <2>2, <1>4
  <2>4. rcv_nxt[p] + (i - 1) = rcv_nxt[p] + i - 1
    BY <1>2, <1>3
  <2> QED
    BY <2>3, <2>4
<1>6. moved \in Seq(Frag) /\ Len(moved) = n
  BY <1>2, <1>5 DEF IsBuffer
<1>7. rcv_queue'[p] = queue \o moved
  BY <1>1 DEF TypeOK
<1>8. /\ queue \o moved \in Seq(Frag)
      /\ Len(queue \o moved) = Len(queue) + Len(moved)
      /\ \A i \in 1..Len(queue) : (queue \o moved)[i] = queue[i]
      /\ \A i \in 1..Len(moved) : (queue \o moved)[Len(queue) + i] = moved[i]
  <2> HIDE DEF moved
  <2>1. moved \in Seq(Frag)
    BY <1>6
  <2> QED
    BY <2>1, ConcatPoints
<1>9. rcv_queue' \in [Peer -> Seq(Frag)] /\ rcv_nxt' \in [Peer -> Nat]
  BY <1>1, <1>2, <1>7, <1>8 DEF TypeOK
<1>10. rcv_buf'[p] = Keep(buf, DOMAIN buf \ (rcv_nxt[p]..(rcv_nxt[p] + n - 1)))
  BY <1>1 DEF TypeOK
<1>11. /\ DOMAIN rcv_buf'[p] = DOMAIN buf \ (rcv_nxt[p]..(rcv_nxt[p] + n - 1))
       /\ \A sn \in DOMAIN rcv_buf'[p] : rcv_buf'[p][sn] = buf[sn]
  BY <1>10 DEF Keep
<1>12. IsBuffer(rcv_buf'[p])
  BY <1>11 DEF IsBuffer
<1>13. \A r \in Peer \ {p} : /\ rcv_queue'[r] = rcv_queue[r]
                              /\ rcv_buf'[r] = rcv_buf[r]
                              /\ rcv_nxt'[r] = rcv_nxt[r]
  BY <1>1 DEF TypeOK
<1>14. DOMAIN rcv_buf' = Peer
  BY <1>1 DEF TypeOK
<1>15. \A i \in 1..n : rcv_queue'[p][Len(queue) + i] = buf[rcv_nxt[p] + i - 1]
  BY <1>6, <1>7, <1>8
<1> HIDE DEF moved
<1>16. Moved(p, buf, queue)
  BY <1>2, <1>3, <1>4, <1>6, <1>7, <1>8, <1>11, <1>15 DEF Moved
<1> QED
  BY <1>9, <1>12, <1>13, <1>14, <1>16

\* The fields of p have their types, and queues have a length.
LEMMA Types ==
    ASSUME TypeOK, NEW p \in Peer
    PROVE  /\ snd_una[p] \in Nat /\ snd_nxt[p] \in Nat /\ rcv_nxt[p] \in Nat
           /\ rmt_wnd[p] \in Nat /\ acklist[p] \in Seq(Nat)
           /\ IsBuffer(snd_buf[p]) /\ IsBuffer(rcv_buf[p])
           /\ snd_queue[p] \in Seq(Frag) /\ rcv_queue[p] \in Seq(Frag)
           /\ written[p] \in Seq(Frag) /\ read[p] \in Seq(Frag)
           /\ inp[p] \in Seq(Segment) /\ net[p] \subseteq Seq(Segment) \ {<<>>}
           /\ Len(written[p]) \in Nat /\ Len(read[p]) \in Nat /\ Len(inp[p]) \in Nat
           /\ Len(snd_queue[p]) \in Nat /\ Len(rcv_queue[p]) \in Nat
           /\ Len(acklist[p]) \in Nat
<1> USE DEF TypeOK
<1>1. /\ snd_una[p] \in Nat /\ snd_nxt[p] \in Nat /\ rcv_nxt[p] \in Nat
      /\ rmt_wnd[p] \in Nat /\ acklist[p] \in Seq(Nat)
      /\ IsBuffer(snd_buf[p]) /\ IsBuffer(rcv_buf[p])
      /\ snd_queue[p] \in Seq(Frag) /\ rcv_queue[p] \in Seq(Frag)
      /\ written[p] \in Seq(Frag) /\ read[p] \in Seq(Frag)
      /\ inp[p] \in Seq(Segment) /\ net[p] \subseteq Seq(Segment) \ {<<>>}
  OBVIOUS
<1> QED
  BY <1>1, LenProperties

\* Every variable is a function on Peer, before and after a step.
LEMMA Domains ==
    ASSUME TypeOK, NEW p \in Peer
    PROVE  /\ p \in DOMAIN snd_una /\ p \in DOMAIN snd_nxt /\ p \in DOMAIN rcv_nxt
           /\ p \in DOMAIN snd_buf /\ p \in DOMAIN rcv_buf /\ p \in DOMAIN rmt_wnd
           /\ p \in DOMAIN snd_queue /\ p \in DOMAIN rcv_queue
           /\ p \in DOMAIN written /\ p \in DOMAIN read
           /\ p \in DOMAIN acklist /\ p \in DOMAIN inp /\ p \in DOMAIN net
BY DEF TypeOK

\* The same after a step that keeps the types.
LEMMA DomainsNext ==
    ASSUME TypeOK', NEW p \in Peer
    PROVE  /\ p \in DOMAIN snd_una' /\ p \in DOMAIN snd_nxt' /\ p \in DOMAIN rcv_nxt'
           /\ p \in DOMAIN snd_buf' /\ p \in DOMAIN rcv_buf' /\ p \in DOMAIN rmt_wnd'
           /\ p \in DOMAIN snd_queue' /\ p \in DOMAIN rcv_queue'
           /\ p \in DOMAIN written' /\ p \in DOMAIN read'
           /\ p \in DOMAIN acklist' /\ p \in DOMAIN inp' /\ p \in DOMAIN net'
BY DEF TypeOK

\* The types of counters and of what was sent, after a step that keeps them.
LEMMA TypesNext ==
    ASSUME TypeOK', NEW p \in Peer
    PROVE  /\ snd_nxt'[p] \in Nat /\ rcv_nxt'[p] \in Nat
           /\ written'[p] \in Seq(Frag) /\ Len(written'[p]) \in Nat
<1>1. /\ snd_nxt'[p] \in Nat /\ rcv_nxt'[p] \in Nat /\ written'[p] \in Seq(Frag)
  BY DEF TypeOK
<1> QED
  BY <1>1, LenProperties

-----------------------------------------------------------------------------
(* What is true of an endpoint stays true when it moves on *)

\* A step only adds to what p has sent and to what p holds.
Grows(p) ==
    /\ \A i \in 1..Len(written[p]) : written'[p][i] = written[p][i]
    /\ Len(written[p]) <= Len(written'[p])
    /\ snd_nxt[p] <= snd_nxt'[p] /\ rcv_nxt[p] <= rcv_nxt'[p]
    /\ \A sn \in Nat : Holds(p, sn) => Holds(p, sn)'

\* A sequence number goes on carrying the fragment it was given.
LEMMA StillCarries ==
    ASSUME TypeOK, IInv, TypeOK', NEW p \in Peer, Grows(p),
           NEW sn \in Nat, NEW f, Carries(p, sn, f)
    PROVE  Carries(p, sn, f)'
<1>1. /\ snd_nxt[p] \in Nat /\ snd_nxt'[p] \in Nat
      /\ Len(written[p]) \in Nat /\ Len(snd_queue[p]) \in Nat
  BY Types, TypesNext
<1>2. snd_nxt[p] <= Len(written[p])
  BY <1>1 DEF IInv, SenderInv
<1>3. sn + 1 \in 1..Len(written[p]) /\ sn < snd_nxt'[p]
  BY <1>1, <1>2 DEF Carries, Grows
<1> QED
  BY <1>3 DEF Carries, Grows

\* What a segment on its way to p says of the sender stays true when the sender moves.
LEMMA StillTruthful ==
    ASSUME TypeOK, IInv, TypeOK', NEW p \in Peer, Grows(Other(p)),
           NEW s \in Segment, Truthful(p, s)
    PROVE  Truthful(p, s)'
<1> DEFINE q == Other(p)
<1>1. q \in Peer
  BY OtherPeer
<1>2. s.una <= rcv_nxt'[q]
  <2>1. s.una \in Nat /\ rcv_nxt[q] \in Nat /\ rcv_nxt'[q] \in Nat
    BY <1>1, Types, TypesNext DEF Segment
  <2> QED
    BY <2>1 DEF Grows, Truthful
<1>3. ASSUME s.cmd = "PUSH" PROVE Carries(q, s.sn, s.seg)'
  <2>1. s.sn \in Nat
    BY <1>3 DEF Segment
  <2> QED
    BY <1>1, <1>3, <2>1, StillCarries DEF Truthful
<1>4. ASSUME s.cmd = "ACK" PROVE Holds(q, s.sn)'
  <2>1. s.sn \in Nat
    BY <1>4 DEF Segment
  <2> QED
    BY <1>1, <1>4, <2>1 DEF Truthful, Grows
<1> QED
  BY <1>2, <1>3, <1>4 DEF Truthful

\* The same of every segment of a datagram.
LEMMA StillAllTruthful ==
    ASSUME TypeOK, IInv, TypeOK', NEW p \in Peer, Grows(Other(p)),
           NEW d \in Seq(Segment), AllTruthful(p, d)
    PROVE  AllTruthful(p, d)'
BY StillTruthful DEF AllTruthful

\* The state of endpoint r, the datagrams towards it left aside.
Unmoved(r) ==
    /\ snd_queue'[r] = snd_queue[r] /\ snd_buf'[r] = snd_buf[r]
    /\ snd_nxt'[r] = snd_nxt[r] /\ written'[r] = written[r]
    /\ rcv_nxt'[r] = rcv_nxt[r] /\ rcv_buf'[r] = rcv_buf[r]
    /\ rcv_queue'[r] = rcv_queue[r] /\ read'[r] = read[r]
    /\ acklist'[r] = acklist[r] /\ inp'[r] = inp[r]

\* p still has, or its peer holds, every segment it has sent.
KeepsUnheld(p) ==
    \A sn \in 0..(snd_nxt[p] - 1) :
        sn \in DOMAIN snd_buf[p] \/ Holds(Other(p), sn)

\* A step of p preserves the invariant of the endpoint that does not move.
LEMMA Bystander ==
    ASSUME TypeOK, IInv, TypeOK', NEW p \in Peer, Grows(p), Unmoved(Other(p))
    PROVE  /\ SenderInv(Other(p))' /\ ReceiverInv(Other(p))'
           /\ InOrder(Other(p))' /\ KeepsUnheld(Other(p))'
           /\ AllTruthful(Other(p), inp[Other(p)])'
           /\ \A d \in net[Other(p)] : AllTruthful(Other(p), d)'
           /\ Grows(Other(p))
<1> DEFINE r == Other(p)
<1>0. r \in Peer /\ Other(r) = p
  BY OtherPeer
<1>1. SenderInv(r)'
  BY <1>0 DEF IInv, SenderInv, Unmoved, Carries
<1>2. ReceiverInv(r)'
  <2>1. rcv_nxt'[r] <= snd_nxt'[p]
    <3>1. rcv_nxt[r] \in Nat /\ snd_nxt[p] \in Nat /\ snd_nxt'[p] \in Nat
      BY <1>0, Types, TypesNext
    <3> QED
      BY <1>0, <3>1 DEF IInv, ReceiverInv, Unmoved, Grows
  <2>2. ASSUME NEW sn \in DOMAIN rcv_buf'[r]
        PROVE  /\ sn >= rcv_nxt'[r] /\ sn < snd_nxt'[p]
               /\ rcv_buf'[r][sn] = written'[p][sn + 1]
    <3>1. sn \in DOMAIN rcv_buf[r] /\ rcv_buf'[r][sn] = rcv_buf[r][sn]
      BY <2>2 DEF Unmoved
    <3>2. sn \in Nat
      BY <1>0, <3>1 DEF TypeOK, IsBuffer
    <3>3. sn >= rcv_nxt[r] /\ Carries(p, sn, rcv_buf[r][sn])
      BY <1>0, <3>1 DEF IInv, ReceiverInv
    <3>4. Carries(p, sn, rcv_buf[r][sn]) => sn < snd_nxt'[p] /\ rcv_buf[r][sn] = written'[p][sn + 1]
      BY <3>2, <3>3, StillCarries DEF Carries
    <3> QED
      BY <3>1, <3>3, <3>4 DEF Unmoved
  <2>3. \A i \in 1..Len(acklist'[r]) : Holds(r, acklist[r][i])'
    BY <1>0 DEF IInv, ReceiverInv, Unmoved, Holds
  <2> QED
    BY <1>0, <2>1, <2>2, <2>3 DEF ReceiverInv, Carries
<1>3. InOrder(r)'
  <2>1. InOrder(r)
    BY <1>0 DEF IInv, InOrderDelivery
  <2>2. /\ rcv_nxt[r] \in Nat /\ Len(written[p]) \in Nat /\ Len(written'[p]) \in Nat
        /\ Len(read[r]) \in Nat /\ Len(rcv_queue[r]) \in Nat
    BY <1>0, Types, TypesNext
  <2>3. Len(read[r]) + Len(rcv_queue[r]) <= Len(written[p])
    BY <1>0, <2>1 DEF InOrder
  <2>4. rcv_nxt'[r] <= Len(written'[p])
    BY <1>0, <2>1, <2>2 DEF InOrder, Unmoved, Grows
  <2>5. ASSUME NEW i \in 1..Len(read[r]) PROVE read[r][i] = written'[p][i]
    <3>1. i \in 1..Len(written[p])
      BY <2>2, <2>3, Positions
    <3> QED
      BY <1>0, <2>1, <3>1 DEF InOrder, Grows
  <2>6. ASSUME NEW i \in 1..Len(rcv_queue[r])
        PROVE  rcv_queue[r][i] = written'[p][Len(read[r]) + i]
    <3>1. Len(read[r]) + i \in 1..Len(written[p])
      BY <2>2, <2>3, Positions
    <3> QED
      BY <1>0, <2>1, <3>1 DEF InOrder, Grows
  <2> QED
    BY <1>0, <2>1, <2>4, <2>5, <2>6 DEF InOrder, Unmoved
<1>4. KeepsUnheld(r)'
  <2>1. KeepsUnheld(r)
    BY <1>0 DEF IInv, NoSegmentLost, KeepsUnheld
  <2>2. snd_nxt[r] \in Nat
    BY <1>0, Types, TypesNext
  <2> QED
    BY <1>0, <2>1, <2>2 DEF KeepsUnheld, Unmoved, Grows
<1>5. \A d \in net[r] : AllTruthful(r, d)'
  <2>1. \A d \in net[r] : d \in Seq(Segment) /\ AllTruthful(r, d)
    BY <1>0, Types DEF IInv, WireInv
  <2> QED
    BY <1>0, <2>1, StillAllTruthful
<1>6. AllTruthful(r, inp[r])'
  <2>1. inp[r] \in Seq(Segment) /\ AllTruthful(r, inp[r])
    BY <1>0, Types DEF IInv, WireInv
  <2>2. \A i \in 1..Len(inp[r]) : Truthful(r, inp[r][i]) /\ inp[r][i] \in Segment
    BY <2>1 DEF AllTruthful
  <2>3. \A s \in Segment : Truthful(r, s) => Truthful(r, s)'
    BY <1>0, StillTruthful
  <2>4. \A i \in 1..Len(inp[r]) : Truthful(r, inp[r][i])'
    <3>1. inp'[r] = inp[r]
      BY DEF Unmoved
    <3> QED
      BY <2>2, <2>3, <3>1 DEF Truthful, Holds, Carries
  <2> QED
    BY <2>4 DEF AllTruthful, Unmoved
<1>7. Grows(r)
  <2>1. /\ snd_nxt[r] \in Nat /\ rcv_nxt[r] \in Nat /\ Len(written[r]) \in Nat
    BY <1>0, Types, TypesNext
  <2> QED
    BY <2>1 DEF Grows, Unmoved, Holds
<1> QED
  BY <1>1, <1>2, <1>3, <1>4, <1>5, <1>6, <1>7

\* It is enough to look at the endpoint that moves and at what it sends.
LEMMA Combine ==
    ASSUME TypeOK, IInv, TypeOK', NEW p \in Peer, Grows(p), Unmoved(Other(p)),
           SenderInv(p)', ReceiverInv(p)', InOrder(p)', KeepsUnheld(p)',
           AllTruthful(p, inp[p])',
           \A d \in net'[p] : AllTruthful(p, d)',
           \A d \in net'[Other(p)] :
               d \in net[Other(p)] \/ AllTruthful(Other(p), d)'
    PROVE  IInv'
<1> DEFINE r == Other(p)
<1>0. r \in Peer /\ Other(r) = p /\ \A x \in Peer : x = p \/ x = r
  BY OtherPeer
<1>1. /\ SenderInv(r)' /\ ReceiverInv(r)' /\ InOrder(r)' /\ KeepsUnheld(r)'
      /\ AllTruthful(r, inp[r])' /\ \A d \in net[r] : AllTruthful(r, d)'
  BY Bystander
<1>2. WireInv(p)' /\ WireInv(r)'
  BY <1>1 DEF WireInv
<1>3. InOrderDelivery'
  BY <1>0, <1>1 DEF InOrderDelivery
<1>4. NoSegmentLost'
  BY <1>0, <1>1 DEF NoSegmentLost, KeepsUnheld
<1> QED
  BY <1>0, <1>1, <1>2, <1>3, <1>4 DEF IInv

\* Datagrams that were truthful before a step of p are so after it.
LEMMA WireStable ==
    ASSUME TypeOK, IInv, TypeOK', NEW p \in Peer, Grows(p), Unmoved(Other(p))
    PROVE  /\ \A d \in net[p] : AllTruthful(p, d)'
           /\ \A s \in Segment : Truthful(p, s) => Truthful(p, s)'
<1>1. Grows(Other(p))
  BY Bystander
<1>2. \A d \in net[p] : d \in Seq(Segment) /\ AllTruthful(p, d)
  BY Types DEF IInv, WireInv
<1> QED
  BY <1>1, <1>2, StillTruthful, StillAllTruthful

-----------------------------------------------------------------------------
(* ikcp_send *)

\* ikcp_send keeps the invariant.
LEMMA SendStep == ASSUME TypeOK, IInv, NEW p \in Peer, Send(p) PROVE (TypeOK /\ IInv)'
<1> DEFINE r == Other(p)
<1>0. r \in Peer /\ r # p
  BY OtherPeer
<1>1. PICK count \in 1..MaxFrags :
        /\ snd_queue' = [snd_queue EXCEPT ![p] = @ \o Fragments(Len(written[p]) + 1, count)]
        /\ written' = [written EXCEPT ![p] = @ \o Fragments(Len(written[p]) + 1, count)]
  BY DEF Send
<1> DEFINE frags == Fragments(Len(written[p]) + 1, count)
<1>2. UNCHANGED <<snd_buf, snd_una, snd_nxt, rmt_wnd, rcv_nxt, rcv_buf, rcv_queue,
                  acklist, probe, probe_wait, inp, net, read>>
  BY DEF Send, rcvVars
<1>3. frags \in Seq(Frag)
  <2>1. count \in Nat /\ \A i \in 1..count : count - i \in Nat
    BY KcpAssumption
  <2>2. Len(written[p]) + 1 \in Nat
    BY Types
  <2> QED
    BY <2>1, <2>2 DEF Fragments, Frag
<1> HIDE DEF frags
<1>4. /\ written[p] \in Seq(Frag) /\ snd_queue[p] \in Seq(Frag)
      /\ Len(written[p]) \in Nat /\ Len(snd_queue[p]) \in Nat
      /\ Len(frags) \in Nat /\ snd_nxt[p] \in Nat /\ rcv_nxt[p] \in Nat
  BY <1>3, Types, LenProperties
<1>5. written'[p] = written[p] \o frags /\ snd_queue'[p] = snd_queue[p] \o frags
  BY <1>1 DEF TypeOK, frags
<1>6. /\ written'[p] \in Seq(Frag)
      /\ Len(written'[p]) = Len(written[p]) + Len(frags)
      /\ \A i \in 1..Len(written[p]) : written'[p][i] = written[p][i]
      /\ \A i \in 1..Len(frags) : written'[p][Len(written[p]) + i] = frags[i]
  <2>1. written[p] \in Seq(Frag)
    BY <1>4
  <2>2. /\ written[p] \o frags \in Seq(Frag)
        /\ Len(written[p] \o frags) = Len(written[p]) + Len(frags)
        /\ \A i \in 1..Len(written[p]) : (written[p] \o frags)[i] = written[p][i]
        /\ \A i \in 1..Len(frags) :
              (written[p] \o frags)[Len(written[p]) + i] = frags[i]
    BY <1>3, <2>1, ConcatPoints
  <2> QED
    BY <1>5, <2>2
<1>7. /\ snd_queue'[p] \in Seq(Frag)
      /\ Len(snd_queue'[p]) = Len(snd_queue[p]) + Len(frags)
      /\ \A i \in 1..Len(snd_queue[p]) : snd_queue'[p][i] = snd_queue[p][i]
      /\ \A i \in 1..Len(frags) : snd_queue'[p][Len(snd_queue[p]) + i] = frags[i]
  <2>1. snd_queue[p] \in Seq(Frag)
    BY <1>4
  <2>2. /\ snd_queue[p] \o frags \in Seq(Frag)
        /\ Len(snd_queue[p] \o frags) = Len(snd_queue[p]) + Len(frags)
        /\ \A i \in 1..Len(snd_queue[p]) : (snd_queue[p] \o frags)[i] = snd_queue[p][i]
        /\ \A i \in 1..Len(frags) :
              (snd_queue[p] \o frags)[Len(snd_queue[p]) + i] = frags[i]
    BY <1>3, <2>1, ConcatPoints
  <2> QED
    BY <1>5, <2>2
<1>8. TypeOK'
  BY <1>1, <1>2, <1>5, <1>6, <1>7 DEF TypeOK, frags
<1>9. Grows(p)
  BY <1>2, <1>4, <1>6 DEF Grows, Holds
<1>10. Unmoved(r)
  BY <1>0, <1>1, <1>2 DEF Unmoved, TypeOK
<1>11. SenderInv(p)'
  <2>1. snd_nxt[p] + Len(snd_queue[p]) = Len(written[p])
    BY DEF IInv, SenderInv
  <2>2. \A i \in 1..Len(snd_queue[p]) : snd_queue[p][i] = written[p][snd_nxt[p] + i]
    BY DEF IInv, SenderInv
  <2>3. snd_nxt'[p] + Len(snd_queue'[p]) = Len(written'[p])
    <3>1. snd_nxt'[p] = snd_nxt[p]
      BY <1>2
    <3>2. /\ Len(snd_queue'[p]) = Len(snd_queue[p]) + Len(frags)
          /\ Len(written'[p]) = Len(written[p]) + Len(frags)
      BY <1>6, <1>7
    <3>3. /\ snd_nxt[p] \in Nat /\ Len(written[p]) \in Nat
          /\ Len(snd_queue[p]) \in Nat /\ Len(frags) \in Nat
          /\ Len(snd_queue'[p]) \in Nat /\ Len(written'[p]) \in Nat
      BY <1>4, <1>6, <1>7, LenProperties
    <3> QED
      BY <1>8, <2>1, <3>1, <3>2, <3>3, Domains, DomainsNext
  <2>4. ASSUME NEW i \in 1..Len(snd_queue'[p])
        PROVE  snd_queue'[p][i] = written'[p][snd_nxt[p] + i]
    <3>1. CASE i <= Len(snd_queue[p])
      <4>1. i \in 1..Len(snd_queue[p]) /\ snd_nxt[p] + i \in 1..Len(written[p])
        BY <1>4, <1>7, <2>1, <3>1
      <4> QED
        BY <1>6, <1>7, <2>2, <4>1
    <3>2. CASE ~(i <= Len(snd_queue[p]))
      <4> DEFINE j == i - Len(snd_queue[p])
      <4>1. j \in 1..Len(frags)
        BY <1>4, <1>7, <3>2
      <4>2. Len(snd_queue[p]) + j = i
        BY <1>4
      <4>3. Len(written[p]) + j = snd_nxt[p] + i
        <5>1. /\ snd_nxt[p] \in Nat /\ Len(snd_queue[p]) \in Nat /\ i \in Int
              /\ Len(written[p]) \in Nat
          BY <1>4
        <5> QED
          BY <2>1, <5>1, Domains
      <4> HIDE DEF j
      <4> QED
        BY <1>6, <1>7, <4>1, <4>2, <4>3
    <3> QED
      BY <3>1, <3>2
  <2>5. ASSUME NEW sn \in DOMAIN snd_buf[p]
        PROVE  sn < snd_nxt[p] /\ snd_buf[p][sn] = written'[p][sn + 1]
    <3>1. sn < snd_nxt[p] /\ snd_buf[p][sn] = written[p][sn + 1] /\ sn \in Nat
      BY Types DEF IInv, SenderInv, Carries, IsBuffer
    <3>2. sn + 1 \in 1..Len(written[p])
      BY <1>4, <2>1, <3>1
    <3> QED
      BY <1>6, <3>1, <3>2
  <2> QED
    BY <1>2, <2>3, <2>4, <2>5 DEF SenderInv, Carries
<1>12. ReceiverInv(p)' /\ InOrder(p)' /\ KeepsUnheld(p)'
  <2>1. written'[r] = written[r]
    BY <1>10 DEF Unmoved
  <2>2. ReceiverInv(p) /\ InOrder(p) /\ KeepsUnheld(p)
    BY DEF IInv, InOrderDelivery, NoSegmentLost, KeepsUnheld
  <2> QED
    BY <1>2, <2>1, <2>2 DEF ReceiverInv, InOrder, KeepsUnheld, Holds, Carries
<1>13. AllTruthful(p, inp[p])'
  <2>1. \A i \in 1..Len(inp[p]) : inp[p][i] \in Segment /\ Truthful(p, inp[p][i])
    BY Types DEF IInv, WireInv, AllTruthful
  <2>2. \A s \in Segment : Truthful(p, s) => Truthful(p, s)'
    BY <1>8, <1>9, <1>10, WireStable
  <2> QED
    BY <1>2, <2>1, <2>2 DEF AllTruthful, Truthful, Holds, Carries
<1>14. \A d \in net'[p] : AllTruthful(p, d)'
  BY <1>2, <1>8, <1>9, <1>10, WireStable
<1>15. \A d \in net'[r] : d \in net[r]
  BY <1>2
<1> QED
  BY <1>8, <1>9, <1>10, <1>11, <1>12, <1>13, <1>14, <1>15, Combine

-----------------------------------------------------------------------------
(* Moving segments to rcv_queue keeps the stream in order *)

\* Every segment of buf belongs behind what p has moved to rcv_queue.
Ahead(p, buf) ==
    \A sn \in DOMAIN buf : sn >= rcv_nxt[p] /\ Carries(Other(p), sn, buf[sn])

\* rd and then queue are what the peer wrote, up to rcv_nxt.
InStream(p, rd, queue) ==
    /\ Len(rd) + Len(queue) = rcv_nxt[p]
    /\ \A i \in 1..Len(rd) : rd[i] = written[Other(p)][i]
    /\ \A i \in 1..Len(queue) : queue[i] = written[Other(p)][Len(rd) + i]

\* MoveToQueue extends the stream in order and drops nothing that p holds.
LEMMA MoveInOrder ==
    ASSUME TypeOK, IInv, NEW p \in Peer, NEW buf, IsBuffer(buf),
           NEW queue \in Seq(Frag), MoveToQueue(p, buf, queue),
           NEW rd \in Seq(Frag), read'[p] = rd,
           InStream(p, rd, queue), Ahead(p, buf),
           DOMAIN rcv_buf[p] \subseteq DOMAIN buf,
           written'[Other(p)] = written[Other(p)]
    PROVE  /\ rcv_nxt[p] <= rcv_nxt'[p] /\ rcv_nxt'[p] <= snd_nxt[Other(p)]
           /\ \A sn \in Nat : Holds(p, sn) => Holds(p, sn)'
           /\ \A sn \in DOMAIN buf : Holds(p, sn)'
           /\ \A sn \in DOMAIN rcv_buf'[p] :
                 sn >= rcv_nxt'[p] /\ Carries(Other(p), sn, rcv_buf'[p][sn])
           /\ InOrder(p)'
<1> DEFINE r == Other(p)
           m == rcv_nxt[p]
<1>0. r \in Peer
  BY OtherPeer
<1>1. PICK n \in Nat :
        /\ rcv_nxt'[p] = m + n
        /\ \A i \in 0..(n - 1) : m + i \in DOMAIN buf
        /\ DOMAIN rcv_buf'[p] = DOMAIN buf \ (m..(m + n - 1))
        /\ \A sn \in DOMAIN rcv_buf'[p] : rcv_buf'[p][sn] = buf[sn]
        /\ Len(rcv_queue'[p]) = Len(queue) + n
        /\ \A i \in 1..Len(queue) : rcv_queue'[p][i] = queue[i]
        /\ \A i \in 1..n : rcv_queue'[p][Len(queue) + i] = buf[m + i - 1]
  <2>1. Moved(p, buf, queue)
    BY MoveEffect
  <2> QED
    BY <2>1 DEF Moved
<1>2. /\ m \in Nat /\ Len(queue) \in Nat /\ Len(rd) \in Nat
      /\ snd_nxt[r] \in Nat /\ Len(written[r]) \in Nat /\ Len(snd_queue[r]) \in Nat
  BY <1>0, Types, LenProperties
<1>3. m <= snd_nxt[r] /\ snd_nxt[r] <= Len(written[r])
  <2>1. m <= snd_nxt[r] /\ snd_nxt[r] + Len(snd_queue[r]) = Len(written[r])
    BY <1>0 DEF IInv, ReceiverInv, SenderInv
  <2> QED
    BY <1>0, <1>2, <2>1, Domains
<1>4. \A sn \in DOMAIN buf :
        sn \in Nat /\ sn >= m /\ sn < snd_nxt[r] /\ buf[sn] = written[r][sn + 1]
  BY DEF IsBuffer, Carries, Ahead
<1> HIDE DEF r, m
<1>5. m + n <= snd_nxt[r]
  <2>1. CASE n = 0
    BY <1>2, <1>3, <2>1
  <2>2. CASE n # 0
    <3>1. n - 1 \in 0..(n - 1)
      BY <2>2
    <3>2. m + (n - 1) \in DOMAIN buf
      BY <1>1, <3>1
    <3>3. m + (n - 1) < snd_nxt[r]
      BY <1>4, <3>2
    <3> QED
      BY <1>2, <3>3
  <2> QED
    BY <2>1, <2>2
<1>6. \A sn \in Nat : sn < m => sn < m + n
  BY <1>2
<1>7. \A sn \in DOMAIN buf : sn \in DOMAIN rcv_buf'[p] \/ sn < m + n
  BY <1>1, <1>2, <1>4
<1>8. \A sn \in DOMAIN rcv_buf'[p] :
        /\ sn >= m + n /\ sn < snd_nxt[r]
        /\ rcv_buf'[p][sn] = written[r][sn + 1]
  BY <1>1, <1>2, <1>4
<1>9. /\ \A sn \in Nat : Holds(p, sn) => Holds(p, sn)'
      /\ \A sn \in DOMAIN buf : Holds(p, sn)'
  BY <1>1, <1>6, <1>7 DEF Holds, m
<1>10. \A i \in 1..(Len(queue) + n) : rcv_queue'[p][i] = written[r][Len(rd) + i]
  <2>1. ASSUME NEW i \in 1..Len(queue)
        PROVE  rcv_queue'[p][i] = written[r][Len(rd) + i]
    BY <1>1 DEF r, InStream
  <2>2. ASSUME NEW i \in 1..n
        PROVE  rcv_queue'[p][Len(queue) + i] = written[r][Len(rd) + (Len(queue) + i)]
    <3>1. i - 1 \in 0..(n - 1) /\ m + (i - 1) = m + i - 1
      BY <1>2
    <3>2. m + i - 1 \in DOMAIN buf
      <4>1. m + (i - 1) \in DOMAIN buf
        BY <1>1, <3>1
      <4> QED
        BY <3>1, <4>1
    <3>3. buf[m + i - 1] = written[r][(m + i - 1) + 1]
      BY <1>4, <3>2
    <3>4. (m + i - 1) + 1 = Len(rd) + (Len(queue) + i)
      <4>1. Len(rd) + Len(queue) = m
        BY DEF m, InStream
      <4> QED
        BY <1>2, <4>1, Sums
    <3> QED
      BY <1>1, <3>3, <3>4
  <2>3. ASSUME NEW i \in 1..(Len(queue) + n)
        PROVE  \/ i \in 1..Len(queue)
               \/ i - Len(queue) \in 1..n /\ Len(queue) + (i - Len(queue)) = i
    BY <1>2
  <2>4. ASSUME NEW i \in 1..(Len(queue) + n)
        PROVE  rcv_queue'[p][i] = written[r][Len(rd) + i]
    <3>1. CASE i \in 1..Len(queue)
      BY <2>1, <3>1
    <3>2. CASE i - Len(queue) \in 1..n /\ Len(queue) + (i - Len(queue)) = i
      <4> DEFINE j == i - Len(queue)
      <4>1. j \in 1..n /\ Len(queue) + j = i
        BY <3>2
      <4> HIDE DEF j
      <4> QED
        BY <2>2, <4>1
    <3> QED
      BY <2>3, <3>1, <3>2
  <2> QED
    BY <2>4
<1>11. InOrder(p)'
  <2>1. m + n <= Len(written[r])
    BY <1>2, <1>3, <1>5
  <2>2. Len(rd) + (Len(queue) + n) = m + n
    <3>1. Len(rd) + Len(queue) = m
      BY DEF m, InStream
    <3> QED
      BY <1>2, <3>1, Sums
  <2>3. written'[r] = written[r]
    BY DEF r
  <2>4. \A i \in 1..Len(rd) : rd[i] = written[r][i]
    BY DEF r, InStream
  <2> QED
    BY <1>1, <1>10, <2>1, <2>2, <2>3, <2>4 DEF InOrder, r
<1>12. m <= m + n
  BY <1>2
<1> QED
  BY <1>1, <1>5, <1>8, <1>9, <1>11, <1>12 DEF Carries, r, m

-----------------------------------------------------------------------------
(* ikcp_input *)

\* What the header of a segment does to the sender's list.
Shrunk(p) ==
    /\ DOMAIN snd_buf'[p] \subseteq DOMAIN snd_buf[p]
    /\ \A sn \in DOMAIN snd_buf'[p] : snd_buf'[p][sn] = snd_buf[p][sn]
    /\ \A sn \in DOMAIN snd_buf[p] : sn \in DOMAIN snd_buf'[p] \/ Holds(Other(p), sn)

\* Taking in the header of a truthful segment only forgets segments the peer holds.
LEMMA HeaderEffect ==
    ASSUME TypeOK, IInv, NEW p \in Peer, NEW s \in Segment, Truthful(p, s),
           ParseHeader(p, s)
    PROVE  /\ DOMAIN snd_buf' = Peer /\ IsBuffer(snd_buf'[p])
           /\ \A r \in Peer \ {p} : snd_buf'[r] = snd_buf[r]
           /\ snd_una' \in [Peer -> Nat] /\ rmt_wnd' \in [Peer -> Nat]
           /\ Shrunk(p)
<1> DEFINE b1 == ParseUna(snd_buf[p], s.una)
           b2 == IF s.cmd = "ACK"
                 THEN ParseAck(b1, ShrinkBuf(b1, snd_nxt[p]), snd_nxt[p], s.sn)
                 ELSE b1
<1>0. /\ IsBuffer(snd_buf[p]) /\ snd_nxt[p] \in Nat
      /\ s.una \in Nat /\ s.wnd \in Nat /\ (s.cmd = "ACK" => s.sn \in Nat)
      /\ rcv_nxt[Other(p)] \in Nat
  BY Types, OtherPeer DEF Segment
<1>1. /\ DOMAIN b1 = {n \in DOMAIN snd_buf[p] : n >= s.una}
      /\ \A sn \in DOMAIN b1 : b1[sn] = snd_buf[p][sn]
  BY DEF ParseUna, Keep
<1>2. /\ DOMAIN b2 \subseteq DOMAIN b1
      /\ \A sn \in DOMAIN b2 : b2[sn] = b1[sn]
      /\ \A sn \in DOMAIN b1 : sn \in DOMAIN b2 \/ (s.cmd = "ACK" /\ sn = s.sn)
  <2> HIDE DEF b1
  <2> QED
    BY DEF ParseAck, Keep
<1>3. /\ snd_buf' = [snd_buf EXCEPT ![p] = b2]
      /\ snd_una' = [snd_una EXCEPT ![p] = ShrinkBuf(b2, snd_nxt[p])]
      /\ rmt_wnd' = [rmt_wnd EXCEPT ![p] = s.wnd]
  BY DEF ParseHeader
<1> HIDE DEF b1, b2
<1>4. DOMAIN b2 \subseteq Nat /\ IsBuffer(b2)
  BY <1>0, <1>1, <1>2 DEF IsBuffer
<1>5. ShrinkBuf(b2, snd_nxt[p]) \in Nat
  BY <1>0, <1>4, ShrinkBufBound
<1>6. /\ DOMAIN snd_buf' = Peer /\ snd_buf'[p] = b2
      /\ \A r \in Peer \ {p} : snd_buf'[r] = snd_buf[r]
      /\ snd_una' \in [Peer -> Nat] /\ rmt_wnd' \in [Peer -> Nat]
  BY <1>0, <1>3, <1>5 DEF TypeOK
<1>7. ASSUME NEW sn \in DOMAIN snd_buf[p], sn \notin DOMAIN b2
      PROVE  Holds(Other(p), sn)
  <2>1. sn \in Nat
    BY <1>0 DEF IsBuffer
  <2>2. CASE sn \in DOMAIN b1
    BY <1>2, <1>7, <2>2 DEF Truthful
  <2>3. CASE sn \notin DOMAIN b1
    <3>1. sn < s.una
      BY <1>0, <1>1, <2>1, <2>3
    <3>2. s.una <= rcv_nxt[Other(p)]
      BY DEF Truthful
    <3> QED
      BY <1>0, <2>1, <3>1, <3>2 DEF Holds
  <2> QED
    BY <2>2, <2>3
<1>8. Shrunk(p)
  BY <1>1, <1>2, <1>6, <1>7 DEF Shrunk
<1> QED
  BY <1>4, <1>6, <1>8

\* What has arrived in the receive side of p is the peer's, in order.
Received(p) ==
    /\ rcv_queue' \in [Peer -> Seq(Frag)] /\ rcv_nxt' \in [Peer -> Nat]
    /\ acklist' \in [Peer -> Seq(Nat)]
    /\ DOMAIN rcv_buf' = Peer /\ IsBuffer(rcv_buf'[p])
    /\ \A r \in Peer \ {p} : /\ rcv_queue'[r] = rcv_queue[r] /\ rcv_buf'[r] = rcv_buf[r]
                            /\ rcv_nxt'[r] = rcv_nxt[r] /\ acklist'[r] = acklist[r]
    /\ rcv_nxt[p] <= rcv_nxt'[p] /\ rcv_nxt'[p] <= snd_nxt[Other(p)]
    /\ \A sn \in Nat : Holds(p, sn) => Holds(p, sn)'
    /\ \A sn \in DOMAIN rcv_buf'[p] :
          sn >= rcv_nxt'[p] /\ Carries(Other(p), sn, rcv_buf'[p][sn])
    /\ \A i \in 1..Len(acklist'[p]) : Holds(p, acklist[p][i])'
    /\ InOrder(p)'

\* A step that leaves the receive side alone.
LEMMA ReceivedNothing ==
    ASSUME TypeOK, IInv, NEW p \in Peer, UNCHANGED rcvVars, read'[p] = read[p],
           written'[Other(p)] = written[Other(p)]
    PROVE  Received(p)
<1>1. /\ rcv_nxt' = rcv_nxt /\ rcv_buf' = rcv_buf /\ rcv_queue' = rcv_queue
      /\ acklist' = acklist
  BY DEF rcvVars
<1>2. ReceiverInv(p) /\ InOrder(p)
  BY DEF IInv, InOrderDelivery
<1>3. rcv_nxt[p] \in Nat
  BY Types
<1>4. InOrder(p)'
  BY <1>1, <1>2 DEF InOrder
<1>5. /\ \A sn \in Nat : Holds(p, sn) => Holds(p, sn)'
      /\ \A i \in 1..Len(acklist'[p]) : Holds(p, acklist[p][i])'
  BY <1>1, <1>2 DEF ReceiverInv, Holds
<1>6. /\ rcv_queue \in [Peer -> Seq(Frag)] /\ rcv_nxt \in [Peer -> Nat]
      /\ acklist \in [Peer -> Seq(Nat)] /\ DOMAIN rcv_buf = Peer /\ IsBuffer(rcv_buf[p])
  BY DEF TypeOK
<1> QED
  BY <1>1, <1>2, <1>3, <1>4, <1>5, <1>6 DEF Received, ReceiverInv

\* The stream as it stands before a step.
LEMMA StreamBefore ==
    ASSUME TypeOK, IInv, NEW p \in Peer
    PROVE  InStream(p, read[p], rcv_queue[p]) /\ Ahead(p, rcv_buf[p])
BY DEF IInv, InOrderDelivery, InOrder, InStream, Ahead, ReceiverInv

\* Acknowledging a segment p holds keeps acklist to segments p holds.
LEMMA AckPushEffect ==
    ASSUME TypeOK, IInv, NEW p \in Peer, NEW sn \in Nat, AckPush(p, sn),
           \A n \in Nat : Holds(p, n) => Holds(p, n)', Holds(p, sn)'
    PROVE  /\ acklist' \in [Peer -> Seq(Nat)]
           /\ \A r \in Peer \ {p} : acklist'[r] = acklist[r]
           /\ \A i \in 1..Len(acklist'[p]) : Holds(p, acklist[p][i])'
<1>1. acklist' = [acklist EXCEPT ![p] = Append(@, sn)]
  BY DEF AckPush
<1>2. acklist[p] \in Seq(Nat) /\ Len(acklist[p]) \in Nat
  BY Types
<1>3. /\ Append(acklist[p], sn) \in Seq(Nat)
      /\ Len(Append(acklist[p], sn)) = Len(acklist[p]) + 1
      /\ \A i \in 1..Len(acklist[p]) : Append(acklist[p], sn)[i] = acklist[p][i]
      /\ Append(acklist[p], sn)[Len(acklist[p]) + 1] = sn
  BY <1>2, AppendProperties
<1>4. acklist'[p] = Append(acklist[p], sn) /\ acklist' \in [Peer -> Seq(Nat)]
      /\ \A r \in Peer \ {p} : acklist'[r] = acklist[r]
  BY <1>1, <1>3 DEF TypeOK
<1>5. \A i \in 1..Len(acklist[p]) : acklist[p][i] \in Nat /\ Holds(p, acklist[p][i])
  BY <1>2 DEF IInv, ReceiverInv
<1> DEFINE held(n) == n < rcv_nxt'[p] \/ n \in DOMAIN rcv_buf'[p]
<1>6. \A n \in Nat : Holds(p, n) => held(n)
  BY DEF Holds
<1>7. held(sn)
  BY DEF Holds
<1> HIDE DEF held
<1>8. ASSUME NEW i \in 1..Len(acklist'[p]) PROVE held(acklist'[p][i])
  <2>1. i \in 1..Len(acklist[p]) \/ i = Len(acklist[p]) + 1
    BY <1>2, <1>3, <1>4
  <2>2. CASE i \in 1..Len(acklist[p])
    BY <1>3, <1>4, <1>5, <1>6, <2>2
  <2>3. CASE i = Len(acklist[p]) + 1
    BY <1>3, <1>4, <1>7, <2>3
  <2> QED
    BY <2>1, <2>2, <2>3
<1>9. \A i \in 1..Len(acklist'[p]) : Holds(p, acklist[p][i])'
  BY <1>8 DEF Holds, held
<1> QED
  BY <1>4, <1>9

\* ikcp_input taking in a data segment the peer sent, in each of its three cases.
LEMMA PushEffect ==
    ASSUME TypeOK, IInv, NEW p \in Peer, NEW sn \in Nat, NEW seg \in Frag,
           Carries(Other(p), sn, seg), Push(p, sn, seg), read' = read,
           written'[Other(p)] = written[Other(p)]
    PROVE  Received(p)
<1>0. /\ rcv_nxt[p] \in Nat /\ rcv_queue[p] \in Seq(Frag) /\ read[p] \in Seq(Frag)
      /\ IsBuffer(rcv_buf[p])
  BY Types
<1>1. CASE sn >= rcv_nxt[p] + RcvWnd /\ UNCHANGED rcvVars
  BY <1>1, ReceivedNothing
<1>2. CASE /\ sn < rcv_nxt[p] /\ AckPush(p, sn)
           /\ UNCHANGED <<rcv_nxt, rcv_buf, rcv_queue>>
  <2>1. \A n \in Nat : Holds(p, n) => Holds(p, n)'
    BY <1>2 DEF Holds
  <2>2. Holds(p, sn)'
    BY <1>2 DEF Holds
  <2>3. /\ acklist' \in [Peer -> Seq(Nat)]
        /\ \A r \in Peer \ {p} : acklist'[r] = acklist[r]
        /\ \A i \in 1..Len(acklist'[p]) : Holds(p, acklist[p][i])'
    BY <1>2, <2>1, <2>2, AckPushEffect
  <2>4. ReceiverInv(p) /\ InOrder(p)
    BY DEF IInv, InOrderDelivery
  <2>5. InOrder(p)'
    BY <1>2, <2>4 DEF InOrder
  <2>6. /\ rcv_queue \in [Peer -> Seq(Frag)] /\ rcv_nxt \in [Peer -> Nat]
        /\ DOMAIN rcv_buf = Peer /\ IsBuffer(rcv_buf[p])
    BY DEF TypeOK
  <2>7. rcv_nxt' = rcv_nxt /\ rcv_buf' = rcv_buf /\ rcv_queue' = rcv_queue
    BY <1>2
  <2>8. /\ rcv_nxt[p] <= rcv_nxt'[p] /\ rcv_nxt'[p] <= snd_nxt[Other(p)]
        /\ \A n \in DOMAIN rcv_buf'[p] :
              n >= rcv_nxt'[p] /\ Carries(Other(p), n, rcv_buf'[p][n])
    BY <1>0, <2>4, <2>7 DEF ReceiverInv
  <2>9. /\ rcv_queue' \in [Peer -> Seq(Frag)] /\ rcv_nxt' \in [Peer -> Nat]
        /\ DOMAIN rcv_buf' = Peer /\ IsBuffer(rcv_buf'[p])
        /\ \A r \in Peer \ {p} : /\ rcv_queue'[r] = rcv_queue[r]
                                /\ rcv_buf'[r] = rcv_buf[r] /\ rcv_nxt'[r] = rcv_nxt[r]
    BY <2>6, <2>7
  <2> QED
    BY <2>1, <2>3, <2>5, <2>8, <2>9 DEF Received
<1>3. CASE /\ sn \in rcv_nxt[p]..(rcv_nxt[p] + RcvWnd - 1)
           /\ AckPush(p, sn) /\ ParseData(p, sn, seg)
  <2> DEFINE buf == IF sn \in DOMAIN rcv_buf[p] THEN rcv_buf[p]
                    ELSE [n \in DOMAIN rcv_buf[p] \cup {sn} |->
                              IF n = sn THEN seg ELSE rcv_buf[p][n]]
  <2>1. MoveToQueue(p, buf, rcv_queue[p])
    BY <1>3 DEF ParseData
  <2>2. /\ DOMAIN buf = DOMAIN rcv_buf[p] \cup {sn}
        /\ \A n \in DOMAIN rcv_buf[p] : buf[n] = rcv_buf[p][n]
        /\ sn \notin DOMAIN rcv_buf[p] => buf[sn] = seg
    OBVIOUS
  <2> HIDE DEF buf
  <2>3. IsBuffer(buf)
    BY <1>0, <2>2 DEF IsBuffer
  <2>4. Ahead(p, rcv_buf[p]) /\ InStream(p, read[p], rcv_queue[p])
    BY StreamBefore
  <2>5. Ahead(p, buf)
    <3>1. sn >= rcv_nxt[p]
      BY <1>0, <1>3
    <3>2. ASSUME NEW n \in DOMAIN buf
          PROVE  n >= rcv_nxt[p] /\ Carries(Other(p), n, buf[n])
      <4>1. CASE n \in DOMAIN rcv_buf[p]
        BY <2>2, <2>4, <4>1 DEF Ahead
      <4>2. CASE n \notin DOMAIN rcv_buf[p]
        <5>1. n = sn /\ buf[n] = seg
          BY <2>2, <4>2
        <5> QED
          BY <3>1, <5>1
      <4> QED
        BY <4>1, <4>2
    <3> QED
      BY <3>2 DEF Ahead
  <2>6. read'[p] = read[p] /\ DOMAIN rcv_buf[p] \subseteq DOMAIN buf /\ sn \in DOMAIN buf
    BY <2>2
  <2>7. /\ rcv_nxt[p] <= rcv_nxt'[p] /\ rcv_nxt'[p] <= snd_nxt[Other(p)]
        /\ \A n \in Nat : Holds(p, n) => Holds(p, n)'
        /\ \A n \in DOMAIN buf : Holds(p, n)'
        /\ \A n \in DOMAIN rcv_buf'[p] :
              n >= rcv_nxt'[p] /\ Carries(Other(p), n, rcv_buf'[p][n])
        /\ InOrder(p)'
    BY <1>0, <2>1, <2>3, <2>4, <2>5, <2>6, MoveInOrder
  <2>8. /\ acklist' \in [Peer -> Seq(Nat)]
        /\ \A r \in Peer \ {p} : acklist'[r] = acklist[r]
        /\ \A i \in 1..Len(acklist'[p]) : Holds(p, acklist[p][i])'
    BY <1>3, <2>6, <2>7, AckPushEffect
  <2>9. /\ rcv_queue' \in [Peer -> Seq(Frag)] /\ rcv_nxt' \in [Peer -> Nat]
        /\ DOMAIN rcv_buf' = Peer
        /\ \A r \in Peer \ {p} : /\ rcv_queue'[r] = rcv_queue[r]
                                /\ rcv_buf'[r] = rcv_buf[r] /\ rcv_nxt'[r] = rcv_nxt[r]
        /\ IsBuffer(rcv_buf'[p])
    BY <1>0, <2>1, <2>3, MoveEffect
  <2> QED
    BY <2>7, <2>8, <2>9 DEF Received
<1> QED
  BY <1>1, <1>2, <1>3 DEF Push

\* Whatever moved, the invariant holds of p again if its parts do.
LEMMA InputParts ==
    ASSUME TypeOK, IInv, NEW p \in Peer, Shrunk(p), Received(p), IsBuffer(snd_buf'[p]),
           DOMAIN snd_buf' = Peer, \A r \in Peer \ {p} : snd_buf'[r] = snd_buf[r],
           UNCHANGED <<snd_queue, snd_nxt, written, read>>
    PROVE  /\ Grows(p) /\ SenderInv(p)' /\ ReceiverInv(p)' /\ InOrder(p)'
           /\ KeepsUnheld(p)'
           /\ \A r \in Peer \ {p} : inp'[r] = inp[r] => Unmoved(r)
<1>0. Other(p) \in Peer /\ Other(p) # p
  BY OtherPeer
<1>1. SenderInv(p) /\ KeepsUnheld(p)
  BY DEF IInv, NoSegmentLost, KeepsUnheld
<1>2. /\ snd_nxt' = snd_nxt /\ written' = written /\ snd_queue' = snd_queue /\ read' = read
      /\ snd_nxt[p] \in Nat /\ Len(written[p]) \in Nat
  BY Types
<1>3. Grows(p)
  BY <1>2 DEF Grows, Received
<1>4. SenderInv(p)'
  BY <1>1, <1>2 DEF SenderInv, Carries, Shrunk
<1>5. ReceiverInv(p)'
  BY <1>2 DEF ReceiverInv, Received, Carries
<1>6. InOrder(p)'
  BY DEF Received
<1>7. KeepsUnheld(p)'
  <2>1. /\ rcv_nxt'[Other(p)] = rcv_nxt[Other(p)]
        /\ rcv_buf'[Other(p)] = rcv_buf[Other(p)]
    BY <1>0 DEF Received
  <2>2. \A sn \in Nat : Holds(Other(p), sn) <=> Holds(Other(p), sn)'
    BY <2>1 DEF Holds
  <2>3. ASSUME NEW sn \in 0..(snd_nxt[p] - 1)
        PROVE  sn \in DOMAIN snd_buf'[p] \/ Holds(Other(p), sn)
    BY <1>1 DEF KeepsUnheld, Shrunk
  <2> QED
    BY <1>2, <2>2, <2>3 DEF KeepsUnheld
<1>8. \A r \in Peer \ {p} : inp'[r] = inp[r] => Unmoved(r)
  BY <1>2 DEF Unmoved, Received
<1> QED
  BY <1>3, <1>4, <1>5, <1>6, <1>7, <1>8

\* One iteration of the loop, wherever the segment comes from.
LEMMA ParseEffect ==
    ASSUME TypeOK, IInv, NEW p \in Peer, NEW s \in Segment, Truthful(p, s),
           ParseSegment(p, s)
    PROVE  /\ Shrunk(p) /\ Received(p) /\ IsBuffer(snd_buf'[p])
           /\ DOMAIN snd_buf' = Peer /\ \A r \in Peer \ {p} : snd_buf'[r] = snd_buf[r]
           /\ UNCHANGED <<snd_queue, snd_nxt, probe_wait, written, read>>
           /\ snd_una' \in [Peer -> Nat] /\ rmt_wnd' \in [Peer -> Nat]
           /\ probe' \in [Peer -> SUBSET {"ASK_TELL"}]
<1>1. /\ DOMAIN snd_buf' = Peer /\ IsBuffer(snd_buf'[p])
      /\ \A r \in Peer \ {p} : snd_buf'[r] = snd_buf[r]
      /\ snd_una' \in [Peer -> Nat] /\ rmt_wnd' \in [Peer -> Nat] /\ Shrunk(p)
  BY HeaderEffect DEF ParseSegment
<1>2. UNCHANGED <<snd_queue, snd_nxt, probe_wait, written, read>>
  BY DEF ParseSegment
<1>3. read'[p] = read[p] /\ read' = read /\ written'[Other(p)] = written[Other(p)]
  BY <1>2
<1>4. Received(p) /\ probe' \in [Peer -> SUBSET {"ASK_TELL"}]
  <2>1. CASE s.cmd = "PUSH" /\ Push(p, s.sn, s.seg) /\ UNCHANGED probe
    <3>1. s.sn \in Nat /\ s.seg \in Frag /\ Carries(Other(p), s.sn, s.seg)
      BY <2>1 DEF Segment, Truthful
    <3>2. Received(p)
      BY <1>3, <2>1, <3>1, PushEffect
    <3> QED
      BY <2>1, <3>2 DEF TypeOK
  <2>2. CASE /\ s.cmd = "WASK" /\ probe' = [probe EXCEPT ![p] = @ \cup {"ASK_TELL"}]
             /\ UNCHANGED rcvVars
    <3>1. Received(p)
      BY <1>3, <2>2, ReceivedNothing
    <3> QED
      BY <2>2, <3>1 DEF TypeOK
  <2>3. CASE s.cmd \in {"ACK", "WINS"} /\ UNCHANGED <<rcvVars, probe>>
    <3>1. Received(p)
      BY <1>3, <2>3, ReceivedNothing
    <3> QED
      BY <2>3, <3>1 DEF TypeOK
  <2> QED
    BY <2>1, <2>2, <2>3 DEF ParseSegment
<1> QED
  BY <1>1, <1>2, <1>4

\* Parsing the first segment of d, the rest of d being left to parse.
LEMMA ParseStep ==
    ASSUME TypeOK, IInv, NEW p \in Peer, NEW d \in Seq(Segment), d # <<>>,
           AllTruthful(p, d), ParseSegment(p, Head(d)),
           inp' = [inp EXCEPT ![p] = Tail(d)],
           net' \in [Peer -> SUBSET (Seq(Segment) \ {<<>>})],
           \A r \in Peer : net'[r] \subseteq net[r]
    PROVE  (TypeOK /\ IInv)'
<1> DEFINE r == Other(p)
<1>0. r \in Peer /\ r # p /\ Other(r) = p
  BY OtherPeer
<1>1. /\ Head(d) \in Segment /\ Tail(d) \in Seq(Segment) /\ Len(d) \in Nat
      /\ Head(d) = d[1] /\ 1 \in 1..Len(d) /\ Len(Tail(d)) = Len(d) - 1
      /\ \A i \in 1..Len(Tail(d)) : Tail(d)[i] = d[i + 1] /\ i + 1 \in 1..Len(d)
  <2>1. Len(d) \in Nat /\ Len(d) # 0
    BY LenProperties, EmptySeq
  <2>2. 1 \in 1..Len(d)
    BY <2>1
  <2>3. /\ Head(d) \in Segment /\ Tail(d) \in Seq(Segment) /\ Head(d) = d[1]
        /\ Len(Tail(d)) = Len(d) - 1
        /\ \A i \in 1..Len(Tail(d)) : Tail(d)[i] = d[i + 1]
    BY HeadTailProperties, <2>2
  <2>4. \A i \in 1..Len(Tail(d)) : i + 1 \in 1..Len(d)
    BY <2>1, <2>3
  <2> QED
    BY <2>1, <2>2, <2>3, <2>4
<1>2. Truthful(p, Head(d))
  BY <1>1 DEF AllTruthful
<1>3. /\ Shrunk(p) /\ Received(p) /\ IsBuffer(snd_buf'[p])
      /\ DOMAIN snd_buf' = Peer /\ \A x \in Peer \ {p} : snd_buf'[x] = snd_buf[x]
      /\ UNCHANGED <<snd_queue, snd_nxt, probe_wait, written, read>>
      /\ snd_una' \in [Peer -> Nat] /\ rmt_wnd' \in [Peer -> Nat]
      /\ probe' \in [Peer -> SUBSET {"ASK_TELL"}]
  BY <1>1, <1>2, ParseEffect
<1>4. /\ Grows(p) /\ SenderInv(p)' /\ ReceiverInv(p)' /\ InOrder(p)'
      /\ KeepsUnheld(p)'
      /\ \A x \in Peer \ {p} : inp'[x] = inp[x] => Unmoved(x)
  BY <1>3, InputParts
<1>5. inp' \in [Peer -> Seq(Segment)] /\ inp'[p] = Tail(d) /\ inp'[r] = inp[r]
  BY <1>0, <1>1 DEF TypeOK
<1>6. TypeOK'
  <2>1. /\ DOMAIN rcv_buf' = Peer /\ \A x \in Peer : IsBuffer(rcv_buf'[x])
        /\ rcv_queue' \in [Peer -> Seq(Frag)] /\ rcv_nxt' \in [Peer -> Nat]
        /\ acklist' \in [Peer -> Seq(Nat)]
    BY <1>3, Types DEF Received
  <2>2. \A x \in Peer : IsBuffer(snd_buf'[x])
    BY <1>3, Types
  <2>3. /\ snd_queue' \in [Peer -> Seq(Frag)] /\ snd_nxt' \in [Peer -> Nat]
        /\ probe_wait' \in [Peer -> BOOLEAN]
        /\ written' \in [Peer -> Seq(Frag)] /\ read' \in [Peer -> Seq(Frag)]
    BY <1>3 DEF TypeOK
  <2> QED
    BY <1>3, <1>5, <2>1, <2>2, <2>3 DEF TypeOK, IsBuffer
<1>7. Unmoved(r)
  BY <1>0, <1>4, <1>5
<1>8. \A x \in net[p] : AllTruthful(p, x)'
  BY <1>4, <1>6, <1>7, WireStable
<1>9. \A s \in Segment : Truthful(p, s) => Truthful(p, s)'
  BY <1>4, <1>6, <1>7, WireStable
<1>10. AllTruthful(p, inp[p])'
  <2>1. \A i \in 1..Len(Tail(d)) : Tail(d)[i] \in Segment /\ Truthful(p, Tail(d)[i])
    BY <1>1 DEF AllTruthful
  <2> QED
    BY <1>5, <1>9, <2>1 DEF AllTruthful, Truthful, Holds, Carries
<1> QED
  BY <1>0, <1>4, <1>6, <1>7, <1>8, <1>10, Combine

\* recvfrom and the first iteration of the loop of ikcp_input.
LEMMA InputStep == ASSUME TypeOK, IInv, NEW p \in Peer, Input(p) PROVE (TypeOK /\ IInv)'
<1>1. PICK d \in net[p] :
        /\ ParseSegment(p, Head(d))
        /\ inp' = [inp EXCEPT ![p] = Tail(d)]
        /\ net' = [net EXCEPT ![p] = @ \ {d}] \/ net' = net
  BY DEF Input
<1>2. d \in Seq(Segment) /\ d # <<>> /\ AllTruthful(p, d)
  BY Types DEF IInv, WireInv
<1>3. /\ net' \in [Peer -> SUBSET (Seq(Segment) \ {<<>>})]
      /\ \A r \in Peer : net'[r] \subseteq net[r]
  BY <1>1 DEF TypeOK
<1> QED
  BY <1>1, <1>2, <1>3, ParseStep

\* The other iterations of the loop of ikcp_input.
LEMMA InputRestStep ==
    ASSUME TypeOK, IInv, NEW p \in Peer, InputRest(p) PROVE (TypeOK /\ IInv)'
<1>1. inp[p] \in Seq(Segment) /\ inp[p] # <<>> /\ AllTruthful(p, inp[p])
  BY Types DEF IInv, WireInv, InputRest
<1>2. /\ ParseSegment(p, Head(inp[p])) /\ inp' = [inp EXCEPT ![p] = Tail(inp[p])]
      /\ net' = net
  BY DEF InputRest
<1>3. /\ net' \in [Peer -> SUBSET (Seq(Segment) \ {<<>>})]
      /\ \A r \in Peer : net'[r] \subseteq net[r]
  BY <1>2 DEF TypeOK
<1> QED
  BY <1>1, <1>2, <1>3, ParseStep

-----------------------------------------------------------------------------
(* ikcp_recv *)

\* Cutting a sequence after position n, position by position.
LEMMA CutPoints ==
    ASSUME NEW S, NEW q \in Seq(S), NEW n \in 0..Len(q)
    PROVE  /\ SubSeq(q, 1, n) \in Seq(S) /\ Len(SubSeq(q, 1, n)) = n
           /\ SubSeq(q, n + 1, Len(q)) \in Seq(S)
           /\ Len(SubSeq(q, n + 1, Len(q))) = Len(q) - n
           /\ \A i \in 1..n : SubSeq(q, 1, n)[i] = q[i]
           /\ \A i \in 1..(Len(q) - n) : SubSeq(q, n + 1, Len(q))[i] = q[n + i]
<1>0. Len(q) \in Nat /\ n \in Nat /\ n <= Len(q)
  OBVIOUS
<1>1. \A i \in 1..Len(q) : q[i] \in S
  OBVIOUS
<1>2. /\ SubSeq(q, 1, n) = [i \in 1..n |-> q[i]]
      /\ SubSeq(q, n + 1, Len(q)) = [i \in 1..(Len(q) - n) |-> q[n + i]]
  BY <1>0
<1>3. \A i \in 1..(Len(q) - n) : n + i \in 1..Len(q)
  BY <1>0
<1> QED
  BY <1>0, <1>1, <1>2, <1>3

\* Reading a message moves it from one end of the stream in p to the other.
LEMMA ReadOn ==
    ASSUME TypeOK, IInv, NEW p \in Peer, NEW n \in 1..Len(rcv_queue[p])
    PROVE  InStream(p, read[p] \o SubSeq(rcv_queue[p], 1, n),
                    SubSeq(rcv_queue[p], n + 1, Len(rcv_queue[p])))
<1> DEFINE q == rcv_queue[p]
           front == SubSeq(q, 1, n)
           back == SubSeq(q, n + 1, Len(q))
           w == written[Other(p)]
<1>0. q \in Seq(Frag) /\ read[p] \in Seq(Frag) /\ Len(q) \in Nat /\ Len(read[p]) \in Nat
  BY Types
<1>1. /\ Len(read[p]) + Len(q) = rcv_nxt[p]
      /\ \A i \in 1..Len(read[p]) : read[p][i] = w[i]
      /\ \A i \in 1..Len(q) : q[i] = w[Len(read[p]) + i]
  BY StreamBefore DEF InStream
<1>2. /\ front \in Seq(Frag) /\ Len(front) = n
      /\ Len(back) = Len(q) - n
      /\ \A i \in 1..n : front[i] = q[i]
      /\ \A i \in 1..(Len(q) - n) : back[i] = q[n + i]
  BY <1>0, CutPoints
<1> HIDE DEF front, back, q, w
<1>3. /\ Len(read[p] \o front) = Len(read[p]) + n
      /\ \A i \in 1..Len(read[p]) : (read[p] \o front)[i] = read[p][i]
      /\ \A i \in 1..n : (read[p] \o front)[Len(read[p]) + i] = front[i]
  <2>1. read[p] \in Seq(Frag)
    BY <1>0
  <2>2. front \in Seq(Frag)
    BY <1>2
  <2>3. Len(front) = n
    BY <1>2
  <2>4. /\ Len(read[p] \o front) = Len(read[p]) + Len(front)
        /\ \A i \in 1..Len(read[p]) : (read[p] \o front)[i] = read[p][i]
        /\ \A i \in 1..Len(front) : (read[p] \o front)[Len(read[p]) + i] = front[i]
    BY <2>1, <2>2, ConcatPoints
  <2> QED
    BY <2>4, <2>3
<1>4. n \in Nat /\ 1 <= n /\ n <= Len(q)
  BY <1>0 DEF q
<1>5. Len(read[p] \o front) + Len(back) = rcv_nxt[p]
  <2>1. Len(read[p]) + n + (Len(q) - n) = Len(read[p]) + Len(q)
    BY <1>0, <1>4
  <2> QED
    BY <1>1, <1>2, <1>3, <2>1
<1>6. ASSUME NEW i \in 1..Len(read[p] \o front) PROVE (read[p] \o front)[i] = w[i]
  <2>1. CASE i \in 1..Len(read[p])
    BY <1>1, <1>3, <2>1
  <2>2. CASE i \notin 1..Len(read[p])
    <3> DEFINE j == i - Len(read[p])
    <3>1. j \in 1..n /\ Len(read[p]) + j = i /\ j \in 1..Len(q)
      BY <1>0, <1>3, <1>4, <2>2
    <3> HIDE DEF j
    <3> QED
      BY <1>1, <1>2, <1>3, <3>1
  <2> QED
    BY <2>1, <2>2
<1>7. ASSUME NEW i \in 1..Len(back)
      PROVE  back[i] = w[Len(read[p] \o front) + i]
  <2>1. /\ i \in 1..(Len(q) - n) /\ n + i \in 1..Len(q)
        /\ Len(read[p]) + (n + i) = Len(read[p]) + n + i
    <3>1. i \in 1..(Len(q) - n)
      BY <1>2
    <3>2. Len(read[p]) \in Nat /\ Len(q) \in Nat
      BY <1>0
    <3> QED
      BY <1>4, <3>1, <3>2, Shift
  <2> QED
    BY <1>1, <1>2, <1>3, <2>1
<1> QED
  BY <1>5, <1>6, <1>7 DEF InStream, front, back, q, w

\* ikcp_recv returns a message and moves what it makes room for.
LEMMA RecvStep == ASSUME TypeOK, IInv, NEW p \in Peer, Recv(p) PROVE (TypeOK /\ IInv)'
<1> DEFINE r == Other(p)
           q == rcv_queue[p]
<1>0. r \in Peer /\ r # p /\ Other(r) = p
  BY OtherPeer
<1>1. PICK n \in 1..Len(q) :
        /\ read' = [read EXCEPT ![p] = @ \o SubSeq(q, 1, n)]
        /\ MoveToQueue(p, rcv_buf[p], SubSeq(q, n + 1, Len(q)))
  BY DEF Recv
<1>2. UNCHANGED <<sndVars, acklist, probe_wait, inp, net, written>>
  BY DEF Recv
<1>3. probe' \in [Peer -> SUBSET {"ASK_TELL"}]
  BY DEF Recv, TypeOK
<1> DEFINE rd == read[p] \o SubSeq(q, 1, n)
           queue == SubSeq(q, n + 1, Len(q))
<1>4. q \in Seq(Frag) /\ read[p] \in Seq(Frag) /\ IsBuffer(rcv_buf[p])
  BY Types
<1>5. rd \in Seq(Frag) /\ queue \in Seq(Frag)
  <2>1. SubSeq(q, 1, n) \in Seq(Frag) /\ queue \in Seq(Frag)
    BY <1>4, CutPoints
  <2> QED
    BY <1>4, <2>1, ConcatPoints
<1>6. InStream(p, rd, queue) /\ Ahead(p, rcv_buf[p])
  BY ReadOn, StreamBefore
<1>7. MoveToQueue(p, rcv_buf[p], queue)
  BY <1>1
<1> HIDE DEF queue
<1>8. read'[p] = rd /\ read' \in [Peer -> Seq(Frag)] /\ read'[r] = read[r]
  <2>1. read' = [read EXCEPT ![p] = rd]
    BY <1>1
  <2> HIDE DEF rd
  <2> QED
    BY <1>0, <1>5, <2>1 DEF TypeOK
<1> HIDE DEF rd
<1>9. /\ rcv_nxt[p] <= rcv_nxt'[p] /\ rcv_nxt'[p] <= snd_nxt[r]
      /\ \A sn \in Nat : Holds(p, sn) => Holds(p, sn)'
      /\ \A sn \in DOMAIN rcv_buf'[p] :
            sn >= rcv_nxt'[p] /\ Carries(r, sn, rcv_buf'[p][sn])
      /\ InOrder(p)'
  BY <1>2, <1>4, <1>5, <1>6, <1>7, <1>8, MoveInOrder
<1>10. /\ rcv_queue' \in [Peer -> Seq(Frag)] /\ rcv_nxt' \in [Peer -> Nat]
       /\ DOMAIN rcv_buf' = Peer
       /\ \A x \in Peer \ {p} : /\ rcv_queue'[x] = rcv_queue[x] /\ rcv_buf'[x] = rcv_buf[x]
                               /\ rcv_nxt'[x] = rcv_nxt[x]
       /\ IsBuffer(rcv_buf'[p])
  BY <1>4, <1>5, <1>7, MoveEffect
<1>11. /\ snd_queue' = snd_queue /\ snd_buf' = snd_buf /\ snd_una' = snd_una
       /\ snd_nxt' = snd_nxt /\ rmt_wnd' = rmt_wnd
       /\ acklist' = acklist /\ probe_wait' = probe_wait
       /\ inp' = inp /\ net' = net /\ written' = written
  BY <1>2 DEF sndVars
<1>12. TypeOK'
  <2>1. \A x \in Peer : IsBuffer(rcv_buf'[x])
    BY <1>10, Types
  <2> QED
    BY <1>3, <1>8, <1>10, <1>11, <2>1 DEF TypeOK, IsBuffer
<1>13. Grows(p)
  <2>1. snd_nxt[p] \in Nat /\ Len(written[p]) \in Nat
    BY Types
  <2> QED
    BY <1>9, <1>11, <2>1 DEF Grows
<1>14. Unmoved(r)
  BY <1>0, <1>8, <1>10, <1>11 DEF Unmoved
<1>15. SenderInv(p)' /\ KeepsUnheld(p)'
  <2>1. SenderInv(p) /\ KeepsUnheld(p)
    BY DEF IInv, NoSegmentLost, KeepsUnheld
  <2>2. SenderInv(p)'
    BY <1>11, <2>1 DEF SenderInv, Carries
  <2>3. \A sn \in Nat : Holds(r, sn) <=> Holds(r, sn)'
    BY <1>0, <1>10 DEF Holds
  <2>4. snd_nxt[p] \in Nat
    BY Types
  <2> QED
    BY <1>11, <2>1, <2>2, <2>3, <2>4 DEF KeepsUnheld
<1>16. ReceiverInv(p)'
  <2>1. ASSUME NEW i \in 1..Len(acklist'[p]) PROVE Holds(p, acklist[p][i])'
    <3>1. acklist[p][i] \in Nat /\ Holds(p, acklist[p][i])
      BY <1>11, Types DEF IInv, ReceiverInv
    <3>2. Holds(p, acklist[p][i]) => acklist[p][i] < rcv_nxt'[p] \/ acklist[p][i] \in DOMAIN rcv_buf'[p]
      BY <1>9, <3>1 DEF Holds
    <3> QED
      BY <1>11, <3>1, <3>2 DEF Holds
  <2> QED
    BY <1>9, <1>11, <2>1 DEF ReceiverInv, Carries
<1>17. AllTruthful(p, inp[p])' /\ \A d \in net'[p] : AllTruthful(p, d)'
  <2>1. \A i \in 1..Len(inp[p]) : inp[p][i] \in Segment /\ Truthful(p, inp[p][i])
    BY Types DEF IInv, WireInv, AllTruthful
  <2>2. /\ \A d \in net[p] : AllTruthful(p, d)'
        /\ \A s \in Segment : Truthful(p, s) => Truthful(p, s)'
    BY <1>12, <1>13, <1>14, WireStable
  <2> QED
    BY <1>11, <2>1, <2>2 DEF AllTruthful, Truthful, Holds, Carries
<1> QED
  BY <1>9, <1>11, <1>12, <1>13, <1>14, <1>15, <1>16, <1>17, Combine

-----------------------------------------------------------------------------
(* ikcp_flush *)

\* The segments p may send once n more of them are in snd_buf.
Sendable(p, n) ==
    {s \in Segment : /\ s.una <= rcv_nxt[p]
                     /\ s.cmd = "PUSH" => /\ s.sn < snd_nxt[p] + n
                                          /\ s.seg = written[p][s.sn + 1]
                     /\ s.cmd = "ACK" => Holds(p, s.sn)}

\* The window lets at most the whole of snd_queue through.
LEMMA RoomBound ==
    ASSUME TypeOK, NEW p \in Peer
    PROVE  Room(p) \in 0..Len(snd_queue[p])
<1>1. /\ snd_una[p] \in Nat /\ snd_nxt[p] \in Nat /\ rmt_wnd[p] \in Nat
      /\ Len(snd_queue[p]) \in Nat /\ SndWnd \in Nat
  BY Types, KcpAssumption
<1> QED
  BY <1>1 DEF Room, MinOf

\* What flush announces besides data: acknowledgements and window probes.
LEMMA ControlSegments ==
    ASSUME TypeOK, IInv, NEW p \in Peer, NEW n \in Nat
    PROVE  /\ Acks(p) \in Seq(Sendable(p, n))
           /\ \A cmd \in {"WASK", "WINS"} : <<Probe(p, cmd)>> \in Seq(Sendable(p, n))
<1>1. rcv_nxt[p] \in Nat /\ acklist[p] \in Seq(Nat) /\ Len(acklist[p]) \in Nat
  BY Types
<1>2. WndUnused(p) \in Nat
  <2>1. RcvWnd \in Nat /\ Len(rcv_queue[p]) \in Nat
    BY KcpAssumption, Types
  <2> QED
    BY <2>1 DEF WndUnused
<1>3. ASSUME NEW i \in 1..Len(acklist[p]) PROVE Acks(p)[i] \in Sendable(p, n)
  <2>1. acklist[p][i] \in Nat /\ Holds(p, acklist[p][i])
    BY <1>1 DEF IInv, ReceiverInv
  <2> DEFINE a == [cmd |-> "ACK", sn |-> acklist[p][i],
                   una |-> rcv_nxt[p], wnd |-> WndUnused(p)]
  <2>2. a \in Segment
    BY <1>1, <1>2, <2>1 DEF Segment
  <2>3. a.una <= rcv_nxt[p] /\ a.cmd = "ACK" /\ a.sn = acklist[p][i]
    BY <1>1
  <2>4. a \in Sendable(p, n)
    BY <2>1, <2>2, <2>3 DEF Sendable
  <2> QED
    BY <2>4 DEF Acks
<1>4. Acks(p) \in Seq(Sendable(p, n))
  <2> DEFINE f(i) == [cmd |-> "ACK", sn |-> acklist[p][i],
                      una |-> rcv_nxt[p], wnd |-> WndUnused(p)]
  <2>1. \A i \in 1..Len(acklist[p]) : f(i) \in Sendable(p, n)
    BY <1>3 DEF Acks
  <2>2. Acks(p) = [i \in 1..Len(acklist[p]) |-> f(i)]
    BY DEF Acks
  <2> HIDE DEF f
  <2> QED
    BY <1>1, <2>1, <2>2
<1>5. ASSUME NEW cmd \in {"WASK", "WINS"} PROVE Probe(p, cmd) \in Sendable(p, n)
  <2>1. Probe(p, cmd) \in Segment
    BY <1>1, <1>2 DEF Segment, Probe
  <2>2. /\ Probe(p, cmd).una <= rcv_nxt[p]
        /\ Probe(p, cmd).cmd # "PUSH" /\ Probe(p, cmd).cmd # "ACK"
    BY <1>1 DEF Probe
  <2> QED
    BY <2>1, <2>2 DEF Sendable
<1> QED
  BY <1>4, <1>5

\* The data segments of flush, in the order of snd_buf.
LEMMA DataSegments ==
    ASSUME TypeOK, IInv, NEW p \in Peer, NEW n \in Nat, NEW buf, IsBuffer(buf),
           \A sn \in DOMAIN buf : sn < snd_nxt[p] + n /\ buf[sn] = written[p][sn + 1],
           NEW S \in SUBSET DOMAIN buf, NEW order \in Ascending(S)
    PROVE  [i \in DOMAIN order |-> Data(p, order[i], buf)] \in Seq(Sendable(p, n))
<1>1. rcv_nxt[p] \in Nat /\ snd_nxt[p] \in Nat
  BY Types
<1>2. WndUnused(p) \in Nat
  <2>1. RcvWnd \in Nat /\ Len(rcv_queue[p]) \in Nat
    BY KcpAssumption, Types
  <2> QED
    BY <2>1 DEF WndUnused
<1>3. Cardinality(S) \in Nat
  <2>1. S \subseteq 0..(snd_nxt[p] + n - 1)
    <3>1. \A sn \in DOMAIN buf : sn \in Nat /\ sn < snd_nxt[p] + n
      BY DEF IsBuffer
    <3>2. \A sn \in DOMAIN buf : sn \in 0..(snd_nxt[p] + n - 1)
      BY <1>1, <3>1
    <3> QED
      BY <3>2
  <2>2. IsFiniteSet(0..(snd_nxt[p] + n - 1))
    <3>1. 0 \in Int /\ snd_nxt[p] + n - 1 \in Int
      BY <1>1
    <3> QED
      BY <3>1, FS_Interval
  <2> QED
    BY <2>1, <2>2, FS_Subset, FS_CardinalityType
<1>4. DOMAIN order = 1..Cardinality(S) /\ \A i \in DOMAIN order : order[i] \in S
  BY DEF Ascending
<1>5. ASSUME NEW sn \in DOMAIN buf PROVE Data(p, sn, buf) \in Sendable(p, n)
  <2>1. sn \in Nat /\ buf[sn] \in Frag
    BY DEF IsBuffer
  <2>2. Data(p, sn, buf) \in Segment
    BY <1>1, <1>2, <2>1 DEF Data, Segment
  <2>3. /\ Data(p, sn, buf).una <= rcv_nxt[p] /\ Data(p, sn, buf).cmd = "PUSH"
        /\ Data(p, sn, buf).sn = sn /\ Data(p, sn, buf).seg = buf[sn]
    BY <1>1 DEF Data
  <2>4. sn < snd_nxt[p] + n /\ buf[sn] = written[p][sn + 1]
    OBVIOUS
  <2> QED
    BY <2>2, <2>3, <2>4 DEF Sendable
<1> QED
  BY <1>3, <1>4, <1>5

\* The list of p once flush has moved n segments of snd_queue into it.
LEMMA Refill ==
    ASSUME TypeOK, IInv, NEW p \in Peer, NEW n \in 0..Len(snd_queue[p]), NEW buf,
           buf = [sn \in DOMAIN snd_buf[p] \cup (snd_nxt[p]..(snd_nxt[p] + n - 1)) |->
                     IF sn \in snd_nxt[p]..(snd_nxt[p] + n - 1)
                     THEN snd_queue[p][sn - snd_nxt[p] + 1] ELSE snd_buf[p][sn]]
    PROVE  /\ IsBuffer(buf)
           /\ \A sn \in DOMAIN buf : sn < snd_nxt[p] + n /\ buf[sn] = written[p][sn + 1]
           /\ \A sn \in 0..(snd_nxt[p] + n - 1) : sn \in DOMAIN buf \/ Holds(Other(p), sn)
<1> DEFINE q == snd_queue[p]
           x == snd_nxt[p]
<1>0. /\ x \in Nat /\ n \in Nat /\ n <= Len(q) /\ Len(q) \in Nat
      /\ q \in Seq(Frag) /\ IsBuffer(snd_buf[p])
  BY Types
<1>1. SenderInv(p) /\ KeepsUnheld(p)
  BY DEF IInv, NoSegmentLost, KeepsUnheld
<1> HIDE DEF q, x
<1>2. ASSUME NEW sn \in x..(x + n - 1)
      PROVE  /\ sn \in Nat /\ sn < x + n /\ sn - x + 1 \in 1..Len(q)
             /\ x + (sn - x + 1) = sn + 1
  BY <1>0
<1>3. ASSUME NEW sn \in x..(x + n - 1)
      PROVE  /\ buf[sn] = q[sn - x + 1] /\ buf[sn] = written[p][sn + 1]
             /\ buf[sn] \in Frag
  <2>1. buf[sn] = q[sn - x + 1]
    BY DEF q, x
  <2>2. \A i \in 1..Len(q) : q[i] = written[p][x + i] /\ q[i] \in Frag
    BY <1>0, <1>1 DEF SenderInv, q, x
  <2>3. sn - x + 1 \in 1..Len(q) /\ x + (sn - x + 1) = sn + 1
    BY <1>2
  <2> QED
    BY <2>1, <2>2, <2>3
<1>4. ASSUME NEW sn \in DOMAIN snd_buf[p]
      PROVE  /\ sn \in Nat /\ sn < x /\ sn \notin x..(x + n - 1)
             /\ snd_buf[p][sn] = written[p][sn + 1] /\ snd_buf[p][sn] \in Frag
  <2>1. /\ sn \in Nat /\ sn < x /\ snd_buf[p][sn] = written[p][sn + 1]
        /\ snd_buf[p][sn] \in Frag
    BY <1>0, <1>1 DEF SenderInv, Carries, IsBuffer, x
  <2> QED
    BY <1>0, <2>1
<1>5. /\ DOMAIN buf = DOMAIN snd_buf[p] \cup (x..(x + n - 1))
      /\ \A sn \in DOMAIN snd_buf[p] : buf[sn] = snd_buf[p][sn]
  BY <1>4 DEF x
<1>6. IsBuffer(buf)
  BY <1>2, <1>3, <1>4, <1>5 DEF IsBuffer
<1>7. ASSUME NEW sn \in DOMAIN buf
      PROVE  sn < x + n /\ buf[sn] = written[p][sn + 1]
  <2>1. CASE sn \in DOMAIN snd_buf[p]
    <3>1. sn \in Nat /\ sn < x /\ buf[sn] = written[p][sn + 1]
      BY <1>4, <1>5, <2>1
    <3> QED
      BY <1>0, <3>1
  <2>2. CASE sn \in x..(x + n - 1)
    BY <1>2, <1>3, <2>2
  <2> QED
    BY <1>5, <2>1, <2>2
<1>8. ASSUME NEW sn \in 0..(x + n - 1)
      PROVE  sn \in DOMAIN buf \/ Holds(Other(p), sn)
  <2>1. sn \in 0..(x - 1) \/ sn \in x..(x + n - 1)
    BY <1>0
  <2>2. sn \in 0..(x - 1) => sn \in DOMAIN snd_buf[p] \/ Holds(Other(p), sn)
    BY <1>1 DEF KeepsUnheld, x
  <2> QED
    BY <1>5, <2>1, <2>2
<1> QED
  BY <1>6, <1>7, <1>8 DEF x

\* What p sends is truthful for its peer once the step is done.
LEMMA SentTruthful ==
    ASSUME TypeOK, NEW p \in Peer, NEW n \in Nat, NEW s \in Sendable(p, n),
           snd_nxt'[p] = snd_nxt[p] + n, UNCHANGED <<written, rcv_nxt, rcv_buf>>
    PROVE  Truthful(Other(p), s)'
BY OtherPeer DEF Sendable, Truthful, Carries, Holds

\* ikcp_flush: acknowledgements, probes and the segments that are due or new.
LEMMA FlushStep ==
    ASSUME TypeOK, IInv, NEW p \in Peer, NEW due \in SUBSET DOMAIN snd_buf[p],
           NEW elapsed \in BOOLEAN, NEW lossless \in BOOLEAN,
           FlushWith(p, due, elapsed, lossless)
    PROVE  (TypeOK /\ IInv)'
<1> DEFINE r == Other(p)
           n == Room(p)
           ask == rmt_wnd[p] = 0 /\ probe_wait[p] /\ elapsed
           wask == IF ask THEN <<Probe(p, "WASK")>> ELSE <<>>
           wins == IF "ASK_TELL" \in probe[p] THEN <<Probe(p, "WINS")>> ELSE <<>>
           fresh == snd_nxt[p]..(snd_nxt[p] + n - 1)
           buf == [sn \in DOMAIN snd_buf[p] \cup fresh |->
                      IF sn \in fresh THEN snd_queue[p][sn - snd_nxt[p] + 1]
                      ELSE snd_buf[p][sn]]
           back == SubSeq(snd_queue[p], n + 1, Len(snd_queue[p]))
<1>0. r \in Peer /\ r # p /\ Other(r) = p
  BY OtherPeer
<1>1. /\ snd_buf' = [snd_buf EXCEPT ![p] = buf]
      /\ snd_queue' = [snd_queue EXCEPT ![p] = back]
      /\ snd_nxt' = [snd_nxt EXCEPT ![p] = @ + n]
      /\ acklist' = [acklist EXCEPT ![p] = <<>>]
      /\ probe' = [probe EXCEPT ![p] = {}]
      /\ probe_wait' = [probe_wait EXCEPT ![p] = (rmt_wnd[p] = 0)]
      /\ UNCHANGED <<snd_una, rmt_wnd, rcv_nxt, rcv_buf, rcv_queue, inp, written, read>>
  BY DEF FlushWith
<1>2. PICK order \in Ascending(due \cup fresh) :
        \E lost : Output(p, lost, Datagrams(Acks(p) \o wask \o wins \o
                      [i \in DOMAIN order |-> Data(p, order[i], buf)]))
  BY DEF FlushWith
<1> DEFINE out == Acks(p) \o wask \o wins \o [i \in DOMAIN order |-> Data(p, order[i], buf)]
<1>3. n \in 0..Len(snd_queue[p]) /\ n \in Nat
  <2>1. n \in 0..Len(snd_queue[p]) /\ Len(snd_queue[p]) \in Nat
    BY RoomBound, Types
  <2> HIDE DEF n
  <2> QED
    BY <2>1
<1>4. /\ IsBuffer(buf)
      /\ \A sn \in DOMAIN buf : sn < snd_nxt[p] + n /\ buf[sn] = written[p][sn + 1]
      /\ \A sn \in 0..(snd_nxt[p] + n - 1) : sn \in DOMAIN buf \/ Holds(r, sn)
  <2> HIDE DEF n
  <2> QED
    BY <1>3, Refill
<1>5. due \cup fresh \in SUBSET DOMAIN buf
  OBVIOUS
<1> HIDE DEF n, fresh, buf, ask
<1>6. out \in Seq(Sendable(p, n))
  <2>1. [i \in DOMAIN order |-> Data(p, order[i], buf)] \in Seq(Sendable(p, n))
    BY <1>3, <1>4, <1>5, DataSegments
  <2>2. /\ Acks(p) \in Seq(Sendable(p, n))
        /\ <<Probe(p, "WASK")>> \in Seq(Sendable(p, n))
        /\ <<Probe(p, "WINS")>> \in Seq(Sendable(p, n))
    BY <1>3, ControlSegments
  <2>3. wask \in Seq(Sendable(p, n)) /\ wins \in Seq(Sendable(p, n))
    BY <2>2
  <2> DEFINE data == [i \in DOMAIN order |-> Data(p, order[i], buf)]
  <2> HIDE DEF wask, wins, data
  <2>4. Acks(p) \o wask \in Seq(Sendable(p, n))
    BY <2>2, <2>3, ConcatPoints
  <2>5. Acks(p) \o wask \o wins \in Seq(Sendable(p, n))
    BY <2>3, <2>4, ConcatPoints
  <2>6. Acks(p) \o wask \o wins \o data \in Seq(Sendable(p, n))
    BY <2>1, <2>5, ConcatPoints DEF data
  <2> QED
    BY <2>6 DEF data
<1>7. \A d \in Datagrams(out) : d \in Seq(Sendable(p, n)) \ {<<>>}
  <2> HIDE DEF out
  <2> QED
    BY <1>6, DatagramsAreRuns
<1>8. /\ net'[p] = net[p] /\ \A d \in net'[r] : d \in net[r] \/ d \in Datagrams(out)
      /\ \A x \in Peer : x # r => net'[x] = net[x]
      /\ DOMAIN net' = Peer /\ net' = [x \in Peer |-> net'[x]]
  <2> HIDE DEF out
  <2>1. PICK lost : Output(p, lost, Datagrams(out))
    BY <1>2 DEF out
  <2> QED
    BY <1>0, <2>1 DEF Output, TypeOK
<1> HIDE DEF out
<1>9. net' \in [Peer -> SUBSET (Seq(Segment) \ {<<>>})]
  <2>1. \A d \in Seq(Sendable(p, n)) \ {<<>>} : d \in Seq(Segment) \ {<<>>}
    BY DEF Sendable
  <2>2. ASSUME NEW x \in Peer PROVE net'[x] \in SUBSET (Seq(Segment) \ {<<>>})
    <3>1. net[x] \subseteq Seq(Segment) \ {<<>>}
      BY Types
    <3>2. CASE x = r
      BY <1>7, <1>8, <2>1, <3>1, <3>2
    <3>3. CASE x # r
      BY <1>8, <3>1, <3>3
    <3> QED
      BY <3>2, <3>3
  <2> QED
    BY <1>8, <2>2
<1>10. /\ back \in Seq(Frag) /\ Len(back) = Len(snd_queue[p]) - n
       /\ \A i \in 1..(Len(snd_queue[p]) - n) : back[i] = snd_queue[p][n + i]
  <2>1. snd_queue[p] \in Seq(Frag)
    BY Types
  <2> QED
    BY <1>3, <2>1, CutPoints
<1> HIDE DEF back
<1>11. /\ snd_buf'[p] = buf /\ snd_queue'[p] = back /\ snd_nxt'[p] = snd_nxt[p] + n
       /\ acklist'[p] = <<>>
       /\ snd_buf'[r] = snd_buf[r] /\ snd_queue'[r] = snd_queue[r]
       /\ snd_nxt'[r] = snd_nxt[r] /\ acklist'[r] = acklist[r]
       /\ DOMAIN snd_buf' = Peer
       /\ \A x \in Peer \ {p} : snd_buf'[x] = snd_buf[x]
  BY <1>0, <1>1 DEF TypeOK
<1>12. TypeOK'
  <2>1. \A x \in Peer : IsBuffer(snd_buf'[x])
    BY <1>4, <1>11, Types
  <2>2. snd_queue' \in [Peer -> Seq(Frag)] /\ snd_nxt' \in [Peer -> Nat]
    BY <1>1, <1>3, <1>10 DEF TypeOK
  <2>3. /\ acklist' \in [Peer -> Seq(Nat)]
        /\ probe' \in [Peer -> SUBSET {"ASK_TELL"}] /\ probe_wait' \in [Peer -> BOOLEAN]
    BY <1>1 DEF TypeOK
  <2> QED
    BY <1>1, <1>9, <1>11, <2>1, <2>2, <2>3 DEF TypeOK, IsBuffer
<1>13. Unmoved(r)
  BY <1>1, <1>11 DEF Unmoved
<1>14. Grows(p)
  <2>1. snd_nxt[p] \in Nat /\ rcv_nxt[p] \in Nat /\ Len(written[p]) \in Nat
    BY Types
  <2>2. snd_nxt[p] <= snd_nxt[p] + n
    BY <1>3, <2>1
  <2> QED
    BY <1>1, <1>11, <2>1, <2>2 DEF Grows, Holds
<1>15. SenderInv(p)'
  <2>1. /\ snd_nxt[p] \in Nat /\ Len(snd_queue[p]) \in Nat /\ n \in Nat
        /\ Len(written[p]) \in Nat
    BY <1>3, Types
  <2>2. /\ snd_nxt[p] + Len(snd_queue[p]) = Len(written[p])
        /\ \A i \in 1..Len(snd_queue[p]) : snd_queue[p][i] = written[p][snd_nxt[p] + i]
    BY DEF IInv, SenderInv
  <2>3. n <= Len(snd_queue[p])
    BY <1>3, <2>1
  <2>4. snd_nxt[p] + n + Len(back) = Len(written[p])
    <3>1. snd_nxt[p] + n + (Len(snd_queue[p]) - n) = snd_nxt[p] + Len(snd_queue[p])
      BY <2>1
    <3> QED
      BY <1>10, <2>2, <3>1
  <2>5. ASSUME NEW i \in 1..Len(back) PROVE back[i] = written[p][snd_nxt[p] + n + i]
    <3>1. i \in 1..(Len(snd_queue[p]) - n)
      BY <1>10
    <3>2. /\ n + i \in 1..Len(snd_queue[p])
          /\ snd_nxt[p] + (n + i) = snd_nxt[p] + n + i
      BY <2>1, <2>3, <3>1, Shift
    <3> QED
      BY <1>10, <2>2, <3>1, <3>2
  <2> QED
    BY <1>1, <1>4, <1>11, <2>4, <2>5 DEF SenderInv, Carries
<1>16. ReceiverInv(p)' /\ InOrder(p)'
  <2>1. ReceiverInv(p) /\ InOrder(p)
    BY DEF IInv, InOrderDelivery
  <2>2. InOrder(p)'
    BY <1>1, <2>1 DEF InOrder
  <2>3. \A i \in 1..Len(acklist'[p]) : Holds(p, acklist[p][i])'
    BY <1>11
  <2> QED
    BY <1>1, <1>11, <2>1, <2>2, <2>3 DEF ReceiverInv, Carries
<1>17. KeepsUnheld(p)'
  <2>1. ASSUME NEW sn \in 0..(snd_nxt'[p] - 1)
        PROVE  sn \in DOMAIN snd_buf'[p] \/ Holds(r, sn)
    <3>1. sn \in 0..(snd_nxt[p] + n - 1)
      <4>1. snd_nxt'[p] = snd_nxt[p] + n
        BY <1>11
      <4>2. snd_nxt'[p] - 1 = snd_nxt[p] + n - 1
        <5>1. snd_nxt[p] \in Nat /\ n \in Nat /\ snd_nxt'[p] \in Nat
          BY <1>3, <1>12, Types, TypesNext
        <5> QED
          BY <4>1, <5>1, <1>12, Domains, DomainsNext
      <4> QED
        BY <4>2
    <3>2. snd_buf'[p] = buf
      BY <1>11
    <3>3. sn \in DOMAIN buf \/ Holds(r, sn)
      BY <1>4, <3>1
    <3> QED
      BY <3>2, <3>3
  <2>2. rcv_nxt' = rcv_nxt /\ rcv_buf' = rcv_buf
    BY <1>1
  <2> QED
    BY <2>1, <2>2 DEF KeepsUnheld, Holds
<1>18. AllTruthful(p, inp[p])' /\ \A d \in net'[p] : AllTruthful(p, d)'
  <2>1. \A i \in 1..Len(inp[p]) : inp[p][i] \in Segment /\ Truthful(p, inp[p][i])
    BY Types DEF IInv, WireInv, AllTruthful
  <2>2. /\ \A d \in net[p] : AllTruthful(p, d)'
        /\ \A s \in Segment : Truthful(p, s) => Truthful(p, s)'
    BY <1>12, <1>13, <1>14, WireStable
  <2> QED
    BY <1>1, <1>8, <2>1, <2>2 DEF AllTruthful, Truthful, Holds, Carries
<1>19. \A d \in Datagrams(out) : AllTruthful(r, d)'
  <2>1. \A s \in Sendable(p, n) : Truthful(r, s)'
    BY <1>1, <1>3, <1>11, SentTruthful
  <2> QED
    BY <1>7, <2>1 DEF AllTruthful
<1> QED
  BY <1>8, <1>12, <1>13, <1>14, <1>15, <1>16, <1>17, <1>18, <1>19, Combine

-----------------------------------------------------------------------------
(* The theorems *)

\* The invariant holds when both control blocks have been created.
LEMMA InitInv == Init => TypeOK /\ IInv
<1> SUFFICES ASSUME Init PROVE TypeOK /\ IInv
  OBVIOUS
<1>1. TypeOK
  <2>1. InitRmtWnd \in Nat
    BY KcpAssumption
  <2> QED
    BY <2>1 DEF Init, TypeOK, IsBuffer
<1>2. ASSUME NEW p \in Peer
      PROVE  /\ InOrder(p) /\ KeepsUnheld(p) /\ SenderInv(p) /\ ReceiverInv(p)
             /\ WireInv(p)
  <2>0. Other(p) \in Peer
    BY OtherPeer
  <2>1. /\ snd_queue[p] = <<>> /\ snd_buf[p] = <<>> /\ snd_nxt[p] = 0
        /\ rcv_nxt[p] = 0 /\ rcv_buf[p] = <<>> /\ rcv_queue[p] = <<>>
        /\ acklist[p] = <<>> /\ inp[p] = <<>> /\ net[p] = {}
        /\ written[p] = <<>> /\ read[p] = <<>>
        /\ snd_nxt[Other(p)] = 0 /\ written[Other(p)] = <<>>
    BY <2>0 DEF Init
  <2>2. InOrder(p) /\ SenderInv(p) /\ ReceiverInv(p)
    BY <2>1 DEF InOrder, SenderInv, ReceiverInv
  <2>3. KeepsUnheld(p)
    BY <2>1 DEF KeepsUnheld
  <2>4. WireInv(p)
    BY <2>1 DEF WireInv, AllTruthful
  <2> QED
    BY <2>2, <2>3, <2>4
<1> QED
  BY <1>1, <1>2 DEF IInv, InOrderDelivery, NoSegmentLost, KeepsUnheld

\* Every step of either endpoint preserves the invariant.
LEMMA NextInv == ASSUME TypeOK, IInv, [Next]_vars PROVE (TypeOK /\ IInv)'
<1>1. ASSUME NEW p \in Peer, Send(p) PROVE (TypeOK /\ IInv)'
  BY <1>1, SendStep
<1>2. ASSUME NEW p \in Peer, Input(p) PROVE (TypeOK /\ IInv)'
  BY <1>2, InputStep
<1>3. ASSUME NEW p \in Peer, InputRest(p) PROVE (TypeOK /\ IInv)'
  BY <1>3, InputRestStep
<1>4. ASSUME NEW p \in Peer, Recv(p) PROVE (TypeOK /\ IInv)'
  BY <1>4, RecvStep
<1>5. ASSUME NEW p \in Peer, Flush(p) PROVE (TypeOK /\ IInv)'
  <2>1. PICK due \in SUBSET DOMAIN snd_buf[p], elapsed \in BOOLEAN :
          FlushWith(p, due, elapsed, FALSE)
    BY <1>5 DEF Flush
  <2> QED
    BY <2>1, FlushStep
<1>6. ASSUME UNCHANGED vars PROVE (TypeOK /\ IInv)'
  BY <1>6 DEF vars, TypeOK, IsBuffer, IInv, InOrderDelivery, InOrder, NoSegmentLost, Holds,
     SenderInv, Carries, ReceiverInv, WireInv, AllTruthful, Truthful
<1> QED
  BY <1>1, <1>2, <1>3, <1>4, <1>5, <1>6 DEF Next

(* The inductive invariant of the protocol.                                *)
THEOREM Invariance == Spec => [](TypeOK /\ IInv)
<1>1. Init => TypeOK /\ IInv
  BY InitInv
<1>2. TypeOK /\ IInv /\ [Next]_vars => (TypeOK /\ IInv)'
  BY NextInv
<1> QED
  BY <1>1, <1>2, PTL DEF Spec

(* The fields of both control blocks keep their types.                     *)
THEOREM TypeCorrect == Spec => []TypeOK
BY Invariance, PTL

(* Whatever UDP loses, repeats or reorders, ikcp_recv returns a prefix of  *)
(* what the peer gave to ikcp_send.                                        *)
THEOREM InOrderTheorem == Spec => []InOrderDelivery
<1>1. IInv => InOrderDelivery
  BY DEF IInv
<1> QED
  BY <1>1, Invariance, PTL

(* ikcp_parse_una and ikcp_parse_ack only drop segments the peer holds.    *)
THEOREM NoLossTheorem == Spec => []NoSegmentLost
<1>1. IInv => NoSegmentLost
  BY DEF IInv
<1> QED
  BY <1>1, Invariance, PTL

=============================================================================
