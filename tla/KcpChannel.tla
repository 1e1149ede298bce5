----------------------------- MODULE KcpChannel -----------------------------
(***************************************************************************)
(* What a pair of KCP endpoints promises its users: two independent        *)
(* channels that carry messages whole, once and in the order of the        *)
(* ikcp_send calls.  A message is the sequence of its fragments; the last  *)
(* one has frg = 0.                                                        *)
(***************************************************************************)
EXTENDS Integers, Sequences

CONSTANTS A, B, MaxFrags, MaxSegs

VARIABLES written,   \* written[p]: the fragments of the messages p has sent
          read       \* read[p]: the fragments of the messages p has received

chVars == <<written, read>>
Ends == {A, B}
Far(p) == IF p = A THEN B ELSE A

ChInit == written = [p \in Ends |-> <<>>] /\ read = [p \in Ends |-> <<>>]

\* ikcp_send
ChSend(p) ==
    \E count \in 1..MaxFrags :
        /\ Len(written[p]) + count <= MaxSegs[p]
        /\ written' = [written EXCEPT ![p] =
               @ \o [i \in 1..count |-> [msg |-> Len(written[p]) + 1, frg |-> count - i]]]
        /\ UNCHANGED read

\* The first whole message p has not received ends after position last.
NextMessage(p, last) ==
    LET w == written[Far(p)]
    IN /\ last \in (Len(read[p]) + 1)..Len(w)
       /\ w[last].frg = 0
       /\ \A i \in (Len(read[p]) + 1)..(last - 1) : w[i].frg # 0

\* ikcp_recv
ChRecv(p) ==
    \E last \in 1..Len(written[Far(p)]) :
        /\ NextMessage(p, last)
        /\ read' = [read EXCEPT ![p] = SubSeq(written[Far(p)], 1, last)]
        /\ UNCHANGED written

ChNext == \E p \in Ends : ChSend(p) \/ ChRecv(p)

ChSpec == ChInit /\ [][ChNext]_chVars

\* Every message sent is received in the end.
ChFairSpec == ChSpec /\ \A p \in Ends : WF_chVars(ChRecv(p))
=============================================================================
