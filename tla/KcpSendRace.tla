----------------------------- MODULE KcpSendRace -----------------------------
(***************************************************************************)
(* kcp->snd_queue under two threads.  KcpClient.send runs ikcp_send on the *)
(* main thread, KcpRecvThread runs ikcp_flush, and no lock is taken in     *)
(* either: one appends to the list with iqueue_add_tail while the other    *)
(* unlinks its head with iqueue_del, one assignment at a time (ikcp.h).    *)
(*                                                                         *)
(* Node 0 is &kcp->snd_queue, node n the n-th segment that is sent; next   *)
(* and prev are the links of the struct IQUEUEHEAD's.  The remote window   *)
(* is taken to be open, so that flush moves whatever it finds.             *)
(* Assignments take effect at once and in program order: an interleaving   *)
(* that goes wrong here needs no help from the compiler or the memory.     *)
(***************************************************************************)
EXTENDS Integers

CONSTANT MaxNodes      \* bound: segments given to ikcp_send

Head == 0
Node == 0..MaxNodes
Null == -1

VARIABLES next, prev,  \* the links
          sent,        \* segments ikcp_send has taken up
          sender,      \* the statement of ikcp_send that is next
          flusher,     \* the statement of ikcp_flush that is next
          entry,       \* newseg of ikcp_flush
          moved        \* segments moved to snd_buf

vars == <<next, prev, sent, sender, flusher, entry, moved>>

Init ==
    /\ next = [n \in Node |-> IF n = Head THEN Head ELSE Null]
    /\ prev = next
    /\ sent = 0 /\ sender = "idle"
    /\ flusher = "idle" /\ entry = Head /\ moved = {}

Sender(from, to) ==
    /\ sender = from /\ sender' = to
    /\ UNCHANGED <<flusher, entry, moved>>

\* iqueue_init(&seg->node)
Send == Sender("idle", "prev") /\ sent < MaxNodes /\ sent' = sent + 1
        /\ next' = [next EXCEPT ![sent'] = sent'] /\ prev' = [prev EXCEPT ![sent'] = sent']

\* iqueue_add_tail(&seg->node, &kcp->snd_queue): four assignments.
AddPrev == Sender("prev", "next") /\ prev' = [prev EXCEPT ![sent] = prev[Head]]
           /\ UNCHANGED <<next, sent>>
AddNext == Sender("next", "link") /\ next' = [next EXCEPT ![sent] = Head]
           /\ UNCHANGED <<prev, sent>>
AddLink == Sender("link", "tail") /\ prev[Head] # Null
           /\ next' = [next EXCEPT ![prev[Head]] = sent] /\ UNCHANGED <<prev, sent>>
AddTail == Sender("tail", "idle") /\ prev' = [prev EXCEPT ![Head] = sent]
           /\ UNCHANGED <<next, sent>>

Flusher(from, to) ==
    /\ flusher = from /\ flusher' = to
    /\ UNCHANGED <<sent, sender>>

\* if (iqueue_is_empty(&kcp->snd_queue)) break; newseg = its first entry
Flush == Flusher("idle", "unprev") /\ next[Head] # Head /\ entry' = next[Head]
         /\ UNCHANGED <<next, prev, moved>>

\* iqueue_del(&newseg->node); a null link that it follows is a crash.
DelPrev == Flusher("unprev", "unnext") /\ next[entry] # Null
           /\ prev' = [prev EXCEPT ![next[entry]] = prev[entry]]
           /\ UNCHANGED <<next, entry, moved>>
DelNext == Flusher("unnext", "move") /\ prev[entry] # Null
           /\ next' = [next EXCEPT ![prev[entry]] = next[entry]]
           /\ UNCHANGED <<prev, entry, moved>>

\* The entry's links then belong to snd_buf, which only this thread touches.
Move == Flusher("move", "idle") /\ moved' = moved \cup {entry}
        /\ next' = [next EXCEPT ![entry] = Null] /\ prev' = [prev EXCEPT ![entry] = Null]
        /\ UNCHANGED entry

Next == \/ Send \/ AddPrev \/ AddNext \/ AddLink \/ AddTail
        \/ Flush \/ DelPrev \/ DelNext \/ Move

Spec == Init /\ [][Next]_vars

-----------------------------------------------------------------------------
\* What flush reaches from the head in k steps of next.
Reach[k \in Nat] ==
    IF k = 0 THEN {next[Head]}
    ELSE Reach[k - 1] \cup {next[n] : n \in Reach[k - 1] \cap (1..MaxNodes)}

(* ikcp_send "returns below zero for error" (ikcp.h): a segment for which  *)
(* it returned 0 has been moved to snd_buf or waits where flush finds it.  *)
AcceptedIsQueued ==
    sender = "idle" /\ flusher = "idle" =>
        \A n \in 1..sent : n \in moved \cup Reach[MaxNodes]
=============================================================================
