----------------------------- MODULE WorkQueue -----------------------------
(***************************************************************************)
(* What a task queue promises the threads that put messages into it: while *)
(* it is open, each message is handled once and in the order of the puts;  *)
(* only closing the queue drops messages, and none is being handled then.  *)
(***************************************************************************)
EXTENDS Integers, Sequences

VARIABLES open,
          pending,   \* put and not yet handled
          done       \* handled, in every life of the queue

wqVars == <<open, pending, done>>

WQInit == open = FALSE /\ pending = <<>> /\ done = <<>>

Open == ~open /\ open' = TRUE /\ pending = <<>> /\ UNCHANGED <<pending, done>>

\* One more message, whatever it is, at the end.
Put == /\ open /\ Len(pending') = Len(pending) + 1
       /\ SubSeq(pending', 1, Len(pending)) = pending
       /\ UNCHANGED <<open, done>>

Handle == /\ open /\ pending # <<>>
          /\ pending' = Tail(pending) /\ done' = Append(done, Head(pending))
          /\ UNCHANGED open

Close == open /\ open' = FALSE /\ pending' = <<>> /\ UNCHANGED done

WQNext == Open \/ Put \/ Handle \/ Close

WQSpec == WQInit /\ [][WQNext]_wqVars
=============================================================================
