----------------------------- MODULE TaskQueue -----------------------------
(***************************************************************************)
(* The task queue of common/task_queue/task_queue.c: threads put messages  *)
(* and events, the thread Message_Thread calls back for each of them, and  *)
(* an owner sets the queue up, stops it and tears it down, several times.  *)
(*                                                                         *)
(* A critical section of q->mutex is one action.  init and iLoopThreadRun  *)
(* are read before it, without the mutex and in a step each: a put that    *)
(* has found them set, perhaps one in this life of the queue and one in    *)
(* the next, may find the mutex and the list destroyed or not yet made.    *)
(* That is undefined, and crashes the caller here.                         *)
(*                                                                         *)
(* The queue is asynchronous and joinable, as detach = 0 always makes it.  *)
(* Its struct is zero before the first Message_Init.                       *)
(***************************************************************************)
EXTENDS Integers, Sequences

CONSTANTS Producers,
          MaxLives,   \* bound: calls of Message_Init
          MaxPuts     \* bound: messages and events put

ASSUME TaskQueueAssumption == MaxLives \in Nat /\ MaxPuts \in Nat

VARIABLES init, iLoopThreadRun,
          alive,      \* the mutex, the condition and the list head exist
          nodes,      \* the messages in the list; iNodeNum is its length
          iEventCnt,
          owner,      \* where the thread that owns the queue is
          consumer,   \* where Message_Thread is
          reading,    \* its read_node
          caller,     \* where each producer is
          sound,      \* the callers that keep the rules: see Begin
          handled,    \* history: the messages given to readCb
          lives, puts

ownerVars == <<init, iLoopThreadRun, alive, owner, lives>>
threadVars == <<consumer, reading, handled>>
callerVars == <<caller, sound, puts>>
vars == <<ownerVars, threadVars, callerVars, nodes, iEventCnt>>

Init == /\ init = FALSE /\ iLoopThreadRun = FALSE /\ alive = FALSE
        /\ nodes = <<>> /\ iEventCnt = 0 /\ owner = "idle" /\ consumer = "none"
        /\ reading = 0 /\ handled = <<>> /\ lives = 0 /\ puts = 0
        /\ caller = [p \in Producers |-> "idle"] /\ sound = [p \in Producers |-> TRUE]

-----------------------------------------------------------------------------
(* A put asks three things of its caller, which the code does not enforce: *)
(* that it does not begin before Message_Init has made the locks, that it  *)
(* is not past its tests when Message_Deinit begins, and that it is not    *)
(* under way when the next Message_Init begins.                            *)

UnderWay == {p \in Producers : caller[p] # "idle"}
PastTests == {p \in Producers : caller[p] \in {"msg", "event"}}

\* A put begins: it keeps the rules so far unless Message_Init makes the locks.
Begin(p, to) ==
    /\ caller[p] = "idle" /\ puts < MaxPuts
    /\ caller' = [caller EXCEPT ![p] = to]
    /\ sound' = [sound EXCEPT ![p] = owner # "locks"]
    /\ UNCHANGED <<ownerVars, threadVars, puts, nodes, iEventCnt>>

\* From now on these callers are not sound.
Unsound(callers) == sound' = [p \in Producers |-> sound[p] /\ p \notin callers]

-----------------------------------------------------------------------------
(* The owner: Message_Init sets the flags before it makes the locks. *)

InitFlags ==
    /\ owner = "idle" /\ ~init /\ lives < MaxLives
    /\ init' = TRUE /\ iLoopThreadRun' = TRUE /\ nodes' = <<>> /\ iEventCnt' = 0
    /\ owner' = "locks" /\ lives' = lives + 1 /\ Unsound(UnderWay)
    /\ UNCHANGED <<alive, threadVars, caller, puts>>

InitLocks ==
    /\ owner = "locks" /\ owner' = "spawn" /\ alive' = TRUE
    /\ UNCHANGED <<init, iLoopThreadRun, lives, threadVars, callerVars, nodes, iEventCnt>>

\* pthread_create, which may fail: the queue then stays open all the same.
Spawn ==
    /\ owner = "spawn" /\ owner' = "idle"
    /\ consumer' \in {"check", "none"}
    /\ UNCHANGED <<init, iLoopThreadRun, alive, lives, reading, handled, callerVars,
                   nodes, iEventCnt>>

StopAsync ==
    /\ owner = "idle" /\ init /\ iLoopThreadRun' = FALSE
    /\ UNCHANGED <<init, alive, owner, lives, threadVars, callerVars, nodes, iEventCnt>>

\* Slip: the flag stays set while the queue is torn down.
DeinitKeepsRunning ==
    /\ owner = "idle" /\ init /\ owner' = "join"
    /\ Unsound(PastTests)
    /\ UNCHANGED <<init, iLoopThreadRun, alive, lives, threadVars, caller, puts, nodes,
                   iEventCnt>>

\* Message_Deinit begins with Message_StopAsync.
DeinitStop ==
    /\ owner = "idle" /\ init /\ owner' = "join" /\ iLoopThreadRun' = FALSE
    /\ Unsound(PastTests)
    /\ UNCHANGED <<init, alive, lives, threadVars, caller, puts, nodes, iEventCnt>>

\* Slip: no pthread_join.
JoinNot ==
    /\ owner = "join" /\ owner' = "destroy"
    /\ UNCHANGED <<init, iLoopThreadRun, alive, lives, threadVars, callerVars, nodes,
                   iEventCnt>>

Join ==
    /\ owner = "join" /\ consumer \in {"none", "quit"} /\ owner' = "destroy"
    /\ UNCHANGED <<init, iLoopThreadRun, alive, lives, threadVars, callerVars, nodes,
                   iEventCnt>>

\* Message_Destroy drops the messages that are left.
Destroy ==
    /\ owner = "destroy" /\ owner' = "clear" /\ alive' = FALSE /\ nodes' = <<>>
    /\ UNCHANGED <<init, iLoopThreadRun, lives, threadVars, callerVars, iEventCnt>>

Clear ==
    /\ owner = "clear" /\ owner' = "idle" /\ init' = FALSE
    /\ UNCHANGED <<iLoopThreadRun, alive, lives, threadVars, callerVars, nodes, iEventCnt>>

Owner == InitFlags \/ InitLocks \/ Spawn \/ StopAsync \/ DeinitStop \/ Join \/ Destroy \/ Clear

-----------------------------------------------------------------------------
(* Message_Thread *)

\* The loop ends only here, after the callback of the round before.
Check ==
    /\ consumer = "check" /\ consumer' = IF iLoopThreadRun THEN "lock" ELSE "quit"
    /\ UNCHANGED <<ownerVars, reading, handled, callerVars, nodes, iEventCnt>>

\* Slip: the newest message first.
TakeNewest ==
    /\ consumer = "lock" /\ nodes # <<>> /\ consumer' = "read"
    /\ reading' = nodes[Len(nodes)] /\ nodes' = SubSeq(nodes, 1, Len(nodes) - 1)
    /\ UNCHANGED <<ownerVars, handled, callerVars, iEventCnt>>

TakeNode ==
    /\ consumer = "lock" /\ nodes # <<>> /\ consumer' = "read"
    /\ reading' = Head(nodes) /\ nodes' = Tail(nodes)
    /\ UNCHANGED <<ownerVars, handled, callerVars, iEventCnt>>

\* Slip: an event is handled whether or not there is one.
TakeEventAlways ==
    /\ consumer = "lock" /\ nodes = <<>> /\ consumer' = "write"
    /\ iEventCnt' = iEventCnt - 1
    /\ UNCHANGED <<ownerVars, reading, handled, callerVars, nodes>>

TakeEvent ==
    /\ consumer = "lock" /\ nodes = <<>> /\ iEventCnt > 0 /\ consumer' = "write"
    /\ iEventCnt' = iEventCnt - 1
    /\ UNCHANGED <<ownerVars, reading, handled, callerVars, nodes>>

\* Slip: the thread waits without a look at the list.
WaitBlindly ==
    /\ consumer = "lock" /\ consumer' = "wait"
    /\ UNCHANGED <<ownerVars, reading, handled, callerVars, nodes, iEventCnt>>

Wait ==
    /\ consumer = "lock" /\ nodes = <<>> /\ iEventCnt = 0 /\ consumer' = "wait"
    /\ UNCHANGED <<ownerVars, reading, handled, callerVars, nodes, iEventCnt>>

\* Slip: a wait without a timeout.
WakeOnSignal ==
    /\ consumer = "wait" /\ consumer' = "check" /\ (nodes # <<>> \/ iEventCnt > 0)
    /\ UNCHANGED <<ownerVars, reading, handled, callerVars, nodes, iEventCnt>>

\* pthread_cond_timedwait ends on a signal or after 2 s.
Wake ==
    /\ consumer = "wait" /\ consumer' = "check"
    /\ UNCHANGED <<ownerVars, reading, handled, callerVars, nodes, iEventCnt>>

ReadCb ==
    /\ consumer = "read" /\ consumer' = "check"
    /\ handled' = Append(handled, reading) /\ reading' = 0
    /\ UNCHANGED <<ownerVars, callerVars, nodes, iEventCnt>>

WriteCb ==
    /\ consumer = "write" /\ consumer' = "check"
    /\ UNCHANGED <<ownerVars, reading, handled, callerVars, nodes, iEventCnt>>

Thread == Check \/ TakeNode \/ TakeEvent \/ Wait \/ Wake \/ ReadCb \/ WriteCb

-----------------------------------------------------------------------------
(* The producers: Message_PutMsg and Message_PutEvent *)

\* Message_PutMsg finds init set, and tests iLoopThreadRun next; when either is
\* clear it returns.
Call(p) == init /\ Begin(p, "called")

Test(p) ==
    /\ caller[p] = "called"
    /\ caller' = [caller EXCEPT ![p] = IF iLoopThreadRun THEN "msg" ELSE "idle"]
    /\ UNCHANGED <<ownerVars, threadVars, sound, puts, nodes, iEventCnt>>

PutMsg(p) ==
    /\ caller[p] = "msg" /\ alive
    /\ puts' = puts + 1 /\ nodes' = Append(nodes, puts')
    /\ caller' = [caller EXCEPT ![p] = "idle"]
    /\ UNCHANGED <<ownerVars, threadVars, sound, iEventCnt>>

\* Message_PutEvent tests iLoopThreadRun alone.
CallEvent(p) == iLoopThreadRun /\ Begin(p, "event")

PutEvent(p) ==
    /\ caller[p] = "event" /\ alive
    /\ puts' = puts + 1 /\ iEventCnt' = iEventCnt + 1
    /\ caller' = [caller EXCEPT ![p] = "idle"]
    /\ UNCHANGED <<ownerVars, threadVars, sound, nodes>>

PutLate(p) ==
    /\ p \in PastTests /\ ~alive /\ caller' = [caller EXCEPT ![p] = "crashed"]
    /\ UNCHANGED <<ownerVars, threadVars, sound, puts, nodes, iEventCnt>>

Producer(p) ==
    Call(p) \/ Test(p) \/ PutMsg(p) \/ CallEvent(p) \/ PutEvent(p) \/ PutLate(p)

-----------------------------------------------------------------------------
Next == Owner \/ Thread \/ \E p \in Producers : Producer(p)

Spec == Init /\ [][Next]_vars

\* The scheduler runs Message_Thread, callbacks return, waits time out, and
\* Message_Deinit goes on when it can.
FairSpec == Spec /\ WF_vars(Thread) /\ WF_vars(Join)

-----------------------------------------------------------------------------
(* Properties *)

TypeOK ==
    /\ init \in BOOLEAN /\ iLoopThreadRun \in BOOLEAN /\ alive \in BOOLEAN
    /\ nodes \in Seq(Nat) /\ iEventCnt \in Nat /\ reading \in Nat /\ handled \in Seq(Nat)
    /\ owner \in {"idle", "locks", "spawn", "join", "destroy", "clear"}
    /\ consumer \in {"none", "check", "lock", "read", "write", "wait", "quit"}
    /\ caller \in [Producers -> {"idle", "called", "msg", "event", "crashed"}]
    /\ sound \in [Producers -> BOOLEAN] /\ lives \in Nat /\ puts \in Nat

Active == consumer \notin {"none", "quit"}

\* Neither Message_Thread nor a caller that keeps the rules ever touches a
\* queue that is not there.  The rules leave a put free to begin while
\* Message_Deinit runs, and to have found init set when it begins.
NoUseAfterDestroy ==
    /\ Active => alive
    /\ \A p \in Producers : sound[p] => /\ caller[p] # "crashed"
                                        /\ p \in PastTests => alive

\* The task queue implements WorkQueue; what the thread is calling back for
\* still counts as pending.
Queue == INSTANCE WorkQueue
             WITH open <- alive, done <- handled,
                  pending <- (IF consumer = "read" THEN <<reading>> ELSE <<>>) \o nodes
ImplementsQueue == Queue!WQSpec

\* No message waits for ever while Message_Thread runs and is not told to stop.
MessagesHandled ==
    \A m \in 1..MaxPuts :
        LET waits == \E i \in 1..Len(nodes) : nodes[i] = m
        IN waits ~> ~waits \/ ~iLoopThreadRun \/ ~Active

\* Message_Deinit does not wait for ever for a thread that sleeps in
\* pthread_cond_timedwait, though Message_StopAsync does not signal it.
DeinitEnds == owner = "join" ~> owner # "join"
=============================================================================
