-------------------------- MODULE TaskQueueProofs --------------------------
(***************************************************************************)
(* Proofs about TaskQueue, for any number of producers, messages and lives *)
(* of the queue: types, no use of a queue that is not there, and the       *)
(* implementation of WorkQueue.                                            *)
(***************************************************************************)
EXTENDS TaskQueue, TLAPS, SequenceTheorems

\* When the queue is there, and what that says of its thread and its flags.
Lifecycle ==
    /\ alive <=> owner \in {"spawn", "join", "destroy"} \/ (owner = "idle" /\ init)
    /\ ~alive => nodes = <<>> /\ ~Active
    /\ owner \in {"locks", "spawn", "destroy", "clear"} => ~Active
    /\ owner \in {"join", "destroy", "clear"} \/ ~init => ~iLoopThreadRun
    /\ owner # "idle" => init

\* A caller that keeps the rules is past its tests only while nobody makes the
\* queue or tears it down, and has not begun before the locks were made.
SoundCallers ==
    \A p \in Producers :
        sound[p] => /\ caller[p] # "crashed"
                    /\ caller[p] = "called" => owner # "locks"
                    /\ p \in PastTests => alive /\ owner \in {"spawn", "idle"}

TQInv == TypeOK /\ Lifecycle /\ SoundCallers

-----------------------------------------------------------------------------
(* The empty list is a list of messages.                                   *)
LEMMA EmptyList == <<>> \in Seq(Nat)
BY EmptySeq

(* The message queue starts with nothing made and nobody inside.           *)
LEMMA TQInit == Init => TQInv
<1> SUFFICES ASSUME Init PROVE TQInv
  OBVIOUS
<1>1. TypeOK
  BY EmptyList DEF Init, TypeOK
<1>2. Lifecycle
  BY DEF Init, Lifecycle, Active
<1>3. SoundCallers
  BY DEF Init, SoundCallers, PastTests
<1> QED BY <1>1, <1>2, <1>3 DEF TQInv

(* Every step of the owner, the thread and the producers keeps the types.  *)
LEMMA TQTypes == TypeOK /\ [Next]_vars => TypeOK'
<1> SUFFICES ASSUME TypeOK, [Next]_vars PROVE TypeOK'
  OBVIOUS
<1> USE DEF TypeOK
<1>1. CASE InitFlags \/ InitLocks \/ Spawn \/ StopAsync
  <2>1. CASE InitFlags
    <3>1. sound' \in [Producers -> BOOLEAN]
      BY <2>1 DEF InitFlags, Unsound
    <3> QED BY <2>1, <3>1, EmptyList DEF InitFlags, threadVars
  <2>2. CASE InitLocks \/ StopAsync
    BY <2>2 DEF InitLocks, StopAsync, threadVars, callerVars
  <2>3. CASE Spawn
    BY <2>3 DEF Spawn, callerVars
  <2> QED BY <1>1, <2>1, <2>2, <2>3
<1>2. CASE DeinitStop
  <2>1. sound' \in [Producers -> BOOLEAN]
    BY <1>2 DEF DeinitStop, Unsound
  <2> QED BY <1>2, <2>1 DEF DeinitStop, threadVars
<1>3. CASE Join \/ Destroy \/ Clear
  BY <1>3, EmptyList DEF Join, Destroy, Clear, ownerVars, threadVars, callerVars
<1>4. CASE Check \/ TakeEvent \/ Wait \/ Wake \/ WriteCb
  BY <1>4 DEF Check, TakeEvent, Wait, Wake, WriteCb, ownerVars, threadVars, callerVars
<1>5. CASE TakeNode
  <2>1. Head(nodes) \in Nat /\ Tail(nodes) \in Seq(Nat)
    BY <1>5 DEF TakeNode
  <2> QED BY <1>5, <2>1 DEF TakeNode, ownerVars, callerVars
<1>6. CASE ReadCb
  BY <1>6 DEF ReadCb, ownerVars, callerVars
<1>7. ASSUME NEW p \in Producers, Producer(p) PROVE TypeOK'
  <2>1. CASE Call(p) \/ CallEvent(p)
    BY <2>1 DEF Call, CallEvent, Begin, ownerVars, threadVars
  <2>4. CASE Test(p) \/ PutLate(p)
    BY <2>4 DEF Test, PutLate, ownerVars, threadVars
  <2>2. CASE PutMsg(p)
    <3>1. puts' \in Nat /\ nodes' \in Seq(Nat)
      BY <2>2 DEF PutMsg
    <3>2. caller' \in [Producers -> {"idle", "called", "msg", "event", "crashed"}]
      BY <2>2 DEF PutMsg
    <3> QED BY <2>2, <3>1, <3>2 DEF PutMsg, ownerVars, threadVars
  <2>3. CASE PutEvent(p)
    BY <2>3 DEF PutEvent, ownerVars, threadVars
  <2> QED BY <1>7, <2>1, <2>2, <2>3, <2>4 DEF Producer
<1>8. CASE UNCHANGED vars
  BY <1>8 DEF vars, ownerVars, threadVars, callerVars
<1> QED BY <1>1, <1>4, <1>5, <1>6, <1>7, <1>8, <1>2, <1>3 DEF Next, Thread, Owner

(* Every step keeps Lifecycle: pthread_join is what ends the thread before *)
(* Message_Destroy, and the cleared flag is what keeps it from starting.   *)
LEMMA TQLifecycle == TQInv /\ [Next]_vars => Lifecycle'
<1> SUFFICES ASSUME TQInv, [Next]_vars PROVE Lifecycle'
  OBVIOUS
<1> USE DEF TQInv, TypeOK, Lifecycle, Active
<1>1. CASE InitFlags \/ InitLocks \/ Spawn \/ StopAsync
  BY <1>1 DEF InitFlags, InitLocks, Spawn, StopAsync, ownerVars, threadVars, callerVars
<1>2. CASE DeinitStop \/ Join \/ Destroy \/ Clear
  BY <1>2 DEF DeinitStop, Join, Destroy, Clear, ownerVars, threadVars, callerVars
<1>3. CASE Thread
  BY <1>3 DEF Thread, Check, TakeNode, TakeEvent, Wait, Wake, ReadCb, WriteCb,
     ownerVars, threadVars, callerVars
<1>4. ASSUME NEW p \in Producers, Producer(p) PROVE Lifecycle'
  BY <1>4 DEF Producer, Call, CallEvent, Begin, Test, PutMsg, PutEvent, PutLate, ownerVars,
     threadVars
<1>5. CASE UNCHANGED vars
  BY <1>5 DEF vars, ownerVars, threadVars, callerVars
<1> QED BY <1>1, <1>2, <1>3, <1>4, <1>5 DEF Next, Owner

(* Every step keeps SoundCallers: a put that reads iLoopThreadRun while    *)
(* Message_Deinit runs finds it cleared, and one that reads it while       *)
(* Message_Init makes the locks has broken the rules before.               *)
LEMMA TQSound == TQInv /\ [Next]_vars => SoundCallers'
<1> SUFFICES ASSUME TQInv, [Next]_vars PROVE SoundCallers'
  OBVIOUS
<1> USE DEF TQInv, TypeOK, Lifecycle, SoundCallers, PastTests, UnderWay
<1>1. CASE Owner
  BY <1>1 DEF Owner, InitFlags, InitLocks, Spawn, StopAsync, DeinitStop, Join, Destroy,
     Clear, Unsound, ownerVars, threadVars, callerVars
<1>2. CASE Thread
  BY <1>2 DEF Thread, Check, TakeNode, TakeEvent, Wait, Wake, ReadCb, WriteCb,
     ownerVars, threadVars, callerVars
<1>3. ASSUME NEW p \in Producers, Producer(p) PROVE SoundCallers'
  BY <1>3 DEF Producer, Call, CallEvent, Begin, Test, PutMsg, PutEvent, PutLate, ownerVars,
     threadVars
<1>4. CASE UNCHANGED vars
  BY <1>4 DEF vars, ownerVars, threadVars, callerVars
<1> QED BY <1>1, <1>2, <1>3, <1>4 DEF Next

(* The inductive invariant holds in every reachable state.                 *)
THEOREM QueueInvariance == Spec => []TQInv
<1>1. TQInv /\ [Next]_vars => TQInv'
  BY TQTypes, TQLifecycle, TQSound DEF TQInv
<1> QED BY TQInit, <1>1, PTL DEF Spec

(* The fields of the queue, its thread and its callers keep their types.   *)
THEOREM QueueTypes == Spec => []TypeOK
<1>1. TQInv => TypeOK
  BY DEF TQInv
<1> QED BY QueueInvariance, <1>1, PTL

(* Neither Message_Thread nor a caller that keeps the rules touches a      *)
(* queue that Message_Destroy has taken down or Message_Init not yet made. *)
THEOREM QueueSafety == Spec => []NoUseAfterDestroy
<1>1. TQInv => NoUseAfterDestroy
  BY DEF TQInv, Lifecycle, SoundCallers, PastTests, NoUseAfterDestroy
<1> QED BY QueueInvariance, <1>1, PTL

-----------------------------------------------------------------------------
(* The refinement.  Waiting is what stands for pending.                    *)
Waiting == (IF consumer = "read" THEN <<reading>> ELSE <<>>) \o nodes

(* What is being called back for comes before what is in the list.         *)
LEMMA WaitingParts ==
    ASSUME TypeOK
    PROVE  /\ consumer # "read" => Waiting = nodes
           /\ consumer = "read" => Waiting # <<>> /\ Head(Waiting) = reading
                                   /\ Tail(Waiting) = nodes
<1>1. nodes \in Seq(Nat) /\ <<reading>> \in Seq(Nat)
  BY DEF TypeOK
<1>2. CASE consumer # "read"
  BY <1>1, <1>2 DEF Waiting
<1>3. CASE consumer = "read"
  <2> DEFINE w == <<reading>> \o nodes
  <2>1. Waiting = w
    BY <1>3 DEF Waiting
  <2>2. w \in Seq(Nat) /\ Len(w) = Len(nodes) + 1 /\ w[1] = reading
        /\ \A i \in 1..Len(nodes) : w[i + 1] = nodes[i]
    BY <1>1
  <2>3. w # <<>> /\ Head(w) = reading
    BY <2>2
  <2>4. Tail(w) \in Seq(Nat) /\ Len(Tail(w)) = Len(nodes)
        /\ \A i \in 1..Len(nodes) : Tail(w)[i] = nodes[i]
    BY <1>1, <2>2
  <2>5. Tail(w) = nodes
    BY <1>1, <2>4, SeqEqual
  <2> QED BY <1>3, <2>1, <2>3, <2>5
<1> QED BY <1>2, <1>3

(* A node that Message_PutMsg appends is the last that waits.              *)
LEMMA WaitingGrows ==
    ASSUME TypeOK, NEW m \in Nat, nodes' = Append(nodes, m),
           consumer' = consumer, reading' = reading
    PROVE  Len(Waiting') = Len(Waiting) + 1 /\ SubSeq(Waiting', 1, Len(Waiting)) = Waiting
<1> DEFINE front == IF consumer = "read" THEN <<reading>> ELSE <<>>
<1>1. front \in Seq(Nat) /\ nodes \in Seq(Nat)
  BY DEF TypeOK
<1>2. Waiting = front \o nodes /\ Waiting' = front \o Append(nodes, m)
  BY DEF Waiting
<1> HIDE DEF front
<1>3. Waiting \in Seq(Nat) /\ Waiting' = Append(Waiting, m)
  BY <1>1, <1>2
<1> QED BY <1>3

(* Every step of TaskQueue is a step of WorkQueue or leaves it alone.      *)
LEMMA QueueStep == TQInv /\ TQInv' /\ [Next]_vars => [Queue!WQNext]_(Queue!wqVars)
<1> SUFFICES ASSUME TQInv, TQInv', [Next]_vars
             PROVE  Queue!WQNext \/ UNCHANGED <<alive, Waiting, handled>>
  BY DEF Queue!wqVars, Waiting
<1> USE DEF TQInv
<1>1. CASE InitFlags \/ Spawn \/ StopAsync \/ DeinitStop \/ Join \/ Clear
  <2>1. UNCHANGED <<alive, nodes, reading, handled>> /\ (consumer = "read") = (consumer' = "read")
    BY <1>1 DEF InitFlags, Spawn, StopAsync, DeinitStop, Join, Clear, ownerVars, threadVars,
       callerVars, Lifecycle, Active, TypeOK
  <2> QED BY <2>1 DEF Waiting
<1>2. CASE InitLocks
  <2>1. ~alive /\ alive' /\ Waiting = <<>> /\ Waiting' = <<>> /\ handled' = handled
    BY <1>2 DEF InitLocks, threadVars, Lifecycle, Active, Waiting, TypeOK
  <2> QED BY <2>1 DEF Queue!WQNext, Queue!Open, Waiting
<1>3. CASE Destroy
  <2>1. alive /\ alive' = FALSE /\ Waiting' = <<>> /\ handled' = handled
    BY <1>3 DEF Destroy, threadVars, Lifecycle, Active, Waiting, TypeOK
  <2> QED BY <2>1 DEF Queue!WQNext, Queue!Close, Waiting
<1>4. CASE Check \/ TakeEvent \/ Wait \/ Wake \/ WriteCb
  <2>1. UNCHANGED <<alive, nodes, reading, handled>> /\ consumer # "read" /\ consumer' # "read"
    BY <1>4 DEF Check, TakeEvent, Wait, Wake, WriteCb, ownerVars
  <2> QED BY <2>1 DEF Waiting
<1>5. CASE TakeNode
  <2>1. /\ consumer # "read" /\ consumer' = "read" /\ nodes # <<>>
        /\ reading' = Head(nodes) /\ nodes' = Tail(nodes) /\ UNCHANGED <<alive, handled>>
    BY <1>5 DEF TakeNode, ownerVars
  <2>2. nodes \in Seq(Nat) /\ Tail(nodes) \in Seq(Nat) /\ Head(nodes) \in Nat
    BY <2>1 DEF TypeOK
  <2>3. <<Head(nodes)>> \o Tail(nodes) = nodes
    BY <2>1, <2>2
  <2> QED BY <2>1, <2>3, WaitingParts DEF Waiting
<1>6. CASE ReadCb
  <2>1. /\ consumer = "read" /\ consumer' # "read" /\ UNCHANGED <<alive, nodes>>
        /\ handled' = Append(handled, reading) /\ alive
    BY <1>6 DEF ReadCb, ownerVars, Lifecycle, Active
  <2>2. Waiting # <<>> /\ Head(Waiting) = reading /\ Tail(Waiting) = nodes
    BY <2>1, WaitingParts
  <2>3. Waiting' = nodes
    BY <2>1 DEF Waiting, TypeOK
  <2> QED BY <2>1, <2>2, <2>3 DEF Queue!WQNext, Queue!Handle, Waiting
<1>7. ASSUME NEW p \in Producers, Producer(p)
      PROVE  Queue!WQNext \/ UNCHANGED <<alive, Waiting, handled>>
  <2>1. CASE Call(p) \/ CallEvent(p) \/ Test(p) \/ PutEvent(p) \/ PutLate(p)
    BY <2>1 DEF Call, CallEvent, Begin, Test, PutEvent, PutLate, ownerVars, threadVars, Waiting
  <2>2. CASE PutMsg(p)
    <3>1. /\ alive /\ puts' \in Nat /\ nodes' = Append(nodes, puts')
          /\ UNCHANGED <<alive, consumer, reading, handled>>
      BY <2>2 DEF PutMsg, ownerVars, threadVars, TypeOK
    <3>2. Len(Waiting') = Len(Waiting) + 1 /\ SubSeq(Waiting', 1, Len(Waiting)) = Waiting
      BY <3>1, WaitingGrows
    <3> QED BY <3>1, <3>2 DEF Queue!WQNext, Queue!Put, Waiting
  <2> QED BY <1>7, <2>1, <2>2 DEF Producer
<1>8. CASE UNCHANGED vars
  BY <1>8 DEF vars, ownerVars, threadVars, Waiting
<1> QED BY <1>1, <1>2, <1>3, <1>4, <1>5, <1>6, <1>7, <1>8 DEF Next, Owner, Thread

(* The task queue implements WorkQueue: every message is handled once and  *)
(* in order, and only Message_Destroy drops what is left.                  *)
THEOREM QueueRefinement == Spec => ImplementsQueue
<1>1. Init => Queue!WQInit
  BY DEF Init, Queue!WQInit
<1>2. Spec => [][Queue!WQNext]_(Queue!wqVars)
  BY QueueInvariance, QueueStep, PTL DEF Spec
<1> QED BY <1>1, <1>2, PTL DEF Spec, ImplementsQueue, Queue!WQSpec
=============================================================================
