----------------------------- MODULE KcpSession -----------------------------
(***************************************************************************)
(* The life of a KCP session in the app: KcpClient.start, stop and send    *)
(* run on the main thread, every start creates a KcpRecvThread, and both   *)
(* call into kcp_wrapper.cpp, whose globals kcp and udp_fd no lock guards. *)
(*                                                                         *)
(* A control block or a socket is named by the number of the start that    *)
(* created it; 0 is nullptr and -1 of the code.  A native call that works  *)
(* on the control block takes two steps: it reads the global, and it       *)
(* returns; in between block[t] is the block it works on.  Freeing that    *)
(* block meanwhile is a use after free, reading nullptr a crash.           *)
(***************************************************************************)
EXTENDS Integers, FiniteSets

CONSTANT MaxStarts     \* bound: successful calls of KcpClient.start
ASSUME SessionAssumption == MaxStarts \in Nat

Thread == 1..MaxStarts
Main == 0              \* the main thread

VARIABLES running, recvThread,     \* KcpClient
          kcp, udp_fd,             \* kcp_wrapper.cpp
          allocated, open,         \* blocks not freed, sockets not closed
          bound,                   \* the open sockets that got port 43210
          pc,                      \* where each thread is
          block,                   \* the block the thread's native call works on
          starts,                  \* receive threads created so far
          timedOut                 \* history: some join(100) gave up

vars == <<running, recvThread, kcp, udp_fd, allocated, open, bound, pc, block,
          starts, timedOut>>
nativeVars == <<kcp, udp_fd, allocated, open, bound>>

Init ==
    /\ running = FALSE /\ recvThread = 0 /\ kcp = 0 /\ udp_fd = 0
    /\ allocated = {} /\ open = {} /\ bound = {}
    /\ pc = [t \in Thread \cup {Main} |-> IF t = Main THEN "idle" ELSE "unborn"]
    /\ block = [t \in Thread \cup {Main} |-> 0]
    /\ starts = 0 /\ timedOut = FALSE

Goto(t, from, to) == pc[t] = from /\ pc' = [pc EXCEPT ![t] = to]

\* A native call begins to work on the control block, if the caller gets that far.
Enter(t, from, to) ==
    /\ Goto(t, from, to)
    /\ block' = [block EXCEPT ![t] = kcp]
    /\ UNCHANGED <<running, recvThread, nativeVars, starts, timedOut>>

Leave(t, from, to) ==
    /\ Goto(t, from, to)
    /\ block' = [block EXCEPT ![t] = 0]
    /\ UNCHANGED <<running, recvThread, nativeVars, starts, timedOut>>

-----------------------------------------------------------------------------
(* KcpClient.start: it does nothing while running. *)

\* Slip: start without the test of running.
StartAgain ==
    /\ Goto(Main, "idle", "init")
    /\ starts < MaxStarts
    /\ UNCHANGED <<running, recvThread, nativeVars, block, starts, timedOut>>

Start ==
    /\ ~running /\ starts < MaxStarts
    /\ Goto(Main, "idle", "init")
    /\ UNCHANGED <<running, recvThread, nativeVars, block, starts, timedOut>>

\* initKcp: when socket() fails nothing else is set up.  bind() fails when a
\* socket of the app holds the port, and at any time for a reason outside the
\* app (another process has the port): that is logged, and the session gets its
\* control block all the same.
InitSocket ==
    /\ \/ /\ Goto(Main, "init", "create")
          /\ udp_fd' = starts + 1 /\ open' = open \cup {starts + 1}
          /\ \/ bound = {} /\ bound' = {starts + 1}
             \/ UNCHANGED bound
       \/ /\ Goto(Main, "init", "spawn")
          /\ udp_fd' = 0 /\ UNCHANGED <<open, bound>>
    /\ UNCHANGED <<running, recvThread, kcp, allocated, block, starts, timedOut>>

InitBlock ==
    /\ Goto(Main, "create", "spawn")
    /\ kcp' = starts + 1 /\ allocated' = allocated \cup {starts + 1}
    /\ UNCHANGED <<running, recvThread, udp_fd, open, bound, block, starts, timedOut>>

Spawn ==
    /\ pc[Main] = "spawn"
    /\ running' = TRUE /\ starts' = starts + 1 /\ recvThread' = starts + 1
    /\ pc' = [pc EXCEPT ![Main] = "idle", ![starts + 1] = "loop"]
    /\ UNCHANGED <<nativeVars, block, timedOut>>

-----------------------------------------------------------------------------
(* KcpClient.stop waits at most 100 ms for the thread, then releases. *)

\* Slip: stop joins recvThread without the test for null.
StopUnchecked ==
    /\ running' = FALSE
    /\ Goto(Main, "idle", "join")
    /\ UNCHANGED <<recvThread, nativeVars, block, starts, timedOut>>

Stop ==
    /\ running' = FALSE
    /\ Goto(Main, "idle", IF recvThread = 0 THEN "release" ELSE "join")
    /\ UNCHANGED <<recvThread, nativeVars, block, starts, timedOut>>

\* Slip: stop releases without waiting for the thread.
JoinNot ==
    /\ Goto(Main, "join", "release") /\ recvThread' = 0
    /\ UNCHANGED <<running, nativeVars, block, starts, timedOut>>

Join ==
    /\ Goto(Main, "join", "release") /\ recvThread' = 0
    /\ timedOut' = (timedOut \/ pc[recvThread] # "done")
    /\ UNCHANGED <<running, nativeVars, block, starts>>

\* releaseKcp frees the control block before it clears the pointer.
ReleaseFree ==
    /\ Goto(Main, "release", "clear") /\ allocated' = allocated \ {kcp}
    /\ UNCHANGED <<running, recvThread, kcp, udp_fd, open, bound, block, starts, timedOut>>

ReleaseClear ==
    /\ Goto(Main, "clear", "close") /\ kcp' = 0
    /\ UNCHANGED <<running, recvThread, udp_fd, allocated, open, bound, block, starts, timedOut>>

ReleaseClose ==
    /\ Goto(Main, "close", "idle")
    /\ open' = open \ {udp_fd} /\ bound' = bound \ {udp_fd} /\ udp_fd' = 0
    /\ UNCHANGED <<running, recvThread, kcp, allocated, block, starts, timedOut>>

-----------------------------------------------------------------------------
(* KcpClient.send, on the main thread *)

Send == running /\ kcp # 0 /\ Enter(Main, "idle", "sending")
SendReturns == Leave(Main, "sending", "idle")

-----------------------------------------------------------------------------
(* KcpRecvThread: while (running) { updateKcp; receiveData; sleep } *)

\* Slip: the thread tests running only once, before the loop.
LoopForEver(t) ==
    /\ Goto(t, "loop", "update")
    /\ UNCHANGED <<running, recvThread, nativeVars, block, starts, timedOut>>

Loop(t) ==
    /\ Goto(t, "loop", IF running THEN "update" ELSE "done")
    /\ UNCHANGED <<running, recvThread, nativeVars, block, starts, timedOut>>

Update(t) ==
    \/ kcp # 0 /\ Enter(t, "update", "updating")
    \/ kcp = 0 /\ Leave(t, "update", "check")
UpdateReturns(t) == Leave(t, "updating", "check")

\* receiveData tests both globals, then reads each of them again.
Check(t) == Leave(t, "check", IF kcp = 0 \/ udp_fd = 0 THEN "sleep" ELSE "recvfrom")

RecvFrom(t) ==
    \/ udp_fd # 0 /\ Leave(t, "recvfrom", "input")
    \/ Leave(t, "recvfrom", "recv")

InputBegins(t) == Enter(t, "input", "inputting")
InputReturns(t) == Leave(t, "inputting", "recv")
RecvBegins(t) == Enter(t, "recv", "receiving")
RecvReturns(t) == Leave(t, "receiving", "sleep")

\* onReceive, when there is a message, and Thread.sleep(30)
Sleep(t) == Leave(t, "sleep", "loop")

ThreadStep(t) ==
    \/ Loop(t) \/ Update(t) \/ UpdateReturns(t) \/ Check(t) \/ RecvFrom(t)
    \/ InputBegins(t) \/ InputReturns(t) \/ RecvBegins(t) \/ RecvReturns(t) \/ Sleep(t)

MainStep ==
    \/ Start \/ InitSocket \/ InitBlock \/ Spawn
    \/ Stop \/ Join \/ ReleaseFree \/ ReleaseClear \/ ReleaseClose
    \/ Send \/ SendReturns

Next == MainStep \/ \E t \in Thread : ThreadStep(t)

Spec == Init /\ [][Next]_vars
\* The scheduler runs every receive thread.
FairSpec == Spec /\ \A t \in Thread : WF_vars(ThreadStep(t))

-----------------------------------------------------------------------------
(* Properties *)

Working == {"updating", "inputting", "receiving"}
MainPlace == {"idle", "init", "create", "spawn", "join", "release", "clear", "close", "sending"}
ThreadPlace == Working \cup
    {"unborn", "loop", "update", "check", "recvfrom", "input", "recv", "sleep", "done"}
Alive(t) == pc[t] \notin {"unborn", "done"}

\* Flags, globals and the positions of the threads; what stop joins is a thread.
TypeOK ==
    /\ running \in BOOLEAN /\ timedOut \in BOOLEAN /\ starts \in 0..MaxStarts
    /\ recvThread \in 0..starts /\ kcp \in 0..(starts + 1) /\ udp_fd \in 0..(starts + 1)
    /\ allocated \subseteq 1..(starts + 1) /\ bound \subseteq open /\ open \subseteq 1..(starts + 1)
    /\ block \in [Thread \cup {Main} -> 0..(starts + 1)]
    /\ pc \in [Thread \cup {Main} -> MainPlace \cup ThreadPlace]
    /\ pc[Main] \in MainPlace /\ \A t \in Thread : pc[t] \in ThreadPlace
    /\ pc[Main] = "join" => recvThread # 0

(* No receive thread works on a control block that releaseKcp has freed,   *)
(* or on nullptr, unless the join(100) of some stop has given up.          *)
NoUseAfterRelease ==
    \A t \in Thread : pc[t] \in Working => block[t] \in allocated \/ timedOut

(* At most one receive thread is alive unless a join(100) has given up:    *)
(* a later start sets running again, and the old thread, should it not     *)
(* have read the flag in between, goes on for ever beside the new one.     *)
OneReceiver == Cardinality({t \in Thread : Alive(t)}) <= 1 \/ timedOut

(* start and stop never leak, even after a join that gave up: initKcp       *)
(* overwrites kcp and udp_fd without releasing what they held, so a start   *)
(* finds no block and no open socket of the app (and if bind fails then,    *)
(* it is not the app itself that has the port), and a stopped client has    *)
(* none.                                                                   *)
NothingLeaks ==
    /\ allocated \subseteq {kcp} /\ open \subseteq {udp_fd}
    /\ pc[Main] = "init" \/ (pc[Main] = "idle" /\ ~running) => allocated = {} /\ open = {}

(* A stop that no start follows ends every receive thread, the ones an     *)
(* earlier join left behind included.                                      *)
ReceiversEnd == <>[](~running) => <>[](\A t \in Thread : ~Alive(t))
=============================================================================
