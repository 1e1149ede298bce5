-------------------------- MODULE KcpSessionProofs --------------------------
(***************************************************************************)
(* Proofs about KcpSession, for any number of starts: types, no use after  *)
(* release, one receiver, and no leak.                                     *)
(***************************************************************************)
EXTENDS KcpSession, TLAPS, FiniteSetTheorems

\* The session is up: kcp and udp_fd may only be read.
Up == pc[Main] \in {"idle", "sending", "join"}

\* What the globals hold, step by step of start and stop.
Globals ==
    /\ allocated = (IF kcp = 0 \/ pc[Main] = "clear" THEN {} ELSE {kcp})
    /\ open = (IF udp_fd = 0 THEN {} ELSE {udp_fd}) /\ bound \subseteq open
    /\ pc[Main] \in {"init", "create", "close"} => kcp = 0
    /\ pc[Main] = "init" => udp_fd = 0
    /\ pc[Main] = "idle" /\ ~running => kcp = 0 /\ udp_fd = 0

\* When the client runs and has a receive thread, and which threads are born.
Client ==
    /\ pc[Main] \notin {"idle", "sending"} => ~running
    /\ pc[Main] = "sending" => running
    /\ recvThread # 0 <=> running \/ pc[Main] = "join"
    /\ pc[Main] \in {"init", "create", "spawn"} => starts < MaxStarts
    /\ \A t \in Thread : pc[t] = "unborn" <=> t > starts

\* Until a join gives up, only recvThread is alive, only while the session is
\* up, and it works on the control block of the session.
Receivers ==
    ~timedOut =>
        \A t \in Thread :
            /\ Alive(t) => t = recvThread /\ Up
            /\ pc[t] \in Working \cup {"recvfrom", "input", "recv"} => kcp # 0
            /\ pc[t] \in Working => block[t] = kcp

KSInv == TypeOK /\ Globals /\ Client /\ Receivers

-----------------------------------------------------------------------------
(* The main thread is none of the receive threads.                         *)
LEMMA MainApart == Main \notin Thread /\ Thread \subseteq Nat
BY SessionAssumption DEF Main, Thread

(* The app starts without a session.                                       *)
LEMMA KSInit == Init => KSInv
<1> SUFFICES ASSUME Init PROVE KSInv
  OBVIOUS
<1>1. TypeOK
  <2>1. pc[Main] = "idle" /\ \A t \in Thread : pc[t] = "unborn"
    BY MainApart DEF Init
  <2>2. pc \in [Thread \cup {Main} -> MainPlace \cup ThreadPlace]
    BY MainApart DEF Init, MainPlace, ThreadPlace
  <2>3. pc[Main] \in MainPlace /\ \A t \in Thread : pc[t] \in ThreadPlace
    BY <2>1 DEF MainPlace, ThreadPlace
  <2>4. block \in [Thread \cup {Main} -> 0..(starts + 1)]
    BY DEF Init
  <2>5. allocated \subseteq 1..(starts + 1) /\ bound \subseteq open /\ open \subseteq 1..(starts + 1)
    BY DEF Init
  <2>6. starts \in 0..MaxStarts /\ recvThread \in 0..starts /\ kcp \in 0..(starts + 1) /\ udp_fd \in 0..(starts + 1)
    BY SessionAssumption DEF Init
  <2>7. running \in BOOLEAN /\ timedOut \in BOOLEAN
    BY DEF Init
  <2> QED BY <2>1, <2>2, <2>3, <2>4, <2>5, <2>6, <2>7 DEF TypeOK
<1>2. Globals /\ Client /\ Receivers
  BY MainApart, SessionAssumption
     DEF Init, Globals, Client, Receivers, Up, Alive, Working, MainPlace, ThreadPlace, Thread
<1> QED BY <1>1, <1>2 DEF KSInv

-----------------------------------------------------------------------------
\* TypeOK in three parts: the positions of the threads, the rest, and what
\* stop joins.
Places ==
    /\ pc \in [Thread \cup {Main} -> MainPlace \cup ThreadPlace]
    /\ pc[Main] \in MainPlace /\ \A t \in Thread : pc[t] \in ThreadPlace
Values ==
    /\ running \in BOOLEAN /\ timedOut \in BOOLEAN /\ starts \in 0..MaxStarts
    /\ recvThread \in 0..starts /\ kcp \in 0..(starts + 1) /\ udp_fd \in 0..(starts + 1)
    /\ allocated \subseteq 1..(starts + 1) /\ bound \subseteq open /\ open \subseteq 1..(starts + 1)
    /\ block \in [Thread \cup {Main} -> 0..(starts + 1)]
Joined == pc[Main] = "join" => recvThread # 0

(* A thread that goes to a place of its kind leaves every thread at one.   *)
LEMMA KSPlaces ==
    ASSUME Places, NEW p \in Thread \cup {Main}, NEW to,
           pc' = [pc EXCEPT ![p] = to],
           p = Main => to \in MainPlace, p # Main => to \in ThreadPlace
    PROVE  Places'
<1>1. pc'[p] = to /\ \A q \in Thread \cup {Main} : q # p => pc'[q] = pc[q]
  BY DEF Places
<1>2. to \in MainPlace \cup ThreadPlace
  OBVIOUS
<1>3. pc' \in [Thread \cup {Main} -> MainPlace \cup ThreadPlace]
  BY <1>2 DEF Places
<1>4. pc'[Main] \in MainPlace
  BY <1>1 DEF Places
<1>5. \A t \in Thread : pc'[t] \in ThreadPlace
  BY <1>1, MainApart DEF Places
<1> QED BY <1>3, <1>4, <1>5 DEF Places

(* Places, Values and Joined together are TypeOK.                          *)
LEMMA KSSplit ==
    /\ TypeOK <=> Places /\ Values /\ Joined
    /\ TypeOK' <=> Places' /\ Values' /\ Joined'
BY DEF TypeOK, Places, Values, Joined

(* The places the main thread and the receive threads go to.               *)
LEMMA KSKinds ==
    /\ {"idle", "init", "create", "spawn", "join", "release", "clear", "close", "sending"}
          \subseteq MainPlace
    /\ {"loop", "update", "updating", "check", "recvfrom", "input", "inputting", "recv",
        "receiving", "sleep", "done"} \subseteq ThreadPlace
BY DEF MainPlace, ThreadPlace, Working

(* Every step keeps the positions and the values.                          *)
LEMMA KSTypes == TypeOK /\ Client /\ [Next]_vars => Places' /\ Values'
<1> SUFFICES ASSUME Places, Values, Client, [Next]_vars PROVE Places' /\ Values'
  BY KSSplit
<1> USE SessionAssumption DEF nativeVars, Goto
<1>1. CASE Start
  BY <1>1, KSPlaces, KSKinds DEF Start, Values
<1>2. CASE InitSocket
  <2>1. Places'
    BY <1>2, KSPlaces, KSKinds DEF InitSocket
  <2>2. Values'
    <3>0. starts \in Nat
      BY DEF Values
    <3>1. /\ udp_fd' \in 0..(starts + 1)
          /\ open' \subseteq 1..(starts + 1) /\ bound' \subseteq open'
      <4>1. CASE udp_fd' = 0 /\ UNCHANGED <<open, bound>>
        BY <4>1, <3>0 DEF Values
      <4>2. CASE /\ udp_fd' = starts + 1 /\ open' = open \cup {starts + 1}
                 /\ bound' \in {{starts + 1}, bound}
        BY <4>2, <3>0 DEF Values
      <4> QED BY <1>2, <4>1, <4>2 DEF InitSocket
    <3>2. UNCHANGED <<running, recvThread, kcp, allocated, block, starts, timedOut>>
      BY <1>2 DEF InitSocket
    <3> QED BY <3>1, <3>2 DEF Values
  <2> QED BY <2>1, <2>2
<1>3. CASE InitBlock
  <2>1. Places'
    BY <1>3, KSPlaces, KSKinds DEF InitBlock
  <2>2. Values'
    BY <1>3 DEF InitBlock, Values
  <2> QED BY <2>1, <2>2
<1>4. CASE Spawn
  <2>1. starts + 1 \in Thread
    BY <1>4 DEF Spawn, Client, Values, Thread
  <2>2. Places'
    <3> DEFINE mid == [pc EXCEPT ![Main] = "idle"]
    <3>1. pc' = [mid EXCEPT ![starts + 1] = "loop"]
      BY <1>4 DEF Spawn
    <3>2. pc'[Main] = "idle" /\ pc'[starts + 1] = "loop"
      BY <3>1, <2>1, MainApart DEF Places
    <3>3. \A t \in Thread : t # starts + 1 => pc'[t] = pc[t]
      BY <3>1, <2>1, MainApart DEF Places
    <3>4. pc' \in [Thread \cup {Main} -> MainPlace \cup ThreadPlace]
      BY <3>1, KSKinds DEF Places
    <3> QED BY <3>2, <3>3, <3>4, KSKinds DEF Places
  <2>3. Values'
    <3>1. starts' = starts + 1 /\ starts' \in 0..MaxStarts /\ recvThread' \in 0..starts'
      BY <1>4, <2>1 DEF Spawn, Values, Thread
    <3>2. 0..(starts + 1) \subseteq 0..(starts' + 1) /\ 1..(starts + 1) \subseteq 1..(starts' + 1)
      BY <3>1 DEF Values
    <3>3. UNCHANGED <<nativeVars, block, timedOut>> /\ running' = TRUE
      BY <1>4 DEF Spawn
    <3>4. block' \in [Thread \cup {Main} -> 0..(starts' + 1)]
      BY <3>2, <3>3 DEF Values
    <3> QED BY <3>1, <3>2, <3>3, <3>4 DEF Values
  <2> QED BY <2>2, <2>3
<1>5. CASE Stop \/ Join
  <2>1. PICK to \in {"join", "release"} : pc' = [pc EXCEPT ![Main] = to]
    BY <1>5 DEF Stop, Join
  <2>2. Places'
    BY <2>1, KSPlaces, KSKinds
  <2>3. Values'
    <3>1. UNCHANGED <<nativeVars, block, starts>> /\ recvThread' \in {recvThread, 0}
      BY <1>5 DEF Stop, Join
    <3>2. running' \in BOOLEAN /\ timedOut' \in BOOLEAN
      BY <1>5, Zenon DEF Stop, Join, Values
    <3> QED BY <3>1, <3>2 DEF Values
  <2> QED BY <2>2, <2>3
<1>6. CASE ReleaseFree \/ ReleaseClear \/ ReleaseClose
  <2>1. PICK to \in {"clear", "close", "idle"} : pc' = [pc EXCEPT ![Main] = to]
    BY <1>6 DEF ReleaseFree, ReleaseClear, ReleaseClose
  <2>2. Places'
    BY <2>1, KSPlaces, KSKinds
  <2>3. Values'
    <3>1. UNCHANGED <<running, recvThread, block, starts, timedOut>>
      BY <1>6 DEF ReleaseFree, ReleaseClear, ReleaseClose
    <3>2. kcp' \in {kcp, 0} /\ udp_fd' \in {udp_fd, 0} /\ allocated' \subseteq allocated
      BY <1>6 DEF ReleaseFree, ReleaseClear, ReleaseClose
    <3>3. open' \subseteq open /\ bound' \subseteq open'
      BY <1>6 DEF ReleaseFree, ReleaseClear, ReleaseClose, Values
    <3> QED BY <3>1, <3>2, <3>3 DEF Values
  <2> QED BY <2>2, <2>3
<1>7. CASE Send \/ SendReturns
  <2>1. PICK to \in {"sending", "idle"} : pc' = [pc EXCEPT ![Main] = to]
    BY <1>7 DEF Send, SendReturns, Enter, Leave
  <2>2. Places'
    BY <2>1, KSPlaces, KSKinds
  <2>3. Values'
    <3>1. /\ UNCHANGED <<running, recvThread, nativeVars, starts, timedOut>>
          /\ \E b \in {kcp, 0} : block' = [block EXCEPT ![Main] = b]
      BY <1>7 DEF Send, SendReturns, Enter, Leave
    <3> QED BY <3>1 DEF Values
  <2> QED BY <2>2, <2>3
<1>8. ASSUME NEW t \in Thread, ThreadStep(t) PROVE Places' /\ Values'
  <2>1. PICK from, to \in ThreadPlace : Goto(t, from, to)
    BY <1>8, KSKinds DEF ThreadStep, Loop, Update, UpdateReturns, Check, RecvFrom, InputBegins,
       InputReturns, RecvBegins, RecvReturns, Sleep, Enter, Leave
  <2>2. Places'
    BY <2>1, KSPlaces, MainApart
  <2>3. /\ UNCHANGED <<running, recvThread, nativeVars, starts, timedOut>>
        /\ \/ UNCHANGED block
           \/ \E b \in {kcp, 0} : block' = [block EXCEPT ![t] = b]
    BY <1>8 DEF ThreadStep, Loop, Update, UpdateReturns, Check, RecvFrom, InputBegins,
       InputReturns, RecvBegins, RecvReturns, Sleep, Enter, Leave
  <2>4. Values'
    BY <2>3 DEF Values
  <2> QED BY <2>2, <2>4
<1>9. CASE UNCHANGED vars
  BY <1>9 DEF vars, Places, Values
<1> QED BY <1>1, <1>2, <1>3, <1>4, <1>5, <1>6, <1>7, <1>8, <1>9 DEF Next, MainStep

(* No thread but the main thread, in start and stop, writes the globals.   *)
LEMMA KSGlobals == KSInv /\ [Next]_vars => Globals'
<1> SUFFICES ASSUME KSInv, [Next]_vars PROVE Globals'
  OBVIOUS
<1> USE MainApart DEF KSInv, TypeOK, Globals, Client, nativeVars, Goto
<1>1. CASE Start \/ Spawn \/ Stop \/ Join
  BY <1>1 DEF Start, Spawn, Stop, Join
<1>2. CASE InitSocket
  <2>1. open = {} /\ bound = {} /\ kcp = 0 /\ allocated = {} /\ pc[Main] = "init"
    BY <1>2 DEF InitSocket
  <2>2. pc'[Main] \in {"create", "spawn"} /\ UNCHANGED <<kcp, allocated>>
    BY <1>2 DEF InitSocket
  <2>3. open' = (IF udp_fd' = 0 THEN {} ELSE {udp_fd'}) /\ bound' \subseteq open'
    BY <1>2, <2>1 DEF InitSocket
  <2> QED BY <2>1, <2>2, <2>3
<1>3. CASE InitBlock
  BY <1>3 DEF InitBlock
<1>4. CASE ReleaseFree \/ ReleaseClear
  BY <1>4 DEF ReleaseFree, ReleaseClear
<1>5. CASE ReleaseClose
  BY <1>5 DEF ReleaseClose
<1>6. CASE Send \/ SendReturns
  BY <1>6 DEF Send, SendReturns, Enter, Leave
<1>7. ASSUME NEW t \in Thread, ThreadStep(t) PROVE Globals'
  <2>1. pc'[Main] = pc[Main] /\ UNCHANGED <<nativeVars, running>>
    BY <1>7 DEF ThreadStep, Loop, Update, UpdateReturns, Check, RecvFrom, InputBegins,
       InputReturns, RecvBegins, RecvReturns, Sleep, Enter, Leave
  <2> QED BY <2>1
<1>8. CASE UNCHANGED vars
  BY <1>8 DEF vars
<1> QED BY <1>1, <1>2, <1>3, <1>4, <1>5, <1>6, <1>7, <1>8 DEF Next, MainStep

(* Every step keeps what Client says of the flag and the threads.          *)
LEMMA KSClient == KSInv /\ [Next]_vars => Client'
<1> SUFFICES ASSUME KSInv, [Next]_vars PROVE Client'
  OBVIOUS
<1> USE MainApart, SessionAssumption DEF KSInv, TypeOK, Client, nativeVars, Goto, Working, MainPlace, ThreadPlace
<1>1. CASE Start \/ InitSocket \/ InitBlock \/ Stop \/ Join
  BY <1>1 DEF Start, InitSocket, InitBlock, Stop, Join
<1>2. CASE Spawn
  BY <1>2 DEF Spawn, Thread
<1>3. CASE ReleaseFree \/ ReleaseClear \/ ReleaseClose
  BY <1>3 DEF ReleaseFree, ReleaseClear, ReleaseClose
<1>4. CASE Send \/ SendReturns
  BY <1>4 DEF Send, SendReturns, Enter, Leave
<1>5. ASSUME NEW t \in Thread, ThreadStep(t) PROVE Client'
  <2>1. /\ UNCHANGED <<running, recvThread, starts>>
        /\ \E to : pc' = [pc EXCEPT ![t] = to] /\ pc[t] # "unborn" /\ to # "unborn"
    BY <1>5 DEF ThreadStep, Loop, Update, UpdateReturns, Check, RecvFrom, InputBegins,
       InputReturns, RecvBegins, RecvReturns, Sleep, Enter, Leave
  <2> QED BY <2>1
<1>6. CASE UNCHANGED vars
  BY <1>6 DEF vars
<1> QED BY <1>1, <1>2, <1>3, <1>4, <1>5, <1>6 DEF Next, MainStep

(* A step of the main thread keeps Receivers: Join waits for the thread    *)
(* unless it gives up, and nothing is released before.                     *)
LEMMA KSReceiversMain == ASSUME KSInv, MainStep PROVE Receivers'
<1> SUFFICES ASSUME ~timedOut', NEW t \in Thread
             PROVE  /\ Alive(t)' => t = recvThread' /\ Up'
                    /\ pc'[t] \in Working \cup {"recvfrom", "input", "recv"} => kcp' # 0
                    /\ pc'[t] \in Working => block'[t] = kcp'
  BY DEF Receivers
<1> USE MainApart, SessionAssumption
    DEF KSInv, TypeOK, Client, Receivers, Up, Alive, Working, MainPlace, ThreadPlace, nativeVars, Goto
<1>1. CASE Start \/ InitSocket \/ InitBlock
  <2>1. ~running /\ pc[Main] \in {"idle", "init", "create"} /\ UNCHANGED timedOut
    BY <1>1 DEF Start, InitSocket, InitBlock
  <2>2. PICK to : pc' = [pc EXCEPT ![Main] = to]
    BY <1>1 DEF Start, InitSocket, InitBlock
  <2>3. recvThread = 0
    BY <2>1
  <2>4. ~Alive(t)
    BY <2>1, <2>3 DEF Main
  <2>5. pc'[t] = pc[t]
    BY <2>2
  <2> QED BY <2>4, <2>5
<1>2. CASE Spawn
  BY <1>2 DEF Spawn, Thread
<1>3. CASE Stop
  <2>1. UNCHANGED <<recvThread, kcp, block, timedOut>> /\ pc'[t] = pc[t]
    BY <1>3 DEF Stop
  <2>2. recvThread # 0 => pc'[Main] = "join"
    BY <1>3 DEF Stop
  <2>3. Alive(t) => t = recvThread /\ recvThread # 0
    BY <2>1 DEF Main
  <2> QED BY <2>1, <2>2, <2>3
<1>4. CASE Join
  BY <1>4 DEF Join
<1>5. CASE ReleaseFree \/ ReleaseClear \/ ReleaseClose
  BY <1>5 DEF ReleaseFree, ReleaseClear, ReleaseClose
<1>6. CASE Send \/ SendReturns
  BY <1>6 DEF Send, SendReturns, Enter, Leave
<1> QED BY <1>1, <1>2, <1>3, <1>4, <1>5, <1>6 DEF MainStep

(* A step of a receive thread keeps Receivers: it has tested kcp, and      *)
(* nobody clears it while the thread is alive.                             *)
LEMMA KSReceiversThread ==
    ASSUME NEW r \in Thread, KSInv, ThreadStep(r) PROVE Receivers'
<1> SUFFICES ASSUME ~timedOut', NEW t \in Thread
             PROVE  /\ Alive(t)' => t = recvThread' /\ Up'
                    /\ pc'[t] \in Working \cup {"recvfrom", "input", "recv"} => kcp' # 0
                    /\ pc'[t] \in Working => block'[t] = kcp'
  BY DEF Receivers
<1> USE MainApart DEF KSInv, TypeOK, Receivers, Up, Alive, Working, MainPlace, ThreadPlace, nativeVars, Goto
<1>1. CASE Loop(r)
  BY <1>1 DEF Loop
<1>2. CASE Update(r) \/ UpdateReturns(r)
  BY <1>2 DEF Update, UpdateReturns, Enter, Leave
<1>3. CASE Check(r) \/ RecvFrom(r)
  BY <1>3 DEF Check, RecvFrom, Leave
<1>4. CASE InputBegins(r) \/ RecvBegins(r)
  BY <1>4 DEF InputBegins, RecvBegins, Enter
<1>5. CASE InputReturns(r) \/ RecvReturns(r) \/ Sleep(r)
  BY <1>5 DEF InputReturns, RecvReturns, Sleep, Leave
<1> QED BY <1>1, <1>2, <1>3, <1>4, <1>5, ThreadStep(r) DEF ThreadStep

(* The inductive invariant holds in every reachable state.                 *)
THEOREM SessionInvariance == Spec => []KSInv
<1>1. KSInv /\ UNCHANGED vars => Receivers'
  BY DEF KSInv, Receivers, Up, Alive, Working, MainPlace, ThreadPlace, vars, nativeVars
<1>2. KSInv /\ [Next]_vars => KSInv'
  <2>1. KSInv /\ [Next]_vars => TypeOK' /\ Client'
    BY KSTypes, KSClient, KSSplit DEF KSInv, Client, Joined
  <2> QED BY <1>1, <2>1, KSGlobals, KSReceiversMain, KSReceiversThread DEF KSInv, Next
<1> QED BY KSInit, <1>2, PTL DEF Spec

-----------------------------------------------------------------------------
(* Flags, globals and the positions of the threads keep their types.       *)
THEOREM SessionTypes == Spec => []TypeOK
<1>1. KSInv => TypeOK
  BY DEF KSInv
<1> QED BY SessionInvariance, <1>1, PTL

(* No receive thread works on a freed control block or on nullptr until    *)
(* some join(100) has given up.                                            *)
THEOREM SessionSafety == Spec => []NoUseAfterRelease
<1>1. KSInv => NoUseAfterRelease
  BY MainApart DEF KSInv, Globals, Receivers, NoUseAfterRelease, Up, Alive, Working, MainPlace, ThreadPlace
<1> QED BY SessionInvariance, <1>1, PTL

(* At most one receive thread is alive until some join(100) has given up.  *)
THEOREM SingleReceiver == Spec => []OneReceiver
<1>1. KSInv => OneReceiver
  <2> SUFFICES ASSUME KSInv, ~timedOut
               PROVE  Cardinality({t \in Thread : Alive(t)}) <= 1
    BY DEF OneReceiver
  <2> DEFINE S == {t \in Thread : Alive(t)}
  <2>1. S \subseteq {recvThread}
    BY DEF KSInv, Receivers
  <2>2. IsFiniteSet({recvThread}) /\ Cardinality({recvThread}) = 1
    BY FS_Singleton
  <2> QED BY <2>1, <2>2, FS_Subset, FS_CardinalityType
<1> QED BY SessionInvariance, <1>1, PTL

(* start and stop never leak a control block or a socket, and a start      *)
(* finds none of the app's own, even after a join(100) that gave up and    *)
(* whether or not bind succeeds.                                           *)
THEOREM SessionLeakFree == Spec => []NothingLeaks
<1>1. KSInv => NothingLeaks
  BY DEF KSInv, Globals, NothingLeaks
<1> QED BY SessionInvariance, <1>1, PTL
=============================================================================
