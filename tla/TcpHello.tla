------------------------------ MODULE TcpHello ------------------------------
(***************************************************************************)
(* Binding to the doorbell server: MainActivity.onResume, through TcpClient*)
(* and tcp_jni.cpp, in tcp_client.c.  Every onResume makes two TcpClients: *)
(* one in TcpClient.init, and one in tcp_client_send_hello, which says     *)
(* hello with a fresh IV, waits for the server's hello and acknowledges    *)
(* it; KcpClient.start follows if the result is 0.                         *)
(*                                                                         *)
(* The calls block the main thread, so onResume's run one after the other; *)
(* the server, which is not in the repository, moves in between.  It may   *)
(* answer with any frame, or too late, or close the connection.            *)
(***************************************************************************)
EXTENDS Integers

CONSTANT MaxResumes    \* bound: calls of onResume
ASSUME HelloAssumption == MaxResumes \in Nat

Round == 1..MaxResumes
Client == {"plain", "hello"} \X Round

\* What recv finds: frameSize 0, of at most 255 bytes, more than that, or cut short.
Sizes == {"none", "fits", "large", "short"}
Frames == [magic : BOOLEAN, type : {"SERVER_HELLO", "other"}, size : Sizes,
           text : {"server hello", "other"}]
Closed == [closed |-> TRUE]

VARIABLES pc,          \* the step of onResume that is next
          n,           \* which onResume it is
          ret,         \* what tcp_client_send_hello returns
          sock,        \* client -> "none", "open" or "closed"
          connected,   \* client -> client->connected
          frees,       \* client -> how often its struct was freed
          answer,      \* round -> what the server has sent on its connection
          greeted,     \* rounds whose client hello has reached the server
          acked,       \* rounds whose ack has reached the server
          last,        \* g_last_enc: the round its key and iv are of, 0 if none
          kcpFor,      \* the round KcpClient was started in, 0 if it was not
          excuse       \* history: round -> how it went wrong, if it did

vars == <<pc, n, ret, sock, connected, frees, answer, greeted, acked, last, kcpFor, excuse>>

Init ==
    /\ pc = "idle" /\ n = 0 /\ ret = 0
    /\ sock = [c \in Client |-> "none"] /\ connected = [c \in Client |-> FALSE]
    /\ frees = [c \in Client |-> 0]
    /\ answer = [r \in Round |-> {}] /\ greeted = {} /\ acked = {}
    /\ last = 0 /\ kcpFor = 0 /\ excuse = [r \in Round |-> "none"]

Me == <<"hello", n>>
Goto(from, to) == pc = from /\ pc' = to
Return(r, why) == ret' = r /\ excuse' = [excuse EXCEPT ![n] = why]

\* Slip: the socket is closed and connected stays set.
DeinitStaysConnected(c) ==
    /\ frees' = [frees EXCEPT ![c] = @ + 1]
    /\ sock' = IF connected[c] THEN [sock EXCEPT ![c] = "closed"] ELSE sock
    /\ UNCHANGED connected

\* tcp_client_deinit, which closes a socket only while connected is set.
Deinit(c) ==
    /\ frees' = [frees EXCEPT ![c] = @ + 1]
    /\ sock' = IF connected[c] THEN [sock EXCEPT ![c] = "closed"] ELSE sock
    /\ connected' = [connected EXCEPT ![c] = FALSE]

(* tcp_client_init: no socket, and the struct is leaked; no connection, and *)
(* the socket is; or a client that is connected.                            *)
ClientInit(c) ==
    \/ UNCHANGED <<sock, connected, frees>>
    \/ /\ sock' = [sock EXCEPT ![c] = "open"] /\ frees' = [frees EXCEPT ![c] = 1]
       /\ UNCHANGED connected
    \/ /\ sock' = [sock EXCEPT ![c] = "open"]
       /\ connected' = [connected EXCEPT ![c] = TRUE]
       /\ UNCHANGED frees

-----------------------------------------------------------------------------
\* onResume: tcpClient.init; tcpClient.connect() finds it connected, or null.
Resume ==
    /\ Goto("idle", "connect") /\ n < MaxResumes /\ n' = n + 1
    /\ ClientInit(<<"plain", n'>>)
    /\ UNCHANGED <<ret, answer, greeted, acked, last, kcpFor, excuse>>

Connect ==
    /\ pc = "connect"
    /\ ClientInit(Me)
    /\ IF connected'[Me] THEN pc' = "hello" /\ Return(0, "none")
                         ELSE pc' = "bind" /\ Return(-1, "connect")
    /\ UNCHANGED <<n, answer, greeted, acked, last, kcpFor>>

(* send_client_hello.  When the frame cannot be sent it frees the client,  *)
(* and so does tcp_client_send_hello at its exit.                          *)
ClientHello ==
    /\ pc = "hello"
    /\ \/ /\ pc' = "select" /\ Return(0, "none") /\ greeted' = greeted \cup {n}
          /\ last' = n /\ UNCHANGED <<sock, connected, frees>>
       \/ /\ pc' = "exit" /\ Return(-1, "aes") /\ last' \in {last, n}
          /\ UNCHANGED <<greeted, sock, connected, frees>>
       \/ /\ pc' = "exit" /\ Return(-1, "send") /\ last' = n
          /\ frees' = [frees EXCEPT ![Me] = 1] /\ connected' = [connected EXCEPT ![Me] = FALSE]
          /\ UNCHANGED <<greeted, sock>>
    /\ UNCHANGED <<n, answer, acked, kcpFor>>

\* Slip: select without a timeout.
SelectForEver ==
    /\ pc = "select" /\ answer[n] # {} /\ pc' = "recv"
    /\ UNCHANGED <<n, ret, excuse, sock, connected, frees, answer, greeted, acked, last, kcpFor>>

\* Slip: a timeout returns at once, not by way of exit.
SelectReturns ==
    /\ pc = "select"
    /\ \/ pc' = "exit" /\ Return(ret, "select")
       \/ pc' = "bind" /\ Return(-2, "timeout")
       \/ answer[n] # {} /\ pc' = "recv" /\ UNCHANGED <<ret, excuse>>
    /\ UNCHANGED <<n, sock, connected, frees, answer, greeted, acked, last, kcpFor>>

\* select with a timeout of 15 seconds; an error leaves ret as it is.
Select ==
    /\ pc = "select"
    /\ \/ pc' = "exit" /\ Return(ret, "select")
       \/ pc' = "exit" /\ Return(-2, "timeout")
       \/ answer[n] # {} /\ pc' = "recv" /\ UNCHANGED <<ret, excuse>>
    /\ UNCHANGED <<n, sock, connected, frees, answer, greeted, acked, last, kcpFor>>

Payload == 32          \* a length recv returned
Lost == connected' = [connected EXCEPT ![Me] = FALSE]

(* The frame, and for a server hello of a good size its data: the cases    *)
(* leave ret with what the last tcp_client_recv_data returned.             *)
RecvFrame ==
    /\ pc = "recv"
    /\ \E f \in answer[n] :
        \/ f = Closed /\ pc' = "exit" /\ Return(-1, "recv") /\ Lost
        \/ /\ f # Closed
           /\ \/ /\ ~f.magic \/ f.type = "other" \/ f.size = "large"
                 /\ pc' = "exit" /\ Return(Payload, "frame") /\ UNCHANGED connected
              \/ /\ f.magic /\ f.type = "SERVER_HELLO"
                 /\ \/ f.size = "none" /\ pc' = "exit" /\ Return(0, "empty")
                       /\ UNCHANGED connected
                    \/ f.size = "short" /\ pc' = "exit" /\ Return(-1, "recv") /\ Lost
                    \/ f.size = "fits" /\ pc' = "verify" /\ Return(Payload, "none")
                       /\ UNCHANGED connected
    /\ UNCHANGED <<n, sock, frees, answer, greeted, acked, last, kcpFor>>

\* Slip: the outcome of recv_server_hello is not looked at.
VerifyIgnored ==
    /\ Goto("verify", "exit") /\ Return(0, "none")
    /\ \/ (\E f \in answer[n] : f # Closed /\ f.text = "server hello")
          /\ acked' = acked \cup {n}
       \/ UNCHANGED acked
    /\ UNCHANGED <<n, sock, connected, frees, answer, greeted, last, kcpFor>>

\* Slip: ret keeps the length that was received, as it does on the other paths.
VerifyKeepsLength ==
    /\ Goto("verify", "exit")
    /\ \E f \in answer[n] : f # Closed /\ f.text = "server hello"
    /\ Return(ret, "none") /\ acked' = acked \cup {n}
    /\ UNCHANGED <<n, sock, connected, frees, answer, greeted, last, kcpFor>>

(* recv_server_hello: the text has to be right and the ack to be sent.     *)
Verify ==
    /\ Goto("verify", "exit")
    /\ \/ /\ \E f \in answer[n] : f # Closed /\ f.text = "server hello"
          /\ \/ Return(0, "none") /\ acked' = acked \cup {n} /\ UNCHANGED connected
             \/ Return(ret, "aes") /\ UNCHANGED <<acked, connected>>
             \/ Return(ret, "send") /\ Lost /\ UNCHANGED acked
       \/ /\ \E f \in answer[n] : f # Closed /\ f.text = "other"
          /\ Return(ret, "text") /\ UNCHANGED <<acked, connected>>
    /\ UNCHANGED <<n, sock, frees, answer, greeted, last, kcpFor>>

Exit ==
    /\ Goto("exit", "bind") /\ Deinit(Me)
    /\ UNCHANGED <<n, ret, answer, greeted, acked, last, kcpFor, excuse>>

\* isBind = bindDevice(...) == 0; KcpClient.start does nothing while running.
Bind ==
    /\ Goto("bind", "idle")
    /\ kcpFor' = IF ret = 0 /\ kcpFor = 0 THEN n ELSE kcpFor
    /\ UNCHANGED <<n, ret, sock, connected, frees, answer, greeted, acked, last, excuse>>

\* The server answers a client hello at any time after it.
Answer ==
    /\ \E r \in greeted, f \in Frames \cup {Closed} :
        answer[r] = {} /\ answer' = [answer EXCEPT ![r] = {f}]
    /\ UNCHANGED <<pc, n, ret, sock, connected, frees, greeted, acked, last, kcpFor, excuse>>

Next == Resume \/ Connect \/ ClientHello \/ Select \/ RecvFrame \/ Verify \/ Exit
        \/ Bind \/ Answer

Spec == Init /\ [][Next]_vars

\* The main thread runs on, and select does not wait for ever.
App == Connect \/ ClientHello \/ Select \/ RecvFrame \/ Verify \/ Exit \/ Bind
FairSpec == Spec /\ WF_vars(App)

-----------------------------------------------------------------------------
(* Properties *)

\* Positions and flags; only an open socket is connected.
TypeOK ==
    /\ pc \in {"idle", "connect", "hello", "select", "recv", "verify", "exit", "bind"}
    /\ n \in 0..MaxResumes /\ ret \in {-2, -1, 0, Payload} /\ last \in 0..n
    /\ kcpFor \in 0..n /\ acked \subseteq greeted /\ greeted \subseteq 1..n
    /\ \A c \in Client : frees[c] \in 0..2 /\ (connected[c] => sock[c] = "open")

Over(r) == r < n \/ (r = n /\ pc = "idle")

(* KcpClient is started only in a round whose server hello was verified    *)
(* and acknowledged, the two cases apart in which tcp_client_send_hello    *)
(* returns 0 without: an error of select, and a server hello without data. *)
KcpNeedsHello ==
    kcpFor # 0 => kcpFor \in acked \/ excuse[kcpFor] \in {"select", "empty"}

(* Both ends agree: when the server has the ack of a round, KcpClient runs *)
(* once that onResume is over.                                             *)
AckStartsKcp == \A r \in acked : Over(r) => kcpFor \in 1..r

(* Each hello frees its client once and closes the socket, unless it could *)
(* not connect or a send or recv failed: then the socket stays open, or    *)
(* the client is freed twice or never.                                     *)
HelloCleansUp ==
    \A r \in Round : Over(r) /\ excuse[r] \notin {"connect", "send", "recv"} =>
        frees[<<"hello", r>>] = 1 /\ sock[<<"hello", r>>] = "closed"

\* No onResume blocks the main thread for ever, whatever the server does.
ResumeEnds == pc # "idle" ~> pc = "idle"

(* "-1 indicates failure, -2 indicates timeout, 0 indicates success"       *)
(* (tcp_client.c): 0 is returned only when the hello exchange has          *)
(* succeeded.                                                              *)
ZeroIsSuccess == pc = "bind" /\ ret = 0 => n \in acked
=============================================================================
