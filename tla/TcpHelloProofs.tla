--------------------------- MODULE TcpHelloProofs ---------------------------
(***************************************************************************)
(* Proofs about TcpHello, for any number of onResume's and any server:     *)
(* types, who starts KCP, agreement of both ends, and the clean-up.        *)
(***************************************************************************)
EXTENDS TcpHello, TLAPS

Places == {"idle", "connect", "hello", "select", "recv", "verify", "exit", "bind"}
Excuses == {"none", "connect", "aes", "send", "select", "timeout", "recv", "frame", "empty", "text"}
Hello(r) == <<"hello", r>>

Types ==
    /\ pc \in Places /\ n \in 0..MaxResumes /\ ret \in {-2, -1, 0, Payload}
    /\ last \in 0..n /\ kcpFor \in 0..n
    /\ sock \in [Client -> {"none", "open", "closed"}]
    /\ connected \in [Client -> BOOLEAN] /\ frees \in [Client -> 0..2]
    /\ excuse \in [Round -> Excuses]
    /\ acked \subseteq greeted /\ greeted \subseteq 1..n

\* A connected client has an open socket.
Sockets == \A c \in Client : connected[c] => sock[c] = "open"

\* The clients of rounds to come, and of one about to connect, do not exist.
Future ==
    \A r \in Round : r > n \/ (r = n /\ pc = "connect") =>
        frees[Hello(r)] = 0 /\ ~connected[Hello(r)]

\* Clean is what HelloCleansUp says of a round; Agreed, what its result says
\* of the exchange.
Clean(r) == excuse[r] \notin {"connect", "send", "recv"} =>
                frees[Hello(r)] = 1 /\ sock[Hello(r)] = "closed"
Agreed == (n \in acked => ret = 0) /\ (ret = 0 => n \in acked \/ excuse[n] \in {"select", "empty"})

\* The round that is under way, step by step.
Current ==
    /\ pc # "idle" => n \in Round /\ kcpFor < n
    /\ pc \in {"connect", "hello", "select", "recv", "verify"} => n \notin acked
    /\ pc \in {"hello", "select", "recv", "verify"} =>
          connected[Hello(n)] /\ frees[Hello(n)] = 0 /\ excuse[n] = "none"
    /\ pc \in {"select", "recv", "verify"} => n \in greeted
    /\ pc = "verify" => ret = Payload
    /\ pc = "exit" => /\ Agreed /\ frees[Hello(n)] \in {0, 1}
                      /\ excuse[n] \notin {"connect", "send", "recv"} =>
                             connected[Hello(n)] /\ frees[Hello(n)] = 0
    /\ pc = "bind" => Agreed /\ Clean(n)

\* The rounds that are over.
Past ==
    /\ \A r \in Round : Over(r) => Clean(r) /\ (r \in acked => kcpFor \in 1..r)
    /\ kcpFor # 0 => kcpFor \in acked \/ excuse[kcpFor] \in {"select", "empty"}

HInv == Types /\ Sockets /\ Future /\ Current /\ Past

-----------------------------------------------------------------------------
(* Clients are told apart by their kind and their round.                   *)
LEMMA HClients ==
    /\ \A r \in Round : Hello(r) \in Client /\ <<"plain", r>> \in Client
    /\ \A r, s \in Round : Hello(r) # <<"plain", s>> /\ (Hello(r) = Hello(s) => r = s)
BY DEF Hello, Client

(* The app starts without a round.                                         *)
LEMMA HInit == Init => HInv
<1> SUFFICES ASSUME Init PROVE HInv
  OBVIOUS
<1>1. Types
  BY HelloAssumption DEF Init, Types, Places, Excuses
<1>2. Sockets /\ Future
  BY HClients DEF Init, Sockets, Future
<1>3. Current /\ Past
  BY HelloAssumption DEF Init, Current, Past, Over, Round
<1> QED BY <1>1, <1>2, <1>3 DEF HInv
-----------------------------------------------------------------------------
(* What tcp_client_init leaves of a client, and that it leaves the others. *)
LEMMA HClientInit ==
    ASSUME Types, Sockets, NEW c \in Client, ClientInit(c)
    PROVE  /\ sock' \in [Client -> {"none", "open", "closed"}]
           /\ connected' \in [Client -> BOOLEAN] /\ frees' \in [Client -> 0..2]
           /\ Sockets'
           /\ frees[c] = 0 /\ ~connected[c] /\ connected'[c] => frees'[c] = 0
           /\ \A d \in Client : d # c =>
                 sock'[d] = sock[d] /\ connected'[d] = connected[d] /\ frees'[d] = frees[d]
<1> USE DEF Types, Sockets
<1>1. CASE UNCHANGED <<sock, connected, frees>>
  BY <1>1
<1>2. CASE /\ sock' = [sock EXCEPT ![c] = "open"] /\ frees' = [frees EXCEPT ![c] = 1]
           /\ UNCHANGED connected
  BY <1>2
<1>3. CASE /\ sock' = [sock EXCEPT ![c] = "open"]
           /\ connected' = [connected EXCEPT ![c] = TRUE]
           /\ UNCHANGED frees
  BY <1>3
<1> QED BY <1>1, <1>2, <1>3 DEF ClientInit

(* What tcp_client_deinit leaves of a client, and that it leaves the       *)
(* others.                                                                 *)
LEMMA HDeinit ==
    ASSUME Types, Sockets, NEW c \in Client, Deinit(c), frees[c] \in {0, 1}
    PROVE  /\ sock' \in [Client -> {"none", "open", "closed"}]
           /\ connected' \in [Client -> BOOLEAN] /\ frees' \in [Client -> 0..2]
           /\ Sockets'
           /\ frees'[c] = frees[c] + 1 /\ (connected[c] => sock'[c] = "closed")
           /\ \A d \in Client : d # c =>
                 sock'[d] = sock[d] /\ connected'[d] = connected[d] /\ frees'[d] = frees[d]
<1> USE DEF Types, Sockets
<1>1. frees' = [frees EXCEPT ![c] = @ + 1] /\ connected' = [connected EXCEPT ![c] = FALSE]
  BY DEF Deinit
<1>2. frees' \in [Client -> 0..2] /\ frees'[c] = frees[c] + 1
      /\ \A d \in Client : d # c => frees'[d] = frees[d]
  BY <1>1
<1>3. CASE connected[c]
  BY <1>1, <1>2, <1>3 DEF Deinit
<1>4. CASE ~connected[c]
  BY <1>1, <1>2, <1>4 DEF Deinit
<1> QED BY <1>3, <1>4

(* A step within the round that is under way, by pc and by what it does to *)
(* the round's own client, keeps what is known of the other rounds.        *)
LEMMA HOthers ==
    ASSUME HInv, pc # "idle", n' = n, kcpFor' = kcpFor, pc' # "idle", pc' # "connect",
           excuse' = excuse \/ \E why \in Excuses : excuse' = [excuse EXCEPT ![n] = why],
           acked' = acked \/ acked' = acked \cup {n},
           \A d \in Client : d # Me =>
               sock'[d] = sock[d] /\ connected'[d] = connected[d] /\ frees'[d] = frees[d]
    PROVE  Future' /\ Past' /\ excuse' \in [Round -> Excuses]
<1> USE DEF HInv, Types, Current
<1>1. Me = Hello(n) /\ n \in Round /\ Round \subseteq Nat
  BY HelloAssumption DEF Me, Hello, Round
<1>2. \A r \in Round : Hello(r) \in Client /\ (r # n => Hello(r) # Me)
  BY <1>1, HClients
<1>3. \A r \in Round : r # n => excuse'[r] = excuse[r] /\ (r \in acked' <=> r \in acked)
  BY <1>1
<1>4. Future'
  <2> SUFFICES ASSUME NEW r \in Round, r > n
               PROVE  frees'[Hello(r)] = 0 /\ ~connected'[Hello(r)]
    BY DEF Future, Hello
  <2> QED BY <1>1, <1>2 DEF Future
<1>5. \A r \in Round : Over(r)' => r < n /\ Over(r)
  BY DEF Over
<1>6. \A r \in Round : r < n => (Clean(r) => Clean(r)')
  BY <1>1, <1>2, <1>3 DEF Clean, Hello
<1>7. Past'
  <2>1. \A r \in Round : Over(r)' => Clean(r)' /\ (r \in acked' => kcpFor' \in 1..r)
    BY <1>1, <1>3, <1>5, <1>6 DEF Past
  <2>2. kcpFor # 0 => kcpFor \in Round /\ kcpFor # n
    BY <1>1, HelloAssumption DEF Round
  <2> QED BY <1>3, <2>1, <2>2 DEF Past
<1> QED BY <1>1, <1>4, <1>7

(* Resume: the next round begins.                                          *)
LEMMA HResume == HInv /\ Resume => HInv'
<1> SUFFICES ASSUME HInv, Resume PROVE HInv'
  OBVIOUS
<1> DEFINE c == <<"plain", n + 1>>
<1>1. /\ pc = "idle" /\ pc' = "connect" /\ n' = n + 1 /\ n \in 0..MaxResumes /\ n' \in Round
      /\ UNCHANGED <<ret, answer, greeted, acked, last, kcpFor, excuse>>
  BY HelloAssumption DEF Resume, Goto, HInv, Types, Round
<1>2. c \in Client /\ \A r \in Round : Hello(r) \in Client /\ Hello(r) # c
  BY <1>1, HClients
<1>3. ClientInit(c)
  BY <1>1 DEF Resume
<1>4. /\ sock' \in [Client -> {"none", "open", "closed"}]
      /\ connected' \in [Client -> BOOLEAN] /\ frees' \in [Client -> 0..2] /\ Sockets'
      /\ \A d \in Client : d # c =>
            sock'[d] = sock[d] /\ connected'[d] = connected[d] /\ frees'[d] = frees[d]
  BY <1>2, <1>3, HClientInit DEF HInv
<1>5. Types'
  <2>1. 0..n \subseteq 0..n' /\ 1..n \subseteq 1..n' /\ n' \in 0..MaxResumes
    BY <1>1 DEF Round
  <2>2. last' \in 0..n' /\ kcpFor' \in 0..n' /\ greeted' \subseteq 1..n'
    BY <1>1, <2>1 DEF HInv, Types
  <2> QED BY <1>1, <1>4, <2>1, <2>2 DEF HInv, Types, Places
<1>6. Future'
  BY <1>1, <1>2, <1>4 DEF HInv, Future, Hello, Round
<1>7. Current'
  BY <1>1 DEF HInv, Types, Current, Round
<1>8. Past'
  <2>1. \A r \in Round : Over(r)' <=> Over(r)
    BY <1>1 DEF Over, Round
  <2>2. \A r \in Round : Clean(r) => Clean(r)'
    BY <1>1, <1>2, <1>4 DEF Clean, Hello
  <2> QED BY <1>1, <2>1, <2>2 DEF HInv, Past
<1> QED BY <1>4, <1>5, <1>6, <1>7, <1>8 DEF HInv

(* Connect: tcp_client_send_hello makes its client.                        *)
LEMMA HConnect == HInv /\ Connect => HInv'
<1> SUFFICES ASSUME HInv, Connect PROVE HInv'
  OBVIOUS
<1>1. /\ pc = "connect" /\ pc' \in {"hello", "bind"} /\ n \in Round /\ n' = n
      /\ UNCHANGED <<answer, greeted, acked, last, kcpFor>> /\ ClientInit(Me)
      /\ n \notin acked /\ kcpFor < n
  BY DEF Connect, HInv, Current
<1>2. Me = Hello(n) /\ Me \in Client /\ frees[Me] = 0 /\ ~connected[Me]
  BY <1>1, HClients DEF Me, Hello, HInv, Future
<1>3. \/ connected'[Me] /\ pc' = "hello" /\ ret' = 0 /\ excuse' = [excuse EXCEPT ![n] = "none"]
      \/ ~connected'[Me] /\ pc' = "bind" /\ ret' = -1 /\ excuse' = [excuse EXCEPT ![n] = "connect"]
  BY DEF Connect, Return
<1>4. /\ sock' \in [Client -> {"none", "open", "closed"}]
      /\ connected' \in [Client -> BOOLEAN] /\ frees' \in [Client -> 0..2] /\ Sockets'
      /\ connected'[Me] => frees'[Me] = 0
      /\ \A d \in Client : d # Me =>
            sock'[d] = sock[d] /\ connected'[d] = connected[d] /\ frees'[d] = frees[d]
  BY <1>1, <1>2, HClientInit DEF HInv
<1>5. Future' /\ Past' /\ excuse' \in [Round -> Excuses]
  BY <1>1, <1>3, <1>4, HOthers DEF Excuses
<1>6. Types'
  BY <1>1, <1>3, <1>4, <1>5 DEF HInv, Types, Places
<1>7. excuse'[n] = (IF pc' = "hello" THEN "none" ELSE "connect")
  BY <1>1, <1>3 DEF HInv, Types
<1>8. Current'
  BY <1>1, <1>2, <1>3, <1>4, <1>7 DEF Current, Agreed, Clean, Hello
<1> QED BY <1>4, <1>5, <1>6, <1>8 DEF HInv

(* ClientHello: the hello is sent, or fails before or after the client is  *)
(* freed.                                                                  *)
LEMMA HClientHello == HInv /\ ClientHello => HInv'
<1> SUFFICES ASSUME HInv, ClientHello PROVE HInv'
  OBVIOUS
<1>1. /\ pc = "hello" /\ pc' \in {"select", "exit"} /\ n \in Round /\ n' = n
      /\ UNCHANGED <<answer, acked, kcpFor, sock>> /\ n \notin acked /\ kcpFor < n
      /\ last' \in {last, n}
  BY DEF ClientHello, HInv, Current
<1>2. Me = Hello(n) /\ Me \in Client /\ frees[Me] = 0 /\ connected[Me]
  BY <1>1, HClients DEF Me, Hello, HInv, Current
<1>3. \/ /\ pc' = "select" /\ ret' = 0 /\ excuse' = [excuse EXCEPT ![n] = "none"]
         /\ greeted' = greeted \cup {n} /\ UNCHANGED <<connected, frees>>
      \/ /\ pc' = "exit" /\ ret' = -1 /\ excuse' = [excuse EXCEPT ![n] = "aes"]
         /\ UNCHANGED <<greeted, connected, frees>>
      \/ /\ pc' = "exit" /\ ret' = -1 /\ excuse' = [excuse EXCEPT ![n] = "send"]
         /\ frees' = [frees EXCEPT ![Me] = 1] /\ connected' = [connected EXCEPT ![Me] = FALSE]
         /\ UNCHANGED greeted
  BY DEF ClientHello, Return
<1>4. /\ connected' \in [Client -> BOOLEAN] /\ frees' \in [Client -> 0..2] /\ Sockets'
      /\ \A d \in Client : d # Me =>
            sock'[d] = sock[d] /\ connected'[d] = connected[d] /\ frees'[d] = frees[d]
  <2>1. CASE UNCHANGED <<connected, frees>>
    BY <1>1, <2>1 DEF HInv, Types, Sockets
  <2>2. CASE /\ frees' = [frees EXCEPT ![Me] = 1]
             /\ connected' = [connected EXCEPT ![Me] = FALSE]
    BY <1>1, <1>2, <2>2 DEF HInv, Types, Sockets
  <2> QED BY <1>3, <2>1, <2>2
<1>5. Future' /\ Past' /\ excuse' \in [Round -> Excuses]
  BY <1>1, <1>3, <1>4, HOthers DEF Excuses
<1>6. Types'
  <2>1. greeted \subseteq greeted' /\ greeted' \subseteq 1..n /\ last' \in 0..n
    <3>1. n \in Nat /\ n \in 1..n /\ n \in 0..n
      BY <1>1, HelloAssumption DEF Round
    <3>2. greeted' \in {greeted, greeted \cup {n}}
      BY <1>3
    <3> QED BY <1>1, <3>1, <3>2 DEF HInv, Types
  <2> QED BY <1>1, <1>3, <1>4, <1>5, <2>1 DEF HInv, Types, Places
<1>7. Current'
  <2>1. CASE pc' = "select"
    BY <1>1, <1>2, <1>3, <2>1 DEF Current, HInv, Types, Hello
  <2>2. CASE pc' = "exit"
    BY <1>1, <1>2, <1>3, <2>2 DEF Current, HInv, Types, Hello, Agreed
  <2> QED BY <1>1, <2>1, <2>2
<1> QED BY <1>4, <1>5, <1>6, <1>7 DEF HInv

(* Select: an error, a timeout, or an answer.                              *)
LEMMA HSelect == HInv /\ Select => HInv'
<1> SUFFICES ASSUME HInv, Select PROVE HInv'
  OBVIOUS
<1>1. /\ pc = "select" /\ pc' \in {"exit", "recv"} /\ n \in Round /\ n' = n
      /\ UNCHANGED <<answer, acked, kcpFor, sock, last, greeted, connected, frees>>
      /\ n \notin acked /\ kcpFor < n /\ n \in greeted /\ connected[Hello(n)]
      /\ frees[Hello(n)] = 0 /\ excuse[n] = "none"
  BY DEF Select, HInv, Current
<1>2. \/ pc' = "exit" /\ ret' = ret /\ excuse' = [excuse EXCEPT ![n] = "select"]
      \/ pc' = "exit" /\ ret' = -2 /\ excuse' = [excuse EXCEPT ![n] = "timeout"]
      \/ pc' = "recv" /\ UNCHANGED <<ret, excuse>>
  BY DEF Select, Return
<1>3. Future' /\ Past' /\ excuse' \in [Round -> Excuses]
  BY <1>1, <1>2, HOthers DEF Excuses
<1>4. Types' /\ Sockets'
  BY <1>1, <1>2, <1>3 DEF HInv, Types, Places, Sockets
<1>5. Current'
  BY <1>1, <1>2 DEF HInv, Types, Current, Agreed, Hello
<1> QED BY <1>3, <1>4, <1>5 DEF HInv

(* RecvFrame: the outcome is read off the frame; a lost connection is no   *)
(* longer connected.                                                       *)
LEMMA HRecvFrame == HInv /\ RecvFrame => HInv'
<1> SUFFICES ASSUME HInv, RecvFrame PROVE HInv'
  OBVIOUS
<1>1. /\ pc = "recv" /\ n \in Round /\ n' = n
      /\ UNCHANGED <<answer, acked, kcpFor, sock, last, greeted, frees>>
      /\ n \notin acked /\ kcpFor < n /\ n \in greeted /\ connected[Hello(n)]
      /\ frees[Hello(n)] = 0 /\ excuse[n] = "none"
  BY DEF RecvFrame, HInv, Current
<1>2. Me = Hello(n) /\ Me \in Client
  BY <1>1, HClients DEF Me, Hello
<1>3. \/ /\ pc' = "exit" /\ ret' = -1 /\ excuse' = [excuse EXCEPT ![n] = "recv"]
         /\ connected' = [connected EXCEPT ![Me] = FALSE]
      \/ /\ UNCHANGED connected /\ pc' = "exit" /\ ret' = Payload
         /\ excuse' = [excuse EXCEPT ![n] = "frame"]
      \/ /\ UNCHANGED connected /\ pc' = "exit" /\ ret' = 0
         /\ excuse' = [excuse EXCEPT ![n] = "empty"]
      \/ /\ UNCHANGED connected /\ pc' = "verify" /\ ret' = Payload
         /\ excuse' = [excuse EXCEPT ![n] = "none"]
  BY DEF RecvFrame, Return, Lost
<1>4. /\ connected' \in [Client -> BOOLEAN] /\ Sockets'
      /\ \A d \in Client : d # Me => connected'[d] = connected[d]
  <2>1. CASE UNCHANGED connected
    BY <1>1, <2>1 DEF HInv, Types, Sockets
  <2>2. CASE connected' = [connected EXCEPT ![Me] = FALSE]
    BY <1>1, <1>2, <2>2 DEF HInv, Types, Sockets
  <2> QED BY <1>3, <2>1, <2>2
<1>5. Future' /\ Past' /\ excuse' \in [Round -> Excuses]
  BY <1>1, <1>3, <1>4, HOthers DEF Excuses
<1>6. Types'
  BY <1>1, <1>3, <1>4, <1>5 DEF HInv, Types, Places
<1>7. Current'
  BY <1>1, <1>2, <1>3 DEF HInv, Types, Current, Agreed, Hello, Payload
<1> QED BY <1>4, <1>5, <1>6, <1>7 DEF HInv

(* Verify: 0 is returned with the ack, and Payload without.                *)
LEMMA HVerify == HInv /\ Verify => HInv'
<1> SUFFICES ASSUME HInv, Verify PROVE HInv'
  OBVIOUS
<1>1. /\ pc = "verify" /\ pc' = "exit" /\ n \in Round /\ n' = n
      /\ UNCHANGED <<answer, kcpFor, sock, last, greeted, frees>>
      /\ n \notin acked /\ kcpFor < n /\ n \in greeted /\ connected[Hello(n)]
      /\ frees[Hello(n)] = 0 /\ ret = Payload
  BY DEF Verify, Goto, HInv, Current
<1>2. Me = Hello(n) /\ Me \in Client
  BY <1>1, HClients DEF Me, Hello
<1>3. \/ /\ ret' = 0 /\ excuse' = [excuse EXCEPT ![n] = "none"] /\ acked' = acked \cup {n}
         /\ UNCHANGED connected
      \/ /\ ret' = ret /\ excuse' = [excuse EXCEPT ![n] = "aes"] /\ UNCHANGED <<acked, connected>>
      \/ /\ ret' = ret /\ excuse' = [excuse EXCEPT ![n] = "send"] /\ UNCHANGED acked
         /\ connected' = [connected EXCEPT ![Me] = FALSE]
      \/ /\ ret' = ret /\ excuse' = [excuse EXCEPT ![n] = "text"] /\ UNCHANGED <<acked, connected>>
  BY DEF Verify, Return, Lost
<1>4. /\ connected' \in [Client -> BOOLEAN] /\ Sockets'
      /\ \A d \in Client : d # Me => connected'[d] = connected[d]
  <2>1. CASE UNCHANGED connected
    BY <1>1, <2>1 DEF HInv, Types, Sockets
  <2>2. CASE connected' = [connected EXCEPT ![Me] = FALSE]
    BY <1>1, <1>2, <2>2 DEF HInv, Types, Sockets
  <2> QED BY <1>3, <2>1, <2>2
<1>5. Future' /\ Past' /\ excuse' \in [Round -> Excuses]
  BY <1>1, <1>3, <1>4, HOthers DEF Excuses
<1>6. Types'
  BY <1>1, <1>3, <1>4, <1>5 DEF HInv, Types, Places
<1>7. Current'
  BY <1>1, <1>2, <1>3 DEF HInv, Types, Current, Agreed, Hello, Payload
<1> QED BY <1>4, <1>5, <1>6, <1>7 DEF HInv

(* Exit: tcp_client_deinit frees the client and closes a connected socket. *)
LEMMA HExit == HInv /\ Exit => HInv'
<1> SUFFICES ASSUME HInv, Exit PROVE HInv'
  OBVIOUS
<1>1. /\ pc = "exit" /\ pc' = "bind" /\ n \in Round /\ n' = n /\ kcpFor < n
      /\ UNCHANGED <<ret, answer, greeted, acked, last, kcpFor, excuse>>
      /\ Deinit(Me) /\ Agreed /\ frees[Hello(n)] \in {0, 1}
      /\ excuse[n] \notin {"connect", "send", "recv"} => connected[Hello(n)] /\ frees[Hello(n)] = 0
  BY DEF Exit, Goto, HInv, Current
<1>2. Me = Hello(n) /\ Me \in Client
  BY <1>1, HClients DEF Me, Hello
<1>3. /\ sock' \in [Client -> {"none", "open", "closed"}]
      /\ connected' \in [Client -> BOOLEAN] /\ frees' \in [Client -> 0..2] /\ Sockets'
      /\ frees'[Me] = frees[Me] + 1 /\ (connected[Me] => sock'[Me] = "closed")
      /\ \A d \in Client : d # Me =>
            sock'[d] = sock[d] /\ connected'[d] = connected[d] /\ frees'[d] = frees[d]
  BY <1>1, <1>2, HDeinit DEF HInv
<1>4. Future' /\ Past'
  BY <1>1, <1>3, HOthers
<1>5. Types'
  BY <1>1, <1>3 DEF HInv, Types, Places
<1>6. Current'
  BY <1>1, <1>2, <1>3 DEF Current, Agreed, Clean, Hello
<1> QED BY <1>3, <1>4, <1>5, <1>6 DEF HInv

(* Bind: KcpClient.start, when the result is 0 and it does not run.        *)
LEMMA HBind == HInv /\ Bind => HInv'
<1> SUFFICES ASSUME HInv, Bind PROVE HInv'
  OBVIOUS
<1>1. /\ pc = "bind" /\ pc' = "idle" /\ n \in Round /\ n' = n /\ kcpFor < n
      /\ UNCHANGED <<ret, sock, connected, frees, answer, greeted, acked, last, excuse>>
      /\ Agreed /\ Clean(n)
  BY DEF Bind, Goto, HInv, Current
<1>2. kcpFor' = IF ret = 0 /\ kcpFor = 0 THEN n ELSE kcpFor
  BY DEF Bind
<1>3. n \in Nat \ {0} /\ kcpFor \in Nat /\ Round = 1..MaxResumes /\ MaxResumes \in Nat
  BY <1>1, HelloAssumption DEF Round, HInv, Types
<1>4. Types' /\ Sockets' /\ Current'
  BY <1>1, <1>2, <1>3 DEF HInv, Types, Places, Sockets, Current
<1>5. Future'
  BY <1>1 DEF HInv, Future, Hello
<1>6. Past'
  <2>1. kcpFor' # 0 => kcpFor' \in acked \/ excuse[kcpFor'] \in {"select", "empty"}
    BY <1>1, <1>2 DEF HInv, Past, Agreed
  <2>2. \A r \in Round : r < n => Over(r)
    BY DEF Over
  <2>3. \A r \in Round : r < n => Clean(r) /\ (r \in acked => kcpFor \in 1..r)
    BY <2>2 DEF HInv, Past
  <2>4. \A r \in Round : r < n => (r \in acked => kcpFor' \in 1..r)
    BY <1>2, <2>3
  <2>5. n \in acked => kcpFor' \in 1..n
    BY <1>1, <1>2, <1>3 DEF Agreed
  <2>6. \A r \in Round : Over(r)' => r < n \/ r = n
    BY <1>1 DEF Over
  <2>7. \A r \in Round : Clean(r) => Clean(r)'
    BY <1>1 DEF Clean, Hello
  <2> QED BY <1>1, <2>1, <2>3, <2>4, <2>5, <2>6, <2>7 DEF Past
<1> QED BY <1>4, <1>5, <1>6 DEF HInv

(* The server's answers, and steps that change nothing.                    *)
LEMMA HStutter ==
    HInv /\ UNCHANGED <<pc, n, ret, sock, connected, frees, greeted, acked, last, kcpFor, excuse>>
        => HInv'
BY DEF HInv, Types, Sockets, Future, Current, Past, Agreed, Clean, Over, Hello

(* The inductive invariant holds in every reachable state.                 *)
THEOREM HelloInvariance == Spec => []HInv
<1>1. HInv /\ [Next]_vars => HInv'
  BY HResume, HConnect, HClientHello, HSelect, HRecvFrame, HVerify, HExit, HBind, HStutter
     DEF Next, Answer, vars
<1> QED BY HInit, <1>1, PTL DEF Spec

-----------------------------------------------------------------------------
(* Positions and flags keep their types, and only an open socket is        *)
(* connected.                                                              *)
THEOREM HelloTypes == Spec => []TypeOK
<1>1. HInv => TypeOK
  BY DEF HInv, Types, Sockets, TypeOK, Places
<1> QED BY HelloInvariance, <1>1, PTL

(* KcpClient is started only after a verified and acknowledged hello, an   *)
(* error of select and a server hello without data apart.                  *)
THEOREM KcpAfterHello == Spec => []KcpNeedsHello
<1>1. HInv => KcpNeedsHello
  BY DEF HInv, Past, KcpNeedsHello
<1> QED BY HelloInvariance, <1>1, PTL

(* When the server has the ack of a round that is over, KcpClient runs.    *)
THEOREM BothEndsAgree == Spec => []AckStartsKcp
<1>1. HInv => AckStartsKcp
  <2> SUFFICES ASSUME HInv, NEW r \in acked, Over(r) PROVE kcpFor \in 1..r
    BY DEF AckStartsKcp
  <2>1. r \in Round
    BY HelloAssumption DEF HInv, Types, Round
  <2> QED BY <2>1 DEF HInv, Past
<1> QED BY HelloInvariance, <1>1, PTL

(* A hello that connected and whose sends and recvs worked frees its       *)
(* client once and closes its socket, however it ends.                     *)
THEOREM HelloLeakFree == Spec => []HelloCleansUp
<1>1. HInv => HelloCleansUp
  BY DEF HInv, Past, Clean, Hello, HelloCleansUp
<1> QED BY HelloInvariance, <1>1, PTL
=============================================================================
