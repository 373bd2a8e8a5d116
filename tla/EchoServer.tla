------------------------------ MODULE EchoServer ------------------------------
(***************************************************************************)
(* Lab 1.1's net::EchoServer (echo_server.cpp, socket.cpp, main.cpp): the  *)
(* main thread's run() binds, runs accept_loop and then wait_for_clients;  *)
(* accept_loop starts one handle_client thread per connection.  stop()     *)
(* (a client's "exit"/"shutdown" line, or SIGINT/SIGTERM through the       *)
(* signal handler) clears running_ and shuts and closes the listening      *)
(* socket.  Clients connect, write chunks and hang up at will.             *)
(*                                                                         *)
(* A chunk is what one recv returns: "stop" when it equals one of the stop *)
(* words, "data" otherwise.  Echoed bytes, the prefix and the buffer are   *)
(* left out: nothing in the server reads them back.                        *)
(***************************************************************************)
EXTENDS Naturals, Sequences

CONSTANTS
    Conns,      \* client connections
    MaxChunks   \* bound: chunks each client writes

Chunks == {"data", "stop"}

VARIABLES
    running,    \* running_
    lsock,      \* server_socket_: "none", "open", "closed"
    mainPc,     \* the main thread
    peer,       \* each client: "idle", "waiting" (in the backlog), "open", "closed"
    inbox,      \* chunks written by the client and not yet received
    sent,       \* chunks the client has written
    thr,        \* each handle_client thread: "none", "loop", "recv", "done"
    threads,    \* client_threads_
    toJoin      \* the threads wait_for_clients swapped out and still joins

vars == <<running, lsock, mainPc, peer, inbox, sent, thr, threads, toJoin>>

Init ==
    /\ running = FALSE /\ lsock = "none" /\ mainPc = "init"
    /\ peer = [c \in Conns |-> "idle"]
    /\ inbox = [c \in Conns |-> << >>]
    /\ sent = [c \in Conns |-> 0]
    /\ thr = [c \in Conns |-> "none"]
    /\ threads = {} /\ toJoin = {}

\* stop(): the compare-exchange of running_ from true, then shutdown and
\* close of the listening socket; a second call does nothing.
StopEffect ==
    /\ running' = FALSE
    /\ lsock' = IF running THEN "closed" ELSE lsock

\* run(): running_.exchange(true), socket, bind, listen.
Run ==
    /\ mainPc = "init"
    /\ running' = TRUE /\ lsock' = "open" /\ mainPc' = "loop"
    /\ UNCHANGED <<peer, inbox, sent, thr, threads, toJoin>>

\* accept_loop's while (running_.load()) test.
LoopTest ==
    /\ mainPc = "loop"
    /\ mainPc' = IF running THEN "accept" ELSE "wait"
    /\ UNCHANGED <<running, lsock, peer, inbox, sent, thr, threads, toJoin>>

\* server_socket_.accept(): a connection from the backlog gets a thread,
\* pushed to client_threads_ under clients_mutex_.
Accept(c) ==
    /\ mainPc = "accept" /\ lsock = "open" /\ peer[c] = "waiting"
    /\ peer' = [peer EXCEPT ![c] = "open"]
    /\ thr' = [thr EXCEPT ![c] = "loop"]
    /\ threads' = threads \cup {c}
    /\ mainPc' = "loop"
    /\ UNCHANGED <<running, lsock, inbox, sent, toJoin>>

\* accept on a shut or closed socket throws: the loop breaks once running_
\* is false, and otherwise logs and tries again.
AcceptFails ==
    /\ mainPc = "accept" /\ lsock = "closed"
    /\ mainPc' = IF running THEN "loop" ELSE "wait"
    /\ UNCHANGED <<running, lsock, peer, inbox, sent, thr, threads, toJoin>>

\* wait_for_clients: swap client_threads_ out under the mutex ...
WaitSwap ==
    /\ mainPc = "wait"
    /\ toJoin' = threads /\ threads' = {}
    /\ mainPc' = "join"
    /\ UNCHANGED <<running, lsock, peer, inbox, sent, thr>>

\* ... and join each thread, which returns once the thread has ended.
Join(c) ==
    /\ mainPc = "join" /\ c \in toJoin /\ thr[c] = "done"
    /\ toJoin' = toJoin \ {c}
    /\ UNCHANGED <<running, lsock, mainPc, peer, inbox, sent, thr, threads>>

\* run() returns.
RunReturns ==
    /\ mainPc = "join" /\ toJoin = {}
    /\ mainPc' = "done"
    /\ UNCHANGED <<running, lsock, peer, inbox, sent, thr, threads, toJoin>>

\* handle_client's while (running_.load()) test.
ClientLoopTest(c) ==
    /\ thr[c] = "loop"
    /\ thr' = [thr EXCEPT ![c] = IF running THEN "recv" ELSE "done"]
    /\ UNCHANGED <<running, lsock, mainPc, peer, inbox, sent, threads, toJoin>>

\* client.receive blocks until a chunk or the hang-up: 0 bytes ends the
\* thread; a stop word calls stop() and ends it; anything else is echoed
\* with send_all and the loop goes on.
Receive(c) ==
    /\ thr[c] = "recv"
    /\ inbox[c] # << >> \/ peer[c] = "closed"
    /\ IF inbox[c] = << >>
       THEN /\ thr' = [thr EXCEPT ![c] = "done"]
            /\ UNCHANGED <<running, lsock, inbox>>
       ELSE /\ inbox' = [inbox EXCEPT ![c] = Tail(@)]
            /\ IF Head(inbox[c]) = "stop"
               THEN StopEffect /\ thr' = [thr EXCEPT ![c] = "done"]
               ELSE thr' = [thr EXCEPT ![c] = "loop"] /\ UNCHANGED <<running, lsock>>
    /\ UNCHANGED <<mainPc, peer, sent, threads, toJoin>>

\* The signal handler's stop(), once run() has started.
Signal ==
    /\ mainPc # "init" /\ running
    /\ StopEffect
    /\ UNCHANGED <<mainPc, peer, inbox, sent, thr, threads, toJoin>>

\* A client connects (into the backlog while the socket listens), writes
\* a chunk, or hangs up.
Connect(c) ==
    /\ peer[c] = "idle" /\ lsock = "open"
    /\ peer' = [peer EXCEPT ![c] = "waiting"]
    /\ UNCHANGED <<running, lsock, mainPc, inbox, sent, thr, threads, toJoin>>

Write(c, k) ==
    /\ peer[c] = "open" /\ sent[c] < MaxChunks
    /\ inbox' = [inbox EXCEPT ![c] = Append(@, k)]
    /\ sent' = [sent EXCEPT ![c] = @ + 1]
    /\ UNCHANGED <<running, lsock, mainPc, peer, thr, threads, toJoin>>

HangUp(c) ==
    /\ peer[c] = "open"
    /\ peer' = [peer EXCEPT ![c] = "closed"]
    /\ UNCHANGED <<running, lsock, mainPc, inbox, sent, thr, threads, toJoin>>

MainThread ==
    \/ Run \/ LoopTest \/ AcceptFails \/ WaitSwap \/ RunReturns
    \/ \E c \in Conns : Accept(c) \/ Join(c)

ClientThread(c) == ClientLoopTest(c) \/ Receive(c)

Env ==
    \/ Signal
    \/ \E c \in Conns : Connect(c) \/ HangUp(c) \/ \E k \in Chunks : Write(c, k)

Next == MainThread \/ (\E c \in Conns : ClientThread(c)) \/ Env

\* The server's threads are scheduled; clients and signals are not.
Spec == Init /\ [][Next]_vars /\ WF_vars(MainThread)
                             /\ \A c \in Conns : WF_vars(ClientThread(c))

-----------------------------------------------------------------------------

TypeOK ==
    /\ running \in BOOLEAN /\ lsock \in {"none", "open", "closed"}
    /\ mainPc \in {"init", "loop", "accept", "wait", "join", "done"}
    /\ peer \in [Conns -> {"idle", "waiting", "open", "closed"}]
    /\ thr \in [Conns -> {"none", "loop", "recv", "done"}]
    /\ threads \subseteq Conns /\ toJoin \subseteq Conns

\* main.cpp's "Press Ctrl+C to stop": once stop() has run, run() returns
\* and the server process ends.
StopEndsRun ==
    (mainPc # "init" /\ ~running) ~> (mainPc = "done")

====
