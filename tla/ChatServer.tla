----------------------------- MODULE ChatServer -----------------------------
(***************************************************************************)
(* The group chat server of src/lecture/test4/servertest.c.                *)
(*                                                                         *)
(* Threads: main (poll, then cleanup_and_exit), the acceptor, one client   *)
(* I/O thread per accepted connection, and the broadcast worker.  They     *)
(* share client_list_lock, the queue (queue_lock and queue_cond) and the   *)
(* unsynchronised flag server_running.  The remote peers are the           *)
(* environment: they connect, send messages and close.                     *)
(*                                                                         *)
(* Data is abstracted to message kinds: "reg" is a well-formed Type 0      *)
(* message, "end" a well-formed 2-byte Type 1 message, and "bad" anything  *)
(* handle_message discards (unknown type, Type 1 of another length, Type 0 *)
(* too long to rebroadcast).  Bytes arrive as whole lines; a read takes    *)
(* any non-empty prefix of what the peer has sent.                         *)
(***************************************************************************)
EXTENDS Naturals, Sequences, FiniteSets, SequencesExt

CONSTANTS
  Peers,        \* remote clients that may connect
  Expected,     \* expected_clients, argv[2]
  MaxClients,   \* MAX_CLIENTS
  MaxSends,     \* bound on the messages one peer sends
  EndsPerPeer,  \* bound on the Type 1 messages one peer sends
  MsgTypes      \* the kinds of message the peers send

ASSUME Expected \in 1..MaxClients /\ MaxSends \in Nat /\ EndsPerPeer \in Nat
ASSUME MsgTypes \subseteq {"reg", "end", "bad"}

VARIABLES
  running,    \* server_running
  listLock,   \* client_list_lock: "free", or held across steps by "main" / "io"
  clients,    \* clients[0..num_clients-1], as the sequence of their peers
  finished,   \* finished_clients_count
  queue,      \* queue_head .. queue_tail
  wpc,        \* broadcast worker: "loop", "deq", "towait" (predicate read,
              \* queue_lock held), "wait", "bcast", "exited"
  wmsg,       \* the node the worker dequeued
  apc,        \* acceptor: "loop", "accept", "exited"
  cpc,        \* client I/O thread of each peer
  cbuf,       \* the complete messages in that thread's local buffer
  mpc,        \* main thread
  jidx,       \* loop index i of step 3 of cleanup_and_exit (1-based)
  pconn,      \* peer connection: "idle", "pending", "accepted", "rejected"
  inbound,    \* bytes sent by the peer and not yet read by the server
  sentLog,    \* what each peer has sent (history)
  pclosed,    \* the peer closed its end
  sock,       \* the server's socket of each peer: its fd number and whether open
  delivered,  \* what the server wrote to each peer's socket
  counted     \* peers whose Type 1 message was counted (history)

vars == <<running, listLock, clients, finished, queue, wpc, wmsg, apc, cpc,
          cbuf, mpc, jidx, pconn, inbound, sentLog, pclosed, sock,
          delivered, counted>>

peerVars == <<pconn, inbound, sentLog, pclosed>>

NoMsg == [type |-> "none", from |-> CHOOSE p \in Peers : TRUE, seq |-> 0]

\* The Phase 2 commit message {TYPE_END_EXECUTION, '\n'}, tagged with the
\* client whose Type 1 message triggered it.
Commit(p) == [type |-> "commit", from |-> p, seq |-> 0]

\* Threads live until main calls exit().
Alive == mpc # "exited"

Init ==
  /\ running = TRUE
  /\ listLock = "free"
  /\ clients = <<>>
  /\ finished = 0
  /\ queue = <<>>
  /\ wpc = "loop"
  /\ wmsg = NoMsg
  /\ apc = "loop"
  /\ cpc = [p \in Peers |-> "none"]
  /\ cbuf = [p \in Peers |-> <<>>]
  /\ mpc = "poll"
  /\ jidx = 1
  /\ pconn = [p \in Peers |-> "idle"]
  /\ inbound = [p \in Peers |-> <<>>]
  /\ sentLog = [p \in Peers |-> <<>>]
  /\ pclosed = [p \in Peers |-> FALSE]
  /\ sock = [p \in Peers |-> [fd |-> 0, open |-> FALSE]]
  /\ delivered = [p \in Peers |-> <<>>]
  /\ counted = {}

-----------------------------------------------------------------------------
(* Remote peers (the environment). *)

Connect(p) ==
  /\ pconn[p] = "idle"
  /\ pconn' = [pconn EXCEPT ![p] = "pending"]
  /\ UNCHANGED <<inbound, sentLog, pclosed>>

Send(p, t) ==
  /\ pconn[p] # "idle"
  /\ ~pclosed[p]
  /\ Len(sentLog[p]) < MaxSends
  /\ t = "end" => Len(SelectSeq(sentLog[p], LAMBDA x : x = "end")) < EndsPerPeer
  /\ sentLog' = [sentLog EXCEPT ![p] = Append(@, t)]
  /\ inbound' = [inbound EXCEPT ![p] = Append(@, [type |-> t, seq |-> Len(sentLog[p]) + 1])]
  /\ UNCHANGED <<pconn, pclosed>>

Close(p) ==
  /\ pconn[p] # "idle"
  /\ ~pclosed[p]
  /\ pclosed' = [pclosed EXCEPT ![p] = TRUE]
  /\ UNCHANGED <<pconn, inbound, sentLog>>

Peer(p) ==
  /\ Alive
  /\ \/ Connect(p)
     \/ \E t \in MsgTypes : Send(p, t)
     \/ Close(p)
  /\ UNCHANGED <<running, listLock, clients, finished, queue, wpc, wmsg, apc,
                 cpc, cbuf, mpc, jidx, sock, delivered, counted>>

-----------------------------------------------------------------------------
(* The queue and its condition variable. *)

\* pthread_cond_signal(&queue_cond): wakes the worker if it waits.  A signal
\* sent without queue_lock while the worker is between its predicate test
\* and the wait ("towait") is lost.
Wake == IF wpc = "wait" THEN "deq" ELSE wpc

\* The worker holds queue_lock from its predicate test until it waits.
QueueLockFree == wpc # "towait"

\* enqueue_message: append at the tail under queue_lock, then signal.
Enqueue(m) ==
  /\ QueueLockFree
  /\ queue' = Append(queue, m)
  /\ wpc' = Wake

-----------------------------------------------------------------------------
(* Client I/O threads: run_client_io, handle_message, remove_client. *)

\* The number of entries of list s whose clients[i].fd is fd.
Entries(s, fd) == Cardinality({i \in 1..Len(s) : sock[s[i]].fd = fd})

\* Fault variant: forgets to move the last entry into the freed slot.
RemoveClientNoSwap(s, fd) ==
  IF Entries(s, fd) > 0 THEN SubSeq(s, 1, Len(s) - 1) ELSE s

\* remove_client(fd): the first entry whose clients[i].fd is fd is
\* overwritten by the last one, and the count drops by one.
RemoveClient(s, fd) ==
  IF Entries(s, fd) > 0
  THEN LET i == SelectInSeq(s, LAMBDA q : sock[q].fd = fd)
       IN  SubSeq([s EXCEPT ![i] = s[Len(s)]], 1, Len(s) - 1)
  ELSE s

\* Fault variant of the Phase 2 test.
CommitDueLate(n) == n > Expected

\* finished_clients_count == expected_clients, after the increment.
CommitDue(n) == n = Expected

\* Where the thread goes once the head of its buffer is handled.
AfterHandle(p) == IF Len(cbuf[p]) = 1 THEN "loop" ELSE "handle"

\* while (server_running) { read(...) ... }: data arrived.
ClientRead(p) ==
  /\ cpc[p] = "loop"
  /\ running
  /\ inbound[p] # <<>>
  /\ \E k \in 1..Len(inbound[p]) :
       /\ cbuf' = [cbuf EXCEPT ![p] = SubSeq(inbound[p], 1, k)]
       /\ inbound' = [inbound EXCEPT ![p] = SubSeq(inbound[p], k + 1, Len(inbound[p]))]
  /\ cpc' = [cpc EXCEPT ![p] = "handle"]
  /\ UNCHANGED <<running, listLock, clients, finished, queue, wpc, wmsg, apc,
                 mpc, jidx, pconn, sentLog, pclosed, sock, delivered, counted>>

\* The loop ends (server_running cleared, or read returned 0): close the fd,
\* which accept() may hand out again before remove_client runs.
ClientStop(p) ==
  /\ cpc[p] = "loop"
  /\ ~running \/ (inbound[p] = <<>> /\ pclosed[p])
  /\ sock' = [sock EXCEPT ![p].open = FALSE]
  /\ cpc' = [cpc EXCEPT ![p] = "remove"]
  /\ UNCHANGED <<running, listLock, clients, finished, queue, wpc, wmsg, apc,
                 cbuf, mpc, jidx, peerVars, delivered, counted>>

\* Type 0: the rebroadcast message is enqueued.
HandleReg(p) ==
  /\ cpc[p] = "handle"
  /\ Head(cbuf[p]).type = "reg"
  /\ Enqueue([type |-> "reg", from |-> p, seq |-> Head(cbuf[p]).seq])
  /\ cbuf' = [cbuf EXCEPT ![p] = Tail(@)]
  /\ cpc' = [cpc EXCEPT ![p] = AfterHandle(p)]
  /\ UNCHANGED <<running, listLock, clients, finished, wmsg, apc, mpc, jidx,
                 peerVars, sock, delivered, counted>>

\* A message handle_message discards.
HandleBad(p) ==
  /\ cpc[p] = "handle"
  /\ Head(cbuf[p]).type = "bad"
  /\ cbuf' = [cbuf EXCEPT ![p] = Tail(@)]
  /\ cpc' = [cpc EXCEPT ![p] = AfterHandle(p)]
  /\ UNCHANGED <<running, listLock, clients, finished, queue, wpc, wmsg, apc,
                 mpc, jidx, peerVars, sock, delivered, counted>>

\* Type 1 (Phase 1): count it under client_list_lock; the last one
\* enqueues the commit and keeps the lock for the next step.
HandleEnd(p) ==
  /\ cpc[p] = "handle"
  /\ Head(cbuf[p]).type = "end"
  /\ listLock = "free"
  /\ finished' = finished + 1
  /\ counted' = counted \cup {p}
  /\ cbuf' = [cbuf EXCEPT ![p] = Tail(@)]
  /\ IF CommitDue(finished + 1)
     THEN /\ Enqueue(Commit(p))
          /\ listLock' = "io"
          /\ cpc' = [cpc EXCEPT ![p] = "t1stop"]
     ELSE /\ cpc' = [cpc EXCEPT ![p] = AfterHandle(p)]
          /\ UNCHANGED <<queue, wpc, listLock>>
  /\ UNCHANGED <<running, clients, wmsg, apc, mpc, jidx, peerVars, sock,
                 delivered>>

\* Phase 2, continued: clear server_running, signal, unlock, and return -2,
\* so the thread ends without closing its fd or leaving the client list.
T1Stop(p) ==
  /\ cpc[p] = "t1stop"
  /\ running' = FALSE
  /\ wpc' = Wake
  /\ listLock' = "free"
  /\ cpc' = [cpc EXCEPT ![p] = "returned"]
  /\ cbuf' = [cbuf EXCEPT ![p] = <<>>]
  /\ UNCHANGED <<clients, finished, queue, wmsg, apc, mpc, jidx, peerVars,
                 sock, delivered, counted>>

\* remove_client(client_fd) under client_list_lock; then the thread ends.
ClientRemove(p) ==
  /\ cpc[p] = "remove"
  /\ listLock = "free"
  /\ clients' = RemoveClient(clients, sock[p].fd)
  /\ cpc' = [cpc EXCEPT ![p] = "gone"]
  /\ UNCHANGED <<running, listLock, finished, queue, wpc, wmsg, apc, cbuf,
                 mpc, jidx, peerVars, sock, delivered, counted>>

Client(p) ==
  /\ Alive
  /\ \/ ClientRead(p) \/ ClientStop(p) \/ HandleReg(p) \/ HandleBad(p)
     \/ HandleEnd(p) \/ T1Stop(p) \/ ClientRemove(p)

-----------------------------------------------------------------------------
(* Acceptor thread: run_acceptor. *)

AcceptorLoop ==
  /\ apc = "loop"
  /\ apc' = IF running THEN "accept" ELSE "exited"
  /\ UNCHANGED <<running, listLock, clients, finished, queue, wpc, wmsg, cpc,
                 cbuf, mpc, jidx, peerVars, sock, delivered, counted>>

\* accept() returns EAGAIN: sleep and go round.
AcceptNone ==
  /\ apc = "accept"
  /\ \A p \in Peers : pconn[p] # "pending"
  /\ apc' = "loop"
  /\ UNCHANGED <<running, listLock, clients, finished, queue, wpc, wmsg, cpc,
                 cbuf, mpc, jidx, peerVars, sock, delivered, counted>>

\* The fd numbers accept() can return for the peers' connections, and the
\* lowest one no open connection holds, which POSIX requires it to return.
FdNums == 1..Cardinality(Peers)

LowestFree == LET free == FdNums \ {sock[q].fd : q \in {r \in Peers : sock[r].open}}
              IN  CHOOSE fd \in free : \A g \in free : fd <= g

\* Fault variant: no num_clients < MAX_CLIENTS test.
AcceptAddUnbounded(p) ==
  /\ apc = "accept"
  /\ pconn[p] = "pending"
  /\ listLock = "free"
  /\ clients' = Append(clients, p)
  /\ sock' = [sock EXCEPT ![p] = [fd |-> LowestFree, open |-> TRUE]]
  /\ cpc' = [cpc EXCEPT ![p] = "loop"]
  /\ pconn' = [pconn EXCEPT ![p] = "accepted"]
  /\ apc' = "loop"
  /\ UNCHANGED <<running, listLock, finished, queue, wpc, wmsg, cbuf, mpc, jidx,
                 inbound, sentLog, pclosed, delivered, counted>>

\* accept() returns the lowest free fd; under client_list_lock the
\* connection is added to the list with that fd and given its I/O thread.
AcceptAdd(p) ==
  /\ apc = "accept"
  /\ pconn[p] = "pending"
  /\ listLock = "free"
  /\ Len(clients) < MaxClients
  /\ clients' = Append(clients, p)
  /\ sock' = [sock EXCEPT ![p] = [fd |-> LowestFree, open |-> TRUE]]
  /\ cpc' = [cpc EXCEPT ![p] = "loop"]
  /\ pconn' = [pconn EXCEPT ![p] = "accepted"]
  /\ apc' = "loop"
  /\ UNCHANGED <<running, listLock, finished, queue, wpc, wmsg, cbuf, mpc, jidx,
                 inbound, sentLog, pclosed, delivered, counted>>

\* At MAX_CLIENTS the new connection's fd is closed again at once.
AcceptReject(p) ==
  /\ apc = "accept"
  /\ pconn[p] = "pending"
  /\ listLock = "free"
  /\ Len(clients) >= MaxClients
  /\ pconn' = [pconn EXCEPT ![p] = "rejected"]
  /\ apc' = "loop"
  /\ UNCHANGED <<running, listLock, clients, finished, queue, wpc, wmsg, cpc,
                 cbuf, mpc, jidx, inbound, sentLog, pclosed, sock, delivered,
                 counted>>

Acceptor ==
  /\ Alive
  /\ \/ AcceptorLoop \/ AcceptNone
     \/ \E p \in Peers : AcceptAdd(p) \/ AcceptReject(p)

-----------------------------------------------------------------------------
(* Broadcast worker: broadcast_worker and dequeue_message. *)

WorkerLoop ==
  /\ wpc = "loop"
  /\ wpc' = IF running THEN "deq" ELSE "exited"
  /\ UNCHANGED <<running, listLock, clients, finished, queue, wmsg, apc, cpc,
                 cbuf, mpc, jidx, peerVars, sock, delivered, counted>>

\* Fault variant: takes the newest node instead of the head.
DequeueTail ==
  /\ wpc = "deq"
  /\ queue # <<>>
  /\ wmsg' = queue[Len(queue)]
  /\ queue' = SubSeq(queue, 1, Len(queue) - 1)
  /\ wpc' = "bcast"
  /\ UNCHANGED <<running, listLock, clients, finished, apc, cpc, cbuf, mpc,
                 jidx, peerVars, sock, delivered, counted>>

\* dequeue_message with a node at the head.
Dequeue ==
  /\ wpc = "deq"
  /\ queue # <<>>
  /\ wmsg' = Head(queue)
  /\ queue' = Tail(queue)
  /\ wpc' = "bcast"
  /\ UNCHANGED <<running, listLock, clients, finished, apc, cpc, cbuf, mpc,
                 jidx, peerVars, sock, delivered, counted>>

\* dequeue_message on an empty queue: about to wait on queue_cond while the
\* server runs, otherwise return NULL, and the worker breaks out of its loop.
DequeueEmpty ==
  /\ wpc = "deq"
  /\ queue = <<>>
  /\ wpc' = IF running THEN "towait" ELSE "exited"
  /\ UNCHANGED <<running, listLock, clients, finished, queue, wmsg, apc, cpc,
                 cbuf, mpc, jidx, peerVars, sock, delivered, counted>>

\* pthread_cond_wait releases queue_lock and sleeps.
CondWait ==
  /\ wpc = "towait"
  /\ wpc' = "wait"
  /\ UNCHANGED <<running, listLock, clients, finished, queue, wmsg, apc, cpc,
                 cbuf, mpc, jidx, peerVars, sock, delivered, counted>>

\* Under client_list_lock, write the node to the fd of every entry of the
\* list.  A write reaches the connection that now holds that fd number, once
\* per entry that carries it; a write to a closed fd fails.
Broadcast ==
  /\ wpc = "bcast"
  /\ listLock = "free"
  /\ delivered' = [q \in Peers |->
                     IF sock[q].open
                     THEN delivered[q] \o [k \in 1..Entries(clients, sock[q].fd) |-> wmsg]
                     ELSE delivered[q]]
  /\ wpc' = "loop"
  /\ UNCHANGED <<running, listLock, clients, finished, queue, wmsg, apc, cpc,
                 cbuf, mpc, jidx, peerVars, sock, counted>>

Worker ==
  /\ Alive
  /\ WorkerLoop \/ Dequeue \/ DequeueEmpty \/ CondWait \/ Broadcast

-----------------------------------------------------------------------------
(* Main thread: the polling loop of main, then cleanup_and_exit. *)

MainPoll ==
  /\ mpc = "poll"
  /\ ~running
  /\ mpc' = "cleanup"
  /\ UNCHANGED <<running, listLock, clients, finished, queue, wpc, wmsg, apc,
                 cpc, cbuf, jidx, peerVars, sock, delivered, counted>>

\* Step 1: clear server_running and signal queue_cond under queue_lock.
CleanupSignal ==
  /\ mpc = "cleanup"
  /\ QueueLockFree
  /\ running' = FALSE
  /\ wpc' = Wake
  /\ mpc' = "joinAcc"
  /\ UNCHANGED <<listLock, clients, finished, queue, wmsg, apc, cpc, cbuf,
                 jidx, peerVars, sock, delivered, counted>>

\* Step 2: join the acceptor.
JoinAcceptor ==
  /\ mpc = "joinAcc"
  /\ apc = "exited"
  /\ mpc' = "lock"
  /\ UNCHANGED <<running, listLock, clients, finished, queue, wpc, wmsg, apc,
                 cpc, cbuf, jidx, peerVars, sock, delivered, counted>>

\* Step 3: take client_list_lock and keep it while joining I/O threads.
LockList ==
  /\ mpc = "lock"
  /\ listLock = "free"
  /\ listLock' = "main"
  /\ jidx' = 1
  /\ mpc' = "join"
  /\ UNCHANGED <<running, clients, finished, queue, wpc, wmsg, apc, cpc, cbuf,
                 peerVars, sock, delivered, counted>>

\* pthread_join(clients[i].io_tid): waits for that thread to end.
JoinClient ==
  /\ mpc = "join"
  /\ jidx <= Len(clients)
  /\ cpc[clients[jidx]] \in {"gone", "returned"}
  /\ jidx' = jidx + 1
  /\ UNCHANGED <<running, listLock, clients, finished, queue, wpc, wmsg, apc,
                 cpc, cbuf, mpc, peerVars, sock, delivered, counted>>

\* num_clients = 0, unlock.
JoinClientsDone ==
  /\ mpc = "join"
  /\ jidx > Len(clients)
  /\ clients' = <<>>
  /\ listLock' = "free"
  /\ mpc' = "joinWkr"
  /\ UNCHANGED <<running, finished, queue, wpc, wmsg, apc, cpc, cbuf, jidx,
                 peerVars, sock, delivered, counted>>

\* Step 4: join the worker; steps 5-6 free memory; exit(EXIT_SUCCESS).
JoinWorker ==
  /\ mpc = "joinWkr"
  /\ wpc = "exited"
  /\ mpc' = "exited"
  /\ UNCHANGED <<running, listLock, clients, finished, queue, wpc, wmsg, apc,
                 cpc, cbuf, jidx, peerVars, sock, delivered, counted>>

Main ==
  /\ Alive
  /\ \/ MainPoll \/ CleanupSignal \/ JoinAcceptor \/ LockList
     \/ JoinClient \/ JoinClientsDone \/ JoinWorker

Next ==
  \/ Main
  \/ Acceptor
  \/ Worker
  \/ \E p \in Peers : Client(p) \/ Peer(p)

\* Every server thread is scheduled (pthreads are preemptive, and the busy
\* loops usleep and retry); the peers are not assumed to do anything.
Fairness ==
  /\ WF_vars(Main)
  /\ WF_vars(Acceptor)
  /\ WF_vars(Worker)
  /\ \A p \in Peers : WF_vars(Client(p))

Spec == Init /\ [][Next]_vars /\ Fairness

-----------------------------------------------------------------------------
(* Properties. *)

\* The state has its types, and the client list stays within the bounds of
\* the array clients[MAX_CLIENTS] the acceptor writes into.
TypeOK ==
  /\ running \in BOOLEAN
  /\ listLock \in {"free", "main", "io"}
  /\ clients \in Seq(Peers)
  /\ Len(clients) <= MaxClients
  /\ finished \in Nat
  /\ wpc \in {"loop", "deq", "towait", "wait", "bcast", "exited"}
  /\ apc \in {"loop", "accept", "exited"}
  /\ cpc \in [Peers -> {"none", "loop", "handle", "t1stop", "remove", "gone",
                        "returned"}]
  /\ mpc \in {"poll", "cleanup", "joinAcc", "lock", "join", "joinWkr", "exited"}
  /\ pconn \in [Peers -> {"idle", "pending", "accepted", "rejected"}]
  /\ sock \in [Peers -> [fd : {0} \cup FdNums, open : BOOLEAN]]
  /\ counted \subseteq Peers

\* remove_client keeps the array compact by moving the last entry into the
\* freed slot, and finds the entry by its fd.  Until cleanup resets
\* num_clients, every fd number is carried by as many entries of the list
\* as there are client threads holding it that have started and not yet
\* removed themselves.  (Which entry goes is a matter of fd numbers only: a
\* thread whose fd was reused may remove the other connection's entry.)
Listed(p) == cpc[p] \in {"loop", "handle", "t1stop", "remove", "returned"}

ClientListMatchesThreads ==
  mpc \notin {"joinWkr", "exited"} =>
    \A fd \in FdNums :
      Entries(clients, fd) = Cardinality({p \in Peers : Listed(p) /\ sock[p].fd = fd})

\* The broadcast queue is FIFO and one worker drains it: every peer
\* receives the Type 0 messages of one sender in the order they were sent
\* (a message written twice to one fd arrives twice in a row).
BroadcastOrder ==
  \A q, s \in Peers :
    LET fromS == SelectSeq(delivered[q], LAMBDA m : m.type = "reg" /\ m.from = s)
    IN  \A i \in 1..Len(fromS) - 1 : fromS[i].seq <= fromS[i + 1].seq

\* The worker writes each dequeued message once to each listed client: no
\* peer receives one message twice.  run_client_io closes its fd before
\* remove_client takes it out of the list, and accept() may hand that fd
\* number to a new connection in between; the list then holds two entries
\* with the new connection's fd.
NoDuplicateDelivery ==
  \A q \in Peers : \A i, j \in 1..Len(delivered[q]) :
    i # j => delivered[q][i] # delivered[q][j]

\* If every peer sends its Type 1 message, the server commits: the counts of
\* the client threads reach expected_clients and server_running is cleared.
AllEndsSent == \A p \in Peers : \E i \in 1..Len(sentLog[p]) : sentLog[p][i] = "end"

AllFinishedLeadsToCommit == AllEndsSent ~> ~running

\* Every client whose Type 1 was counted and who kept its connection open
\* has received the Phase 2 commit by the time the server exits.
CommitDelivered ==
  mpc = "exited" =>
    \A p \in counted :
      ~pclosed[p] => \E i \in 1..Len(delivered[p]) : delivered[p][i].type = "commit"

\* Once server_running is cleared, cleanup_and_exit runs to the end.
ShutdownCompletes == ~running ~> (mpc = "exited")

=============================================================================
