---- MODULE EpollServer ----
(* chapter07/src/epoll_test.c: one thread echoes for all clients. The         *)
(* listener is level-triggered, clients are non-blocking and edge-triggered:  *)
(* the kernel reports a client again only after something new has arrived, so *)
(* the server must read until EAGAIN. Messages are counted.                   *)
EXTENDS Integers, Sequences, FiniteSetsExt

CONSTANTS Clients,
          MAX_EVENTS,
          MaxFd,       \* descriptors the server may have open for clients
          Window,      \* echoes that fit in the buffers towards a client
          MaxMessage   \* bound: messages of each client

ASSUME SizeAssumption == MAX_EVENTS \in Nat \ {0} /\ MaxFd \in Nat \ {0} /\ Window \in Nat \ {0}
ASSUME BoundAssumption == MaxMessage \in [Clients -> Nat]

VARIABLES client,     \* new, connected, left (closed, half-closed or reset)
          sent, inbox,
          outbox,     \* echoes on their way to each client
          received,   \* echoes each client has read
          greedy,     \* history: clients that had more than Window unanswered
          backlog,    \* connections not accepted yet
          ready,      \* epoll's ready list: descriptors, 0 is the listener
          reg,        \* client descriptors registered with epoll
          conn,       \* the server's descriptor table
          pc,
          len,        \* messages in buf, received and not echoed yet
          client_fd,  \* the last result of accept
          events      \* what is left of the batch: descriptor, and whose it was

kvars == <<ready, reg, conn, backlog>>
cvars == <<client, sent, inbox, outbox, received, greedy>>
svars == <<pc, len, client_fd, events>>
vars == <<kvars, cvars, svars>>

Fds == 1 .. MaxFd
Listener == 0
NoFd == -1
NoConn == "none"

ASSUME NameAssumption == NoConn \notin Clients

Init == /\ client = [c \in Clients |-> "new"]
        /\ sent = [c \in Clients |-> 0]
        /\ inbox = [c \in Clients |-> 0]
        /\ outbox = [c \in Clients |-> 0]
        /\ received = [c \in Clients |-> 0]
        /\ greedy = {}
        /\ len = 0
        /\ backlog = <<>>
        /\ ready = <<>>
        /\ reg = {}
        /\ conn = [f \in Fds |-> NoConn]
        /\ pc = "wait"
        /\ client_fd = NoFd
        /\ events = <<>>

Has(s, x) == \E i \in DOMAIN s : s[i] = x
Enqueue(s, x) == IF Has(s, x) THEN s ELSE Append(s, x)

(* The elements of s at the positions I, in their order.                      *)
InOrder(s, I) ==
    LET Ns == 1 .. Cardinality(I)
    IN  {[i \in Ns |-> s[at[i]]] :
            at \in {b \in Bijection(Ns, I) : \A i, j \in Ns : i < j => b[i] < b[j]}}

(* recv on the connection would not block.                                    *)
HasInput(c) == inbox[c] > 0 \/ client[c] = "left"
Readable(f) == IF f = Listener THEN backlog # <<>>
               ELSE IF conn[f] = NoConn THEN FALSE ELSE HasInput(conn[f])

-----------------------------------------------------------------------------
(* The server.                                                                *)

(* The kernel walks the ready list, drops what is no longer readable, reports *)
(* at most MAX_EVENTS, and keeps what is level-triggered on the list.         *)
Reported(n) == {i \in 1 .. n : Readable(ready[i])}
Scanned == Max({n \in 0 .. Len(ready) : Cardinality(Reported(n)) <= MAX_EVENTS})
LeftReady == SubSeq(ready, Scanned + 1, Len(ready))

(* Mutant: the listener is edge-triggered too.                                *)
ListenerEdge == LeftReady

LevelTriggered ==
    IF \E i \in Reported(Scanned) : ready[i] = Listener
    THEN Append(LeftReady, Listener) ELSE LeftReady

EpollWait ==
    /\ pc = "wait"
    /\ Reported(Scanned) # {}
    /\ \E fds \in InOrder(ready, Reported(Scanned)) :
          events' = [i \in DOMAIN fds |->
                       [fd |-> fds[i],
                        for |-> IF fds[i] = Listener THEN NoConn ELSE conn[fds[i]]]]
    /\ ready' = LevelTriggered
    /\ pc' = "dispatch"
    /\ UNCHANGED <<cvars, len, client_fd, reg, conn, backlog>>

(* A stop and continuation of the process interrupts epoll_wait (EINTR), and  *)
(* handle_error ends it.                                                      *)
WaitInterrupted ==
    /\ pc = "wait"
    /\ pc' = "dead"
    /\ UNCHANGED <<kvars, cvars, len, client_fd, events>>

Dispatch ==
    /\ pc = "dispatch"
    /\ pc' = IF events = <<>> THEN "wait"
             ELSE IF Head(events).fd = Listener THEN "accept" ELSE "recv"
    /\ UNCHANGED <<kvars, cvars, len, client_fd, events>>

EventDone == pc' = "dispatch" /\ events' = Tail(events)

FreeFds == {f \in Fds : conn[f] = NoConn}

(* Mutant: the result of accept is not looked at.                             *)
AcceptUnchecked ==
    /\ pc = "accept"
    /\ IF FreeFds = {}
       THEN /\ client_fd' = NoFd
            /\ UNCHANGED <<conn, backlog>>
       ELSE /\ client_fd' = Min(FreeFds)
            /\ conn' = [conn EXCEPT ![Min(FreeFds)] = Head(backlog)]
            /\ backlog' = Tail(backlog)
    /\ pc' = "add"
    /\ UNCHANGED <<cvars, len, ready, reg, events>>

(* One connection per event; with all descriptors in use accept fails and the *)
(* connection stays where it is.                                              *)
Accept ==
    /\ pc = "accept"
    /\ IF FreeFds = {}
       THEN EventDone /\ client_fd' = NoFd /\ UNCHANGED <<conn, backlog>>
       ELSE /\ client_fd' = Min(FreeFds)
            /\ conn' = [conn EXCEPT ![Min(FreeFds)] = Head(backlog)]
            /\ backlog' = Tail(backlog)
            /\ pc' = "add"
            /\ UNCHANGED events
    /\ UNCHANGED <<cvars, len, ready, reg>>

(* The descriptor leaves the table and, being the only one of its file, epoll *)
(* (EPOLL_CTL_DEL after close finds nothing to do).                           *)
Close(f) ==
    /\ conn' = [conn EXCEPT ![f] = NoConn]
    /\ reg' = reg \ {f}
    /\ ready' \in InOrder(ready, {i \in DOMAIN ready : ready[i] # f})

(* Input that arrived before the registration makes the descriptor ready.     *)
EpollAdd ==
    /\ pc = "add"
    /\ EventDone
    /\ \/ /\ reg' = reg \cup {client_fd}
          /\ ready' = IF Readable(client_fd) THEN Append(ready, client_fd) ELSE ready
          /\ UNCHANGED conn
       \/ Close(client_fd)
    /\ UNCHANGED <<cvars, len, backlog, client_fd>>

(* Mutant: the wrong variable is closed.                                      *)
CloseClientFd ==
    /\ EventDone
    /\ Close(client_fd)
    /\ UNCHANGED <<cvars, len, backlog, client_fd>>

(* recv returned 0, or an error other than EAGAIN.                            *)
CloseConnection ==
    /\ EventDone
    /\ Close(Head(events).fd)
    /\ UNCHANGED <<cvars, len, backlog, client_fd>>

(* One call of recv: data first, then the end of the stream or the error.     *)
Recv ==
    /\ pc = "recv"
    /\ LET c == conn[Head(events).fd]
       IN  \/ /\ \E k \in 1 .. inbox[c] : len' = k /\ inbox' = [inbox EXCEPT ![c] = @ - k]
              /\ pc' = "send"
              /\ UNCHANGED <<kvars, client, sent, outbox, received, greedy, client_fd, events>>
           \/ /\ inbox[c] = 0 /\ HasInput(c)
              /\ CloseConnection
           \/ /\ ~HasInput(c)
              /\ EventDone
              /\ UNCHANGED <<kvars, cvars, len, client_fd>>

(* send on a non-blocking socket: what does not fit is not sent, and the      *)
(* result, a smaller number or EAGAIN, is not looked at.                      *)
Echo(f) ==
    LET c == conn[f]
    IN  outbox' = [outbox EXCEPT ![c] = Min({@ + len, Window})]

(* Mutant: one recv per event.                                                *)
SendAndLeave ==
    /\ pc = "send"
    /\ len' = 0
    /\ Echo(Head(events).fd)
    /\ EventDone
    /\ UNCHANGED <<kvars, client, sent, inbox, received, greedy, client_fd>>

(* Mutant: the echo goes to the client accepted last.                         *)
SendToClientFd ==
    /\ pc = "send"
    /\ len' = 0
    /\ IF client_fd \in reg THEN Echo(client_fd) ELSE UNCHANGED outbox
    /\ pc' = "recv"
    /\ UNCHANGED <<kvars, client, sent, inbox, received, greedy, client_fd, events>>

(* To a client that is gone the echo may raise SIGPIPE, which ends the server.*)
Send ==
    /\ pc = "send"
    /\ len' = 0
    /\ \/ pc' = "recv" /\ Echo(Head(events).fd)
       \/ client[conn[Head(events).fd]] = "left" /\ pc' = "dead" /\ UNCHANGED outbox
    /\ UNCHANGED <<kvars, client, sent, inbox, received, greedy, client_fd, events>>

Server == EpollWait \/ Dispatch \/ Accept \/ EpollAdd \/ Recv \/ Send

-----------------------------------------------------------------------------
(* The clients, and what the kernel does when something of theirs arrives.    *)

Pending(c) == Has(backlog, c)
Connected(c) == \E f \in Fds : conn[f] = c

(* Whatever arrives on a registered connection makes it ready.                *)
Edge(c) == ready' = IF \E f \in reg : conn[f] = c
                    THEN Enqueue(ready, CHOOSE f \in reg : conn[f] = c)
                    ELSE ready

Connect(c) ==
    /\ pc # "dead"
    /\ client[c] = "new"
    /\ client' = [client EXCEPT ![c] = "connected"]
    /\ backlog' = Append(backlog, c)
    /\ ready' = Enqueue(ready, Listener)
    /\ UNCHANGED <<sent, inbox, outbox, received, greedy, reg, conn, svars>>

SendMessage(c) ==
    /\ pc # "dead"
    /\ client[c] = "connected"
    /\ Pending(c) \/ Connected(c)
    /\ sent[c] < MaxMessage[c]
    /\ sent' = [sent EXCEPT ![c] = @ + 1]
    /\ inbox' = [inbox EXCEPT ![c] = @ + 1]
    /\ greedy' = IF sent[c] - received[c] >= Window THEN greedy \cup {c} ELSE greedy
    /\ Edge(c)
    /\ UNCHANGED <<client, outbox, received, reg, conn, backlog, svars>>

ReadEchoes(c) ==
    /\ client[c] = "connected"
    /\ outbox[c] > 0
    /\ outbox' = [outbox EXCEPT ![c] = 0]
    /\ received' = [received EXCEPT ![c] = @ + outbox[c]]
    /\ UNCHANGED <<client, sent, inbox, greedy, kvars, svars>>

(* close, shutdown, or a reset (the client died with replies unread).         *)
Leave(c) ==
    /\ pc # "dead"
    /\ client[c] = "connected"
    /\ client' = [client EXCEPT ![c] = "left"]
    /\ Edge(c)
    /\ UNCHANGED <<sent, inbox, outbox, received, greedy, reg, conn, backlog, svars>>

Next == \/ Server \/ WaitInterrupted
        \/ \E c \in Clients : Connect(c) \/ SendMessage(c) \/ ReadEchoes(c) \/ Leave(c)

Spec == Init /\ [][Next]_vars

(* The server runs; nothing is expected of the clients.                       *)
FairSpec == Spec /\ WF_vars(Server)

-----------------------------------------------------------------------------
(* Types of the variables.                                                    *)
TypeOK ==
    /\ client \in [Clients -> {"new", "connected", "left"}]
    /\ sent \in [Clients -> Nat]
    /\ inbox \in [Clients -> Nat]
    /\ \A c \in Clients : inbox[c] <= sent[c] /\ sent[c] <= MaxMessage[c]
    /\ outbox \in [Clients -> 0 .. Window]
    /\ received \in [Clients -> Nat]
    /\ greedy \in SUBSET Clients
    /\ len \in Nat
    /\ backlog \in Seq(Clients)
    /\ ready \in Seq(Fds \cup {Listener})
    /\ reg \in SUBSET Fds
    /\ conn \in [Fds -> Clients \cup {NoConn}]
    /\ pc \in {"wait", "dispatch", "accept", "add", "recv", "send", "dead"}
    /\ client_fd \in Fds \cup {NoFd}
    /\ pc = "add" => client_fd \in Fds
    /\ events \in Seq([fd : Fds \cup {Listener}, for : Clients \cup {NoConn}])

(* No edge is lost: whatever a registered client has sent, the server is      *)
(* reading it, has its event before it, or will be told by epoll.             *)
NoLostEdge ==
    \A f \in reg \cup {Listener} :
        Readable(f) => Has(ready, f) \/ \E i \in DOMAIN events : events[i].fd = f

(* Descriptors are closed and their numbers reused within one batch; still no *)
(* event is handled for another connection than the one it was reported for.  *)
EventsNotStale ==
    \A i \in DOMAIN events :
        events[i].fd # Listener => conn[events[i].fd] = events[i].for

InBuf(c) ==
    IF len = 0 THEN 0 ELSE IF conn[Head(events).fd] = c THEN len ELSE 0

(* A client that never has more messages unanswered than the buffers towards  *)
(* it hold loses no echo, although the server drops what does not fit and     *)
(* works for several clients through one buffer: each message is still before *)
(* the server, in its buffer, on its way back, or read.                       *)
EchoesKept ==
    \A c \in Clients :
        pc # "dead" /\ c \notin greedy /\ (Pending(c) \/ Connected(c)) =>
            sent[c] = inbox[c] + InBuf(c) + outbox[c] + received[c]

(* What a client has sent is read and its end noticed, and while a descriptor *)
(* is free nobody stays in the queue, however many arrive at once, unless the *)
(* server dies; nobody has to send anything more for it.                      *)
AllServed ==
    /\ \A f \in Fds : (f \in reg /\ Readable(f)) ~> (f \notin reg \/ ~Readable(f) \/ pc = "dead")
    /\ \A c \in Clients : Pending(c) ~> (~Pending(c) \/ FreeFds = {} \/ pc = "dead")
====
