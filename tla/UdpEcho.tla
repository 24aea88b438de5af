---- MODULE UdpEcho ----
(* chapter06/src/udp_conn_client.c and udp_conn_server.c: each client sends   *)
(* the line typed and waits, without a timeout, for one answer; the server    *)
(* answers one datagram after the other. A datagram to a port nobody has      *)
(* bound, or to a full receive buffer, vanishes without an error.             *)
EXTENDS Integers, Sequences, FiniteSets

CONSTANTS UdpClients,
          Stranger,    \* any other program that sends to the server's port
          RcvBuf,      \* datagrams the server's receive buffer holds
          MaxLines,    \* bound: lines typed at each client
          MaxStarts,   \* bound: times the server is started
          MaxStray     \* bound: datagrams of the stranger

ASSUME UdpAssumption == /\ Stranger \notin UdpClients
                        /\ RcvBuf \in Nat \ {0}
                        /\ MaxLines \in Nat /\ MaxStarts \in Nat /\ MaxStray \in Nat

VARIABLES spc,        \* the server: off, or the call it is in
          rcvqueue,   \* the server's receive buffer: sender and text
          client_addr,
          asker,      \* each client: reading a line, waiting, or over
          answers,    \* datagrams in each client's receive buffer
          lines,      \* lines each client has sent
          vanished,   \* clients whose request or answer was lost
          starts, stray

uvars == <<spc, rcvqueue, client_addr, asker, answers, lines, vanished, starts, stray>>

Senders == UdpClients \cup {Stranger}
Datagram == [from : Senders, text : {"line", "empty", "EOF"}]

UdpInit ==
    /\ spc = "off"
    /\ rcvqueue = <<>>
    /\ client_addr = Stranger
    /\ asker = [k \in UdpClients |-> "input"]
    /\ answers = [k \in UdpClients |-> 0]
    /\ lines = [k \in UdpClients |-> 0]
    /\ vanished = {}
    /\ starts = 0
    /\ stray = 0

-----------------------------------------------------------------------------
(* The server.                                                                *)

(* socket and bind                                                            *)
UdpBind ==
    /\ spc = "off"
    /\ starts < MaxStarts
    /\ starts' = starts + 1
    /\ spc' = "recvfrom"
    /\ UNCHANGED <<rcvqueue, client_addr, asker, answers, lines, vanished, stray>>

(* close: whatever has not been read goes with the socket.                    *)
UdpClose(lost) ==
    /\ spc' = "off"
    /\ rcvqueue' = <<>>
    /\ vanished' = vanished \cup lost \cup {rcvqueue[i].from : i \in DOMAIN rcvqueue}

(* recvfrom; a datagram of length 0 counts as a failure, and "EOF" is the end.*)
Recvfrom ==
    /\ spc = "recvfrom"
    /\ rcvqueue # <<>>
    /\ client_addr' = Head(rcvqueue).from
    /\ IF Head(rcvqueue).text = "line"
       THEN /\ rcvqueue' = Tail(rcvqueue)
            /\ spc' = "sendto"
            /\ UNCHANGED vanished
       ELSE UdpClose({})
    /\ UNCHANGED <<asker, answers, lines, starts, stray>>

(* "OK" goes back, and is dropped if the client has been closed.              *)
Sendto ==
    /\ spc = "sendto"
    /\ spc' = "recvfrom"
    /\ LET waits == {k \in UdpClients : k = client_addr /\ asker[k] = "wait"}
       IN  answers' = [k \in UdpClients |-> IF k \in waits THEN answers[k] + 1 ELSE answers[k]]
    /\ UNCHANGED <<rcvqueue, client_addr, asker, lines, vanished, starts, stray>>

(* sendto fails: exit(EXIT_FAILURE).                                          *)
SendtoFails ==
    /\ spc = "sendto"
    /\ UdpClose({client_addr})
    /\ UNCHANGED <<client_addr, asker, answers, lines, starts, stray>>

udp_server == Recvfrom \/ Sendto

-----------------------------------------------------------------------------
(* The clients.                                                               *)

Deliver(from, text) ==
    IF spc = "off" \/ Len(rcvqueue) = RcvBuf
    THEN /\ vanished' = vanished \cup {from}
         /\ UNCHANGED rcvqueue
    ELSE /\ rcvqueue' = Append(rcvqueue, [from |-> from, text |-> text])
         /\ UNCHANGED vanished

(* A line without its '\n', possibly nothing at all, is sent as it is.        *)
SendtoServer(k) ==
    /\ asker[k] = "input"
    /\ lines[k] < MaxLines
    /\ lines' = [lines EXCEPT ![k] = @ + 1]
    /\ asker' = [asker EXCEPT ![k] = "wait"]
    /\ \E text \in {"line", "empty"} : Deliver(k, text)
    /\ UNCHANGED <<spc, client_addr, answers, starts, stray>>

(* "EOF" and the end of input only end the client: nothing is sent.           *)
QuitClient(k) ==
    /\ asker[k] = "input"
    /\ asker' = [asker EXCEPT ![k] = "over"]
    /\ UNCHANGED <<spc, rcvqueue, client_addr, answers, lines, vanished, starts, stray>>

(* Mutant: the answer is only looked at (MSG_PEEK).                           *)
RecvfromPeeks(k) ==
    /\ asker[k] = "wait"
    /\ answers[k] > 0
    /\ asker' = [asker EXCEPT ![k] = "input"]
    /\ UNCHANGED <<spc, rcvqueue, client_addr, answers, lines, vanished, starts, stray>>

RecvfromServer(k) ==
    /\ asker[k] = "wait"
    /\ answers[k] > 0
    /\ answers' = [answers EXCEPT ![k] = @ - 1]
    /\ asker' = [asker EXCEPT ![k] = "input"]
    /\ UNCHANGED <<spc, rcvqueue, client_addr, lines, vanished, starts, stray>>

(* The user interrupts a client that waits; its socket is closed.             *)
InterruptClient(k) ==
    /\ asker[k] = "wait"
    /\ asker' = [asker EXCEPT ![k] = "over"]
    /\ answers' = [answers EXCEPT ![k] = 0]
    /\ UNCHANGED <<spc, rcvqueue, client_addr, lines, vanished, starts, stray>>

StrangerSends ==
    /\ stray < MaxStray
    /\ stray' = stray + 1
    /\ \E text \in {"line", "empty", "EOF"} : Deliver(Stranger, text)
    /\ UNCHANGED <<spc, client_addr, asker, answers, lines, starts>>

UdpNext ==
    \/ UdpBind \/ udp_server \/ SendtoFails \/ StrangerSends
    \/ \E k \in UdpClients : \/ SendtoServer(k) \/ QuitClient(k)
                             \/ RecvfromServer(k) \/ InterruptClient(k)

UdpSpec == UdpInit /\ [][UdpNext]_uvars

-----------------------------------------------------------------------------
UdpTypeOK ==
    /\ spc \in {"off", "recvfrom", "sendto"}
    /\ rcvqueue \in Seq(Datagram)
    /\ Len(rcvqueue) <= RcvBuf
    /\ spc = "off" => rcvqueue = <<>>
    /\ client_addr \in Senders
    /\ asker \in [UdpClients -> {"input", "wait", "over"}]
    /\ answers \in [UdpClients -> Nat]
    /\ lines \in [UdpClients -> 0 .. MaxLines]
    /\ vanished \in SUBSET Senders
    /\ starts \in 0 .. MaxStarts
    /\ stray \in 0 .. MaxStray

(* What there is of client k between its request and its answer.              *)
Queued(k) == {i \in DOMAIN rcvqueue : rcvqueue[i].from = k}
BeingAnswered(k) == spc = "sendto" /\ client_addr = k

(* Requests and answers stay in step although nothing numbers them: a client  *)
(* about to send has nothing of its own on the way, and one that waits has    *)
(* its request in the server, or its answer before it, never both, never two, *)
(* or has lost one of them and waits for ever. The server's restarts, other   *)
(* clients and strangers change nothing of it.                                *)
InStep ==
    \A k \in UdpClients :
        /\ asker[k] = "input" =>
              Queued(k) = {} /\ ~BeingAnswered(k) /\ answers[k] = 0 /\ k \notin vanished
        /\ asker[k] = "wait" =>
              \/ k \in vanished /\ Queued(k) = {} /\ ~BeingAnswered(k) /\ answers[k] = 0
              \/ k \notin vanished /\ Cardinality(Queued(k)) = 1 /\ ~BeingAnswered(k) /\ answers[k] = 0
              \/ k \notin vanished /\ Queued(k) = {} /\ BeingAnswered(k) /\ answers[k] = 0
              \/ k \notin vanished /\ Queued(k) = {} /\ ~BeingAnswered(k) /\ answers[k] = 1

(* A client that waits is answered, unless its datagram vanished: the server  *)
(* had not been started, its buffer was full, or it ended before, which one   *)
(* empty line of any client is enough for.                                    *)
UdpAnswered ==
    \A k \in UdpClients : asker[k] = "wait" ~> (asker[k] # "wait" \/ k \in vanished)
====
