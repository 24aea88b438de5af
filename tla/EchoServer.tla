---- MODULE EchoServer ----
(* project/tcp_udp_server/src/tcp_echo_server.c: one process, one client at a *)
(* time, from accept to close. The clients are those of ChatClient; the       *)
(* project's own client has the same two threads.                             *)
EXTENDS ChatClient

VARIABLES epc,      \* accept, recv, send, close, or dead
          ecur,     \* client_fd: the client being served, once there was one
          held      \* lines in buffer

evars == <<cvars, lvars, backlog, epc, ecur, held>>

Serving == epc \in {"recv", "send", "close"}

EchoInit ==
    /\ ClientInit
    /\ epc = "accept"
    /\ ecur \in Clients
    /\ held = 0

EchoAccept ==
    /\ epc = "accept"
    /\ backlog # <<>>
    /\ ecur' = Head(backlog)
    /\ backlog' = Tail(backlog)
    /\ epc' = "recv"
    /\ UNCHANGED <<cvars, lvars, held>>

(* Mutant: the end of the stream is acted on with data before it.             *)
EchoRecvEndFirst ==
    /\ epc = "recv"
    /\ \/ /\ \E k \in 1 .. inbox[ecur] : TakeLines(ecur, k) /\ held' = k
          /\ epc' = "send"
       \/ /\ fin[ecur]
          /\ epc' = "close"
          /\ UNCHANGED <<lvars, held>>
    /\ UNCHANGED <<cvars, backlog, ecur>>

(* recv: data, or 0 or an error, on either of which the loop is left.         *)
EchoRecv ==
    /\ epc = "recv"
    /\ \/ /\ \E k \in 1 .. inbox[ecur] : TakeLines(ecur, k) /\ held' = k
          /\ epc' = "send"
       \/ /\ inbox[ecur] = 0 /\ fin[ecur]
          /\ epc' = "close"
          /\ UNCHANGED <<lvars, held>>
    /\ UNCHANGED <<cvars, backlog, ecur>>

(* Everything received goes back. To a client that has gone send fails, which *)
(* also leaves the loop, or raises SIGPIPE, which ends the server.            *)
EchoSend ==
    /\ epc = "send"
    /\ held' = 0
    /\ \/ /\ outbox' = [outbox EXCEPT ![ecur] = @ + held]
          /\ epc' = "recv"
          /\ UNCHANGED <<backlog, inbox, fin, closed, reset>>
       \/ /\ PeerGone(ecur)
          /\ epc' = "close"
          /\ UNCHANGED <<lvars, backlog>>
       \/ /\ PeerGone(ecur)
          /\ epc' = "dead"
          /\ CloseServerEnd({ecur})
          /\ UNCHANGED backlog
    /\ UNCHANGED <<cvars, ecur>>

(* Mutant: client_fd is not closed.                                           *)
EchoCloseForgotten ==
    /\ epc = "close"
    /\ epc' = "accept"
    /\ UNCHANGED <<cvars, lvars, backlog, ecur, held>>

EchoClose ==
    /\ epc = "close"
    /\ CloseServerEnd({ecur})
    /\ epc' = "accept"
    /\ UNCHANGED <<cvars, backlog, ecur, held>>

(* The dead server's listener takes its queue with it.                        *)
EchoQueueReset ==
    /\ epc = "dead"
    /\ backlog # <<>>
    /\ reset' = [reset EXCEPT ![Head(backlog)] = TRUE]
    /\ closed' = [closed EXCEPT ![Head(backlog)] = TRUE]
    /\ backlog' = Tail(backlog)
    /\ UNCHANGED <<cvars, inbox, outbox, fin, epc, ecur, held>>

EchoRefuses(k) ==
    /\ epc = "dead"
    /\ cpc[k] = "new"
    /\ cpc' = [cpc EXCEPT ![k] = "refused"]
    /\ UNCHANGED <<writer, reader, sent, got, lvars, backlog, epc, ecur, held>>

echo_server == EchoAccept \/ EchoRecv \/ EchoSend \/ EchoClose \/ EchoQueueReset

(* The threads of a client that need no user.                                 *)
echo_reader(k) ==
    /\ ReadReplies(k) \/ CloseClient(k)
    /\ UNCHANGED <<epc, ecur, held>>

echo_user(k) ==
    /\ (epc # "dead" /\ Connect(k)) \/ SendLine(k) \/ EndOfInput(k) \/ Abort(k)
    /\ UNCHANGED <<epc, ecur, held>>

EchoNext == echo_server \/ \E k \in Clients : echo_reader(k) \/ echo_user(k) \/ EchoRefuses(k)

EchoSpec == EchoInit /\ [][EchoNext]_evars

-----------------------------------------------------------------------------
EchoTypeOK ==
    /\ ClientTypeOK
    /\ epc \in {"accept", "recv", "send", "close", "dead"}
    /\ ecur \in Clients
    /\ held \in Nat

(* The server has no way of telling how many lines one recv returned, or that *)
(* the client has half-closed behind them: still, unless a client was         *)
(* interrupted or the server died, a connection the server has closed was not *)
(* reset, and every line sent on it has come back or is on its way.           *)
EchoedInFull ==
    epc # "dead" =>
        \A k \in Clients :
            /\ closed[k] /\ cpc[k] \in {"open", "done"} =>
                  ~reset[k] /\ got[k] + outbox[k] = sent[k]
            /\ cpc[k] = "done" => got[k] = sent[k]

(* A client whose user has ended the input is served to the end and closes,   *)
(* unless the server dies, or is from some time on held by another client     *)
(* whose user never ends the input.                                           *)
TurnComes ==
    \A k \in Clients :
        (cpc[k] = "open" /\ writer[k] = "done")
            ~> \/ cpc[k] # "open" \/ epc = "dead"
               \/ [](Serving /\ ecur # k /\ cpc[ecur] = "open" /\ writer[ecur] = "write")
====
