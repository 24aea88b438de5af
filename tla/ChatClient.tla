---- MODULE ChatClient ----
(* The clients of the two chapter06 servers on port 6666 (multi_conn_process_ *)
(* client.c and multi_conn_threads_client.c are the same program): a thread   *)
(* that sends the lines typed and half-closes at end of input, a thread that  *)
(* reads replies until end of stream, and main, which joins both and closes.  *)
(* The TCP connection between a client and the server is part of the module.  *)
(* The modules of the servers extend this one.                                *)
EXTENDS Integers, Sequences, FiniteSets

CONSTANTS Clients,     \* the client processes, each with one connection
          MaxMessage   \* bound: lines typed at each client

ASSUME MessageAssumption == MaxMessage \in [Clients -> Nat]

VARIABLES cpc,      \* each client process
          writer,   \* its thread write_to_server
          reader,   \* its thread read_from_server
          sent,     \* lines sent on the connection
          got,      \* replies read by the client
          inbox,    \* lines the server has not read yet
          outbox,   \* replies the client has not read yet
          fin,      \* the client's direction is shut down
          closed,   \* the server's end is closed by everyone who held it
          reset,    \* the connection was reset
          backlog   \* connections waiting for accept

cvars == <<cpc, writer, reader, sent, got>>
lvars == <<inbox, outbox, fin, closed, reset>>

ClientInit ==
    /\ cpc = [c \in Clients |-> "new"]
    /\ writer = [c \in Clients |-> "idle"]
    /\ reader = [c \in Clients |-> "idle"]
    /\ sent = [c \in Clients |-> 0]
    /\ got = [c \in Clients |-> 0]
    /\ inbox = [c \in Clients |-> 0]
    /\ outbox = [c \in Clients |-> 0]
    /\ fin = [c \in Clients |-> FALSE]
    /\ closed = [c \in Clients |-> FALSE]
    /\ reset = [c \in Clients |-> FALSE]
    /\ backlog = <<>>

ClientTypeOK ==
    /\ cpc \in [Clients -> {"new", "open", "done", "refused", "aborted", "sigpipe"}]
    /\ writer \in [Clients -> {"idle", "write", "done"}]
    /\ reader \in [Clients -> {"idle", "recv", "done"}]
    /\ sent \in [Clients -> Nat]
    /\ \A c \in Clients : sent[c] <= MaxMessage[c]
    /\ got \in [Clients -> Nat]
    /\ inbox \in [Clients -> Nat]
    /\ outbox \in [Clients -> Nat]
    /\ fin \in [Clients -> BOOLEAN]
    /\ closed \in [Clients -> BOOLEAN]
    /\ reset \in [Clients -> BOOLEAN]
    /\ backlog \in Seq(Clients)

-----------------------------------------------------------------------------
(* socket, connect, and the creation of both threads. The kernel completes    *)
(* the connection; accept picks it up later.                                  *)
Connect(c) ==
    /\ cpc[c] = "new"
    /\ cpc' = [cpc EXCEPT ![c] = "open"]
    /\ writer' = [writer EXCEPT ![c] = "write"]
    /\ reader' = [reader EXCEPT ![c] = "recv"]
    /\ backlog' = Append(backlog, c)
    /\ UNCHANGED <<sent, got, lvars>>

(* The client process ends without completing its protocol.                   *)
Die(c, how) ==
    /\ cpc' = [cpc EXCEPT ![c] = how]
    /\ writer' = [writer EXCEPT ![c] = "done"]
    /\ reader' = [reader EXCEPT ![c] = "done"]
    /\ fin' = [fin EXCEPT ![c] = TRUE]

(* send of one line. The first send after the server closed is answered by a  *)
(* reset; a send on a reset connection kills the client (SIGPIPE, or          *)
(* exit(EXIT_FAILURE) when send reports the error).                           *)
SendLine(c) ==
    /\ cpc[c] = "open"
    /\ writer[c] = "write"
    /\ sent[c] < MaxMessage[c]
    /\ \/ /\ reset[c]
          /\ Die(c, "sigpipe")
          /\ UNCHANGED <<sent, inbox, reset>>
       \/ /\ ~reset[c]
          /\ sent' = [sent EXCEPT ![c] = @ + 1]
          /\ IF closed[c] THEN reset' = [reset EXCEPT ![c] = TRUE] /\ UNCHANGED inbox
                          ELSE inbox' = [inbox EXCEPT ![c] = @ + 1] /\ UNCHANGED reset
          /\ UNCHANGED <<cpc, writer, reader, fin>>
    /\ UNCHANGED <<got, outbox, closed, backlog>>

(* fgets returns NULL: shutdown(SHUT_WR), and the thread ends.                *)
EndOfInput(c) ==
    /\ cpc[c] = "open"
    /\ writer[c] = "write"
    /\ writer' = [writer EXCEPT ![c] = "done"]
    /\ fin' = [fin EXCEPT ![c] = TRUE]
    /\ UNCHANGED <<cpc, reader, sent, got, inbox, outbox, closed, reset, backlog>>

(* recv takes every reply that has arrived; 0 or an error ends the thread.    *)
ReadReplies(c) ==
    /\ cpc[c] = "open"
    /\ reader[c] = "recv"
    /\ \/ /\ outbox[c] > 0
          /\ got' = [got EXCEPT ![c] = @ + outbox[c]]
          /\ outbox' = [outbox EXCEPT ![c] = 0]
          /\ UNCHANGED reader
       \/ /\ outbox[c] = 0
          /\ closed[c] \/ reset[c]
          /\ reader' = [reader EXCEPT ![c] = "done"]
          /\ UNCHANGED <<got, outbox>>
    /\ UNCHANGED <<cpc, writer, sent, inbox, fin, closed, reset, backlog>>

(* main has joined both threads and closes the socket.                        *)
CloseClient(c) ==
    /\ cpc[c] = "open"
    /\ reader[c] = "done"
    /\ writer[c] = "done"
    /\ cpc' = [cpc EXCEPT ![c] = "done"]
    /\ UNCHANGED <<writer, reader, sent, got, lvars, backlog>>

(* The user interrupts the client.                                            *)
Abort(c) ==
    /\ cpc[c] = "open"
    /\ Die(c, "aborted")
    /\ UNCHANGED <<sent, got, inbox, outbox, closed, reset, backlog>>

(* A client whose user presses Ctrl+D in the end.                             *)
ClientStep(c) ==
    Connect(c) \/ SendLine(c) \/ EndOfInput(c) \/ ReadReplies(c) \/ CloseClient(c)

-----------------------------------------------------------------------------
(* The server's end of a connection, used by the server modules.              *)

(* recv has something to return.                                              *)
Readable(c) == inbox[c] > 0 \/ fin[c]

(* The peer process is gone, so that a send may fail.                         *)
PeerGone(c) == cpc[c] \notin {"new", "open"}

(* recv(…, 1024) > 0: TCP has no message boundaries, so one call may return   *)
(* several lines; no line is longer than the buffer, so it finishes at least  *)
(* one.                                                                       *)
TakeLines(c, k) ==
    /\ k \in 1 .. inbox[c]
    /\ inbox' = [inbox EXCEPT ![c] = @ - k]
    /\ UNCHANGED <<outbox, fin, closed, reset>>

PutReply(c) ==
    /\ outbox' = [outbox EXCEPT ![c] = @ + 1]
    /\ UNCHANGED <<inbox, fin, closed, reset>>

(* The connections of S are closed by their last holder: a close with unread  *)
(* data resets the connection.                                                *)
CloseServerEnd(S) ==
    /\ closed' = [c \in Clients |-> closed[c] \/ c \in S]
    /\ reset' = [c \in Clients |-> reset[c] \/ (c \in S /\ inbox[c] > 0)]
    /\ UNCHANGED <<inbox, outbox, fin>>
====
