---- MODULE ThreadServer ----
(* chapter06/src/multi_conn_threads_server.c: main accepts into one local     *)
(* variable, clientfd, and passes its ADDRESS to a new thread, which reads it *)
(* only when it first runs. The descriptors are numbers, reused when closed.  *)
EXTENDS ChatClient

CONSTANTS MaxFds,      \* numbers the process's limit leaves for connections
          MaxRefused,  \* bound: threads whose malloc fails
          MaxLost,     \* bound: failures of pthread_create
          Eager        \* TRUE: only schedules in which a thread reads its
                       \* argument before the next connection is accepted

NoConn == "none"
NoFd == 0

ASSUME ThreadAssumption == /\ MaxFds \in Nat
                           /\ MaxRefused \in Nat /\ MaxLost \in Nat /\ Eager \in BOOLEAN
                           /\ IsFiniteSet(Clients) /\ NoConn \notin Clients

VARIABLES mpc,       \* main: in accept, creating a thread, or on its way out
          clientfd,  \* main's local, shared with every thread
          accepted,  \* the connections accepted so far, in order
          fdtab,     \* the connection behind each descriptor, or NoConn
          tpc,       \* each thread; thread i was created for accepted[i]
          tfd,       \* each thread's own copy of the descriptor
          alive,     \* the server process runs
          refused,   \* threads that found no memory
          lost       \* connections whose thread could not be created

svars == <<mpc, clientfd, accepted, fdtab, tpc, tfd, alive, refused, lost>>
vars == <<cvars, lvars, backlog, svars>>

Threads == 1 .. Cardinality(Clients)
Descriptors == 1 .. MaxFds

Init == /\ ClientInit
        /\ mpc = "accept"
        /\ clientfd = NoFd
        /\ accepted = <<>>
        /\ fdtab = [f \in Descriptors |-> NoConn]
        /\ tpc = [i \in Threads |-> "none"]
        /\ tfd = [i \in Threads |-> NoFd]
        /\ alive = TRUE
        /\ refused = {}
        /\ lost = {}

(* The process ends: every connection is closed, every thread is gone.        *)
Crash ==
    /\ alive' = FALSE
    /\ CloseServerEnd({fdtab[f] : f \in Descriptors} \ {NoConn})
    /\ fdtab' = [f \in Descriptors |-> NoConn]
    /\ tpc' = [i \in Threads |-> IF tpc[i] = "none" THEN "none" ELSE "done"]

-----------------------------------------------------------------------------
(* main                                                                       *)

FreeFds == {f \in Descriptors : fdtab[f] = NoConn}
LowestFree == CHOOSE f \in FreeFds : \A g \in FreeFds : f <= g

(* accept returns the lowest free descriptor and overwrites clientfd, whoever *)
(* still has to read it.                                                      *)
Accept ==
    /\ alive
    /\ mpc = "accept"
    /\ backlog # <<>>
    /\ FreeFds # {}
    /\ Eager => \A i \in Threads : tpc[i] # "start"
    /\ clientfd' = LowestFree
    /\ fdtab' = [fdtab EXCEPT ![LowestFree] = Head(backlog)]
    /\ accepted' = Append(accepted, Head(backlog))
    /\ backlog' = Tail(backlog)
    /\ mpc' = "create"
    /\ UNCHANGED <<cvars, lvars, tpc, tfd, alive, refused, lost>>

(* Mutant: a failing accept is not looked at, and -1 goes to a thread.        *)
AcceptUnchecked ==
    /\ alive
    /\ mpc = "accept"
    /\ clientfd' = -1
    /\ mpc' = "create"
    /\ UNCHANGED <<cvars, lvars, backlog, accepted, fdtab, tpc, tfd, alive, refused, lost>>

(* accept fails: of itself whenever the table is full (EMFILE, even if nobody *)
(* has connected), and at any time for a connection that broke in the queue   *)
(* or a kernel out of files or memory. handle_error ends the WHOLE process.   *)
AcceptFails ==
    /\ alive
    /\ mpc = "accept"
    /\ mpc' = "exit"
    /\ Crash
    /\ UNCHANGED <<cvars, backlog, clientfd, accepted, tfd, refused, lost>>

(* pthread_create and pthread_detach                                          *)
CreateThread ==
    /\ alive
    /\ mpc = "create"
    /\ tpc' = [tpc EXCEPT ![Len(accepted)] = "start"]
    /\ mpc' = "accept"
    /\ UNCHANGED <<cvars, lvars, backlog, clientfd, accepted, fdtab, tfd, alive, refused, lost>>

(* pthread_create fails: handle_error looks at pid_read, which is unsigned    *)
(* and never negative, so the loop goes on; pthread_detach of a stale or      *)
(* uninitialized identifier is undefined: it fails, or the process crashes.   *)
CreateFails ==
    /\ alive
    /\ mpc = "create"
    /\ Cardinality(lost) < MaxLost
    /\ lost' = lost \cup {accepted[Len(accepted)]}
    /\ mpc' = "accept"
    /\ \/ UNCHANGED <<lvars, fdtab, tpc, alive>>
       \/ Crash
    /\ UNCHANGED <<cvars, backlog, clientfd, accepted, tfd, refused>>

-----------------------------------------------------------------------------
(* read_from_write_thread                                                     *)

(* Mutant: a thread whose malloc fails returns without close(clientfd).       *)
ReadArgumentLeaks(i) ==
    /\ alive
    /\ tpc[i] = "start"
    /\ tfd' = [tfd EXCEPT ![i] = clientfd]
    /\ \/ /\ tpc' = [tpc EXCEPT ![i] = "recv"]
          /\ UNCHANGED refused
       \/ /\ Cardinality(refused) < MaxRefused
          /\ tpc' = [tpc EXCEPT ![i] = "done"]
          /\ refused' = refused \cup {i}
    /\ UNCHANGED <<cvars, lvars, backlog, mpc, clientfd, accepted, fdtab, alive, lost>>

(* The argument is dereferenced (line 5) and both buffers are allocated.      *)
ReadArgument(i) ==
    /\ alive
    /\ tpc[i] = "start"
    /\ tfd' = [tfd EXCEPT ![i] = clientfd]
    /\ \/ /\ tpc' = [tpc EXCEPT ![i] = "recv"]
          /\ UNCHANGED refused
       \/ /\ Cardinality(refused) < MaxRefused
          /\ tpc' = [tpc EXCEPT ![i] = "close"]
          /\ refused' = refused \cup {i}
    /\ UNCHANGED <<cvars, lvars, backlog, mpc, clientfd, accepted, fdtab, alive, lost>>

Conn(i) == fdtab[tfd[i]]

(* recv returns 0, or an error: EBADF when another thread closed the number.  *)
RecvEnds(i) == IF Conn(i) = NoConn THEN TRUE
               ELSE inbox[Conn(i)] = 0 /\ fin[Conn(i)]

(* send may fail: EBADF, or the peer is gone.                                 *)
SendMayFail(i) == IF Conn(i) = NoConn THEN TRUE ELSE PeerGone(Conn(i))

(* Mutant: the end of the stream closes the descriptor, which is then closed  *)
(* once more at the end of the function.                                      *)
RecvCloses(i) ==
    /\ alive
    /\ tpc[i] = "recv"
    /\ \/ /\ Conn(i) # NoConn
          /\ \E k \in 1 .. inbox[Conn(i)] : TakeLines(Conn(i), k)
          /\ tpc' = [tpc EXCEPT ![i] = "send"]
          /\ UNCHANGED fdtab
       \/ /\ RecvEnds(i)
          /\ tpc' = [tpc EXCEPT ![i] = "close"]
          /\ IF Conn(i) = NoConn THEN UNCHANGED lvars ELSE CloseServerEnd({Conn(i)})
          /\ fdtab' = [fdtab EXCEPT ![tfd[i]] = NoConn]
    /\ UNCHANGED <<cvars, backlog, mpc, clientfd, accepted, tfd, alive, refused, lost>>

(* The loop over recv: one reply per successful call, or the way out.         *)
Recv(i) ==
    /\ alive
    /\ tpc[i] = "recv"
    /\ \/ /\ Conn(i) # NoConn
          /\ \E k \in 1 .. inbox[Conn(i)] : TakeLines(Conn(i), k)
          /\ tpc' = [tpc EXCEPT ![i] = "send"]
       \/ /\ RecvEnds(i)
          /\ tpc' = [tpc EXCEPT ![i] = "close"]
          /\ UNCHANGED lvars
    /\ UNCHANGED <<cvars, backlog, mpc, clientfd, accepted, fdtab, tfd, alive, refused, lost>>

(* send; a failure is the end of the WHOLE process: handle_error calls exit,  *)
(* and SIGPIPE is not ignored.                                                *)
Send(i) ==
    /\ alive
    /\ tpc[i] = "send"
    /\ \/ /\ Conn(i) # NoConn
          /\ PutReply(Conn(i))
          /\ tpc' = [tpc EXCEPT ![i] = "recv"]
          /\ UNCHANGED <<alive, fdtab>>
       \/ /\ SendMayFail(i)
          /\ Crash
    /\ UNCHANGED <<cvars, backlog, mpc, clientfd, accepted, tfd, refused, lost>>

(* Mutant: a thread leaves without close(clientfd).                           *)
CloseFdForgotten(i) ==
    /\ alive
    /\ tpc[i] = "close"
    /\ tpc' = [tpc EXCEPT ![i] = "done"]
    /\ UNCHANGED <<cvars, lvars, backlog, mpc, clientfd, accepted, fdtab, tfd, alive, refused, lost>>

(* close(clientfd): of whatever connection the number stands for now.         *)
CloseFd(i) ==
    /\ alive
    /\ tpc[i] = "close"
    /\ tpc' = [tpc EXCEPT ![i] = "done"]
    /\ IF Conn(i) = NoConn THEN UNCHANGED lvars ELSE CloseServerEnd({Conn(i)})
    /\ fdtab' = [fdtab EXCEPT ![tfd[i]] = NoConn]
    /\ UNCHANGED <<cvars, backlog, mpc, clientfd, accepted, tfd, alive, refused, lost>>

ThreadStep(i) == ReadArgument(i) \/ Recv(i) \/ Send(i) \/ CloseFd(i)

-----------------------------------------------------------------------------
(* Once the server is gone its port refuses connections, and those the        *)
(* kernel had queued are reset.                                               *)
ConnectRefused(c) ==
    /\ ~alive
    /\ cpc[c] = "new"
    /\ cpc' = [cpc EXCEPT ![c] = "refused"]
    /\ UNCHANGED <<writer, reader, sent, got, lvars, backlog, svars>>

ResetQueued ==
    /\ ~alive
    /\ backlog # <<>>
    /\ backlog' = <<>>
    /\ LET queued == {backlog[j] : j \in 1 .. Len(backlog)}
       IN  /\ closed' = [c \in Clients |-> closed[c] \/ c \in queued]
           /\ reset' = [c \in Clients |-> reset[c] \/ c \in queued]
    /\ UNCHANGED <<cvars, inbox, outbox, fin, svars>>

ClientNext(c) ==
    \/ /\ ClientStep(c) \/ Abort(c)
       /\ cpc[c] = "new" => alive
       /\ UNCHANGED svars
    \/ ConnectRefused(c)

Next == \/ Accept \/ AcceptFails \/ CreateThread \/ CreateFails \/ ResetQueued
        \/ \E i \in Threads : ThreadStep(i)
        \/ \E c \in Clients : ClientNext(c)

Spec == Init /\ [][Next]_vars

Fairness ==
    /\ WF_vars(Accept \/ CreateThread \/ ResetQueued \/ (FreeFds = {} /\ AcceptFails))
    /\ \A i \in Threads : WF_vars(ThreadStep(i))
    /\ \A c \in Clients :
        /\ WF_vars(((alive /\ Connect(c)) \/ EndOfInput(c) \/ CloseClient(c)) /\ UNCHANGED svars)
        /\ WF_vars(ConnectRefused(c))
        /\ WF_vars(ReadReplies(c) /\ UNCHANGED svars)

FairSpec == Spec /\ Fairness

-----------------------------------------------------------------------------
(* Types of the variables.                                                    *)
TypeOK ==
    /\ ClientTypeOK
    /\ mpc \in {"accept", "create", "exit"}
    /\ clientfd \in Descriptors \cup {NoFd}
    /\ accepted \in Seq(Clients)
    /\ fdtab \in [Descriptors -> Clients \cup {NoConn}]
    /\ tpc \in [Threads -> {"none", "start", "recv", "send", "close", "done"}]
    /\ tfd \in [Threads -> Descriptors \cup {NoFd}]
    /\ alive \in BOOLEAN
    /\ refused \in SUBSET Threads
    /\ lost \in SUBSET Clients

Serving(i) == tpc[i] \in {"recv", "send", "close"}

(* "every client is handled by its own thread", "every client has its own     *)
(* socket": two threads at work never use one descriptor, and each uses the   *)
(* connection it was created for, from its first recv to its close.           *)
OneThreadPerClient ==
    \A i \in Threads : Serving(i) =>
        /\ Conn(i) = accepted[i]
        /\ \A j \in Threads : Serving(j) /\ tfd[i] = tfd[j] => i = j

(* An open connection has a thread, or is about to: only a failing            *)
(* pthread_create leaves one behind. And the server falls only to that, to an *)
(* error of accept, or to a client that was interrupted: what clients say and *)
(* when they end, within their protocol, never cuts off the others.           *)
NoneOrphaned ==
    /\ \A f \in Descriptors :
          fdtab[f] \notin lost \cup {NoConn} =>
              \/ mpc = "create" /\ clientfd = f
              \/ \E i \in Threads : \/ tpc[i] = "start" /\ accepted[i] = fdtab[f]
                                    \/ Serving(i) /\ tfd[i] = f
    /\ alive \/ mpc = "exit" \/ lost # {} \/ \E c \in Clients : cpc[c] = "aborted"

(* While the server runs, a client that was not refused hears the end of the  *)
(* stream only after all it sent was read, and with at least one reply if it  *)
(* sent anything: no thread closes another's descriptor or reads its lines.   *)
AnsweredBeforeClose ==
    alive => \A c \in Clients \ lost :
        (\A i \in refused : accepted[i] # c) =>
            /\ got[c] + outbox[c] + inbox[c] <= sent[c]
            /\ reader[c] = "done" /\ cpc[c] \in {"open", "done"} =>
                 inbox[c] = 0 /\ (sent[c] > 0 => got[c] > 0)
            /\ cpc[c] # "sigpipe" /\ (cpc[c] = "open" => ~reset[c])

(* Every client that has ended its input terminates, even when the server     *)
(* falls: its connection is served, reset or closed, unless its thread could  *)
(* not be created.                                                            *)
ClientsFinish ==
    \A c \in Clients :
        (cpc[c] = "open" /\ writer[c] = "done")
            ~> (cpc[c] \notin {"new", "open"} \/ c \in lost)
====
