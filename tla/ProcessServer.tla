---- MODULE ProcessServer ----
(* chapter06/src/multi_conn_process_server.c: the parent accepts connections  *)
(* and forks a child for each; SIGCHLD, which does not queue, runs a handler  *)
(* that reaps children while it finds any. The handler interrupts the parent  *)
(* between any two of its steps; signal() installs it with SA_RESTART, so     *)
(* accept is resumed and its EINTR branch (lines 127-131) never runs.         *)
EXTENDS ChatClient

CONSTANT MaxRefused   \* bound: connections lost to a failing fork or malloc

ASSUME RefusedAssumption == MaxRefused \in Nat

VARIABLES ppc,       \* the parent's loop
          cur,       \* clientfd: the connection just accepted
          handler,   \* zombie_handler: not running, in its loop, returning
          sigchld,   \* SIGCHLD is pending
          child,     \* the process serving each connection
          holders,   \* the processes that have each connection open
          served,    \* lines each child has read
          refused    \* connections no child could serve

svars == <<ppc, cur, handler, sigchld, child, holders, served, refused>>
vars == <<cvars, lvars, backlog, svars>>

Parent == "parent"
NoConn == "none"

(* A child is named by the connection it serves; none is named like the       *)
(* parent.                                                                    *)
ASSUME NameAssumption == Parent \notin Clients

ChildStates == {"none", "start", "recv", "send", "close", "exit", "zombie", "reaped"}

Init == /\ ClientInit
        /\ ppc = "accept"
        /\ cur = NoConn
        /\ handler = "off"
        /\ sigchld = FALSE
        /\ child = [c \in Clients |-> "none"]
        /\ holders = [c \in Clients |-> {}]
        /\ served = [c \in Clients |-> 0]
        /\ refused = {}

(* Process p closes the connections of S; those it was the last to hold are   *)
(* closed.                                                                    *)
Drop(p, S) ==
    /\ holders' = [c \in Clients |-> IF c \in S THEN holders[c] \ {p} ELSE holders[c]]
    /\ CloseServerEnd({c \in S : holders[c] = {p}})

-----------------------------------------------------------------------------
(* The parent.                                                                *)

Accept ==
    /\ ppc = "accept"
    /\ handler = "off"
    /\ backlog # <<>>
    /\ cur' = Head(backlog)
    /\ backlog' = Tail(backlog)
    /\ holders' = [holders EXCEPT ![Head(backlog)] = {Parent}]
    /\ ppc' = "fork"
    /\ UNCHANGED <<cvars, lvars, handler, sigchld, child, served, refused>>

(* fork: the child inherits every connection the parent holds.                *)
Fork ==
    /\ ppc = "fork"
    /\ handler = "off"
    /\ child' = [child EXCEPT ![cur] = "start"]
    /\ holders' = [c \in Clients |-> IF Parent \in holders[c] THEN holders[c] \cup {cur}
                                     ELSE holders[c]]
    /\ ppc' = "close"
    /\ UNCHANGED <<cvars, lvars, backlog, cur, handler, sigchld, served, refused>>

(* fork returns -1: the else branch is the parent's.                          *)
ForkFails ==
    /\ ppc = "fork"
    /\ handler = "off"
    /\ Cardinality(refused) < MaxRefused
    /\ refused' = refused \cup {cur}
    /\ ppc' = "close"
    /\ UNCHANGED <<cvars, lvars, backlog, cur, handler, sigchld, child, holders, served>>

(* Mutant: the parent forgets close(clientfd).                                *)
CloseConnForgotten ==
    /\ ppc = "close"
    /\ handler = "off"
    /\ ppc' = "accept"
    /\ UNCHANGED <<cvars, lvars, backlog, cur, handler, sigchld, child, holders, served, refused>>

CloseConn ==
    /\ ppc = "close"
    /\ handler = "off"
    /\ Drop(Parent, {cur})
    /\ ppc' = "accept"
    /\ UNCHANGED <<cvars, backlog, cur, handler, sigchld, child, served, refused>>

ParentStep == Accept \/ Fork \/ ForkFails \/ CloseConn

-----------------------------------------------------------------------------
(* zombie_handler. SIGCHLD is blocked while it runs.                          *)

Interrupt ==
    /\ sigchld
    /\ handler = "off"
    /\ sigchld' = FALSE
    /\ handler' = "loop"
    /\ UNCHANGED <<cvars, lvars, backlog, ppc, cur, child, holders, served, refused>>

(* Mutant: one child is reaped per signal.                                    *)
ReapOne ==
    /\ handler = "loop"
    /\ \E c \in Clients : /\ child[c] = "zombie"
                          /\ child' = [child EXCEPT ![c] = "reaped"]
    /\ handler' = "return"
    /\ UNCHANGED <<cvars, lvars, backlog, ppc, cur, sigchld, holders, served, refused>>

(* waitpid(-1, …, WNOHANG) > 0                                                *)
Reap ==
    /\ handler = "loop"
    /\ \E c \in Clients : /\ child[c] = "zombie"
                          /\ child' = [child EXCEPT ![c] = "reaped"]
    /\ UNCHANGED <<cvars, lvars, backlog, ppc, cur, handler, sigchld, holders, served, refused>>

(* waitpid finds no child that has ended.                                     *)
NothingToReap ==
    /\ handler = "loop"
    /\ \A c \in Clients : child[c] # "zombie"
    /\ handler' = "return"
    /\ UNCHANGED <<cvars, lvars, backlog, ppc, cur, sigchld, child, holders, served, refused>>

HandlerReturns ==
    /\ handler = "return"
    /\ handler' = "off"
    /\ UNCHANGED <<cvars, lvars, backlog, ppc, cur, sigchld, child, holders, served, refused>>

HandlerStep == Interrupt \/ Reap \/ NothingToReap \/ HandlerReturns

-----------------------------------------------------------------------------
(* The child of connection c.                                                 *)

(* Both buffers are allocated before the first recv; without them the         *)
(* connection is closed at once.                                              *)
Allocate(c) ==
    /\ child[c] = "start"
    /\ \/ /\ child' = [child EXCEPT ![c] = "recv"]
          /\ UNCHANGED refused
       \/ /\ Cardinality(refused) < MaxRefused
          /\ child' = [child EXCEPT ![c] = "close"]
          /\ refused' = refused \cup {c}
    /\ UNCHANGED <<cvars, lvars, backlog, ppc, cur, handler, sigchld, holders, served>>

(* Mutant: the end of the stream is noticed before the data still unread.     *)
ChildRecvEofFirst(c) ==
    /\ child[c] = "recv"
    /\ \/ /\ \E k \in 1 .. inbox[c] : /\ TakeLines(c, k)
                                      /\ served' = [served EXCEPT ![c] = @ + k]
          /\ child' = [child EXCEPT ![c] = "send"]
       \/ /\ fin[c]
          /\ child' = [child EXCEPT ![c] = "close"]
          /\ UNCHANGED <<lvars, served>>
    /\ UNCHANGED <<cvars, backlog, ppc, cur, handler, sigchld, holders, refused>>

(* recv > 0, or 0 (or an error) which ends the loop.                          *)
ChildRecv(c) ==
    /\ child[c] = "recv"
    /\ \/ /\ \E k \in 1 .. inbox[c] : /\ TakeLines(c, k)
                                      /\ served' = [served EXCEPT ![c] = @ + k]
          /\ child' = [child EXCEPT ![c] = "send"]
       \/ /\ inbox[c] = 0
          /\ fin[c]
          /\ child' = [child EXCEPT ![c] = "close"]
          /\ UNCHANGED <<lvars, served>>
    /\ UNCHANGED <<cvars, backlog, ppc, cur, handler, sigchld, holders, refused>>

(* A process ends: its descriptors are closed, it becomes a zombie and its    *)
(* parent is signalled.                                                       *)
Terminate(c) ==
    /\ child' = [child EXCEPT ![c] = "zombie"]
    /\ sigchld' = TRUE
    /\ Drop(c, Clients)

(* send of "收到", or the end of the child when the peer is gone: SIGPIPE      *)
(* kills it, or handle_error exits.                                           *)
ChildSend(c) ==
    /\ child[c] = "send"
    /\ \/ /\ PutReply(c)
          /\ child' = [child EXCEPT ![c] = "recv"]
          /\ UNCHANGED <<sigchld, holders>>
       \/ /\ PeerGone(c)
          /\ Terminate(c)
    /\ UNCHANGED <<cvars, backlog, ppc, cur, handler, served, refused>>

(* close(clientfd); main closes it a second time, which has no effect: the    *)
(* child has no other descriptor to reuse the number.                         *)
ChildClose(c) ==
    /\ child[c] = "close"
    /\ Drop(c, {c})
    /\ child' = [child EXCEPT ![c] = "exit"]
    /\ UNCHANGED <<cvars, backlog, ppc, cur, handler, sigchld, served, refused>>

(* Mutant: SIGCHLD left at its default would not tell the parent.             *)
ChildExitSilent(c) ==
    /\ child[c] = "exit"
    /\ child' = [child EXCEPT ![c] = "zombie"]
    /\ Drop(c, Clients)
    /\ UNCHANGED <<cvars, backlog, ppc, cur, handler, sigchld, served, refused>>

(* _exit(0)                                                                   *)
ChildExit(c) ==
    /\ child[c] = "exit"
    /\ Terminate(c)
    /\ UNCHANGED <<cvars, backlog, ppc, cur, handler, served, refused>>

ChildStep(c) ==
    Allocate(c) \/ ChildRecv(c) \/ ChildSend(c) \/ ChildClose(c) \/ ChildExit(c)

-----------------------------------------------------------------------------
Next == \/ ParentStep
        \/ HandlerStep
        \/ \E c \in Clients : ChildStep(c)
        \/ \E c \in Clients : (ClientStep(c) \/ Abort(c)) /\ UNCHANGED svars

Spec == Init /\ [][Next]_vars

(* Every process is scheduled, a pending signal is delivered, and every user  *)
(* ends the input of a client some day. Nobody is obliged to abort a client,  *)
(* nor fork or malloc to fail.                                                *)
Fairness ==
    /\ WF_vars(Accept \/ Fork \/ CloseConn)
    /\ WF_vars(HandlerStep)
    /\ \A c \in Clients :
        /\ WF_vars(ChildStep(c))
        /\ WF_vars(Connect(c) /\ UNCHANGED svars)
        /\ WF_vars((EndOfInput(c) \/ CloseClient(c)) /\ UNCHANGED svars)
        /\ WF_vars(ReadReplies(c) /\ UNCHANGED svars)

FairSpec == Spec /\ Fairness

-----------------------------------------------------------------------------
(* Types of the variables; a process holds a connection only if it exists.    *)
TypeOK ==
    /\ ClientTypeOK
    /\ ppc \in {"accept", "fork", "close"}
    /\ cur \in Clients \cup {NoConn}
    /\ handler \in {"off", "loop", "return"}
    /\ sigchld \in BOOLEAN
    /\ child \in [Clients -> ChildStates]
    /\ holders \in [Clients -> SUBSET (Clients \cup {Parent})]
    /\ served \in [Clients -> Nat]
    /\ refused \in SUBSET Clients

(* A child that has ended is never forgotten although SIGCHLD does not queue: *)
(* the signal is pending or the handler has not finished its loop (the        *)
(* comment at lines 65-66).                                                   *)
ZombieNoticed ==
    (\E c \in Clients : child[c] = "zombie") => sigchld \/ handler = "loop"

(* Every zombie is eventually reaped.                                         *)
ZombiesReaped ==
    \A c \in Clients : (child[c] = "zombie") ~> (child[c] = "reaped")

(* Across fork no descriptor strays: a connection is open in the parent only  *)
(* between accept and close, and in no child but its own.                     *)
DescriptorsPrivate ==
    \A c \in Clients :
        /\ Parent \in holders[c] => c = cur /\ ppc \in {"fork", "close"}
        /\ holders[c] \subseteq {Parent, c}
        /\ child[c] \in {"zombie", "reaped"} => c \notin holders[c]

(* A reply answers at least one line, and the stream a client reads to its    *)
(* end was closed by a child that had read every line sent; only a client     *)
(* whose connection could not be served is reset or killed by writing to it.  *)
AnsweredBeforeClose ==
    \A c \in Clients \ refused :
        /\ got[c] + outbox[c] <= served[c]
        /\ reader[c] = "done" /\ cpc[c] \in {"open", "done"} =>
             /\ served[c] = sent[c]
             /\ sent[c] > 0 => got[c] > 0
        /\ cpc[c] # "sigpipe" /\ (cpc[c] = "open" => ~reset[c])

(* A client that has ended its input gets its end of stream and terminates.   *)
ClientsFinish ==
    \A c \in Clients :
        (cpc[c] = "open" /\ writer[c] = "done") ~> (cpc[c] \notin {"new", "open"})
====
