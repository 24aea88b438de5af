---- MODULE ProcessServer_proof ----
(* Proofs about ProcessServer, for every set of clients and every bound.      *)
EXTENDS ProcessServer, TLAPS

-----------------------------------------------------------------------------
(* The connections: their types survive each step of a client and each call   *)
(* a server makes on its end.                                                 *)

(* A client's own steps.                                                      *)
LEMMA ClientStepTypes ==
    ASSUME ClientTypeOK, NEW c \in Clients, ClientStep(c) \/ Abort(c)
    PROVE  ClientTypeOK'
<1> USE MessageAssumption DEF ClientTypeOK, lvars
<1>1. CASE Connect(c)      BY <1>1, SMT DEF Connect
<1>2. CASE SendLine(c)
  <2>1. CASE Die(c, "sigpipe") /\ UNCHANGED <<sent, inbox, reset, got, outbox, closed, backlog>>
    BY <2>1, SMT DEF Die
  <2>2. CASE ~reset[c]
    <3>1. /\ sent[c] < MaxMessage[c]
          /\ sent' = [sent EXCEPT ![c] = @ + 1]
          /\ UNCHANGED <<cpc, writer, reader, fin, got, outbox, closed, backlog>>
      BY <1>2, <2>2 DEF SendLine
    <3>2. CASE closed[c]
      <4>1. reset' = [reset EXCEPT ![c] = TRUE] /\ UNCHANGED inbox
        BY <1>2, <2>2, <3>2 DEF SendLine
      <4> QED BY <3>1, <4>1, SMT
    <3>3. CASE ~closed[c]
      <4>1. inbox' = [inbox EXCEPT ![c] = @ + 1] /\ UNCHANGED reset
        BY <1>2, <2>2, <3>3 DEF SendLine
      <4> QED BY <3>1, <4>1, SMT
    <3> QED BY <3>2, <3>3
  <2> QED BY <1>2, <2>1, <2>2 DEF SendLine
<1>3. CASE EndOfInput(c)   BY <1>3, SMT DEF EndOfInput
<1>4. CASE ReadReplies(c)
  <2>1. CASE outbox[c] > 0
    <3>1. /\ got' = [got EXCEPT ![c] = @ + outbox[c]]
          /\ outbox' = [outbox EXCEPT ![c] = 0]
          /\ UNCHANGED <<cpc, writer, reader, sent, inbox, fin, closed, reset, backlog>>
      BY <1>4, <2>1, SMT DEF ReadReplies
    <3> QED BY <3>1, SMT
  <2>2. CASE ~(outbox[c] > 0)
    <3>1. /\ reader' = [reader EXCEPT ![c] = "done"]
          /\ UNCHANGED <<cpc, writer, sent, got, inbox, outbox, fin, closed, reset, backlog>>
      BY <1>4, <2>2, SMT DEF ReadReplies
    <3> QED BY <3>1, SMT
  <2> QED BY <2>1, <2>2
<1>5. CASE CloseClient(c)  BY <1>5, SMT DEF CloseClient
<1>6. CASE Abort(c)        BY <1>6, SMT DEF Abort, Die
<1> QED BY <1>1, <1>2, <1>3, <1>4, <1>5, <1>6 DEF ClientStep

(* What a server does to a connection, and nothing else.                      *)
ServerEndStep(c, S) ==
    \/ \E k \in 1 .. inbox[c] : TakeLines(c, k)
    \/ PutReply(c)
    \/ CloseServerEnd(S)
    \/ UNCHANGED lvars

LEMMA ServerEndTypes ==
    ASSUME ClientTypeOK, UNCHANGED cvars, backlog' \in Seq(Clients),
           NEW c \in Clients, NEW S, ServerEndStep(c, S)
    PROVE  ClientTypeOK'
<1>0. /\ inbox \in [Clients -> Nat] /\ outbox \in [Clients -> Nat] /\ fin \in [Clients -> BOOLEAN]
      /\ closed \in [Clients -> BOOLEAN] /\ reset \in [Clients -> BOOLEAN]
  BY DEF ClientTypeOK
<1>e. ASSUME inbox' \in [Clients -> Nat], outbox' \in [Clients -> Nat], UNCHANGED fin,
             closed' \in [Clients -> BOOLEAN], reset' \in [Clients -> BOOLEAN]
      PROVE  ClientTypeOK'
  BY <1>e DEF ClientTypeOK, cvars
<1>1. CASE \E k \in 1 .. inbox[c] : TakeLines(c, k)
  <2>1. PICK k \in 1 .. inbox[c] : inbox' = [inbox EXCEPT ![c] = @ - k]
    BY <1>1 DEF TakeLines
  <2>2. inbox[c] - k \in Nat
    BY <1>0, <2>1
  <2>3. inbox' \in [Clients -> Nat]
    BY <1>0, <2>1, <2>2
  <2> QED BY <1>0, <1>1, <1>e, <2>3 DEF TakeLines
<1>2. CASE PutReply(c)
  BY <1>0, <1>2, <1>e DEF PutReply
<1>3. CASE CloseServerEnd(S)
  <2>1. /\ closed' = [d \in Clients |-> closed[d] \/ d \in S]
        /\ reset' = [d \in Clients |-> reset[d] \/ (d \in S /\ inbox[d] > 0)]
        /\ UNCHANGED <<inbox, outbox, fin>>
    BY <1>3 DEF CloseServerEnd
  <2>2. closed' \in [Clients -> BOOLEAN] /\ reset' \in [Clients -> BOOLEAN]
    BY <2>1
  <2> QED BY <1>0, <1>e, <2>1, <2>2
<1>4. CASE UNCHANGED lvars
  BY <1>0, <1>4, <1>e DEF lvars
<1> QED BY <1>1, <1>2, <1>3, <1>4 DEF ServerEndStep

-----------------------------------------------------------------------------

(* What the two invariants rest on: the types of the variables they mention.  *)
Types ==
    /\ child \in [Clients -> ChildStates]
    /\ handler \in {"off", "loop", "return"}
    /\ sigchld \in BOOLEAN
    /\ ppc \in {"accept", "fork", "close"}
    /\ holders \in [Clients -> SUBSET (Clients \cup {Parent})]

(* While a connection is being handed over, clientfd names a client; every    *)
(* connection waiting for accept is a client's.                               *)
CurInv == /\ ppc \in {"fork", "close"} => cur \in Clients
          /\ backlog \in Seq(Clients)

IInv == Types /\ CurInv /\ ZombieNoticed /\ DescriptorsPrivate

(* The invariant holds before the first connection.                           *)
LEMMA InitIInv == Init => IInv
<1> SUFFICES ASSUME Init PROVE IInv
    OBVIOUS
<1> USE DEF Init, ClientInit, ChildStates
<1>1. Types  BY DEF Types
<1>2. CurInv  BY DEF CurInv
<1>3. ZombieNoticed  BY DEF ZombieNoticed
<1>4. DescriptorsPrivate  BY DEF DescriptorsPrivate
<1> QED BY <1>1, <1>2, <1>3, <1>4 DEF IInv

(* The clients touch no variable of the server but the backlog.               *)
LEMMA ClientSteps ==
    ASSUME NEW c \in Clients, ClientStep(c) \/ Abort(c), UNCHANGED svars, IInv
    PROVE  IInv'
<1>1. backlog' \in Seq(Clients)
  <2>1. CASE Connect(c)  BY <2>1, SMT DEF Connect, IInv, CurInv
  <2>2. CASE UNCHANGED backlog  BY <2>2 DEF IInv, CurInv
  <2> QED BY <2>1, <2>2 DEF ClientStep, SendLine, EndOfInput, ReadReplies, CloseClient, Abort
<1> QED BY <1>1 DEF svars, IInv, Types, CurInv, ZombieNoticed, DescriptorsPrivate

(* Every step of clients, parent, children and handler keeps it.              *)
LEMMA NextIInv == IInv /\ [Next]_vars => IInv'
<1> SUFFICES ASSUME IInv, [Next]_vars PROVE IInv'
    OBVIOUS
<1> USE DEF IInv, Types, CurInv, ZombieNoticed, DescriptorsPrivate, ChildStates
<1>1. CASE ParentStep
  <2>1. CASE Accept
    <3>1. Head(backlog) \in Clients /\ Tail(backlog) \in Seq(Clients)
      BY <2>1, SMT DEF Accept
    <3>2. Types' /\ ZombieNoticed'
      BY <2>1, SMT DEF Accept
    <3>3. CurInv'
      BY <2>1, <3>1 DEF Accept
    <3>4. DescriptorsPrivate'
      BY <2>1, <3>1, NameAssumption, SMT DEF Accept
    <3> QED BY <3>2, <3>3, <3>4
  <2>2. CASE Fork       BY <2>2, SMT DEF Fork
  <2>3. CASE ForkFails  BY <2>3, SMT DEF ForkFails
  <2>4. CASE CloseConn  BY <2>4, SMT DEF CloseConn, Drop
  <2> QED BY <1>1, <2>1, <2>2, <2>3, <2>4 DEF ParentStep
<1>2. CASE HandlerStep
  <2>1. CASE Interrupt
    <3>1. Types' /\ CurInv' /\ DescriptorsPrivate'
      BY <2>1 DEF Interrupt
    <3>2. ZombieNoticed'
      BY <2>1 DEF Interrupt
    <3> QED BY <3>1, <3>2
  <2>2. CASE Reap
    <3>1. PICK d \in Clients : /\ child[d] = "zombie"
                               /\ child' = [child EXCEPT ![d] = "reaped"]
      BY <2>2 DEF Reap
    <3>2. Types' /\ CurInv' /\ ZombieNoticed'
      BY <2>2, <3>1, SMT DEF Reap
    <3>3. DescriptorsPrivate'
      BY <2>2, <3>1, SMT DEF Reap
    <3> QED BY <3>2, <3>3
  <2>3. CASE NothingToReap   BY <2>3, SMT DEF NothingToReap
  <2>4. CASE HandlerReturns
    <3>1. Types' /\ CurInv' /\ DescriptorsPrivate'
      BY <2>4 DEF HandlerReturns
    <3>2. ZombieNoticed'
      BY <2>4 DEF HandlerReturns
    <3> QED BY <3>1, <3>2
  <2> QED BY <1>2, <2>1, <2>2, <2>3, <2>4 DEF HandlerStep
<1>3. ASSUME NEW c \in Clients, ChildStep(c) PROVE IInv'
  <2>1. CASE Allocate(c)    BY <2>1, SMT DEF Allocate
  <2>2. CASE ChildRecv(c)   BY <2>2, SMT DEF ChildRecv
  <2>3. CASE ChildSend(c)
    <3>1. CASE PutReply(c) /\ child' = [child EXCEPT ![c] = "recv"] /\ UNCHANGED <<sigchld, holders>>
      BY <2>3, <3>1, SMT DEF ChildSend
    <3>2. CASE Terminate(c)
      BY <2>3, <3>2, SMT DEF ChildSend, Terminate, Drop
    <3> QED BY <2>3, <3>1, <3>2 DEF ChildSend
  <2>4. CASE ChildClose(c)  BY <2>4, SMT DEF ChildClose, Drop
  <2>5. CASE ChildExit(c)   BY <2>5, SMT DEF ChildExit, Terminate, Drop
  <2> QED BY <1>3, <2>1, <2>2, <2>3, <2>4, <2>5 DEF ChildStep
<1>4. ASSUME NEW c \in Clients, ClientStep(c) \/ Abort(c), UNCHANGED svars PROVE IInv'
  BY <1>4, ClientSteps
<1>5. CASE UNCHANGED vars
  BY <1>5 DEF vars, svars
<1> QED BY <1>1, <1>2, <1>3, <1>4, <1>5 DEF Next

(* SIGCHLD does not queue, yet no child that has ended is ever forgotten.     *)
THEOREM Reaping == Spec => []ZombieNoticed
<1>1. IInv => ZombieNoticed  BY DEF IInv
<1> QED BY <1>1, InitIInv, NextIInv, PTL DEF Spec

(* No descriptor of a connection strays into another process.                 *)
THEOREM Descriptors == Spec => []DescriptorsPrivate
<1>1. IInv => DescriptorsPrivate  BY DEF IInv
<1> QED BY <1>1, InitIInv, NextIInv, PTL DEF Spec

-----------------------------------------------------------------------------
(* The types of all variables. Those of the connections come from the lemmas  *)
(* about ChatClient.                                                          *)
TInv == /\ ClientTypeOK
        /\ cur \in Clients \cup {NoConn}
        /\ served \in [Clients -> Nat]
        /\ refused \in SUBSET Clients

(* Every step keeps the types and what the pcs say about the rest.            *)
LEMMA NextTInv == IInv /\ TInv /\ [Next]_vars => TInv'
<1> SUFFICES ASSUME IInv, TInv, [Next]_vars PROVE TInv'
    OBVIOUS
<1> USE DEF TInv
<1>t. ClientTypeOK /\ backlog \in Seq(Clients)
  BY DEF ClientTypeOK
<1>u. ASSUME UNCHANGED <<cvars, lvars, backlog>> PROVE ClientTypeOK'
  BY <1>u, <1>t DEF ClientTypeOK, cvars, lvars
<1>1. CASE ParentStep
  <2>1. CASE Accept
    <3>1. Head(backlog) \in Clients /\ Tail(backlog) \in Seq(Clients)
      BY <2>1, <1>t, SMT DEF Accept
    <3>2. ClientTypeOK'  BY <2>1, <3>1 DEF Accept, ClientTypeOK, cvars, lvars
    <3> QED BY <2>1, <3>1, <3>2 DEF Accept
  <2>2. CASE Fork       BY <2>2, <1>u DEF Fork
  <2>3. CASE ForkFails
    <3>1. cur \in Clients  BY <2>3 DEF ForkFails, IInv, CurInv
    <3> QED BY <2>3, <3>1, <1>u DEF ForkFails
  <2>4. CASE CloseConn
    <3>1. cur \in Clients  BY <2>4 DEF CloseConn, IInv, CurInv
    <3>2. ServerEndStep(cur, {c \in {cur} : holders[c] = {Parent}})
      BY <2>4 DEF CloseConn, Drop, ServerEndStep
    <3>3. ClientTypeOK'  BY <2>4, <1>t, <3>1, <3>2, ServerEndTypes DEF CloseConn
    <3> QED BY <2>4, <3>3 DEF CloseConn
  <2> QED BY <1>1, <2>1, <2>2, <2>3, <2>4 DEF ParentStep
<1>2. CASE HandlerStep
  BY <1>2, <1>u DEF HandlerStep, Interrupt, Reap, NothingToReap, HandlerReturns
<1>3. ASSUME NEW c \in Clients, ChildStep(c) PROVE TInv'
  <2>1. CASE Allocate(c)   BY <2>1, <1>u DEF Allocate
  <2>2. CASE ChildRecv(c)
    <3>1. UNCHANGED <<cvars, backlog, cur, refused>>  BY <2>2 DEF ChildRecv
    <3>2. CASE \E k \in 1 .. inbox[c] : TakeLines(c, k) /\ served' = [served EXCEPT ![c] = @ + k]
      <4>1. PICK k \in 1 .. inbox[c] : TakeLines(c, k) /\ served' = [served EXCEPT ![c] = @ + k]
        BY <3>2
      <4>2. ServerEndStep(c, {})  BY <4>1 DEF ServerEndStep
      <4>3. ClientTypeOK'  BY <3>1, <4>2, <1>t, ServerEndTypes
      <4>4. k \in Nat  BY <1>t, SMT DEF ClientTypeOK
      <4>5. served' \in [Clients -> Nat]  BY <4>1, <4>4, SMT
      <4> QED BY <3>1, <4>3, <4>5
    <3>3. CASE UNCHANGED <<lvars, served>>
      BY <3>1, <3>3, <1>u
    <3> QED BY <2>2, <3>2, <3>3 DEF ChildRecv
  <2>3. CASE ChildSend(c)
    <3>1. ServerEndStep(c, {d \in Clients : holders[d] = {c}})
      BY <2>3 DEF ChildSend, Terminate, Drop, ServerEndStep
    <3>2. ClientTypeOK'  BY <2>3, <3>1, <1>t, ServerEndTypes DEF ChildSend
    <3> QED BY <2>3, <3>2 DEF ChildSend
  <2>4. CASE ChildClose(c)
    <3>1. ServerEndStep(c, {d \in {c} : holders[d] = {c}})
      BY <2>4 DEF ChildClose, Drop, ServerEndStep
    <3>2. ClientTypeOK'  BY <2>4, <3>1, <1>t, ServerEndTypes DEF ChildClose
    <3> QED BY <2>4, <3>2 DEF ChildClose
  <2>5. CASE ChildExit(c)
    <3>1. ServerEndStep(c, {d \in Clients : holders[d] = {c}})
      BY <2>5 DEF ChildExit, Terminate, Drop, ServerEndStep
    <3>2. ClientTypeOK'  BY <2>5, <3>1, <1>t, ServerEndTypes DEF ChildExit
    <3> QED BY <2>5, <3>2 DEF ChildExit
  <2> QED BY <1>3, <2>1, <2>2, <2>3, <2>4, <2>5 DEF ChildStep
<1>4. ASSUME NEW c \in Clients, ClientStep(c) \/ Abort(c), UNCHANGED svars PROVE TInv'
  <2>1. ClientTypeOK'  BY <1>4, <1>t, ClientStepTypes
  <2> QED BY <1>4, <2>1 DEF svars
<1>5. CASE UNCHANGED vars
  BY <1>5, <1>u DEF vars, svars
<1> QED BY <1>1, <1>2, <1>3, <1>4, <1>5 DEF Next

(* The types hold initially.                                                  *)
LEMMA InitTInv == Init => TInv
<1> SUFFICES ASSUME Init PROVE TInv
    OBVIOUS
<1>1. ClientTypeOK
  BY MessageAssumption, SMT DEF Init, ClientInit, ClientTypeOK
<1> QED BY <1>1, SMT DEF Init, TInv

(* Every variable keeps its type, for every set of clients.                   *)
THEOREM Typed == Spec => []TypeOK
<1>1. IInv /\ TInv => TypeOK
  BY DEF IInv, Types, TInv, TypeOK
<1> QED BY <1>1, InitIInv, NextIInv, InitTInv, NextTInv, PTL DEF Spec
-----------------------------------------------------------------------------
(* That the server answers and reads everything before it closes: the path    *)
(* of a connection, and the account of its lines and replies.                 *)

(* The parent has accepted connection c and not let go of it.                 *)
InHand(c) == c = cur /\ ppc \in {"fork", "close"}

(* The way of a connection from connect through the queue, the parent's hands *)
(* and those of its child, each at most once.                                 *)
QueueInv ==
    /\ \A i, j \in 1 .. Len(backlog) : backlog[i] = backlog[j] => i = j
    /\ \A i \in 1 .. Len(backlog) :
          /\ cpc[backlog[i]] # "new"
          /\ child[backlog[i]] = "none"
          /\ backlog[i] \notin refused
          /\ ~closed[backlog[i]]
          /\ ~InHand(backlog[i])

HandInv ==
    /\ \A c \in Clients : cpc[c] = "new" =>
          child[c] = "none" /\ c \notin refused /\ ~closed[c] /\ ~InHand(c)
    /\ ppc = "fork" =>
          child[cur] = "none" /\ Parent \in holders[cur] /\ ~closed[cur] /\ cur \notin refused
    /\ ppc = "close" /\ child[cur] = "none" => cur \in refused

(* A child holds its connection from its creation to its close, and until     *)
(* then the connection is open.                                               *)
HeldOpen(c) ==
    /\ child[c] \in {"start", "recv", "send", "close"} => c \in holders[c]
    /\ child[c] = "exit" => c \notin holders[c]
    /\ closed[c] /\ c \notin refused => child[c] \in {"exit", "zombie", "reaped"}

ChildInv == \A c \in Clients : HeldOpen(c)

PathInv == QueueInv /\ HandInv /\ ChildInv

(* The account of a connection that was not refused.                          *)
Account(c) ==
    /\ served[c] + inbox[c] = sent[c]
    /\ got[c] + outbox[c] <= served[c]
    /\ child[c] = "send" => got[c] + outbox[c] < served[c]
    /\ served[c] > 0 /\ child[c] # "send" => got[c] + outbox[c] > 0 \/ PeerGone(c)
    /\ child[c] \in {"close", "exit"} => inbox[c] = 0 /\ fin[c]
    /\ child[c] \in {"zombie", "reaped"} => (inbox[c] = 0 /\ fin[c]) \/ PeerGone(c)
    /\ reset[c] => PeerGone(c)
    /\ cpc[c] # "sigpipe"
    /\ reader[c] = "done" /\ cpc[c] \in {"open", "done"} =>
          closed[c] /\ inbox[c] = 0 /\ fin[c] /\ (served[c] > 0 => got[c] > 0)

AccountInv == /\ \A c \in Clients : fin[c] => writer[c] = "done" /\ cpc[c] # "new"
              /\ \A c \in Clients \ refused : Account(c)

-----------------------------------------------------------------------------
(* The path: a step of a client, of the parent, of the handler, of a child.   *)

(* Initially nobody is on the way.                                            *)
LEMMA InitPath == Init => PathInv
<1> SUFFICES ASSUME Init PROVE PathInv
    OBVIOUS
<1> USE DEF Init, ClientInit, InHand
<1>1. QueueInv  BY SMT DEF QueueInv
<1>2. HandInv   BY SMT DEF HandInv
<1>3. ChildInv  BY SMT DEF ChildInv, HeldOpen
<1> QED BY <1>1, <1>2, <1>3 DEF PathInv

(* The clients move along the path only by connecting and ending.             *)
LEMMA ClientPath ==
    ASSUME IInv, TInv, PathInv, NEW c \in Clients, ClientStep(c) \/ Abort(c), UNCHANGED svars
    PROVE  PathInv'
<1> USE DEF PathInv
<1>t. /\ cpc \in [Clients -> {"new", "open", "done", "refused", "aborted", "sigpipe"}]
      /\ backlog \in Seq(Clients)
  BY DEF TInv, ClientTypeOK
<1>s. UNCHANGED <<ppc, cur, child, holders, refused, InHand(c)>>
  BY DEF svars, InHand
<1>1. CASE Connect(c)
  <2>1. /\ cpc[c] = "new" /\ cpc' = [cpc EXCEPT ![c] = "open"]
        /\ backlog' = Append(backlog, c) /\ UNCHANGED closed
    BY <1>1 DEF Connect, lvars
  <2>2. /\ child[c] = "none" /\ c \notin refused /\ ~closed[c] /\ ~InHand(c)
        /\ \A i \in 1 .. Len(backlog) : backlog[i] # c
    BY <2>1 DEF HandInv, QueueInv
  <2>3. QueueInv'
    BY <1>t, <1>s, <2>1, <2>2, SMT DEF QueueInv, InHand
  <2>4. HandInv' /\ ChildInv'
    BY <1>t, <1>s, <2>1, <2>2, SMT DEF HandInv, ChildInv, HeldOpen, InHand
  <2> QED BY <2>3, <2>4
<1>2. CASE ~Connect(c)
  <2>1. /\ UNCHANGED <<backlog, closed>>
        /\ \A d \in Clients : cpc'[d] = "new" <=> cpc[d] = "new"
    BY <1>t, <1>2, SMT
       DEF ClientStep, SendLine, EndOfInput, ReadReplies, CloseClient, Abort, Die, lvars
  <2>2. \A i \in 1 .. Len(backlog) : backlog[i] \in Clients
    BY <1>t, SMT
  <2>3. QueueInv'
    BY <1>s, <2>1, <2>2 DEF QueueInv, InHand
  <2>4. HandInv' /\ ChildInv'
    BY <1>s, <2>1 DEF HandInv, ChildInv, HeldOpen, InHand
  <2> QED BY <2>3, <2>4
<1> QED BY <1>1, <1>2

(* The parent hands a connection on, one place along the path at a time.      *)
LEMMA ParentPath == ASSUME IInv, TInv, PathInv, ParentStep PROVE PathInv'
<1> USE DEF PathInv
<1>t. /\ backlog \in Seq(Clients) /\ closed \in [Clients -> BOOLEAN]
      /\ cur \in Clients \cup {NoConn} /\ refused \in SUBSET Clients
  BY DEF TInv, ClientTypeOK
<1>i. Types /\ CurInv /\ DescriptorsPrivate
  BY DEF IInv
<1>b. \A i \in 1 .. Len(backlog) : backlog[i] \in Clients
  BY <1>t, SMT
<1>1. CASE Accept
  <2>1. /\ ppc = "accept" /\ ppc' = "fork" /\ cur' = Head(backlog)
        /\ backlog # <<>> /\ backlog' = Tail(backlog)
        /\ holders' = [holders EXCEPT ![Head(backlog)] = {Parent}]
        /\ UNCHANGED <<cpc, child, closed, refused>>
    BY <1>1 DEF Accept, cvars, lvars
  <2>2. /\ Head(backlog) = backlog[1] /\ 1 \in 1 .. Len(backlog) /\ backlog[1] \in Clients
        /\ Len(Tail(backlog)) = Len(backlog) - 1
        /\ \A i \in 1 .. Len(Tail(backlog)) :
              Tail(backlog)[i] = backlog[i + 1] /\ i + 1 \in 1 .. Len(backlog)
    BY <1>t, <2>1, SMT
  <2>3. QueueInv'
    BY <2>1, <2>2, SMT DEF QueueInv, InHand
  <2>4. HandInv'
    BY <1>i, <2>1, <2>2 DEF HandInv, QueueInv, InHand, Types
  <2>5. ChildInv'
    BY <1>i, <2>1, <2>2, NameAssumption DEF ChildInv, HeldOpen, QueueInv, Types
  <2> QED BY <2>3, <2>4, <2>5
<1>2. CASE Fork
  <2>1. /\ ppc = "fork" /\ ppc' = "close" /\ cur \in Clients
        /\ child' = [child EXCEPT ![cur] = "start"]
        /\ holders' = [d \in Clients |-> IF Parent \in holders[d] THEN holders[d] \cup {cur}
                                         ELSE holders[d]]
        /\ UNCHANGED <<cpc, closed, refused, cur, backlog>>
    BY <1>2, <1>i DEF Fork, CurInv, cvars, lvars
  <2>2. Parent \in holders[cur] /\ child[cur] = "none" /\ InHand(cur)
    BY <1>i, <2>1 DEF HandInv, InHand
  <2>3. \A d \in Clients : d # cur => child'[d] = child[d]
    BY <1>i, <2>1 DEF Types
  <2>4. QueueInv'
    BY <1>b, <2>1, <2>2, <2>3 DEF QueueInv, InHand
  <2>5. HandInv'
    BY <1>i, <2>1, <2>2, <2>3 DEF HandInv, InHand, Types
  <2>6. ChildInv'
    BY <1>i, <2>1, <2>2, <2>3, SMT DEF ChildInv, HeldOpen, HandInv, Types
  <2> QED BY <2>4, <2>5, <2>6
<1>3. CASE ForkFails
  <2>1. /\ ppc = "fork" /\ ppc' = "close" /\ cur \in Clients
        /\ refused' = refused \cup {cur}
        /\ UNCHANGED <<cpc, closed, child, holders, cur, backlog>>
    BY <1>3, <1>i DEF ForkFails, CurInv, cvars, lvars
  <2>2. InHand(cur) /\ InHand(cur)' /\ \A d : InHand(d)' = InHand(d)
    BY <2>1 DEF InHand
  <2>3. QueueInv'
    BY <1>b, <2>1, <2>2 DEF QueueInv
  <2>4. HandInv'
    BY <2>1, <2>2 DEF HandInv
  <2>5. ChildInv'
    BY <2>1 DEF ChildInv, HeldOpen
  <2> QED BY <2>3, <2>4, <2>5
<1>4. CASE CloseConn
  <2>1. /\ ppc = "close" /\ ppc' = "accept" /\ cur \in Clients
        /\ holders' = [d \in Clients |-> IF d \in {cur} THEN holders[d] \ {Parent} ELSE holders[d]]
        /\ closed' = [d \in Clients |-> closed[d] \/ d \in {e \in {cur} : holders[e] = {Parent}}]
        /\ UNCHANGED <<cpc, child, refused, cur, backlog>>
    BY <1>4, <1>i DEF CloseConn, CurInv, Drop, CloseServerEnd, cvars
  <2>2. \A d \in Clients : d # cur => closed'[d] = closed[d] /\ holders'[d] = holders[d]
    BY <1>t, <1>i, <2>1 DEF Types
  <2>3. InHand(cur) /\ \A d : ~InHand(d)'
    BY <2>1 DEF InHand
  <2>4. QueueInv'
    BY <1>b, <2>1, <2>2, <2>3 DEF QueueInv
  <2>5. HandInv'
    BY <2>1, <2>2, <2>3 DEF HandInv
  <2>6. ChildInv'
    <3>1. ASSUME NEW d \in Clients, d # cur PROVE HeldOpen(d)'
      BY <2>1, <2>2, <3>1 DEF ChildInv, HeldOpen
    <3>2. HeldOpen(cur)'
      <4>1. holders'[cur] = holders[cur] \ {Parent}  BY <1>i, <2>1 DEF Types
      <4>2. child[cur] \in ChildStates  BY <1>i, <2>1 DEF Types
      <4>3. closed'[cur] => closed[cur] \/ holders[cur] = {Parent}  BY <2>1
      <4>4. cur # Parent  BY <2>1, NameAssumption
      <4>5. child[cur] = "none" => cur \in refused  BY <2>1 DEF HandInv
      <4> QED BY <2>1, <4>1, <4>2, <4>3, <4>4, <4>5 DEF ChildInv, HeldOpen, ChildStates
    <3> QED BY <2>1, <3>1, <3>2 DEF ChildInv
  <2> QED BY <2>4, <2>5, <2>6
<1> QED BY <1>1, <1>2, <1>3, <1>4 DEF ParentStep

(* The rest never touches the queue or the parent's hands.                    *)
LEMMA PathKept ==
    ASSUME IInv, TInv, PathInv, UNCHANGED <<cpc, ppc, cur, backlog>>, NEW c \in Clients,
           child[c] # "none", child'[c] # "none",
           \A d \in Clients \ {c} :
              /\ child'[d] = child[d] /\ holders'[d] = holders[d]
              /\ closed'[d] = closed[d] /\ (d \in refused' <=> d \in refused),
           refused \subseteq refused',
           HeldOpen(c)'
    PROVE  PathInv'
<1> USE DEF PathInv
<1>b. \A i \in 1 .. Len(backlog) : backlog[i] \in Clients
  BY SMT DEF TInv, ClientTypeOK
<1>i. \A d : InHand(d)' = InHand(d)
  BY DEF InHand
<1>p. ppc = "fork" => cur # c /\ cur \in Clients
  BY DEF HandInv, IInv, CurInv
<1>q. ppc = "close" => cur \in Clients
  BY DEF IInv, CurInv
<1>1. QueueInv'
  <2>1. \A i \in 1 .. Len(backlog) : backlog[i] \in Clients \ {c}
    BY <1>b DEF QueueInv
  <2> QED BY <1>i, <2>1 DEF QueueInv
<1>2. HandInv'
  <2>1. \A d \in Clients : cpc[d] = "new" => d # c
    BY DEF HandInv
  <2> QED BY <1>i, <1>p, <1>q, <2>1 DEF HandInv
<1>3. ChildInv'
  BY DEF ChildInv, HeldOpen
<1> QED BY <1>1, <1>2, <1>3

(* What a child, or the parent, closes of the connections other than its own. *)
LEMMA DropOwn ==
    ASSUME IInv, TInv, NEW c \in Clients, NEW S \in SUBSET Clients, c \in S, Drop(c, S)
    PROVE  /\ \A d \in Clients \ {c} : holders'[d] = holders[d] /\ closed'[d] = closed[d]
           /\ holders'[c] = holders[c] \ {c}
           /\ closed'[c] <=> (closed[c] \/ holders[c] = {c})
<1>1. /\ holders' = [d \in Clients |-> IF d \in S THEN holders[d] \ {c} ELSE holders[d]]
      /\ closed' = [d \in Clients |-> closed[d] \/ d \in {e \in S : holders[e] = {c}}]
  BY DEF Drop, CloseServerEnd
<1>2. \A d \in Clients : holders[d] \subseteq {Parent, d}
  BY DEF IInv, DescriptorsPrivate
<1>3. \A d \in Clients \ {c} : c \notin holders[d]
  BY <1>2, NameAssumption
<1>4. closed \in [Clients -> BOOLEAN]
  BY DEF TInv, ClientTypeOK
<1> QED BY <1>1, <1>3, <1>4

(* A child keeps the connection it was forked for until it closes it.         *)
LEMMA ChildPath ==
    ASSUME IInv, TInv, PathInv, NEW c \in Clients, ChildStep(c)
    PROVE  PathInv'
<1> USE DEF PathInv
<1>h. HeldOpen(c) /\ child \in [Clients -> ChildStates]
  BY DEF ChildInv, IInv, Types
<1>1. CASE Allocate(c)
  BY <1>1, <1>h, PathKept DEF Allocate, cvars, lvars, HeldOpen
<1>2. CASE ChildRecv(c)
  <2>1. HeldOpen(c)'
    BY <1>2, <1>h DEF ChildRecv, TakeLines, lvars, HeldOpen
  <2> QED BY <1>2, <1>h, <2>1, PathKept DEF ChildRecv, TakeLines, cvars, lvars
<1>3. CASE ChildSend(c)
  <2>1. CASE PutReply(c) /\ child' = [child EXCEPT ![c] = "recv"] /\ UNCHANGED holders
    BY <1>3, <1>h, <2>1, PathKept DEF ChildSend, PutReply, cvars, HeldOpen
  <2>2. CASE Terminate(c)
    <3>1. HeldOpen(c)'
      BY <1>h, <2>2 DEF Terminate, HeldOpen
    <3> QED BY <1>3, <1>h, <2>2, <3>1, DropOwn, PathKept DEF ChildSend, Terminate, cvars
  <2> QED BY <1>3, <2>1, <2>2 DEF ChildSend
<1>4. CASE ChildClose(c)
  <2>1. HeldOpen(c)'
    BY <1>4, <1>h, DropOwn DEF ChildClose, HeldOpen
  <2> QED BY <1>4, <1>h, <2>1, DropOwn, PathKept DEF ChildClose, cvars
<1>5. CASE ChildExit(c)
  <2>1. HeldOpen(c)'
    BY <1>5, <1>h DEF ChildExit, Terminate, HeldOpen
  <2> QED BY <1>5, <1>h, <2>1, DropOwn, PathKept DEF ChildExit, Terminate, cvars
<1> QED BY <1>1, <1>2, <1>3, <1>4, <1>5 DEF ChildStep

(* Every step keeps the path of every connection.                             *)
LEMMA NextPath == IInv /\ TInv /\ PathInv /\ [Next]_vars => PathInv'
<1> SUFFICES ASSUME IInv, TInv, PathInv, [Next]_vars PROVE PathInv'
    OBVIOUS
<1>1. CASE ParentStep
  BY <1>1, ParentPath
<1>2. CASE HandlerStep
  <2>1. CASE Reap
    <3>1. PICK c \in Clients : child[c] = "zombie" /\ child' = [child EXCEPT ![c] = "reaped"]
      BY <2>1 DEF Reap
    <3>2. HeldOpen(c) /\ child \in [Clients -> ChildStates]
      BY DEF PathInv, ChildInv, IInv, Types
    <3>3. HeldOpen(c)'
      BY <2>1, <3>1, <3>2 DEF Reap, lvars, HeldOpen
    <3> QED BY <2>1, <3>1, <3>2, <3>3, PathKept DEF Reap, cvars, lvars
  <2>2. CASE UNCHANGED <<cpc, ppc, cur, backlog, child, holders, closed, refused>>
    BY <2>2 DEF PathInv, QueueInv, HandInv, ChildInv, HeldOpen, InHand
  <2> QED
    BY <1>2, <2>1, <2>2
       DEF HandlerStep, Interrupt, NothingToReap, HandlerReturns, cvars, lvars
<1>3. ASSUME NEW c \in Clients, ChildStep(c) PROVE PathInv'
  BY <1>3, ChildPath
<1>4. ASSUME NEW c \in Clients, ClientStep(c) \/ Abort(c), UNCHANGED svars PROVE PathInv'
  BY <1>4, ClientPath
<1>5. CASE UNCHANGED vars
  BY <1>5 DEF vars, svars, cvars, lvars, PathInv, QueueInv, HandInv, ChildInv, HeldOpen, InHand
<1> QED BY <1>1, <1>2, <1>3, <1>4, <1>5 DEF Next

-----------------------------------------------------------------------------
(* The account: what a step does to the connection it is about, and that it   *)
(* leaves the others alone.                                                   *)

(* Initially every account is empty.                                          *)
LEMMA InitAccount == Init => AccountInv
<1> SUFFICES ASSUME Init PROVE AccountInv
    OBVIOUS
<1> QED BY SMT DEF Init, ClientInit, AccountInv, Account, PeerGone

(* Everything Account(d) speaks of, but closed, which may only become true.   *)
LEMMA SameAccount ==
    ASSUME NEW d \in Clients, Account(d), closed[d] => closed'[d],
           served'[d] = served[d], inbox'[d] = inbox[d], sent'[d] = sent[d],
           got'[d] = got[d], outbox'[d] = outbox[d], fin'[d] = fin[d],
           reset'[d] = reset[d], cpc'[d] = cpc[d], reader'[d] = reader[d],
           child'[d] = child[d]
    PROVE  Account(d)'
BY DEF Account, PeerGone

(* A client enters each line and reply it sends or reads.                     *)
LEMMA ClientAccount ==
    ASSUME IInv, TInv, PathInv, AccountInv, NEW c \in Clients,
           ClientStep(c) \/ Abort(c), UNCHANGED svars
    PROVE  AccountInv'
<1>s. UNCHANGED <<child, served, refused>>
  BY DEF svars
<1>t. ClientTypeOK /\ served \in [Clients -> Nat]
  BY DEF TInv
<1>o. \A d \in Clients \ {c} :
        /\ closed'[d] = closed[d] /\ inbox'[d] = inbox[d] /\ sent'[d] = sent[d]
        /\ got'[d] = got[d] /\ outbox'[d] = outbox[d] /\ fin'[d] = fin[d]
        /\ reset'[d] = reset[d] /\ cpc'[d] = cpc[d] /\ reader'[d] = reader[d]
        /\ writer'[d] = writer[d]
  BY <1>t, SMT DEF ClientTypeOK, ClientStep, Connect, SendLine, EndOfInput, ReadReplies,
                   CloseClient, Abort, Die, lvars
<1>f. fin'[c] => writer'[c] = "done" /\ cpc'[c] # "new"
  <2>1. fin[c] => writer[c] = "done" /\ cpc[c] # "new"
    BY DEF AccountInv
  <2>2. CASE fin'[c] = fin[c] /\ writer'[c] = writer[c] /\ (cpc'[c] = "new" => cpc[c] = "new")
    BY <2>1, <2>2
  <2>3. CASE Connect(c)     BY <2>1, <2>3 DEF Connect, lvars
  <2>4. CASE EndOfInput(c)  BY <1>t, <2>4 DEF EndOfInput, ClientTypeOK
  <2>5. CASE Die(c, "aborted") \/ Die(c, "sigpipe")
    BY <1>t, <2>5 DEF Die, ClientTypeOK
  <2>6. CASE CloseClient(c)
    BY <1>t, <2>1, <2>6 DEF CloseClient, ClientTypeOK, lvars
  <2> QED
    BY <2>2, <2>3, <2>4, <2>5, <2>6
       DEF ClientStep, SendLine, ReadReplies, Abort, lvars
<1>c. ASSUME c \notin refused PROVE Account(c)'
  <2>a. Account(c) /\ (fin[c] => writer[c] = "done") /\ HeldOpen(c)
    BY <1>c DEF AccountInv, PathInv, ChildInv
  <2>1. CASE Connect(c)
    BY <1>s, <1>t, <2>1, <2>a, SMT DEF Connect, ClientTypeOK, Account, PeerGone, lvars
  <2>2. CASE SendLine(c)
    <3>1. ~reset[c]
      BY <2>2, <2>a DEF SendLine, Account, PeerGone
    <3>2. ~closed[c]
      BY <1>c, <2>2, <2>a DEF SendLine, Account, PeerGone, HeldOpen
    <3>3. ~fin[c] /\ cpc[c] = "open"
      BY <2>2, <2>a DEF SendLine
    <3>4. /\ sent' = [sent EXCEPT ![c] = @ + 1]
          /\ inbox' = [inbox EXCEPT ![c] = @ + 1]
          /\ UNCHANGED <<cpc, reader, fin, got, outbox, closed, reset>>
      BY <2>2, <3>1, <3>2 DEF SendLine
    <3> QED BY <1>s, <1>t, <2>a, <3>1, <3>2, <3>3, <3>4, SMT DEF ClientTypeOK, Account, PeerGone
  <2>3. CASE EndOfInput(c)
    BY <1>s, <1>t, <2>3, <2>a, SMT DEF EndOfInput, ClientTypeOK, Account, PeerGone
  <2>4. CASE ReadReplies(c)
    <3>1. CASE outbox[c] > 0
      <4>1. /\ got' = [got EXCEPT ![c] = @ + outbox[c]]
            /\ outbox' = [outbox EXCEPT ![c] = 0]
            /\ UNCHANGED <<cpc, reader, sent, inbox, fin, closed, reset>>
        BY <2>4, <3>1, SMT DEF ReadReplies
      <4>2. got'[c] + outbox'[c] = got[c] + outbox[c] /\ got'[c] > 0
        BY <1>t, <3>1, <4>1, SMT DEF ClientTypeOK
      <4> QED BY <1>s, <2>a, <4>1, <4>2 DEF Account, PeerGone
    <3>2. CASE ~(outbox[c] > 0)
      <4>1. /\ cpc[c] = "open" /\ outbox[c] = 0 /\ (closed[c] \/ reset[c])
            /\ UNCHANGED <<cpc, sent, got, inbox, outbox, fin, closed, reset>>
        BY <2>4, <3>2, SMT DEF ReadReplies
      <4>2. closed[c] /\ ~PeerGone(c)
        BY <2>a, <4>1 DEF Account, PeerGone
      <4>3. inbox[c] = 0 /\ fin[c] /\ child[c] # "send"
        BY <1>c, <2>a, <4>2 DEF Account, HeldOpen
      <4>4. served[c] > 0 => got[c] > 0
        BY <1>t, <2>a, <4>1, <4>2, <4>3, SMT DEF Account, ClientTypeOK
      <4> QED BY <1>s, <2>a, <4>1, <4>2, <4>3, <4>4 DEF Account, PeerGone
    <3> QED BY <3>1, <3>2
  <2>5. CASE CloseClient(c)
    BY <1>s, <1>t, <2>5, <2>a, SMT DEF CloseClient, ClientTypeOK, Account, PeerGone, lvars
  <2>6. CASE Abort(c)
    BY <1>s, <1>t, <2>6, <2>a, SMT DEF Abort, Die, ClientTypeOK, Account, PeerGone
  <2> QED BY <2>1, <2>2, <2>3, <2>4, <2>5, <2>6 DEF ClientStep
<1>1. \A d \in Clients : fin'[d] => writer'[d] = "done" /\ cpc'[d] # "new"
  BY <1>o, <1>f DEF AccountInv
<1>2. ASSUME NEW d \in Clients \ refused' PROVE Account(d)'
  <2>1. CASE d = c  BY <1>s, <1>c, <2>1
  <2>2. CASE d # c
    BY <1>s, <1>o, <1>2, <2>2, SameAccount DEF AccountInv
  <2> QED BY <2>1, <2>2
<1> QED BY <1>1, <1>2 DEF AccountInv

(* A step of the server on connection c: the clients stand still.             *)
LEMMA ServerAccount ==
    ASSUME AccountInv, UNCHANGED cvars, UNCHANGED fin, refused \subseteq refused',
           NEW c \in Clients,
           \A d \in Clients \ {c} :
              /\ closed'[d] = closed[d] /\ served'[d] = served[d] /\ inbox'[d] = inbox[d]
              /\ outbox'[d] = outbox[d] /\ reset'[d] = reset[d] /\ child'[d] = child[d],
           c \notin refused' => Account(c)'
    PROVE  AccountInv'
<1>1. \A d \in Clients : fin'[d] => writer'[d] = "done" /\ cpc'[d] # "new"
  BY DEF AccountInv, cvars
<1>2. ASSUME NEW d \in Clients \ refused' PROVE Account(d)'
  <2>1. CASE d = c  BY <1>2, <2>1
  <2>2. CASE d # c  BY <1>2, <2>2, SameAccount DEF AccountInv, cvars
  <2> QED BY <2>1, <2>2
<1> QED BY <1>1, <1>2 DEF AccountInv

(* A connection whose last holder is p is reset by its close only if          *)
(* something is unread.                                                       *)
LEMMA DropAccount ==
    ASSUME IInv, TInv, NEW c \in Clients, NEW p, NEW S \in SUBSET Clients, Drop(p, S)
    PROVE  /\ UNCHANGED <<inbox, outbox, fin>>
           /\ \A d \in Clients : closed[d] => closed'[d]
           /\ \A d \in Clients : ~(d \in S /\ holders[d] = {p}) =>
                closed'[d] = closed[d] /\ reset'[d] = reset[d]
           /\ reset'[c] => reset[c] \/ (c \in S /\ holders[c] = {p} /\ inbox[c] > 0)
<1>1. closed \in [Clients -> BOOLEAN] /\ reset \in [Clients -> BOOLEAN]
  BY DEF TInv, ClientTypeOK
<1> QED BY <1>1 DEF Drop, CloseServerEnd

(* Closing a connection settles its account.                                  *)
LEMMA CloseConnAccount ==
    ASSUME IInv, TInv, PathInv, AccountInv, NEW c \in Clients, c = cur, CloseConn
    PROVE  AccountInv'
<1>1. /\ ppc = "close" /\ Drop(Parent, {c})
      /\ UNCHANGED <<cvars, child, served, refused>>
  BY DEF CloseConn
<1>2. /\ UNCHANGED <<inbox, outbox, fin>>
      /\ closed[c] => closed'[c]
      /\ reset'[c] => reset[c] \/ (holders[c] = {Parent} /\ inbox[c] > 0)
      /\ \A d \in Clients \ {c} : closed'[d] = closed[d] /\ reset'[d] = reset[d]
  BY <1>1, DropAccount
<1>3. ASSUME c \notin refused PROVE Account(c)'
  <2>1. Account(c) /\ HeldOpen(c) /\ child[c] # "none" /\ child[c] \in ChildStates
    BY <1>1, <1>3 DEF AccountInv, PathInv, HandInv, ChildInv, IInv, Types
  <2>2. holders[c] = {Parent} => child[c] \in {"exit", "zombie", "reaped"}
    BY <1>1, <2>1, NameAssumption DEF HeldOpen, ChildStates
  <2>3. holders[c] = {Parent} /\ inbox[c] > 0 => PeerGone(c)
    BY <1>1, <2>1, <2>2, SMT DEF Account
  <2>4. reset'[c] => PeerGone(c)
    BY <1>2, <2>1, <2>3 DEF Account
  <2> QED BY <1>1, <1>2, <2>1, <2>4 DEF Account, PeerGone, cvars
<1> QED BY <1>1, <1>2, <1>3, ServerAccount

(* A child enters each line it reads and each reply it sends.                 *)
LEMMA ChildAccount ==
    ASSUME IInv, TInv, PathInv, AccountInv, NEW c \in Clients, ChildStep(c)
    PROVE  AccountInv'
<1>t. /\ child \in [Clients -> ChildStates] /\ served \in [Clients -> Nat]
      /\ ClientTypeOK
  BY DEF IInv, Types, TInv
<1>a. c \notin refused => Account(c)
  BY DEF AccountInv
<1>d. \A d \in Clients \ {c} : holders[d] # {c}
  BY NameAssumption DEF IInv, DescriptorsPrivate
<1>1. CASE Allocate(c)
  <2>1. c \notin refused' => Account(c)'
    BY <1>1, <1>a, <1>t DEF Allocate, Account, PeerGone, cvars, lvars
  <2> QED BY <1>1, <1>t, <2>1, ServerAccount DEF Allocate, lvars
<1>2. CASE ChildRecv(c)
  <2>1. child[c] = "recv" /\ UNCHANGED <<cvars, refused>>
    BY <1>2 DEF ChildRecv
  <2>2. CASE \E k \in 1 .. inbox[c] : TakeLines(c, k) /\ served' = [served EXCEPT ![c] = @ + k]
                                     /\ child' = [child EXCEPT ![c] = "send"]
    <3>1. PICK k \in 1 .. inbox[c] :
              /\ TakeLines(c, k) /\ served' = [served EXCEPT ![c] = @ + k]
              /\ child' = [child EXCEPT ![c] = "send"]
      BY <2>2
    <3>2. /\ inbox' = [inbox EXCEPT ![c] = @ - k] /\ k \in Nat /\ k > 0
          /\ UNCHANGED <<outbox, fin, closed, reset>>
      BY <1>t, <3>1, SMT DEF TakeLines, ClientTypeOK
    <3>3. /\ inbox'[c] = inbox[c] - k /\ served'[c] = served[c] + k
          /\ inbox[c] \in Nat /\ served[c] \in Nat /\ sent[c] \in Nat
          /\ got[c] \in Nat /\ outbox[c] \in Nat /\ inbox[c] > 0
          /\ child'[c] = "send"
      BY <1>t, <3>1, <3>2, SMT DEF ClientTypeOK
    <3>4. ASSUME c \notin refused PROVE Account(c)'
      <4>1. Account(c)  BY <1>a, <3>4
      <4>2. /\ served'[c] + inbox'[c] = sent[c]
            /\ got[c] + outbox[c] < served'[c] /\ got[c] + outbox[c] <= served'[c]
        BY <3>2, <3>3, <4>1, SMT DEF Account
      <4>3. ~(reader[c] = "done" /\ cpc[c] \in {"open", "done"})
        BY <3>3, <4>1, SMT DEF Account
      <4> QED BY <2>1, <3>2, <3>3, <4>1, <4>2, <4>3 DEF Account, PeerGone, cvars
    <3> QED BY <1>t, <2>1, <3>1, <3>2, <3>4, ServerAccount DEF ClientTypeOK
  <2>3. CASE /\ inbox[c] = 0 /\ fin[c] /\ child' = [child EXCEPT ![c] = "close"]
             /\ UNCHANGED <<lvars, served>>
    <3>1. c \notin refused => Account(c)'
      BY <1>a, <1>t, <2>1, <2>3 DEF Account, PeerGone, cvars, lvars
    <3> QED BY <1>t, <2>1, <2>3, <3>1, ServerAccount DEF lvars
  <2> QED BY <1>2, <2>2, <2>3 DEF ChildRecv
<1>3. CASE ChildSend(c)
  <2>1. child[c] = "send" /\ UNCHANGED <<cvars, refused, served>>
    BY <1>3 DEF ChildSend
  <2>2. CASE PutReply(c) /\ child' = [child EXCEPT ![c] = "recv"]
    <3>1. outbox' = [outbox EXCEPT ![c] = @ + 1] /\ UNCHANGED <<inbox, fin, closed, reset>>
      BY <2>2 DEF PutReply
    <3>2. /\ outbox'[c] = outbox[c] + 1 /\ child'[c] = "recv"
          /\ served[c] \in Nat /\ got[c] \in Nat /\ outbox[c] \in Nat
      BY <1>t, <2>2, <3>1, SMT DEF ClientTypeOK
    <3>3. ASSUME c \notin refused PROVE Account(c)'
      <4>1. Account(c)  BY <1>a, <3>3
      <4>2. got[c] + outbox'[c] <= served[c] /\ got[c] + outbox'[c] > 0
        BY <2>1, <3>2, <4>1, SMT DEF Account
      <4> QED BY <2>1, <3>1, <3>2, <4>1, <4>2 DEF Account, PeerGone, cvars
    <3> QED BY <1>t, <2>1, <2>2, <3>1, <3>3, ServerAccount DEF ClientTypeOK
  <2>3. CASE PeerGone(c) /\ Terminate(c)
    <3>1. Drop(c, Clients) /\ child' = [child EXCEPT ![c] = "zombie"]
      BY <2>3 DEF Terminate
    <3>2. /\ UNCHANGED <<inbox, outbox, fin>> /\ (closed[c] => closed'[c])
          /\ \A d \in Clients \ {c} : closed'[d] = closed[d] /\ reset'[d] = reset[d]
      BY <1>d, <3>1, DropAccount
    <3>3. c \notin refused => Account(c)'
      BY <1>a, <1>t, <2>1, <2>3, <3>1, <3>2 DEF Account, PeerGone, cvars
    <3> QED BY <1>t, <2>1, <3>1, <3>2, <3>3, ServerAccount
  <2> QED BY <1>3, <2>2, <2>3 DEF ChildSend
<1>4. CASE ChildClose(c)
  <2>1. /\ child[c] = "close" /\ Drop(c, {c}) /\ child' = [child EXCEPT ![c] = "exit"]
        /\ UNCHANGED <<cvars, served, refused>>
    BY <1>4 DEF ChildClose
  <2>2. /\ UNCHANGED <<inbox, outbox, fin>> /\ (closed[c] => closed'[c])
        /\ \A d \in Clients \ {c} : closed'[d] = closed[d] /\ reset'[d] = reset[d]
        /\ reset'[c] => reset[c] \/ inbox[c] > 0
    BY <2>1, DropAccount
  <2>3. ASSUME c \notin refused PROVE Account(c)'
    <3>1. Account(c)  BY <1>a, <2>3
    <3>2. inbox[c] = 0 /\ fin[c]  BY <2>1, <3>1 DEF Account
    <3>3. reset'[c] => reset[c]  BY <2>2, <3>2, SMT
    <3> QED BY <1>t, <2>1, <2>2, <3>1, <3>2, <3>3 DEF Account, PeerGone, cvars
  <2> QED BY <1>t, <2>1, <2>2, <2>3, ServerAccount
<1>5. CASE ChildExit(c)
  <2>1. /\ child[c] = "exit" /\ Drop(c, Clients) /\ child' = [child EXCEPT ![c] = "zombie"]
        /\ UNCHANGED <<cvars, served, refused>>
    BY <1>5 DEF ChildExit, Terminate
  <2>2. c \notin holders[c]
    BY <2>1 DEF PathInv, ChildInv, HeldOpen
  <2>3. /\ UNCHANGED <<inbox, outbox, fin>>
        /\ \A d \in Clients : closed'[d] = closed[d] /\ reset'[d] = reset[d]
    BY <1>d, <2>1, <2>2, DropAccount
  <2>4. c \notin refused => Account(c)'
    BY <1>a, <1>t, <2>1, <2>3 DEF Account, PeerGone, cvars
  <2> QED BY <1>t, <2>1, <2>3, <2>4, ServerAccount
<1> QED BY <1>1, <1>2, <1>3, <1>4, <1>5 DEF ChildStep

(* Every step keeps the accounts.                                             *)
LEMMA NextAccount == IInv /\ TInv /\ PathInv /\ AccountInv /\ [Next]_vars => AccountInv'
<1> SUFFICES ASSUME IInv, TInv, PathInv, AccountInv, [Next]_vars PROVE AccountInv'
    OBVIOUS
<1>0. ASSUME UNCHANGED <<cvars, lvars, served, refused, child>> PROVE AccountInv'
  BY <1>0 DEF AccountInv, Account, PeerGone, cvars, lvars
<1>1. CASE ParentStep
  <2>1. CASE Accept  BY <1>0, <2>1 DEF Accept
  <2>2. CASE Fork
    <3>1. PICK c \in Clients : c = cur
      BY <2>2 DEF Fork, IInv, CurInv
    <3>2. /\ child[c] = "none" /\ child' = [child EXCEPT ![c] = "start"]
          /\ child \in [Clients -> ChildStates] /\ UNCHANGED <<cvars, lvars, served, refused>>
      BY <2>2, <3>1 DEF Fork, PathInv, HandInv, IInv, Types
    <3>3. c \notin refused => Account(c)'
      BY <3>2 DEF AccountInv, Account, PeerGone, cvars, lvars
    <3> QED BY <3>2, <3>3, ServerAccount DEF lvars
  <2>3. CASE ForkFails
    <3>1. PICK c \in Clients : c = cur
      BY <2>3 DEF ForkFails, IInv, CurInv
    <3> QED BY <2>3, <3>1, ServerAccount DEF ForkFails, lvars
  <2>4. CASE CloseConn
    <3>1. PICK c \in Clients : c = cur
      BY <2>4 DEF CloseConn, IInv, CurInv
    <3> QED BY <2>4, <3>1, CloseConnAccount
  <2> QED BY <1>1, <2>1, <2>2, <2>3, <2>4 DEF ParentStep
<1>2. CASE HandlerStep
  <2>1. CASE Reap
    <3>1. PICK c \in Clients : child[c] = "zombie" /\ child' = [child EXCEPT ![c] = "reaped"]
      BY <2>1 DEF Reap
    <3>2. child \in [Clients -> ChildStates]
      BY DEF IInv, Types
    <3>3. c \notin refused => Account(c)'
      BY <2>1, <3>1, <3>2 DEF Reap, AccountInv, Account, PeerGone, cvars, lvars
    <3> QED BY <2>1, <3>1, <3>2, <3>3, ServerAccount DEF Reap, lvars
  <2> QED BY <1>0, <1>2, <2>1 DEF HandlerStep, Interrupt, NothingToReap, HandlerReturns
<1>3. ASSUME NEW c \in Clients, ChildStep(c) PROVE AccountInv'
  BY <1>3, ChildAccount
<1>4. ASSUME NEW c \in Clients, ClientStep(c) \/ Abort(c), UNCHANGED svars PROVE AccountInv'
  BY <1>4, ClientAccount
<1>5. CASE UNCHANGED vars
  BY <1>0, <1>5 DEF vars, svars
<1> QED BY <1>1, <1>2, <1>3, <1>4, <1>5 DEF Next

(* A client that has read to the end of the stream was served to the end,     *)
(* whatever fork, malloc, signals and other clients do: lines 32-52.          *)
THEOREM Answered == Spec => []AnsweredBeforeClose
<1>1. IInv /\ TInv /\ AccountInv => AnsweredBeforeClose
  <2> SUFFICES ASSUME TInv, AccountInv, NEW c \in Clients \ refused
               PROVE  /\ got[c] + outbox[c] <= served[c]
                      /\ reader[c] = "done" /\ cpc[c] \in {"open", "done"} =>
                            served[c] = sent[c] /\ (sent[c] > 0 => got[c] > 0)
                      /\ cpc[c] # "sigpipe" /\ (cpc[c] = "open" => ~reset[c])
      BY DEF AnsweredBeforeClose
  <2>1. Account(c)  BY DEF AccountInv
  <2>2. served[c] \in Nat /\ inbox[c] \in Nat /\ sent[c] \in Nat
    BY DEF TInv, ClientTypeOK
  <2>3. inbox[c] = 0 => served[c] = sent[c]
    BY <2>1, <2>2, SMT DEF Account
  <2> QED BY <2>1, <2>3 DEF Account, PeerGone
<1> QED BY <1>1, InitIInv, NextIInv, InitTInv, NextTInv, InitPath, NextPath,
           InitAccount, NextAccount, PTL DEF Spec

-----------------------------------------------------------------------------
(* No connection is forgotten.                                                *)

Queued(c) == \E i \in DOMAIN backlog : backlog[i] = c

(* From connect to the last close a connection waits in the queue or is held  *)
(* by a process, and a child that is not there holds nothing.                 *)
WayInv ==
    \A c \in Clients :
        /\ cpc[c] # "new" /\ ~closed[c] => Queued(c) \/ holders[c] # {}
        /\ child[c] = "none" => c \notin holders[c]

(* A connection that is open is in the queue, in the parent's hands, or has a *)
(* child that will close it: no process leaves one open behind its back.      *)
NoneForgotten ==
    \A c \in Clients : cpc[c] # "new" /\ ~closed[c] =>
        \/ Queued(c)
        \/ InHand(c)
        \/ child[c] \in {"start", "recv", "send", "close"}

LEMMA InitWay == Init => WayInv
BY DEF Init, ClientInit, WayInv

(* Steps that let go of nothing.                                              *)
LEMMA WayKept ==
    ASSUME WayInv, UNCHANGED <<backlog, holders>>,
           \A d \in Clients : /\ closed[d] => closed'[d]
                              /\ cpc'[d] # "new" => cpc[d] # "new"
                              /\ child'[d] = "none" => child[d] = "none"
    PROVE  WayInv'
BY DEF WayInv, Queued

(* What a process lets go of is closed, or another process holds it.          *)
LEMMA DropWay ==
    ASSUME IInv, WayInv, NEW p, NEW S \in SUBSET Clients, Drop(p, S), UNCHANGED <<cvars, backlog>>,
           \A d \in Clients : child'[d] = "none" => child[d] = "none"
    PROVE  WayInv'
<1>1. /\ holders' = [d \in Clients |-> IF d \in S THEN holders[d] \ {p} ELSE holders[d]]
      /\ closed' = [d \in Clients |-> closed[d] \/ d \in {e \in S : holders[e] = {p}}]
  BY DEF Drop, CloseServerEnd
<1>2. ASSUME NEW d \in Clients, cpc'[d] # "new", ~closed'[d]
      PROVE  Queued(d)' \/ holders'[d] # {}
  <2>1. ~closed[d] /\ ~(d \in S /\ holders[d] = {p})
    BY <1>1, <1>2
  <2>2. Queued(d) \/ holders[d] # {}
    BY <1>2, <2>1 DEF WayInv, cvars
  <2>3. holders[d] # {} => holders'[d] # {}
    BY <1>1, <2>1
  <2> QED BY <2>2, <2>3 DEF Queued
<1>3. ASSUME NEW d \in Clients, child'[d] = "none" PROVE d \notin holders'[d]
  BY <1>1, <1>3 DEF WayInv
<1> QED BY <1>2, <1>3 DEF WayInv

LEMMA NextWay == IInv /\ TInv /\ WayInv /\ [Next]_vars => WayInv'
<1> SUFFICES ASSUME IInv, TInv, WayInv, [Next]_vars PROVE WayInv'
    OBVIOUS
<1>t. /\ cpc \in [Clients -> {"new", "open", "done", "refused", "aborted", "sigpipe"}]
      /\ backlog \in Seq(Clients) /\ closed \in [Clients -> BOOLEAN]
      /\ child \in [Clients -> ChildStates]
      /\ holders \in [Clients -> SUBSET (Clients \cup {Parent})]
  BY DEF TInv, ClientTypeOK, IInv, Types
<1>1. CASE Accept
  <2>1. /\ backlog # <<>> /\ backlog' = Tail(backlog)
        /\ holders' = [holders EXCEPT ![Head(backlog)] = {Parent}]
        /\ UNCHANGED <<cpc, closed, child>>
    BY <1>1 DEF Accept, cvars, lvars
  <2>2. /\ Head(backlog) \in Clients /\ Head(backlog) = backlog[1]
        /\ \A i \in DOMAIN backlog : i = 1 \/ (i - 1 \in DOMAIN backlog' /\ backlog'[i - 1] = backlog[i])
    BY <1>t, <2>1, SMT
  <2>3. \A d \in Clients : Queued(d) => Queued(d)' \/ d = Head(backlog)
    BY <2>2 DEF Queued
  <2>4. \A d \in Clients : holders'[d] = IF d = Head(backlog) THEN {Parent} ELSE holders[d]
    BY <1>t, <2>1, <2>2
  <2>5. ASSUME NEW d \in Clients
        PROVE  /\ cpc'[d] # "new" /\ ~closed'[d] => Queued(d)' \/ holders'[d] # {}
               /\ child'[d] = "none" => d \notin holders'[d]
    <3>1. CASE d = Head(backlog)
      <4>1. holders'[d] = {Parent} /\ d # Parent
        BY <2>4, <3>1, NameAssumption
      <4> QED BY <4>1
    <3>2. CASE d # Head(backlog)
      BY <2>1, <2>3, <2>4, <3>2 DEF WayInv
    <3> QED BY <3>1, <3>2
  <2> QED BY <2>5 DEF WayInv
<1>2. CASE Fork
  <2>1. /\ child' = [child EXCEPT ![cur] = "start"] /\ cur \in Clients
        /\ holders' = [d \in Clients |-> IF Parent \in holders[d] THEN holders[d] \cup {cur}
                                         ELSE holders[d]]
        /\ UNCHANGED <<cpc, closed, backlog>>
    BY <1>2 DEF Fork, IInv, CurInv, cvars, lvars
  <2>2. \A d \in Clients : /\ holders[d] # {} => holders'[d] # {}
                           /\ child'[d] = "none" => child[d] = "none" /\ d # cur
    BY <1>t, <2>1 DEF ChildStates
  <2>3. \A d \in Clients : d # cur /\ d \notin holders[d] => d \notin holders'[d]
    BY <2>1
  <2> QED BY <2>1, <2>2, <2>3 DEF WayInv, Queued
<1>3. CASE ForkFails
  BY <1>3, WayKept DEF ForkFails, cvars, lvars
<1>4. CASE CloseConn
  <2>1. {cur} \in SUBSET Clients
    BY <1>4 DEF CloseConn, IInv, CurInv
  <2> QED BY <1>4, <2>1, DropWay DEF CloseConn
<1>5. CASE HandlerStep
  <2>1. UNCHANGED <<backlog, holders, closed, cpc>>
    BY <1>5 DEF HandlerStep, Interrupt, Reap, NothingToReap, HandlerReturns, cvars, lvars
  <2>2. \A d \in Clients : child'[d] = "none" => child[d] = "none"
    BY <1>t, <1>5 DEF HandlerStep, Interrupt, Reap, NothingToReap, HandlerReturns
  <2> QED BY <2>1, <2>2, WayKept
<1>6. ASSUME NEW c \in Clients, ChildStep(c) PROVE WayInv'
  <2>1. \A d \in Clients : child'[d] = "none" => child[d] = "none"
    BY <1>t, <1>6
       DEF ChildStep, Allocate, ChildRecv, ChildSend, ChildClose, ChildExit, Terminate
  <2>2. UNCHANGED <<cvars, backlog>>
    BY <1>6 DEF ChildStep, Allocate, ChildRecv, ChildSend, ChildClose, ChildExit
  <2>3. CASE UNCHANGED <<holders, closed>>
    BY <2>1, <2>2, <2>3, WayKept DEF cvars
  <2>4. CASE Drop(c, Clients)
    BY <2>1, <2>2, <2>4, DropWay
  <2>5. CASE Drop(c, {c})
    BY <2>1, <2>2, <2>5, DropWay
  <2>6. \/ UNCHANGED <<holders, closed>>
        \/ Drop(c, Clients) \/ Drop(c, {c})
    BY <1>6
       DEF ChildStep, Allocate, ChildRecv, ChildSend, ChildClose, ChildExit, Terminate,
           TakeLines, PutReply, lvars
  <2> QED BY <2>3, <2>4, <2>5, <2>6
<1>7. ASSUME NEW c \in Clients, ClientStep(c) \/ Abort(c), UNCHANGED svars PROVE WayInv'
  <2>1. CASE Connect(c)
    <3>1. /\ cpc' = [cpc EXCEPT ![c] = "open"] /\ backlog' = Append(backlog, c)
          /\ UNCHANGED <<closed, holders, child>>
      BY <1>7, <2>1 DEF Connect, lvars, svars
    <3>2. /\ \A i \in DOMAIN backlog : i \in DOMAIN backlog' /\ backlog'[i] = backlog[i]
          /\ Len(backlog) + 1 \in DOMAIN backlog' /\ backlog'[Len(backlog) + 1] = c
      <4>1. /\ Len(backlog) \in Nat /\ DOMAIN backlog = 1 .. Len(backlog)
            /\ Append(backlog, c) \in Seq(Clients) /\ Len(Append(backlog, c)) = Len(backlog) + 1
        BY <1>t
      <4>2. DOMAIN backlog' = 1 .. Len(backlog) + 1
        BY <3>1, <4>1
      <4> QED BY <1>t, <3>1, <4>1, <4>2
    <3>3. Queued(c)' /\ \A d \in Clients : Queued(d) => Queued(d)'
      BY <3>2 DEF Queued
    <3>4. \A d \in Clients : d # c => cpc'[d] = cpc[d]
      BY <1>t, <3>1
    <3> QED BY <3>1, <3>3, <3>4 DEF WayInv
  <2>2. CASE ~Connect(c)
    <3>1. UNCHANGED <<backlog, closed>> /\ \A d \in Clients : cpc'[d] # "new" => cpc[d] # "new"
      BY <1>t, <1>7, <2>2, SMT
         DEF ClientStep, SendLine, EndOfInput, ReadReplies, CloseClient, Abort, Die, lvars
    <3> QED BY <1>7, <3>1, WayKept DEF svars
  <2> QED BY <2>1, <2>2
<1>8. CASE UNCHANGED vars
  BY <1>8, WayKept DEF vars, svars, cvars, lvars
<1> QED BY <1>1, <1>2, <1>3, <1>4, <1>5, <1>6, <1>7, <1>8 DEF Next, ParentStep

(* Whatever fork, malloc and signals do, an open connection has somebody who  *)
(* goes on with it, so a client can only wait for a process that is running:  *)
(* what ClientsFinish needs besides fairness.                                 *)
THEOREM Attended == Spec => []NoneForgotten
<1>1. IInv /\ PathInv /\ WayInv => NoneForgotten
  <2> SUFFICES ASSUME IInv, PathInv, WayInv, NEW c \in Clients, cpc[c] # "new", ~closed[c], ~Queued(c)
               PROVE  InHand(c) \/ child[c] \in {"start", "recv", "send", "close"}
      BY DEF NoneForgotten
  <2>1. holders[c] # {} /\ holders[c] \subseteq {Parent, c}
    BY DEF WayInv, IInv, DescriptorsPrivate
  <2>2. CASE Parent \in holders[c]
    BY <2>2 DEF IInv, DescriptorsPrivate, InHand
  <2>3. CASE c \in holders[c]
    <3>1. child[c] \notin {"none", "exit", "zombie", "reaped"}
      BY <2>3 DEF WayInv, PathInv, ChildInv, HeldOpen, IInv, DescriptorsPrivate
    <3>2. child[c] \in ChildStates
      BY DEF IInv, Types
    <3> QED BY <3>1, <3>2 DEF ChildStates
  <2> QED BY <2>1, <2>2, <2>3
<1> QED BY <1>1, InitIInv, NextIInv, InitTInv, NextTInv, InitPath, NextPath, InitWay, NextWay,
           PTL DEF Spec
====
