---- MODULE ThreadServer_proof ----
(* Proofs about ThreadServer, for every set of clients and every bound: types *)
(* under any schedule, and, under the schedules of Eager, that threads and    *)
(* connections are never confused, none is orphaned and, while the server     *)
(* runs, a client with a thread hears the end of its stream only after all it *)
(* sent was read, and with a reply if it sent anything.                       *)
EXTENDS ThreadServer, FiniteSetTheorems, WellFoundedInduction, TLAPS

-----------------------------------------------------------------------------
(* The connections: their types survive each step of a client and each call   *)
(* a server makes on its end.                                                 *)

(* A client's own steps.                                                      *)
LEMMA ClientStepTypes ==
    ASSUME ClientTypeOK, NEW c \in Clients, ClientStep(c) \/ Abort(c)
    PROVE  ClientTypeOK'
<1> USE MessageAssumption DEF ClientTypeOK, lvars
<1>1. CASE Connect(c)      BY <1>1, SMT DEF Connect
<1>2. CASE SendLine(c)
  <2>1. CASE Die(c, "sigpipe") /\ UNCHANGED <<sent, inbox, reset, got, outbox, closed, backlog>>
    BY <2>1, SMT DEF Die
  <2>2. CASE ~reset[c]
    <3>1. /\ sent[c] < MaxMessage[c]
          /\ sent' = [sent EXCEPT ![c] = @ + 1]
          /\ UNCHANGED <<cpc, writer, reader, fin, got, outbox, closed, backlog>>
      BY <1>2, <2>2 DEF SendLine
    <3>2. CASE closed[c]
      <4>1. reset' = [reset EXCEPT ![c] = TRUE] /\ UNCHANGED inbox
        BY <1>2, <2>2, <3>2 DEF SendLine
      <4> QED BY <3>1, <4>1, SMT
    <3>3. CASE ~closed[c]
      <4>1. inbox' = [inbox EXCEPT ![c] = @ + 1] /\ UNCHANGED reset
        BY <1>2, <2>2, <3>3 DEF SendLine
      <4> QED BY <3>1, <4>1, SMT
    <3> QED BY <3>2, <3>3
  <2> QED BY <1>2, <2>1, <2>2 DEF SendLine
<1>3. CASE EndOfInput(c)   BY <1>3, SMT DEF EndOfInput
<1>4. CASE ReadReplies(c)
  <2>1. CASE outbox[c] > 0
    <3>1. /\ got' = [got EXCEPT ![c] = @ + outbox[c]]
          /\ outbox' = [outbox EXCEPT ![c] = 0]
          /\ UNCHANGED <<cpc, writer, reader, sent, inbox, fin, closed, reset, backlog>>
      BY <1>4, <2>1, SMT DEF ReadReplies
    <3> QED BY <3>1, SMT
  <2>2. CASE ~(outbox[c] > 0)
    <3>1. /\ reader' = [reader EXCEPT ![c] = "done"]
          /\ UNCHANGED <<cpc, writer, sent, got, inbox, outbox, fin, closed, reset, backlog>>
      BY <1>4, <2>2, SMT DEF ReadReplies
    <3> QED BY <3>1, SMT
  <2> QED BY <2>1, <2>2
<1>5. CASE CloseClient(c)  BY <1>5, SMT DEF CloseClient
<1>6. CASE Abort(c)        BY <1>6, SMT DEF Abort, Die
<1> QED BY <1>1, <1>2, <1>3, <1>4, <1>5, <1>6 DEF ClientStep

(* What a server does to a connection, and nothing else.                      *)
ServerEndStep(c, S) ==
    \/ \E k \in 1 .. inbox[c] : TakeLines(c, k)
    \/ PutReply(c)
    \/ CloseServerEnd(S)
    \/ UNCHANGED lvars

LEMMA ServerEndTypes ==
    ASSUME ClientTypeOK, UNCHANGED cvars, backlog' \in Seq(Clients),
           NEW c \in Clients, NEW S, ServerEndStep(c, S)
    PROVE  ClientTypeOK'
<1>0. /\ inbox \in [Clients -> Nat] /\ outbox \in [Clients -> Nat] /\ fin \in [Clients -> BOOLEAN]
      /\ closed \in [Clients -> BOOLEAN] /\ reset \in [Clients -> BOOLEAN]
  BY DEF ClientTypeOK
<1>e. ASSUME inbox' \in [Clients -> Nat], outbox' \in [Clients -> Nat], UNCHANGED fin,
             closed' \in [Clients -> BOOLEAN], reset' \in [Clients -> BOOLEAN]
      PROVE  ClientTypeOK'
  BY <1>e DEF ClientTypeOK, cvars
<1>1. CASE \E k \in 1 .. inbox[c] : TakeLines(c, k)
  <2>1. PICK k \in 1 .. inbox[c] : inbox' = [inbox EXCEPT ![c] = @ - k]
    BY <1>1 DEF TakeLines
  <2>2. inbox[c] - k \in Nat
    BY <1>0, <2>1
  <2>3. inbox' \in [Clients -> Nat]
    BY <1>0, <2>1, <2>2
  <2> QED BY <1>0, <1>1, <1>e, <2>3 DEF TakeLines
<1>2. CASE PutReply(c)
  BY <1>0, <1>2, <1>e DEF PutReply
<1>3. CASE CloseServerEnd(S)
  <2>1. /\ closed' = [d \in Clients |-> closed[d] \/ d \in S]
        /\ reset' = [d \in Clients |-> reset[d] \/ (d \in S /\ inbox[d] > 0)]
        /\ UNCHANGED <<inbox, outbox, fin>>
    BY <1>3 DEF CloseServerEnd
  <2>2. closed' \in [Clients -> BOOLEAN] /\ reset' \in [Clients -> BOOLEAN]
    BY <2>1
  <2> QED BY <1>0, <1>e, <2>1, <2>2
<1>4. CASE UNCHANGED lvars
  BY <1>0, <1>4, <1>e DEF lvars
<1> QED BY <1>1, <1>2, <1>3, <1>4 DEF ServerEndStep

-----------------------------------------------------------------------------

(* The types, and that a descriptor variable in use holds a descriptor.       *)
TInv ==
    /\ TypeOK
    /\ accepted # <<>> => clientfd \in Descriptors
    /\ mpc = "create" => accepted # <<>>
    /\ \A i \in Threads : /\ tpc[i] # "none" => accepted # <<>>
                          /\ Serving(i) => tfd[i] \in Descriptors

(* A connection is in the queue or has been accepted, once; an open           *)
(* descriptor stands for one that was accepted, no two for the same.          *)
QueueInv ==
    /\ \A i, j \in DOMAIN backlog : backlog[i] = backlog[j] => i = j
    /\ \A i \in DOMAIN backlog :
          /\ cpc[backlog[i]] # "new"
          /\ ~closed[backlog[i]]
          /\ \A k \in DOMAIN accepted : accepted[k] # backlog[i]

AcceptedInv ==
    /\ \A k, l \in DOMAIN accepted : accepted[k] = accepted[l] => k = l
    /\ \A k \in DOMAIN accepted : cpc[accepted[k]] # "new"

TableInv ==
    /\ \A f, g \in Descriptors : fdtab[f] = fdtab[g] /\ fdtab[f] # NoConn => f = g
    /\ \A f \in Descriptors : fdtab[f] # NoConn =>
          /\ ~closed[fdtab[f]]
          /\ \E k \in DOMAIN accepted : accepted[k] = fdtab[f]

(* While the server runs, a client that is over without having been           *)
(* interrupted has seen the end of its connection.                            *)
PeerInv ==
    alive => \A c \in Clients :
        /\ cpc[c] \in {"done", "sigpipe", "refused"} => closed[c]
        /\ reset[c] => closed[c]
        /\ cpc[c] = "new" => ~closed[c]
        /\ cpc[c] = "open" /\ reader[c] = "done" => closed[c]

PInv == QueueInv /\ AcceptedInv /\ TableInv /\ PeerInv

(* Under Eager at most one thread has still to read its argument, the last    *)
(* one created, and main is not handing over another connection meanwhile.    *)
OwnInv ==
    /\ \A i \in Threads : tpc[i] # "none" =>
          /\ i \in DOMAIN accepted
          /\ mpc = "create" => i < Len(accepted)
    /\ \A i \in Threads : tpc[i] = "start" =>
          /\ i = Len(accepted) /\ alive /\ mpc = "accept"
          /\ fdtab[clientfd] = accepted[i]
    /\ alive /\ mpc = "create" => fdtab[clientfd] = accepted[Len(accepted)]
    /\ \A i \in Threads : Serving(i) => alive /\ Conn(i) = accepted[i]

IInv == TInv /\ PInv

-----------------------------------------------------------------------------
(* The lowest free descriptor: there is one whenever any is free.             *)
LEMMA DescriptorLeft ==
    ASSUME FreeFds # {}
    PROVE  LowestFree \in Descriptors /\ fdtab[LowestFree] = NoConn
<1>1. FreeFds # {}
  OBVIOUS
<1>2. FreeFds \subseteq Nat
  BY ThreadAssumption, SMT DEF FreeFds, Descriptors
<1>3. \E f \in FreeFds : \A g \in FreeFds : <<g, f>> \notin OpToRel(<, Nat)
  BY <1>1, <1>2, NatLessThanWellFounded, WFMin
<1>4. PICK f \in FreeFds : \A g \in FreeFds : <<g, f>> \notin OpToRel(<, Nat)
  BY <1>3
<1>5. \A g \in FreeFds : f <= g
  <2> SUFFICES ASSUME NEW g \in FreeFds PROVE f <= g
      OBVIOUS
  <2>1. g < f => <<g, f>> \in OpToRel(<, Nat)
    <3> HIDE DEF FreeFds
    <3>1. f \in Nat /\ g \in Nat
      BY <1>2
    <3>2. <<g, f>> \in Nat \X Nat /\ <<g, f>>[1] = g /\ <<g, f>>[2] = f
      BY <3>1
    <3> QED BY <3>2, Zenon DEF OpToRel
  <2>2. ~(g < f)
    BY <1>4, <2>1
  <2> QED BY <1>2, <2>2, SMT
<1>6. LowestFree \in FreeFds
  BY <1>5 DEF LowestFree
<1> QED BY <1>6 DEF FreeFds

-----------------------------------------------------------------------------
(* The start.                                                                 *)
LEMMA InitIInv == Init => IInv
<1> SUFFICES ASSUME Init PROVE IInv
    OBVIOUS
<1>1. ClientTypeOK
  BY MessageAssumption, SMT DEF Init, ClientInit, ClientTypeOK
<1>2. TInv
  BY <1>1, SMT DEF Init, ClientInit, TInv, TypeOK, Serving
<1>3. PInv
  BY SMT DEF Init, ClientInit, PInv, QueueInv, AcceptedInv, TableInv, PeerInv
<1> QED BY <1>2, <1>3 DEF IInv

(* A connection whose descriptor is used is a client's.                       *)
LEMMA OpenIsClient ==
    ASSUME IInv, NEW f \in Descriptors, fdtab[f] # NoConn
    PROVE  fdtab[f] \in Clients
BY DEF IInv, TInv, TypeOK

(* A sequence with one element more.                                          *)
LEMMA AppendFacts ==
    ASSUME NEW S, NEW s \in Seq(S), NEW e \in S
    PROVE  /\ Append(s, e) \in Seq(S) /\ Append(s, e) # <<>>
           /\ Len(s) + 1 \in DOMAIN Append(s, e) /\ Append(s, e)[Len(s) + 1] = e
           /\ \A k \in DOMAIN s : k \in DOMAIN Append(s, e) /\ Append(s, e)[k] = s[k]
           /\ \A k \in DOMAIN Append(s, e) : k \in DOMAIN s \/ k = Len(s) + 1
<1>1. /\ Append(s, e) \in Seq(S) /\ Len(Append(s, e)) = Len(s) + 1
      /\ DOMAIN s = 1 .. Len(s) /\ Len(s) \in Nat
  OBVIOUS
<1>2. DOMAIN Append(s, e) = 1 .. Len(s) + 1
  BY <1>1
<1>3. \A k \in 1 .. Len(s) + 1 : k \in 1 .. Len(s) \/ k = Len(s) + 1
  BY <1>1
<1>4. Len(s) + 1 \in 1 .. Len(s) + 1 /\ \A k \in 1 .. Len(s) : k \in 1 .. Len(s) + 1
  BY <1>1
<1>5. Append(s, e)[Len(s) + 1] = e /\ \A k \in DOMAIN s : Append(s, e)[k] = s[k]
  OBVIOUS
<1>6. Append(s, e) # <<>>
  BY <1>1, Len(<<>>) = 0
<1> QED BY <1>1, <1>2, <1>3, <1>4, <1>5, <1>6

(* accept takes the head of the queue.                                        *)
LEMMA AcceptIInv == ASSUME IInv, Accept PROVE IInv'
<1> DEFINE h == Head(backlog)
           f == LowestFree
<1>t. TInv /\ TypeOK /\ PInv /\ backlog \in Seq(Clients) /\ accepted \in Seq(Clients)
  BY DEF IInv, TInv, TypeOK, ClientTypeOK
<1>1. /\ backlog # <<>> /\ backlog' = Tail(backlog) /\ accepted' = Append(accepted, h)
      /\ fdtab' = [fdtab EXCEPT ![f] = h] /\ clientfd' = f /\ mpc' = "create"
      /\ FreeFds # {}
      /\ UNCHANGED <<cpc, closed, reset, reader, alive, tpc, tfd, refused, lost, cvars, lvars>>
  BY DEF Accept, cvars, lvars
<1>2. f \in Descriptors /\ fdtab[f] = NoConn
  BY <1>1, DescriptorLeft
<1> HIDE DEF f
<1>3. /\ h \in Clients /\ h = backlog[1] /\ 1 \in DOMAIN backlog
      /\ Tail(backlog) \in Seq(Clients)
      /\ \A i \in DOMAIN backlog' : backlog'[i] = backlog[i + 1] /\ i + 1 \in DOMAIN backlog
      /\ \A i \in DOMAIN backlog' : i + 1 # 1
  BY <1>t, <1>1, SMT
<1>4. /\ accepted' \in Seq(Clients) /\ accepted' # <<>>
      /\ Len(accepted) + 1 \in DOMAIN accepted' /\ accepted'[Len(accepted) + 1] = h
      /\ \A k \in DOMAIN accepted : k \in DOMAIN accepted' /\ accepted'[k] = accepted[k]
      /\ \A k \in DOMAIN accepted' : k \in DOMAIN accepted \/ k = Len(accepted) + 1
  BY <1>t, <1>1, <1>3, AppendFacts
<1>5. \A g \in Descriptors : fdtab'[g] = IF g = f THEN h ELSE fdtab[g]
  BY <1>t, <1>1, <1>2 DEF TypeOK
<1> HIDE DEF h
<1>6. TInv'
  <2>1. ClientTypeOK'  BY <1>t, <1>1, <1>3 DEF TypeOK, ClientTypeOK, cvars, lvars
  <2>2. fdtab' \in [Descriptors -> Clients \cup {NoConn}]
    BY <1>t, <1>1, <1>2, <1>3 DEF TypeOK
  <2>3. TypeOK'  BY <1>t, <1>1, <1>2, <1>4, <2>1, <2>2 DEF TypeOK
  <2> QED BY <1>t, <1>1, <1>2, <1>4, <2>3 DEF TInv, Serving
<1>7. \A k \in DOMAIN accepted : accepted[k] # h
  BY <1>t, <1>3 DEF PInv, QueueInv
<1>8. QueueInv'
  <2>1. \A i, j \in DOMAIN backlog' : backlog'[i] = backlog'[j] => i = j
    <3> SUFFICES ASSUME NEW i \in DOMAIN backlog', NEW j \in DOMAIN backlog', backlog'[i] = backlog'[j]
                 PROVE  i = j
        OBVIOUS
    <3>1. i + 1 = j + 1  BY <1>t, <1>3 DEF PInv, QueueInv
    <3>2. i \in Int /\ j \in Int  BY <1>1, <1>3, SMT
    <3> QED BY <3>1, <3>2, SMT
  <2>2. \A i \in DOMAIN backlog' : backlog'[i] # h
    BY <1>t, <1>3 DEF PInv, QueueInv
  <2>3. ASSUME NEW i \in DOMAIN backlog', NEW k \in DOMAIN accepted'
        PROVE  accepted'[k] # backlog'[i]
    BY <1>t, <1>3, <1>4, <2>2 DEF PInv, QueueInv
  <2>4. ASSUME NEW i \in DOMAIN backlog'
        PROVE  cpc'[backlog'[i]] # "new" /\ ~closed'[backlog'[i]]
    BY <1>t, <1>1, <1>3 DEF PInv, QueueInv
  <2> QED BY <2>1, <2>3, <2>4 DEF QueueInv
<1>9. AcceptedInv'
  <2>1. cpc[h] # "new"  BY <1>t, <1>3 DEF PInv, QueueInv
  <2> QED BY <1>t, <1>1, <1>4, <1>7, <2>1 DEF PInv, AcceptedInv
<1>10. TableInv'
  <2>1. \A g \in Descriptors : fdtab[g] # NoConn => fdtab[g] # h
    BY <1>t, <1>7 DEF PInv, TableInv
  <2>2. ~closed[h]  BY <1>t, <1>3 DEF PInv, QueueInv
  <2> QED BY <1>t, <1>1, <1>4, <1>5, <2>1, <2>2 DEF PInv, TableInv
<1>11. PeerInv'  BY <1>t, <1>1 DEF PInv, PeerInv
<1> QED BY <1>6, <1>8, <1>9, <1>10, <1>11 DEF IInv, PInv

(* A step that opens, closes, queues and ends nothing.                        *)
LEMMA QuietPInv ==
    ASSUME PInv, UNCHANGED <<backlog, cpc, closed, accepted, fdtab, alive, reset, reader>>
    PROVE  PInv'
BY DEF PInv, QueueInv, AcceptedInv, TableInv, PeerInv

(* Connections that were accepted are closed: no one in the queue suffers.    *)
LEMMA CloseAccepted ==
    ASSUME IInv, NEW S, \A c \in S : \E k \in DOMAIN accepted : accepted[k] = c,
           CloseServerEnd(S), UNCHANGED <<cvars, backlog, accepted>>
    PROVE  ClientTypeOK' /\ QueueInv' /\ AcceptedInv'
<1>t. /\ TypeOK /\ ClientTypeOK /\ PInv /\ backlog \in Seq(Clients) /\ backlog' \in Seq(Clients)
  BY DEF IInv, TInv, TypeOK, ClientTypeOK
<1>1. ClientTypeOK'
  BY <1>t, SMT DEF ClientTypeOK, CloseServerEnd, cvars
<1>2. \A c \in Clients : c \notin S => closed'[c] = closed[c]
  BY <1>t DEF CloseServerEnd, ClientTypeOK
<1>3. \A i \in DOMAIN backlog : backlog[i] \in Clients /\ backlog[i] \notin S
  <2>1. \A i \in DOMAIN backlog : backlog[i] \in Clients
    BY <1>t, SMT
  <2> QED BY <1>t, <2>1 DEF PInv, QueueInv
<1>4. QueueInv'
  BY <1>t, <1>2, <1>3 DEF PInv, QueueInv, cvars
<1>5. AcceptedInv'
  BY <1>t DEF PInv, AcceptedInv, cvars
<1> QED BY <1>1, <1>4, <1>5

(* The end of the process closes what was accepted.                           *)
LEMMA CrashIInv ==
    ASSUME IInv, Crash, UNCHANGED <<cvars, backlog, clientfd, accepted, tfd>>,
           mpc' \in {mpc, "accept", "exit"}, refused' = refused, lost' \in SUBSET Clients
    PROVE  IInv'
<1> DEFINE S == {fdtab[f] : f \in Descriptors} \ {NoConn}
<1>t. TInv /\ TypeOK /\ PInv
  BY DEF IInv, TInv
<1>1. /\ alive' = FALSE /\ CloseServerEnd(S)
      /\ fdtab' = [f \in Descriptors |-> NoConn]
      /\ tpc' = [i \in Threads |-> IF tpc[i] = "none" THEN "none" ELSE "done"]
  BY DEF Crash
<1>2. \A c \in S : \E k \in DOMAIN accepted : accepted[k] = c
  BY <1>t DEF PInv, TableInv
<1> HIDE DEF S
<1>3. ClientTypeOK' /\ QueueInv' /\ AcceptedInv'
  BY <1>1, <1>2, CloseAccepted
<1>4. TInv'
  BY <1>t, <1>1, <1>3 DEF TInv, TypeOK, Serving
<1>5. TableInv' /\ PeerInv'
  BY <1>1 DEF TableInv, PeerInv
<1> QED BY <1>3, <1>4, <1>5 DEF IInv, PInv

(* pthread_create, and its failure.                                           *)
LEMMA CreateIInv == ASSUME IInv, CreateThread \/ CreateFails PROVE IInv'
<1>t. TInv /\ TypeOK /\ ClientTypeOK /\ PInv /\ accepted \in Seq(Clients)
  BY DEF IInv, TInv, TypeOK
<1>1. CASE CreateThread
  <2>1. /\ mpc = "create" /\ mpc' = "accept" /\ tpc' = [tpc EXCEPT ![Len(accepted)] = "start"]
        /\ UNCHANGED <<cvars, lvars, backlog, clientfd, accepted, fdtab, tfd, alive, refused, lost>>
    BY <1>1 DEF CreateThread
  <2>2. TInv'
    BY <1>t, <2>1 DEF TInv, TypeOK, ClientTypeOK, Serving, cvars, lvars
  <2>3. PInv'
    BY <1>t, <2>1, QuietPInv DEF cvars, lvars
  <2> QED BY <2>2, <2>3 DEF IInv
<1>2. CASE CreateFails
  <2>1. /\ mpc = "create" /\ mpc' = "accept" /\ lost' = lost \cup {accepted[Len(accepted)]}
        /\ UNCHANGED <<cvars, backlog, clientfd, accepted, tfd, refused>>
        /\ UNCHANGED <<lvars, fdtab, tpc, alive>> \/ Crash
    BY <1>2 DEF CreateFails
  <2>2. accepted[Len(accepted)] \in Clients
    <3>1. accepted # <<>>  BY <1>t, <2>1 DEF TInv
    <3> QED BY <1>t, <3>1, SMT
  <2>3. lost' \in SUBSET Clients
    BY <1>t, <2>1, <2>2 DEF TypeOK
  <2>4. CASE Crash
    BY <2>1, <2>3, <2>4, CrashIInv
  <2>5. CASE UNCHANGED <<lvars, fdtab, tpc, alive>>
    <3>1. TInv'
      BY <1>t, <2>1, <2>3, <2>5 DEF TInv, TypeOK, ClientTypeOK, Serving, cvars, lvars
    <3>2. PInv'
      BY <1>t, <2>1, <2>5, QuietPInv DEF cvars, lvars
    <3> QED BY <3>1, <3>2 DEF IInv
  <2> QED BY <2>1, <2>4, <2>5
<1> QED BY <1>1, <1>2

(* The threads.                                                               *)
LEMMA ThreadIInv == ASSUME IInv, NEW i \in Threads, ThreadStep(i) PROVE IInv'
<1>t. TInv /\ TypeOK /\ ClientTypeOK /\ PInv
  BY DEF IInv, TInv, TypeOK
<1>1. CASE ReadArgument(i)
  <2>1. /\ tpc[i] = "start" /\ tfd' = [tfd EXCEPT ![i] = clientfd]
        /\ tpc' = [tpc EXCEPT ![i] = "recv"] \/ tpc' = [tpc EXCEPT ![i] = "close"]
        /\ refused' \in {refused, refused \cup {i}}
        /\ UNCHANGED <<cvars, lvars, backlog, mpc, clientfd, accepted, fdtab, alive, lost>>
    BY <1>1 DEF ReadArgument
  <2>2. clientfd \in Descriptors /\ accepted # <<>>
    BY <1>t, <2>1 DEF TInv
  <2>3. TInv'
    BY <1>t, <2>1, <2>2 DEF TInv, TypeOK, ClientTypeOK, Serving, cvars, lvars
  <2>4. PInv'
    BY <1>t, <2>1, QuietPInv DEF cvars, lvars
  <2> QED BY <2>3, <2>4 DEF IInv
<1>2. ASSUME Serving(i) PROVE tfd[i] \in Descriptors /\ accepted # <<>>
  BY <1>t, <1>2 DEF TInv, Serving
<1>3. CASE Recv(i)
  <2>1. /\ tpc[i] = "recv"
        /\ UNCHANGED <<cvars, backlog, mpc, clientfd, accepted, fdtab, tfd, alive, refused, lost>>
        /\ tpc' = [tpc EXCEPT ![i] = "send"] \/ tpc' = [tpc EXCEPT ![i] = "close"]
        /\ \/ Conn(i) # NoConn /\ \E k \in 1 .. inbox[Conn(i)] : TakeLines(Conn(i), k)
           \/ UNCHANGED lvars
    BY <1>3 DEF Recv
  <2>2. UNCHANGED <<closed, reset>> /\ ClientTypeOK'
    <3>1. CASE UNCHANGED lvars
      BY <1>t, <2>1, <3>1 DEF ClientTypeOK, cvars, lvars
    <3>2. CASE Conn(i) # NoConn /\ \E k \in 1 .. inbox[Conn(i)] : TakeLines(Conn(i), k)
      <4>1. Conn(i) \in Clients
        BY <1>2, <2>1, <3>2, OpenIsClient DEF Conn, Serving
      <4>2. ClientTypeOK'
        BY <1>t, <2>1, <3>2, <4>1, ServerEndTypes DEF ServerEndStep, ClientTypeOK
      <4> QED BY <3>2, <4>2 DEF TakeLines
    <3> QED BY <2>1, <3>1, <3>2
  <2>3. TInv'
    BY <1>t, <1>2, <2>1, <2>2 DEF TInv, TypeOK, Serving
  <2>4. PInv'
    BY <1>t, <2>1, <2>2, QuietPInv DEF cvars
  <2> QED BY <2>3, <2>4 DEF IInv
<1>4. CASE Send(i)
  <2>1. /\ tpc[i] = "send"
        /\ UNCHANGED <<cvars, backlog, mpc, clientfd, accepted, tfd, refused, lost>>
        /\ \/ /\ Conn(i) # NoConn /\ PutReply(Conn(i)) /\ tpc' = [tpc EXCEPT ![i] = "recv"]
              /\ UNCHANGED <<alive, fdtab>>
           \/ Crash
    BY <1>4 DEF Send
  <2>2. CASE Crash
    BY <1>t, <2>1, <2>2, CrashIInv DEF TypeOK
  <2>3. CASE ~Crash
    <3>1. Conn(i) \in Clients
      BY <1>2, <2>1, <2>3, OpenIsClient DEF Conn, Serving
    <3>2. ClientTypeOK'
      BY <1>t, <2>1, <2>3, <3>1, ServerEndTypes DEF ServerEndStep, ClientTypeOK
    <3>3. TInv'
      BY <1>t, <1>2, <2>1, <2>3, <3>2 DEF TInv, TypeOK, Serving
    <3>4. PInv'
      BY <1>t, <2>1, <2>3, QuietPInv DEF cvars, PutReply
    <3> QED BY <3>3, <3>4 DEF IInv
  <2> QED BY <2>2, <2>3
<1>5. CASE CloseFd(i)
  <2>1. /\ tpc[i] = "close" /\ tpc' = [tpc EXCEPT ![i] = "done"]
        /\ fdtab' = [fdtab EXCEPT ![tfd[i]] = NoConn]
        /\ UNCHANGED <<cvars, backlog, mpc, clientfd, accepted, tfd, alive, refused, lost>>
        /\ IF Conn(i) = NoConn THEN UNCHANGED lvars ELSE CloseServerEnd({Conn(i)})
    BY <1>5 DEF CloseFd
  <2>2. tfd[i] \in Descriptors /\ accepted # <<>>
    BY <1>2, <2>1 DEF Serving
  <2>3. \A f \in Descriptors : fdtab'[f] = IF f = tfd[i] THEN NoConn ELSE fdtab[f]
    BY <1>t, <2>1, <2>2 DEF TypeOK
  <2>4. CASE Conn(i) = NoConn
    <3>1. ClientTypeOK'
      BY <1>t, <2>1, <2>4 DEF ClientTypeOK, cvars, lvars
    <3>2. TInv'
      BY <1>t, <2>1, <2>2, <3>1 DEF TInv, TypeOK, Serving
    <3>3. fdtab' = fdtab
      BY <1>t, <2>1, <2>2, <2>4 DEF TypeOK, Conn
    <3>4. PInv'
      BY <1>t, <2>1, <2>4, <3>3, QuietPInv DEF cvars, lvars
    <3> QED BY <3>2, <3>4 DEF IInv
  <2>5. CASE Conn(i) # NoConn
    <3>1. CloseServerEnd({Conn(i)}) /\ Conn(i) \in Clients
      BY <2>1, <2>2, <2>5, OpenIsClient DEF Conn
    <3>2. \E k \in DOMAIN accepted : accepted[k] = Conn(i)
      BY <1>t, <2>2, <2>5 DEF PInv, TableInv, Conn
    <3>3. ClientTypeOK' /\ QueueInv' /\ AcceptedInv'
      BY <2>1, <3>1, <3>2, CloseAccepted
    <3>4. TInv'
      BY <1>t, <2>1, <2>2, <3>3 DEF TInv, TypeOK, Serving
    <3>5. \A c \in Clients : /\ closed'[c] <=> (closed[c] \/ c = Conn(i))
                             /\ reset'[c] => (reset[c] \/ c = Conn(i))
      BY <1>t, <3>1 DEF CloseServerEnd, ClientTypeOK
    <3>6. \A f \in Descriptors : f # tfd[i] /\ fdtab[f] # NoConn => fdtab[f] # Conn(i) /\ fdtab[f] \in Clients
      BY <1>t, <2>2, OpenIsClient DEF PInv, TableInv, Conn
    <3>7. TableInv'
      BY <1>t, <2>1, <2>3, <3>5, <3>6 DEF PInv, TableInv
    <3>8. cpc[Conn(i)] # "new"
      BY <1>t, <3>2 DEF PInv, AcceptedInv
    <3>9. PeerInv'
      BY <1>t, <2>1, <3>5, <3>8 DEF PInv, PeerInv, cvars
    <3> QED BY <3>3, <3>4, <3>7, <3>9 DEF IInv, PInv
  <2> QED BY <2>4, <2>5
<1> QED BY <1>1, <1>3, <1>4, <1>5 DEF ThreadStep

(* The clients: a close they see comes from the server while it runs.         *)
LEMMA ClientIInv == ASSUME IInv, NEW c \in Clients, ClientNext(c) PROVE IInv'
<1>t. /\ TInv /\ TypeOK /\ ClientTypeOK /\ PInv /\ backlog \in Seq(Clients)
      /\ cpc \in [Clients -> {"new", "open", "done", "refused", "aborted", "sigpipe"}]
      /\ reset \in [Clients -> BOOLEAN] /\ closed \in [Clients -> BOOLEAN]
      /\ accepted \in Seq(Clients)
      /\ reader \in [Clients -> {"idle", "recv", "done"}]
  BY DEF IInv, TInv, TypeOK, ClientTypeOK
<1>a. \A k \in DOMAIN accepted : accepted[k] \in Clients
  BY <1>t, SMT
<1>b. \A k \in DOMAIN backlog : backlog[k] \in Clients
  BY <1>t, SMT
<1>1. CASE ConnectRefused(c)
  <2>1. /\ ~alive /\ cpc' = [cpc EXCEPT ![c] = "refused"]
        /\ UNCHANGED <<writer, reader, sent, got, lvars, backlog, svars>>
    BY <1>1 DEF ConnectRefused
  <2>2. TInv'
    BY <1>t, <2>1 DEF TInv, TypeOK, ClientTypeOK, Serving, lvars, svars
  <2>3. \A d \in Clients : cpc'[d] = "new" => cpc[d] = "new"
    BY <1>t, <2>1
  <2>4. PInv'
    BY <1>t, <1>a, <1>b, <2>1, <2>3
       DEF PInv, QueueInv, AcceptedInv, TableInv, PeerInv, lvars, svars
  <2> QED BY <2>2, <2>4 DEF IInv
<1>2. CASE /\ ClientStep(c) \/ Abort(c)
           /\ cpc[c] = "new" => alive
           /\ UNCHANGED svars
  <2>1. TInv'
    <3>1. ClientTypeOK'
      BY <1>t, <1>2, ClientStepTypes
    <3> QED BY <1>t, <1>2, <3>1 DEF TInv, TypeOK, Serving, svars
  <2>s. UNCHANGED <<accepted, fdtab, alive>>
    BY <1>2 DEF svars
  <2>2. CASE Connect(c)
    <3>1. /\ cpc[c] = "new" /\ cpc' = [cpc EXCEPT ![c] = "open"] /\ alive
          /\ reader' = [reader EXCEPT ![c] = "recv"] /\ backlog' = Append(backlog, c)
          /\ UNCHANGED <<closed, reset>>
      BY <1>2, <2>2 DEF Connect, lvars
    <3>2. /\ \A i \in DOMAIN backlog : backlog'[i] = backlog[i]
          /\ \A i \in DOMAIN backlog' : i \in DOMAIN backlog \/ (i = Len(backlog) + 1 /\ backlog'[i] = c)
      BY <1>t, <3>1, SMT
    <3>3. /\ \A i \in DOMAIN backlog : backlog[i] # c
          /\ \A k \in DOMAIN accepted : accepted[k] # c
          /\ ~closed[c]
      BY <1>t, <3>1 DEF PInv, QueueInv, AcceptedInv, PeerInv
    <3>4. \A d \in Clients : cpc'[d] = IF d = c THEN "open" ELSE cpc[d]
      BY <1>t, <3>1
    <3>5. \A d \in Clients : reader'[d] = IF d = c THEN "recv" ELSE reader[d]
      BY <1>t, <3>1
    <3>6. QueueInv'
      <4>1. \A i, j \in DOMAIN backlog' : backlog'[i] = backlog'[j] => i = j
        BY <1>t, <3>2, <3>3 DEF PInv, QueueInv
      <4>2. ASSUME NEW i \in DOMAIN backlog'
            PROVE  /\ cpc'[backlog'[i]] # "new" /\ ~closed'[backlog'[i]]
                   /\ \A k \in DOMAIN accepted : accepted[k] # backlog'[i]
        BY <1>t, <1>b, <3>1, <3>2, <3>3, <3>4 DEF PInv, QueueInv
      <4> QED BY <2>s, <4>1, <4>2 DEF QueueInv
    <3>7. AcceptedInv' /\ TableInv'
      BY <1>t, <1>a, <2>s, <3>1, <3>4 DEF PInv, AcceptedInv, TableInv
    <3>8. PeerInv'
      BY <1>t, <2>s, <3>1, <3>3, <3>4, <3>5 DEF PInv, PeerInv
    <3> QED BY <2>1, <3>6, <3>7, <3>8 DEF IInv, PInv
  <2>3. CASE ~Connect(c)
    <3>1. /\ UNCHANGED <<backlog, closed>>
          /\ \A d \in Clients : d # c => /\ cpc'[d] = cpc[d]
                                         /\ reset'[d] = reset[d] /\ reader'[d] = reader[d]
          /\ cpc[c] = "open" /\ cpc'[c] # "new"
      BY <1>t, <1>2, <2>3, SMT
         DEF ClientStep, SendLine, EndOfInput, ReadReplies, CloseClient, Abort, Die, lvars
    <3>2. \A d \in Clients : cpc'[d] = "new" <=> cpc[d] = "new"
      BY <1>t, <3>1
    <3>3. alive /\ ~closed[c] => /\ cpc'[c] \in {"open", "aborted"} /\ ~reset'[c]
                                 /\ cpc'[c] = "open" => reader'[c] # "done"
      <4> SUFFICES ASSUME alive, ~closed[c]
                   PROVE  /\ cpc'[c] \in {"open", "aborted"} /\ ~reset'[c]
                          /\ cpc'[c] = "open" => reader'[c] # "done"
          OBVIOUS
      <4>1. ~reset[c] /\ reader[c] # "done"
        BY <1>t, <3>1 DEF PInv, PeerInv
      <4>2. CASE SendLine(c)
        BY <1>t, <3>1, <4>1, <4>2, SMT DEF SendLine
      <4>3. CASE EndOfInput(c)
        BY <1>t, <3>1, <4>1, <4>3, SMT DEF EndOfInput
      <4>4. CASE ReadReplies(c)
        BY <1>t, <3>1, <4>1, <4>4, SMT DEF ReadReplies
      <4>5. CASE CloseClient(c)
        BY <4>1, <4>5 DEF CloseClient
      <4>6. CASE Abort(c)
        BY <1>t, <3>1, <4>1, <4>6, SMT DEF Abort, Die
      <4> QED BY <1>2, <2>3, <4>2, <4>3, <4>4, <4>5, <4>6 DEF ClientStep
    <3>4. QueueInv' /\ AcceptedInv' /\ TableInv'
      BY <1>t, <1>a, <1>b, <2>s, <3>1, <3>2 DEF PInv, QueueInv, AcceptedInv, TableInv
    <3>5. PeerInv'
      <4> SUFFICES ASSUME alive, NEW d \in Clients
                   PROVE  /\ cpc'[d] \in {"done", "sigpipe", "refused"} => closed[d]
                          /\ reset'[d] => closed[d]
                          /\ cpc'[d] = "new" => ~closed[d]
                          /\ cpc'[d] = "open" /\ reader'[d] = "done" => closed[d]
          BY <2>s, <3>1 DEF PeerInv
      <4>1. CASE d = c
        BY <3>1, <3>3, <4>1
      <4>2. CASE d # c
        BY <1>t, <3>1, <4>2 DEF PInv, PeerInv
      <4> QED BY <4>1, <4>2
    <3> QED BY <2>1, <3>4, <3>5 DEF IInv, PInv
  <2> QED BY <2>2, <2>3
<1> QED BY <1>1, <1>2 DEF ClientNext

(* Every step.                                                                *)
LEMMA NextIInv == IInv /\ [Next]_vars => IInv'
<1> SUFFICES ASSUME IInv, [Next]_vars PROVE IInv'
    OBVIOUS
<1>t. /\ TInv /\ TypeOK /\ ClientTypeOK /\ PInv /\ backlog \in Seq(Clients)
      /\ closed \in [Clients -> BOOLEAN] /\ reset \in [Clients -> BOOLEAN]
  BY DEF IInv, TInv, TypeOK, ClientTypeOK
<1>1. CASE ResetQueued
  <2> DEFINE S == {backlog[j] : j \in 1 .. Len(backlog)}
  <2>1. /\ ~alive /\ backlog' = <<>>
        /\ closed' = [c \in Clients |-> closed[c] \/ c \in S]
        /\ reset' = [c \in Clients |-> reset[c] \/ c \in S]
        /\ UNCHANGED <<cvars, inbox, outbox, fin, svars>>
    BY <1>1 DEF ResetQueued
  <2>2. \A f \in Descriptors : fdtab[f] # NoConn => fdtab[f] \notin S /\ fdtab[f] \in Clients
    <3>1. 1 .. Len(backlog) = DOMAIN backlog
      BY <1>t, SMT
    <3> QED BY <1>t, <3>1, OpenIsClient DEF PInv, QueueInv, TableInv
  <2> HIDE DEF S
  <2>3. TInv'
    <3>1. <<>> \in Seq(Clients)  BY SMT
    <3> QED BY <1>t, <2>1, <3>1 DEF TInv, TypeOK, ClientTypeOK, Serving, cvars, svars
  <2>4. QueueInv'
    <3>1. DOMAIN <<>> = {}  BY SMT
    <3> QED BY <2>1, <3>1, SMT DEF QueueInv
  <2>5. AcceptedInv' /\ PeerInv'
    BY <1>t, <2>1 DEF PInv, AcceptedInv, PeerInv, cvars, svars
  <2>6. TableInv'
    BY <1>t, <2>1, <2>2 DEF PInv, TableInv, svars
  <2> QED BY <2>3, <2>4, <2>5, <2>6 DEF IInv, PInv
<1>2. CASE UNCHANGED vars
  <2>1. TInv'
    BY <1>t, <1>2 DEF TInv, TypeOK, ClientTypeOK, Serving, vars, cvars, lvars, svars
  <2>2. PInv'
    BY <1>t, <1>2, QuietPInv DEF vars, cvars, lvars, svars
  <2> QED BY <2>1, <2>2 DEF IInv
<1>3. CASE AcceptFails
  BY <1>t, <1>3, CrashIInv DEF AcceptFails, TypeOK
<1> QED BY <1>1, <1>2, <1>3, AcceptIInv, CreateIInv, ThreadIInv, ClientIInv DEF Next

(* Every variable keeps its type under every schedule, whatever the limit on  *)
(* descriptors; in particular clientfd never holds the -1 of a failed accept. *)
THEOREM Typed == Spec => []TypeOK
<1>1. IInv => TypeOK  BY DEF IInv, TInv
<1> QED BY <1>1, InitIInv, NextIInv, PTL DEF Spec

-----------------------------------------------------------------------------
(* No more connections are accepted than there can be threads.                *)
LEMMA ThreadLeft == ASSUME IInv PROVE DOMAIN accepted \subseteq Threads
<1>1. /\ accepted \in Seq(Clients) /\ Len(accepted) \in Nat /\ DOMAIN accepted = 1 .. Len(accepted)
      /\ accepted \in [1 .. Len(accepted) -> Clients]
  <2>1. accepted \in Seq(Clients)  BY DEF IInv, TInv, TypeOK
  <2> QED BY <2>1, SMT
<1>2. IsFiniteSet(Clients) /\ Cardinality(Clients) \in Nat
  BY FS_CardinalityType, ThreadAssumption
<1>3. ~(Cardinality(Clients) < Len(accepted))
  <2> SUFFICES ASSUME Cardinality(Clients) < Len(accepted) PROVE FALSE
      OBVIOUS
  <2>1. 1 \in Int /\ Len(accepted) \in Int  BY <1>1, SMT
  <2>2. IsFiniteSet(1 .. Len(accepted))
        /\ Cardinality(1 .. Len(accepted)) = IF 1 > Len(accepted) THEN 0 ELSE Len(accepted) - 1 + 1
    BY <2>1, FS_Interval
  <2>3. Cardinality(Clients) < Cardinality(1 .. Len(accepted))
    BY <1>1, <1>2, <2>2, SMT
  <2>4. \E k, l \in 1 .. Len(accepted) : k # l /\ accepted[k] = accepted[l]
    BY <1>1, <1>2, <2>2, <2>3, FS_PigeonHole
  <2> QED BY <1>1, <2>4 DEF IInv, PInv, AcceptedInv
<1> QED BY <1>1, <1>2, <1>3, SMT DEF Threads

(* An open descriptor stands for a lost connection, or is in somebody's hands.*)
Covered(f) ==
    fdtab[f] \notin lost \cup {NoConn} =>
        \/ mpc = "create" /\ clientfd = f
        \/ \E i \in Threads : \/ tpc[i] = "start" /\ accepted[i] = fdtab[f]
                              \/ Serving(i) /\ tfd[i] = f

Blame == alive \/ mpc = "exit" \/ lost # {} \/ \E c \in Clients : cpc[c] = "aborted"

(* NoneOrphaned, split: every descriptor is accounted for, and who is to blame. *)
LEMMA Orphans == NoneOrphaned <=> (\A f \in Descriptors : Covered(f)) /\ Blame
BY DEF NoneOrphaned, Covered, Blame

(* With Eager: each thread has its own descriptor and nobody is forgotten.    *)
OInv == OwnInv /\ (\A f \in Descriptors : Covered(f)) /\ Blame

(* Under Eager: the start.                                                    *)
LEMMA InitOInv == Init => OInv
BY SMT DEF Init, ClientInit, OInv, OwnInv, Covered, Blame, Serving

(* Steps that leave the hands of main and of the threads as they are.         *)
LEMMA QuietOInv ==
    ASSUME OInv, UNCHANGED svars,
           \A c \in Clients : cpc[c] = "aborted" => cpc'[c] = "aborted"
    PROVE  OInv'
BY DEF OInv, OwnInv, Covered, Blame, Serving, Conn, svars

(* No thread has its argument still to read, so clientfd may change.          *)
LEMMA AcceptOInv == ASSUME Eager, IInv, OInv, Accept PROVE OInv'
<1> DEFINE h == Head(backlog)
           f == LowestFree
<1>t. /\ TInv /\ TypeOK /\ PInv /\ OwnInv /\ backlog \in Seq(Clients) /\ accepted \in Seq(Clients)
      /\ fdtab \in [Descriptors -> Clients \cup {NoConn}]
  BY DEF IInv, TInv, TypeOK, ClientTypeOK, OInv
<1>1. /\ alive /\ mpc = "accept" /\ mpc' = "create" /\ clientfd' = f
      /\ accepted' = Append(accepted, h) /\ fdtab' = [fdtab EXCEPT ![f] = h]
      /\ \A i \in Threads : tpc[i] # "start"
      /\ UNCHANGED <<cpc, tpc, tfd, alive, lost>>
  BY DEF Accept, cvars
<1>2. f \in Descriptors /\ fdtab[f] = NoConn
  BY DescriptorLeft DEF Accept
<1> HIDE DEF f, h
<1>3. \A g \in Descriptors : fdtab'[g] = IF g = f THEN h ELSE fdtab[g]
  BY <1>t, <1>1, <1>2
<1>4. /\ Len(accepted') = Len(accepted) + 1 /\ Len(accepted) \in Nat /\ accepted'[Len(accepted')] = h
      /\ DOMAIN accepted = 1 .. Len(accepted) /\ DOMAIN accepted' = 1 .. Len(accepted')
      /\ \A k \in DOMAIN accepted : accepted'[k] = accepted[k]
  <2>1. h \in Clients  BY <1>t, SMT DEF Accept, h
  <2> QED BY <1>t, <1>1, <2>1, SMT
<1>5. ASSUME NEW i \in Threads, tpc[i] # "none"
      PROVE  i \in DOMAIN accepted' /\ i < Len(accepted') /\ accepted'[i] = accepted[i]
  <2>1. i \in DOMAIN accepted  BY <1>t, <1>5 DEF OwnInv
  <2> QED BY <1>4, <2>1, SMT
<1>6. ASSUME NEW i \in Threads, Serving(i)
      PROVE  alive /\ tfd[i] \in Descriptors /\ tfd[i] # f /\ Conn(i)' = accepted'[i]
  <2>1. alive /\ Conn(i) = accepted[i] /\ tpc[i] # "none"
    BY <1>t, <1>6 DEF OwnInv, Serving
  <2>2. tfd[i] \in Descriptors
    BY <1>t, <1>6 DEF TInv
  <2>3. accepted[i] \in Clients
    <3>1. i \in DOMAIN accepted  BY <1>t, <2>1 DEF OwnInv
    <3> QED BY <1>t, <3>1, SMT
  <2>4. tfd[i] # f
    BY <1>2, <2>1, <2>3, ThreadAssumption DEF Conn
  <2> QED BY <1>1, <1>3, <1>5, <2>1, <2>2, <2>4 DEF Conn
<1>7. OwnInv'
  BY <1>1, <1>2, <1>3, <1>4, <1>5, <1>6 DEF OwnInv, Serving
<1>8. ASSUME NEW g \in Descriptors PROVE Covered(g)'
  <2>1. CASE g = f
    BY <1>1, <2>1 DEF Covered
  <2>2. CASE g # f
    <3>1. Covered(g)  BY DEF OInv
    <3> QED BY <1>1, <1>3, <2>2, <3>1 DEF Covered, Serving
  <2> QED BY <2>1, <2>2
<1>9. Blame'
  BY <1>1 DEF OInv, Blame
<1> QED BY <1>7, <1>8, <1>9 DEF OInv

(* After a crash nobody holds anything.                                       *)
LEMMA CrashOInv ==
    ASSUME OInv, Crash, accepted' = accepted, mpc' \in {mpc, "accept", "exit"}, Blame'
    PROVE  OInv'
<1>1. /\ alive' = FALSE /\ fdtab' = [f \in Descriptors |-> NoConn]
      /\ tpc' = [i \in Threads |-> IF tpc[i] = "none" THEN "none" ELSE "done"]
  BY DEF Crash
<1>2. OwnInv'
  BY <1>1 DEF OInv, OwnInv, Serving
<1>3. \A f \in Descriptors : Covered(f)'
  BY <1>1 DEF Covered
<1> QED BY <1>2, <1>3 DEF OInv

(* main hands over the last connection accepted, or loses it.                 *)
LEMMA CreateOInv == ASSUME IInv, OInv, CreateThread \/ CreateFails PROVE OInv'
<1>t. /\ TInv /\ TypeOK /\ PInv /\ OwnInv /\ accepted \in Seq(Clients)
      /\ tpc \in [Threads -> {"none", "start", "recv", "send", "close", "done"}]
      /\ mpc = "create" /\ alive
  BY DEF IInv, TInv, TypeOK, OInv, CreateThread, CreateFails
<1>n. accepted # <<>> /\ clientfd \in Descriptors
  BY <1>t DEF TInv
<1>l. /\ Len(accepted) \in DOMAIN accepted /\ Len(accepted) \in Threads /\ Len(accepted) \in Nat
      /\ accepted[Len(accepted)] \in Clients
  <2>1. Len(accepted) \in DOMAIN accepted /\ Len(accepted) \in Nat /\ accepted[Len(accepted)] \in Clients
    BY <1>t, <1>n, SMT
  <2> QED BY <2>1, ThreadLeft
<1>h. fdtab[clientfd] = accepted[Len(accepted)] /\ fdtab[clientfd] # NoConn
  BY <1>t, <1>l, ThreadAssumption DEF OwnInv
<1>1. CASE CreateThread
  <2>1. /\ mpc' = "accept" /\ tpc' = [tpc EXCEPT ![Len(accepted)] = "start"]
        /\ UNCHANGED <<cpc, clientfd, accepted, fdtab, tfd, alive, lost>>
    BY <1>1 DEF CreateThread, cvars
  <2>2. \A i \in Threads : tpc'[i] = IF i = Len(accepted) THEN "start" ELSE tpc[i]
    BY <1>t, <1>l, <2>1
  <2>3. tpc[Len(accepted)] = "none" /\ \A i \in Threads : tpc[i] # "start"
    <3>1. ~(Len(accepted) < Len(accepted))  BY <1>l, SMT
    <3> QED BY <1>t, <1>l, <3>1 DEF OwnInv
  <2>4. OwnInv'
    BY <1>t, <1>l, <1>h, <2>1, <2>2, <2>3 DEF OwnInv, Serving, Conn
  <2>5. ASSUME NEW f \in Descriptors PROVE Covered(f)'
    <3>1. CASE f = clientfd
      BY <1>l, <1>h, <2>1, <2>2, <3>1 DEF Covered
    <3>2. CASE f # clientfd
      <4>1. Covered(f)  BY DEF OInv
      <4> QED BY <2>1, <2>2, <2>3, <3>2, <4>1 DEF Covered, Serving
    <3> QED BY <3>1, <3>2
  <2>6. Blame'
    BY <1>t, <2>1 DEF Blame
  <2> QED BY <2>4, <2>5, <2>6 DEF OInv
<1>2. CASE CreateFails
  <2>1. /\ mpc' = "accept" /\ lost' = lost \cup {accepted[Len(accepted)]}
        /\ UNCHANGED <<cpc, clientfd, accepted, tfd>>
        /\ UNCHANGED <<fdtab, tpc, alive>> \/ Crash
    BY <1>2 DEF CreateFails, cvars
  <2>2. Blame'
    BY <2>1 DEF Blame
  <2>3. CASE Crash
    BY <2>1, <2>2, <2>3, CrashOInv
  <2>4. CASE UNCHANGED <<fdtab, tpc, alive>>
    <3>1. OwnInv'
      BY <1>t, <2>1, <2>4 DEF OwnInv, Serving, Conn
    <3>2. ASSUME NEW f \in Descriptors PROVE Covered(f)'
      <4>1. Covered(f)  BY DEF OInv
      <4> QED BY <1>h, <2>1, <2>4, <4>1 DEF Covered, Serving
    <3> QED BY <2>2, <3>1, <3>2 DEF OInv
  <2> QED BY <2>1, <2>3, <2>4
<1> QED BY <1>1, <1>2

(* A thread touches only the descriptor it read.                              *)
LEMMA ThreadOInv == ASSUME IInv, OInv, NEW i \in Threads, ThreadStep(i) PROVE OInv'
<1>t. /\ TInv /\ TypeOK /\ PInv /\ OwnInv /\ accepted \in Seq(Clients)
      /\ tpc \in [Threads -> {"none", "start", "recv", "send", "close", "done"}]
      /\ tfd \in [Threads -> Descriptors \cup {NoFd}]
      /\ fdtab \in [Descriptors -> Clients \cup {NoConn}]
  BY DEF IInv, TInv, TypeOK, OInv
<1>u. UNCHANGED <<cpc, clientfd, accepted, mpc, lost>> /\ alive
  BY DEF ThreadStep, ReadArgument, Recv, Send, CloseFd, cvars
<1>c. ASSUME NEW j \in Threads, tpc[j] # "none"
      PROVE  j \in DOMAIN accepted /\ accepted[j] \in Clients /\ accepted[j] # NoConn
  <2>1. j \in DOMAIN accepted  BY <1>t, <1>c DEF OwnInv
  <2>2. accepted[j] \in Clients  BY <1>t, <2>1, SMT
  <2> QED BY <2>1, <2>2, ThreadAssumption
<1>b. alive' = alive => Blame'
  BY <1>u DEF OInv, Blame
<1>1. CASE ReadArgument(i)
  <2>1. /\ tpc[i] = "start" /\ tfd' = [tfd EXCEPT ![i] = clientfd]
        /\ tpc' = [tpc EXCEPT ![i] = "recv"] \/ tpc' = [tpc EXCEPT ![i] = "close"]
        /\ UNCHANGED <<fdtab, alive>>
    BY <1>1 DEF ReadArgument
  <2>2. /\ clientfd \in Descriptors /\ fdtab[clientfd] = accepted[i]
        /\ mpc = "accept" /\ i = Len(accepted)
    BY <1>t, <2>1 DEF TInv, OwnInv
  <2>3. /\ Serving(i)' /\ tpc'[i] # "start" /\ tpc'[i] # "none" /\ tfd'[i] = clientfd
        /\ \A j \in Threads : j # i => tpc'[j] = tpc[j] /\ tfd'[j] = tfd[j]
    BY <1>t, <2>1 DEF Serving
  <2>4. OwnInv'
    <3>1. \A j \in Threads : tpc'[j] # "none" => tpc[j] # "none"
      BY <2>1, <2>3
    <3>2. \A j \in Threads : tpc'[j] = "start" => tpc[j] = "start"
      BY <2>3
    <3>3. \A j \in Threads : Serving(j)' => fdtab[tfd'[j]] = accepted[j]
      <4> SUFFICES ASSUME NEW j \in Threads, Serving(j)' PROVE fdtab[tfd'[j]] = accepted[j]
          OBVIOUS
      <4>1. CASE j = i  BY <2>2, <2>3, <4>1
      <4>2. CASE j # i  BY <1>t, <2>3, <4>2 DEF OwnInv, Serving, Conn
      <4> QED BY <4>1, <4>2
    <3> QED BY <1>t, <1>u, <2>1, <2>2, <3>1, <3>2, <3>3 DEF OwnInv, Conn
  <2>5. ASSUME NEW f \in Descriptors, fdtab[f] \notin lost \cup {NoConn} PROVE Covered(f)'
    <3>1. \E j \in Threads : \/ tpc[j] = "start" /\ accepted[j] = fdtab[f]
                             \/ Serving(j) /\ tfd[j] = f
      BY <2>2, <2>5 DEF OInv, Covered
    <3>2. PICK j \in Threads : \/ tpc[j] = "start" /\ accepted[j] = fdtab[f]
                               \/ Serving(j) /\ tfd[j] = f
      BY <3>1
    <3>3. CASE j = i
      <4>1. fdtab[f] = fdtab[clientfd]
        BY <2>1, <2>2, <3>2, <3>3 DEF Serving
      <4>2. f = clientfd
        BY <1>t, <2>2, <2>5, <4>1 DEF PInv, TableInv
      <4> QED BY <2>3, <4>2 DEF Covered
    <3>4. CASE j # i
      BY <1>u, <2>1, <2>3, <3>2, <3>4 DEF Covered, Serving
    <3> QED BY <3>3, <3>4
  <2>6. ASSUME NEW f \in Descriptors PROVE Covered(f)'
    BY <1>u, <2>1, <2>5 DEF Covered
  <2> QED BY <1>b, <2>1, <2>4, <2>6 DEF OInv
<1>2. ASSUME UNCHANGED <<fdtab, alive, tfd>>, Serving(i), Serving(i)',
             \A j \in Threads : j # i => tpc'[j] = tpc[j]
      PROVE  OInv'
  <2>1. \A j \in Threads : /\ Serving(j)' <=> Serving(j)
                           /\ tpc'[j] = "start" <=> tpc[j] = "start"
                           /\ tpc'[j] # "none" => tpc[j] # "none"
    BY <1>2 DEF Serving
  <2>2. OwnInv'
    BY <1>t, <1>u, <1>2, <2>1 DEF OwnInv, Conn
  <2>3. \A f \in Descriptors : Covered(f)'
    BY <1>u, <1>2, <2>1 DEF OInv, Covered
  <2> QED BY <1>b, <1>2, <2>2, <2>3 DEF OInv
<1>3. CASE Recv(i)
  <2>1. /\ tpc[i] = "recv" /\ UNCHANGED <<fdtab, alive, tfd>>
        /\ tpc' = [tpc EXCEPT ![i] = "send"] \/ tpc' = [tpc EXCEPT ![i] = "close"]
    BY <1>3 DEF Recv
  <2> QED BY <1>t, <1>2, <2>1 DEF Serving
<1>4. CASE Send(i)
  <2>1. /\ tpc[i] = "send" /\ UNCHANGED tfd
        /\ \/ tpc' = [tpc EXCEPT ![i] = "recv"] /\ UNCHANGED <<alive, fdtab>>
           \/ SendMayFail(i) /\ Crash
    BY <1>4 DEF Send
  <2>2. CASE tpc' = [tpc EXCEPT ![i] = "recv"] /\ UNCHANGED <<alive, fdtab>>
    BY <1>t, <1>2, <2>1, <2>2 DEF Serving
  <2>3. CASE SendMayFail(i) /\ Crash
    <3>1. Serving(i) /\ tpc[i] # "none"
      BY <2>1 DEF Serving
    <3>2. /\ tfd[i] \in Descriptors /\ Conn(i) = accepted[i]
          /\ Conn(i) \in Clients /\ Conn(i) # NoConn
      BY <1>t, <1>c, <3>1 DEF TInv, OwnInv
    <3>3. PeerGone(Conn(i)) /\ ~closed[Conn(i)]
      BY <1>t, <2>3, <3>2 DEF SendMayFail, PInv, TableInv, Conn
    <3>4. cpc[Conn(i)] = "aborted"
      BY <1>t, <1>u, <3>2, <3>3 DEF PeerGone, PInv, PeerInv, TypeOK, ClientTypeOK
    <3>5. Blame'
      BY <1>u, <3>2, <3>4 DEF Blame
    <3> QED BY <1>u, <2>3, <3>5, CrashOInv
  <2> QED BY <2>1, <2>2, <2>3
<1>5. CASE CloseFd(i)
  <2>1. /\ tpc[i] = "close" /\ tpc' = [tpc EXCEPT ![i] = "done"]
        /\ fdtab' = [fdtab EXCEPT ![tfd[i]] = NoConn]
        /\ UNCHANGED <<alive, tfd>>
    BY <1>5 DEF CloseFd
  <2>2. tfd[i] \in Descriptors /\ fdtab[tfd[i]] = accepted[i] /\ accepted[i] # NoConn /\ i \in DOMAIN accepted
    BY <1>t, <1>c, <2>1 DEF TInv, OwnInv, Serving, Conn
  <2>3. \A f \in Descriptors : fdtab'[f] = IF f = tfd[i] THEN NoConn ELSE fdtab[f]
    BY <1>t, <2>1, <2>2
  <2>4. \A j \in Threads : tpc'[j] = IF j = i THEN "done" ELSE tpc[j]
    BY <1>t, <2>1
  <2>5. ASSUME NEW j \in Threads, j # i, Serving(j)
        PROVE  tfd[j] \in Descriptors /\ tfd[j] # tfd[i]
    <3>1. tfd[j] \in Descriptors /\ fdtab[tfd[j]] = accepted[j] /\ j \in DOMAIN accepted
      BY <1>t, <1>c, <2>5 DEF TInv, OwnInv, Serving, Conn
    <3> QED BY <1>t, <2>2, <2>5, <3>1 DEF PInv, AcceptedInv
  <2>6. accepted # <<>> => clientfd \in Descriptors
    BY <1>t DEF TInv
  <2>7. ASSUME NEW j \in Threads, tpc[j] = "start"
        PROVE  clientfd \in Descriptors /\ clientfd # tfd[i]
    <3>1. fdtab[clientfd] = accepted[j] /\ j \in DOMAIN accepted /\ j # i /\ accepted # <<>>
      BY <1>t, <1>c, <2>1, <2>7 DEF TInv, OwnInv
    <3> QED BY <1>t, <2>2, <2>6, <3>1 DEF PInv, AcceptedInv
  <2>8. ASSUME mpc = "create" PROVE clientfd \in Descriptors /\ clientfd # tfd[i]
    <3>1. accepted # <<>> /\ fdtab[clientfd] = accepted[Len(accepted)]
      BY <1>t, <1>u, <2>8 DEF TInv, OwnInv
    <3>2. Len(accepted) \in DOMAIN accepted /\ Len(accepted) \in Nat
      BY <1>t, <3>1, SMT
    <3>3. i < Len(accepted)
      BY <1>t, <2>1, <2>8 DEF OwnInv
    <3>4. i # Len(accepted)
      BY <3>2, <3>3, SMT
    <3> QED BY <1>t, <2>2, <2>6, <3>1, <3>2, <3>4 DEF PInv, AcceptedInv
  <2>9. OwnInv'
    <3>1. \A j \in Threads : tpc'[j] # "none" => tpc[j] # "none"
      BY <2>1, <2>4
    <3>2. ASSUME NEW j \in Threads, tpc'[j] = "start"
          PROVE  tpc[j] = "start" /\ fdtab'[clientfd] = fdtab[clientfd]
      BY <2>3, <2>4, <2>7, <3>2
    <3>3. ASSUME NEW j \in Threads, Serving(j)'
          PROVE  Serving(j) /\ Conn(j)' = Conn(j)
      <4>1. j # i /\ Serving(j)  BY <2>4, <3>3 DEF Serving
      <4> QED BY <2>1, <2>3, <2>5, <4>1 DEF Conn
    <3>4. mpc = "create" => fdtab'[clientfd] = fdtab[clientfd]
      BY <2>3, <2>8
    <3> QED BY <1>t, <1>u, <2>1, <3>1, <3>2, <3>3, <3>4 DEF OwnInv
  <2>10. ASSUME NEW f \in Descriptors PROVE Covered(f)'
    <3>1. CASE f = tfd[i]
      BY <2>3, <3>1 DEF Covered
    <3>2. CASE f # tfd[i]
      <4>1. Covered(f)  BY DEF OInv
      <4>2. \A j \in Threads : tpc[j] = "start" => tpc'[j] = "start"
        BY <2>1, <2>4
      <4>3. \A j \in Threads : Serving(j) /\ tfd[j] = f => Serving(j)'
        BY <2>4, <3>2 DEF Serving
      <4> QED BY <1>u, <2>1, <2>3, <3>2, <4>1, <4>2, <4>3 DEF Covered
    <3> QED BY <3>1, <3>2
  <2> QED BY <1>b, <2>1, <2>9, <2>10 DEF OInv
<1> QED BY <1>1, <1>3, <1>4, <1>5 DEF ThreadStep

(* Every step under Eager.                                                    *)
LEMMA NextOInv == ASSUME Eager PROVE IInv /\ OInv /\ [Next]_vars => OInv'
<1> SUFFICES ASSUME IInv, OInv, [Next]_vars PROVE OInv'
    OBVIOUS
<1>t. cpc \in [Clients -> {"new", "open", "done", "refused", "aborted", "sigpipe"}]
  BY DEF IInv, TInv, TypeOK, ClientTypeOK
<1>1. ASSUME NEW c \in Clients, ClientNext(c) PROVE OInv'
  <2>1. UNCHANGED svars
    BY <1>1 DEF ClientNext, ConnectRefused
  <2>2. \A d \in Clients : cpc[d] = "aborted" => cpc'[d] = "aborted"
    BY <1>t, <1>1, SMT
       DEF ClientNext, ConnectRefused, ClientStep, Connect, SendLine, EndOfInput,
           ReadReplies, CloseClient, Abort, Die
  <2> QED BY <2>1, <2>2, QuietOInv
<1>2. CASE ResetQueued
  BY <1>2, QuietOInv DEF ResetQueued, cvars
<1>3. CASE UNCHANGED vars
  BY <1>3, QuietOInv DEF vars, cvars
<1>4. CASE AcceptFails
  <2>1. Blame'
    BY <1>4 DEF AcceptFails, Blame
  <2> QED BY <1>4, <2>1, CrashOInv DEF AcceptFails
<1> QED BY <1>1, <1>2, <1>3, <1>4, AcceptOInv, CreateOInv, ThreadOInv DEF Next

(* Under the schedules in which every thread reads its argument before the    *)
(* next accept, each thread at work uses the connection it was created for,   *)
(* and no two share a descriptor, however often numbers are reused.           *)
THEOREM OwnThread == Eager => (Spec => []OneThreadPerClient)
<1> SUFFICES ASSUME Eager PROVE Spec => []OneThreadPerClient
    OBVIOUS
<1>1. IInv /\ OInv => OneThreadPerClient
  <2> SUFFICES ASSUME IInv, OInv, NEW i \in Threads, Serving(i)
               PROVE  /\ Conn(i) = accepted[i]
                      /\ \A j \in Threads : Serving(j) /\ tfd[i] = tfd[j] => i = j
      BY DEF OneThreadPerClient
  <2>1. \A j \in Threads : Serving(j) => Conn(j) = accepted[j] /\ j \in DOMAIN accepted
    BY DEF OInv, OwnInv, Serving
  <2> QED BY <2>1 DEF IInv, PInv, AcceptedInv, Conn
<1> QED BY <1>1, InitIInv, InitOInv, NextIInv, NextOInv, PTL DEF Spec

(* Under the same schedules an open connection is always in somebody's hands  *)
(* unless pthread_create failed for it, and the server falls only to that, to *)
(* an error of accept, or to a client that was interrupted.                   *)
THEOREM NotOrphaned == Eager => (Spec => []NoneOrphaned)
<1> SUFFICES ASSUME Eager PROVE Spec => []NoneOrphaned
    OBVIOUS
<1>1. OInv => NoneOrphaned
  BY Orphans DEF OInv
<1> QED BY <1>1, InitIInv, InitOInv, NextIInv, NextOInv, PTL DEF Spec

-----------------------------------------------------------------------------
(* The account of a connection that got its thread and its memory.            *)

(* Where the thread of connection c is.                                       *)
AtSend(c) == \E i \in Threads : tpc[i] = "send" /\ accepted[i] = c
AtClose(c) == \E i \in Threads : tpc[i] = "close" /\ accepted[i] = c

Served(c) == c \notin lost /\ \A i \in refused : accepted[i] # c

(* Each reply answers lines that were read, a line read is answered before    *)
(* the next recv, and the end comes after the last line.                      *)
Account(c) ==
    /\ got[c] + outbox[c] + inbox[c] <= sent[c]
    /\ AtSend(c) => got[c] + outbox[c] + inbox[c] < sent[c]
    /\ inbox[c] < sent[c] /\ ~AtSend(c) => got[c] + outbox[c] > 0
    /\ AtClose(c) \/ closed[c] => inbox[c] = 0 /\ fin[c] /\ ~AtSend(c)
    /\ ~reset[c] /\ cpc[c] # "sigpipe"
    /\ reader[c] = "done" /\ cpc[c] \in {"open", "done"} =>
         closed[c] /\ (sent[c] > 0 => got[c] > 0)

AInv ==
    alive => /\ \A c \in Clients : fin[c] => writer[c] = "done" /\ cpc[c] # "new"
             /\ \A i \in refused : tpc[i] # "none"
             /\ \A c \in Clients : Served(c) => Account(c)

(* The account is what the property asks for.                                 *)
LEMMA AccountAnswers == AInv => AnsweredBeforeClose
BY DEF AInv, Account, Served, AnsweredBeforeClose

LEMMA InitAInv == Init => AInv
<1> SUFFICES ASSUME Init PROVE AInv
    OBVIOUS
<1>1. ASSUME NEW c \in Clients PROVE Account(c)
  <2>1. ~AtSend(c) /\ ~AtClose(c)
    BY DEF Init, AtSend, AtClose
  <2> QED BY <2>1, SMT DEF Init, ClientInit, Account
<1> QED BY <1>1 DEF Init, ClientInit, AInv

(* The thread that works for a connection is the only one that does.          *)
LEMMA TheThread ==
    ASSUME IInv, OwnInv, NEW i \in Threads, tpc[i] # "none",
           NEW j \in Threads, tpc[j] # "none", accepted[j] = accepted[i]
    PROVE  j = i
BY DEF IInv, PInv, AcceptedInv, OwnInv

(* Everything Account(d) speaks of, as it was.                                *)
LEMMA SameAccount ==
    ASSUME NEW d \in Clients, Account(d), AtSend(d)' <=> AtSend(d), AtClose(d)' => AtClose(d),
           closed'[d] = closed[d], inbox'[d] = inbox[d], sent'[d] = sent[d],
           got'[d] = got[d], outbox'[d] = outbox[d], fin'[d] = fin[d],
           reset'[d] = reset[d], cpc'[d] = cpc[d], reader'[d] = reader[d]
    PROVE  Account(d)'
BY DEF Account

(* A client enters each line it sends and each reply it reads.                *)
LEMMA ClientAccount ==
    ASSUME IInv, AInv, alive, NEW c \in Clients, ClientStep(c) \/ Abort(c), UNCHANGED svars
    PROVE  AInv'
<1>s. UNCHANGED <<accepted, tpc, alive, refused, lost>>
  BY DEF svars
<1>t. ClientTypeOK /\ PInv
  BY DEF IInv, TInv, TypeOK
<1>p. \A d \in Clients : /\ AtSend(d)' <=> AtSend(d)
                         /\ AtClose(d)' <=> AtClose(d)
                         /\ Served(d)' <=> Served(d)
  BY <1>s DEF AtSend, AtClose, Served
<1>o. \A d \in Clients \ {c} :
        /\ closed'[d] = closed[d] /\ inbox'[d] = inbox[d] /\ sent'[d] = sent[d]
        /\ got'[d] = got[d] /\ outbox'[d] = outbox[d] /\ fin'[d] = fin[d]
        /\ reset'[d] = reset[d] /\ cpc'[d] = cpc[d] /\ reader'[d] = reader[d]
        /\ writer'[d] = writer[d]
  BY <1>t, SMT DEF ClientTypeOK, ClientStep, Connect, SendLine, EndOfInput, ReadReplies,
                   CloseClient, Abort, Die, lvars
<1>a. fin[c] => writer[c] = "done" /\ cpc[c] # "new"
  BY DEF AInv
<1>f. fin'[c] => writer'[c] = "done" /\ cpc'[c] # "new"
  <2>2. CASE fin'[c] = fin[c] /\ writer'[c] = writer[c] /\ (cpc'[c] = "new" => cpc[c] = "new")
    BY <1>a, <2>2
  <2>3. CASE Connect(c)     BY <1>a, <2>3 DEF Connect, lvars
  <2>4. CASE EndOfInput(c)  BY <1>t, <2>4 DEF EndOfInput, ClientTypeOK
  <2>5. CASE Die(c, "aborted") \/ Die(c, "sigpipe")
    BY <1>t, <2>5 DEF Die, ClientTypeOK
  <2>6. CASE CloseClient(c)
    BY <1>t, <1>a, <2>6 DEF CloseClient, ClientTypeOK, lvars
  <2> QED
    BY <2>2, <2>3, <2>4, <2>5, <2>6
       DEF ClientStep, SendLine, ReadReplies, Abort, lvars
<1>c. ASSUME Account(c) PROVE Account(c)'
  <2>p. (AtSend(c)' <=> AtSend(c)) /\ (AtClose(c)' <=> AtClose(c))
    BY <1>p
  <2>1. CASE Connect(c)
    <3>1. /\ cpc'[c] = "open" /\ reader'[c] = "recv"
          /\ UNCHANGED <<sent, got, inbox, outbox, fin, closed, reset>>
      BY <1>t, <2>1 DEF Connect, ClientTypeOK, lvars
    <3> QED BY <1>c, <2>p, <3>1 DEF Account
  <2>2. CASE SendLine(c)
    <3>1. ~reset[c] /\ ~fin[c] /\ cpc[c] = "open"
      BY <1>a, <1>c, <2>2 DEF SendLine, Account
    <3>2. ~closed[c]
      BY <1>c, <3>1 DEF Account
    <3>3. /\ sent' = [sent EXCEPT ![c] = @ + 1]
          /\ inbox' = [inbox EXCEPT ![c] = @ + 1]
          /\ UNCHANGED <<cpc, reader, fin, got, outbox, closed, reset>>
      BY <2>2, <3>1, <3>2 DEF SendLine
    <3>4. /\ sent'[c] = sent[c] + 1 /\ inbox'[c] = inbox[c] + 1
          /\ sent[c] \in Nat /\ inbox[c] \in Nat /\ got[c] \in Nat /\ outbox[c] \in Nat
      BY <1>t, <3>3 DEF ClientTypeOK
    <3> QED BY <1>c, <2>p, <3>1, <3>2, <3>3, <3>4, SMT DEF Account
  <2>3. CASE EndOfInput(c)
    <3>1. /\ fin'[c] = TRUE
          /\ UNCHANGED <<cpc, reader, sent, got, inbox, outbox, closed, reset>>
      BY <1>t, <2>3 DEF EndOfInput, ClientTypeOK
    <3> QED BY <1>c, <2>p, <3>1 DEF Account
  <2>4. CASE ReadReplies(c)
    <3>1. CASE outbox[c] > 0
      <4>1. /\ got' = [got EXCEPT ![c] = @ + outbox[c]]
            /\ outbox' = [outbox EXCEPT ![c] = 0]
            /\ UNCHANGED <<cpc, reader, sent, inbox, fin, closed, reset>>
        BY <2>4, <3>1, SMT DEF ReadReplies
      <4>2. /\ got'[c] + outbox'[c] = got[c] + outbox[c] /\ got'[c] > 0
            /\ got'[c] + outbox'[c] + inbox[c] = got[c] + outbox[c] + inbox[c]
        BY <1>t, <3>1, <4>1, SMT DEF ClientTypeOK
      <4> QED BY <1>c, <2>p, <4>1, <4>2 DEF Account
    <3>2. CASE ~(outbox[c] > 0)
      <4>1. /\ outbox[c] = 0 /\ (closed[c] \/ reset[c])
            /\ UNCHANGED <<cpc, sent, got, inbox, outbox, fin, closed, reset>>
        BY <2>4, <3>2, SMT DEF ReadReplies
      <4>2. closed[c] /\ inbox[c] = 0 /\ ~AtSend(c)
        BY <1>c, <4>1 DEF Account
      <4>3. sent[c] > 0 => got[c] > 0
        <5>1. got[c] \in Nat  BY <1>t DEF ClientTypeOK
        <5>2. sent[c] > 0 => got[c] + 0 > 0
          BY <1>c, <4>1, <4>2 DEF Account
        <5> QED BY <5>1, <5>2
      <4> QED BY <1>c, <2>p, <4>1, <4>2, <4>3 DEF Account
    <3> QED BY <3>1, <3>2
  <2>5. CASE CloseClient(c)
    <3>1. /\ cpc[c] = "open" /\ cpc'[c] = "done"
          /\ UNCHANGED <<reader, sent, got, inbox, outbox, fin, closed, reset>>
      BY <1>t, <2>5 DEF CloseClient, ClientTypeOK, lvars
    <3> QED BY <1>c, <2>p, <3>1 DEF Account
  <2>6. CASE Abort(c)
    <3>1. /\ cpc'[c] = "aborted" /\ fin'[c] = TRUE
          /\ UNCHANGED <<sent, got, inbox, outbox, closed, reset>>
      BY <1>t, <2>6 DEF Abort, Die, ClientTypeOK
    <3> QED BY <1>c, <2>p, <3>1 DEF Account
  <2> QED BY <2>1, <2>2, <2>3, <2>4, <2>5, <2>6 DEF ClientStep
<1>1. \A d \in Clients : fin'[d] => writer'[d] = "done" /\ cpc'[d] # "new"
  BY <1>o, <1>f DEF AInv
<1>2. ASSUME NEW d \in Clients, Served(d)' PROVE Account(d)'
  <2>0. Account(d)
    BY <1>p, <1>2 DEF AInv
  <2>1. CASE d = c  BY <1>c, <2>0, <2>1
  <2>2. CASE d # c
    BY <1>o, <1>p, <2>0, <2>2, SameAccount
  <2> QED BY <2>1, <2>2
<1>3. \A i \in refused' : tpc'[i] # "none"
  BY <1>s DEF AInv
<1> QED BY <1>1, <1>2, <1>3 DEF AInv

(* A step of the server: the clients stand still, and every connection still  *)
(* served was served before.                                                  *)
LEMMA ServerAccount ==
    ASSUME AInv, alive, UNCHANGED cvars, UNCHANGED fin,
           \A i \in refused' : tpc'[i] # "none",
           \A d \in Clients : Served(d)' => Served(d),
           \A d \in Clients : Served(d)' /\ Account(d) => Account(d)'
    PROVE  AInv'
BY DEF AInv, cvars

(* main works for no connection: it accepts, hands over, or loses one.        *)
LEMMA MainAInv ==
    ASSUME IInv, OwnInv, AInv, alive, Accept \/ CreateThread \/ CreateFails
    PROVE  AInv'
<1>t. /\ TInv /\ OwnInv /\ accepted \in Seq(Clients)
      /\ tpc \in [Threads -> {"none", "start", "recv", "send", "close", "done"}]
      /\ refused \in SUBSET Threads /\ \A i \in refused : tpc[i] # "none"
  BY DEF IInv, TInv, TypeOK, AInv
<1>q. ASSUME UNCHANGED <<cvars, lvars, tpc, refused>>, lost \subseteq lost',
             \A k \in DOMAIN accepted : accepted'[k] = accepted[k]
      PROVE  AInv'
  <2>1. \A i \in Threads : tpc[i] # "none" => accepted'[i] = accepted[i]
    BY <1>t, <1>q DEF OwnInv
  <2>2. ASSUME NEW d \in Clients
        PROVE  (AtSend(d)' <=> AtSend(d)) /\ (AtClose(d)' <=> AtClose(d)) /\ (Served(d)' => Served(d))
    <3>1. AtSend(d)' <=> AtSend(d)    BY <1>q, <2>1 DEF AtSend
    <3>2. AtClose(d)' <=> AtClose(d)  BY <1>q, <2>1 DEF AtClose
    <3>3. Served(d)' => Served(d)     BY <1>t, <1>q, <2>1 DEF Served
    <3> QED BY <3>1, <3>2, <3>3
  <2>3. ASSUME NEW d \in Clients, Account(d) PROVE Account(d)'
    BY <1>q, <2>2, <2>3, SameAccount DEF cvars, lvars
  <2> QED BY <1>t, <1>q, <2>2, <2>3, ServerAccount DEF lvars
<1>1. CASE Accept
  <2>1. /\ UNCHANGED <<cvars, lvars, tpc, refused, lost>>
        /\ accepted' = Append(accepted, Head(backlog)) /\ backlog # <<>>
    BY <1>1 DEF Accept
  <2>2. Head(backlog) \in Clients
    <3>1. backlog \in Seq(Clients)  BY DEF IInv, TInv, TypeOK, ClientTypeOK
    <3> QED BY <2>1, <3>1
  <2>3. \A k \in DOMAIN accepted : accepted'[k] = accepted[k]
    BY <1>t, <2>1, <2>2, AppendFacts
  <2> QED BY <1>q, <2>1, <2>3
<1>2. CASE CreateThread
  <2>1. /\ tpc' = [tpc EXCEPT ![Len(accepted)] = "start"] /\ mpc = "create"
        /\ UNCHANGED <<cvars, lvars, accepted, refused, lost>>
    BY <1>2 DEF CreateThread
  <2>2. Len(accepted) \in Threads /\ tpc[Len(accepted)] = "none"
    <3>1. accepted # <<>>  BY <1>t, <2>1 DEF TInv
    <3>2. Len(accepted) \in DOMAIN accepted /\ Len(accepted) \in Nat
      BY <1>t, <3>1, SMT
    <3>3. Len(accepted) \in Threads  BY <3>2, ThreadLeft
    <3>4. ~(Len(accepted) < Len(accepted))  BY <3>2, SMT
    <3> QED BY <1>t, <2>1, <3>3, <3>4 DEF OwnInv
  <2>3. \A i \in Threads : tpc'[i] = IF i = Len(accepted) THEN "start" ELSE tpc[i]
    BY <1>t, <2>1, <2>2
  <2>4. \A d \in Clients : (AtSend(d)' <=> AtSend(d)) /\ (AtClose(d)' <=> AtClose(d))
    BY <2>1, <2>2, <2>3 DEF AtSend, AtClose
  <2>5. \A d \in Clients : Served(d)' => Served(d)
    BY <2>1 DEF Served
  <2>6. ASSUME NEW d \in Clients, Account(d) PROVE Account(d)'
    BY <2>1, <2>4, <2>6, SameAccount DEF cvars, lvars
  <2>7. \A i \in refused' : tpc'[i] # "none"
    BY <1>t, <2>1, <2>3
  <2> QED BY <2>1, <2>5, <2>6, <2>7, ServerAccount DEF lvars
<1>3. CASE CreateFails
  <2>1. CASE Crash
    BY <2>1 DEF Crash, AInv
  <2>2. CASE UNCHANGED <<lvars, fdtab, tpc, alive>>
    BY <1>3, <1>q, <2>2 DEF CreateFails
  <2> QED BY <1>3, <2>1, <2>2 DEF CreateFails
<1> QED BY <1>1, <1>2, <1>3

(* A thread works for the connection it was created for, and for no other.    *)
LEMMA ThreadAInv ==
    ASSUME IInv, OwnInv, AInv, alive, NEW i \in Threads, ThreadStep(i)
    PROVE  AInv'
<1>t. /\ TInv /\ PInv /\ ClientTypeOK /\ accepted \in Seq(Clients)
      /\ tpc \in [Threads -> {"none", "start", "recv", "send", "close", "done"}]
      /\ refused \in SUBSET Threads /\ \A j \in refused : tpc[j] # "none"
  BY DEF IInv, TInv, TypeOK, AInv
<1>u. UNCHANGED <<cvars, accepted, lost, fin>> /\ tpc[i] # "none"
  BY DEF ThreadStep, ReadArgument, Recv, Send, CloseFd, lvars, TakeLines, PutReply,
         CloseServerEnd, Crash
<1>c. PICK c \in Clients : accepted[i] = c /\ c # NoConn
  <2>1. i \in DOMAIN accepted  BY <1>u DEF OwnInv
  <2>2. accepted[i] \in Clients  BY <1>t, <2>1
  <2> QED BY <2>2, ThreadAssumption
<1>n. \A j \in Threads : tpc[j] # "none" /\ accepted[j] = c => j = i
  BY <1>c, <1>u, TheThread
<1>y. /\ inbox \in [Clients -> Nat] /\ outbox \in [Clients -> Nat] /\ got[c] \in Nat
      /\ sent[c] \in Nat /\ closed \in [Clients -> BOOLEAN] /\ reset \in [Clients -> BOOLEAN]
  BY <1>t, <1>c DEF ClientTypeOK
<1>v. Serving(i) => Conn(i) = c /\ ~closed[c] /\ tfd[i] \in Descriptors
  <2> SUFFICES ASSUME Serving(i) PROVE Conn(i) = c /\ ~closed[c] /\ tfd[i] \in Descriptors
      OBVIOUS
  <2>1. Conn(i) = c /\ tfd[i] \in Descriptors
    BY <1>c, <1>t DEF OwnInv, TInv
  <2> QED BY <1>t, <1>c, <2>1 DEF PInv, TableInv, Conn
<1>r. ~closed[c] => ~(reader[c] = "done" /\ cpc[c] \in {"open", "done"})
  BY <1>t, <1>c DEF PInv, PeerInv
<1>m. ASSUME NEW x, x # "none", tpc' = [tpc EXCEPT ![i] = x],
             refused \subseteq refused', refused' \subseteq refused \cup {i},
             \A d \in Clients \ {c} : /\ closed'[d] = closed[d] /\ inbox'[d] = inbox[d]
                                      /\ outbox'[d] = outbox[d] /\ reset'[d] = reset[d],
             Served(c)' /\ Account(c) /\ (AtSend(c) <=> tpc[i] = "send")
                /\ (AtClose(c) <=> tpc[i] = "close") /\ (AtSend(c)' <=> x = "send")
                /\ (AtClose(c)' <=> x = "close") => Account(c)'
      PROVE  AInv'
  <2>1. \A j \in Threads : tpc'[j] = IF j = i THEN x ELSE tpc[j]
    BY <1>t, <1>m
  <2>2. /\ AtSend(c) <=> tpc[i] = "send"
        /\ AtClose(c) <=> tpc[i] = "close"
    BY <1>c, <1>n DEF AtSend, AtClose
  <2>3. /\ AtSend(c)' <=> x = "send"
        /\ AtClose(c)' <=> x = "close"
    BY <1>c, <1>n, <1>u, <2>1 DEF AtSend, AtClose
  <2>4. ASSUME NEW d \in Clients \ {c}
        PROVE  (AtSend(d)' <=> AtSend(d)) /\ (AtClose(d)' <=> AtClose(d))
    BY <1>c, <1>u, <2>1 DEF AtSend, AtClose
  <2>5. \A d \in Clients : Served(d)' => Served(d)
    BY <1>m, <1>u DEF Served
  <2>6. ASSUME NEW d \in Clients, Served(d)', Account(d) PROVE Account(d)'
    <3>1. CASE d = c
      BY <1>m, <2>2, <2>3, <2>6, <3>1
    <3>2. CASE d # c
      <4>1. /\ cpc'[d] = cpc[d] /\ reader'[d] = reader[d] /\ sent'[d] = sent[d]
            /\ got'[d] = got[d] /\ fin'[d] = fin[d]
        BY <1>u DEF cvars
      <4> QED BY <1>m, <2>4, <2>6, <3>2, <4>1, SameAccount
    <3> QED BY <3>1, <3>2
  <2>7. \A j \in refused' : tpc'[j] # "none"
    BY <1>t, <1>m, <2>1
  <2> QED BY <1>u, <2>5, <2>6, <2>7, ServerAccount
<1>1. CASE ReadArgument(i)
  <2>1. /\ tpc[i] = "start" /\ UNCHANGED lvars
        /\ \/ tpc' = [tpc EXCEPT ![i] = "recv"] /\ refused' = refused
           \/ tpc' = [tpc EXCEPT ![i] = "close"] /\ refused' = refused \cup {i}
    BY <1>1 DEF ReadArgument
  <2>2. CASE tpc' = [tpc EXCEPT ![i] = "recv"] /\ refused' = refused
    <3>1. Account(c) /\ (AtSend(c) <=> tpc[i] = "send") /\ (AtSend(c)' <=> "recv" = "send")
             /\ (AtClose(c)' <=> "recv" = "close") => Account(c)'
      BY <1>u, <2>1, SameAccount, <1>c DEF cvars, lvars
    <3> QED BY <1>m, <2>1, <2>2, <3>1 DEF lvars
  <2>3. CASE tpc' = [tpc EXCEPT ![i] = "close"] /\ refused' = refused \cup {i}
    <3>1. ~Served(c)'
      BY <1>c, <1>u, <2>3 DEF Served
    <3> QED BY <1>m, <2>1, <2>3, <3>1 DEF lvars
  <2> QED BY <2>1, <2>2, <2>3
<1>2. CASE Recv(i)
  <2>1. tpc[i] = "recv" /\ Conn(i) = c /\ ~closed[c] /\ refused' = refused
    BY <1>2, <1>v DEF Recv, Serving
  <2>2. CASE (\E k \in 1 .. inbox[c] : TakeLines(c, k)) /\ tpc' = [tpc EXCEPT ![i] = "send"]
    <3>1. PICK k \in 1 .. inbox[c] :
             inbox' = [inbox EXCEPT ![c] = @ - k] /\ UNCHANGED <<outbox, closed, reset>>
      BY <2>2 DEF TakeLines
    <3>2. /\ inbox'[c] = inbox[c] - k /\ inbox[c] \in Nat /\ outbox[c] \in Nat
          /\ k \in Nat /\ k >= 1
          /\ \A d \in Clients \ {c} : inbox'[d] = inbox[d]
      BY <1>y, <1>c, <3>1
    <3>3. ASSUME Account(c), AtSend(c)', ~AtClose(c)' PROVE Account(c)'
      <4>1. got[c] + outbox[c] + inbox'[c] < sent[c]
        BY <1>y, <3>2, <3>3, SMT DEF Account
      <4>2. got[c] + outbox[c] + inbox'[c] <= sent[c]
        BY <1>y, <3>2, <3>3, SMT DEF Account
      <4> QED BY <1>u, <1>r, <2>1, <3>1, <3>3, <4>1, <4>2 DEF Account, cvars
    <3> QED BY <1>m, <2>1, <2>2, <3>1, <3>2, <3>3
  <2>3. CASE RecvEnds(i) /\ tpc' = [tpc EXCEPT ![i] = "close"] /\ UNCHANGED lvars
    <3>1. inbox[c] = 0 /\ fin[c]
      BY <1>c, <2>1, <2>3 DEF RecvEnds
    <3>2. ASSUME Account(c), ~AtSend(c), ~AtSend(c)' PROVE Account(c)'
      BY <1>u, <2>3, <3>1, <3>2 DEF Account, cvars, lvars
    <3> QED BY <1>m, <2>1, <2>3, <3>2 DEF lvars
  <2> QED BY <1>2, <2>1, <2>2, <2>3 DEF Recv
<1>3. CASE Send(i)
  <2>1. tpc[i] = "send" /\ Conn(i) = c /\ ~closed[c] /\ refused' = refused
    BY <1>3, <1>v DEF Send, Serving
  <2>2. CASE PutReply(c) /\ tpc' = [tpc EXCEPT ![i] = "recv"]
    <3>1. /\ outbox'[c] = outbox[c] + 1 /\ UNCHANGED <<inbox, closed, reset>>
          /\ \A d \in Clients \ {c} : outbox'[d] = outbox[d]
          /\ inbox[c] \in Nat /\ outbox[c] \in Nat
      BY <1>y, <1>c, <2>2 DEF PutReply
    <3>2. ASSUME Account(c), AtSend(c), ~AtSend(c)', ~AtClose(c)' PROVE Account(c)'
      <4>1. got[c] + outbox'[c] + inbox[c] <= sent[c] /\ got[c] + outbox'[c] > 0
        BY <1>y, <3>1, <3>2, SMT DEF Account
      <4> QED BY <1>u, <1>r, <2>1, <3>1, <3>2, <4>1 DEF Account, cvars
    <3> QED BY <1>m, <2>1, <2>2, <3>1, <3>2
  <2>3. CASE Crash
    BY <2>3 DEF Crash, AInv
  <2> QED BY <1>3, <2>1, <2>2, <2>3 DEF Send
<1>4. CASE CloseFd(i)
  <2>1. /\ tpc[i] = "close" /\ tpc' = [tpc EXCEPT ![i] = "done"] /\ refused' = refused
        /\ Conn(i) = c
    BY <1>4, <1>v DEF CloseFd, Serving
  <2>2. CloseServerEnd({c})
    BY <1>4, <1>c, <2>1 DEF CloseFd
  <2>3. /\ UNCHANGED <<inbox, outbox>> /\ closed'[c]
        /\ reset'[c] <=> (reset[c] \/ inbox[c] > 0)
        /\ \A d \in Clients \ {c} : closed'[d] = closed[d] /\ reset'[d] = reset[d]
    BY <1>y, <1>c, <2>2 DEF CloseServerEnd
  <2>4. ASSUME Account(c), AtClose(c), ~AtSend(c)' PROVE Account(c)'
    <3>1. inbox[c] = 0 /\ fin[c] /\ ~AtSend(c)
      BY <2>4 DEF Account
    <3>2. ~reset'[c]  BY <2>3, <2>4, <3>1 DEF Account
    <3> QED BY <1>u, <2>3, <2>4, <3>1, <3>2 DEF Account, cvars
  <2> QED BY <1>m, <2>1, <2>3, <2>4
<1> QED BY <1>1, <1>2, <1>3, <1>4 DEF ThreadStep

(* Every step keeps the account, as long as threads own what they use.        *)
LEMMA NextAInv == IInv /\ OwnInv /\ AInv /\ [Next]_vars => AInv'
<1> SUFFICES ASSUME IInv, OwnInv, AInv, [Next]_vars PROVE AInv'
    OBVIOUS
<1>1. CASE ~alive
  <2>1. ~alive'
    BY <1>1 DEF Next, Accept, AcceptFails, CreateThread, CreateFails, ResetQueued, ThreadStep, ReadArgument,
                Recv, Send, CloseFd, ClientNext, ConnectRefused, vars, svars
  <2> QED BY <2>1 DEF AInv
<1>2. CASE alive
  <2>1. ASSUME NEW c \in Clients, ClientNext(c) PROVE AInv'
    BY <1>2, <2>1, ClientAccount DEF ClientNext, ConnectRefused
  <2>2. CASE UNCHANGED vars
    BY <2>2 DEF vars, svars, cvars, lvars, AInv, Account, AtSend, AtClose, Served
  <2>3. CASE AcceptFails
    BY <2>3 DEF AcceptFails, Crash, AInv
  <2> QED BY <1>2, <2>1, <2>2, <2>3, MainAInv, ThreadAInv DEF Next, ResetQueued
<1> QED BY <1>1, <1>2

(* Under the schedules of Eager a client of the running server that was       *)
(* neither lost nor refused is answered: its stream ends only when all it     *)
(* sent was read, with a reply if it sent anything, and it is never reset.    *)
THEOREM AnsweredInFull == Eager => (Spec => []AnsweredBeforeClose)
<1> SUFFICES ASSUME Eager PROVE Spec => []AnsweredBeforeClose
    OBVIOUS
<1>1. IInv /\ OInv /\ AInv /\ [Next]_vars => AInv'
  BY NextAInv DEF OInv
<1> QED BY <1>1, AccountAnswers, InitIInv, InitOInv, InitAInv, NextIInv, NextOInv, PTL DEF Spec
====
