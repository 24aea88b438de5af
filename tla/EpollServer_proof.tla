---- MODULE EpollServer_proof ----
(* Proofs about EpollServer, for every set of clients, every table of         *)
(* descriptors, every size of a batch and every window.                       *)
EXTENDS EpollServer, TLAPS, FiniteSetTheorems, WellFoundedInduction

(* No element comes twice.                                                    *)
NoDup(s) == \A i, j \in DOMAIN s : s[i] = s[j] => i = j

(* An event for f is in the batch, being handled or still to be.              *)
Told(f) == \E i \in DOMAIN events : events[i].fd = f

(* A descriptor is on the ready list once, and only while it is registered.   *)
ReadyInv == /\ NoDup(ready)
            /\ \A f \in Fds : Has(ready, f) => f \in reg

(* What is registered is open, and what is being registered is not yet.       *)
RegInv == /\ \A f \in reg : conn[f] # NoConn
          /\ pc = "add" => client_fd \notin reg /\ conn[client_fd] # NoConn

(* The batch has one event for each descriptor, so that a descriptor closed   *)
(* for its own event has no other; the listener is not taken off the ready    *)
(* list, and only the server takes connections off the queue.                 *)
BatchInv ==
    /\ \A i, j \in DOMAIN events : events[i].fd = events[j].fd => i = j
    /\ \A i \in DOMAIN events : events[i].fd # Listener => events[i].fd \in reg
    /\ Told(Listener) => Has(ready, Listener)
    /\ Told(Listener) /\ pc # "add" => backlog # <<>>
    /\ pc \in {"accept", "add"} => events # <<>> /\ Head(events).fd = Listener
    /\ pc \in {"recv", "send"} => events # <<>> /\ Head(events).fd # Listener
    /\ pc = "wait" => events = <<>>

(* A connection is in the queue or has a descriptor, once, from connect to    *)
(* close.                                                                     *)
OnceInv ==
    /\ NoDup(backlog)
    /\ \A f, g \in Fds : conn[f] = conn[g] /\ conn[f] # NoConn => f = g
    /\ \A f \in Fds : ~Has(backlog, conn[f])
    /\ \A c \in Clients : client[c] = "new" =>
          /\ ~Pending(c) /\ ~Connected(c)
          /\ sent[c] = 0 /\ inbox[c] = 0 /\ outbox[c] = 0 /\ received[c] = 0

(* A client that was never greedy has room for all its echoes; the buffer is  *)
(* empty outside the loop.                                                    *)
WindowInv ==
    /\ \A c \in Clients \ greedy : sent[c] - received[c] <= Window
    /\ pc # "send" => len = 0

(* The inductive invariant: NoLostEdge and EventsNotStale need the others.    *)
IInv == TypeOK /\ ReadyInv /\ RegInv /\ BatchInv /\ OnceInv /\ NoLostEdge /\ EventsNotStale

-----------------------------------------------------------------------------
(* Sequences: what the operations of the kernel and the server do to them.    *)

(* The tail has everything but the head.                                      *)
LEMMA TailFacts ==
    ASSUME NEW S, NEW s \in Seq(S), s # <<>>
    PROVE  /\ Head(s) \in S /\ Head(s) = s[1] /\ 1 \in DOMAIN s
           /\ Tail(s) \in Seq(S) /\ DOMAIN Tail(s) = 1 .. Len(s) - 1
           /\ \A i \in DOMAIN Tail(s) : i + 1 \in DOMAIN s /\ Tail(s)[i] = s[i + 1]
           /\ \A i \in DOMAIN s : i # 1 => i - 1 \in DOMAIN Tail(s) /\ Tail(s)[i - 1] = s[i]
<1>1. Len(s) \in Nat /\ Len(s) # 0 /\ DOMAIN s = 1 .. Len(s)
  BY SMT
<1>2. Head(s) \in S /\ Head(s) = s[1] /\ 1 \in DOMAIN s
  BY <1>1, SMT
<1>3. /\ Tail(s) \in Seq(S) /\ Len(Tail(s)) = Len(s) - 1 /\ DOMAIN Tail(s) = 1 .. Len(s) - 1
      /\ \A i \in 1 .. Len(s) - 1 : Tail(s)[i] = s[i + 1]
  BY <1>1, SMT
<1> QED BY <1>1, <1>2, <1>3, SMT

(* Where nothing comes twice, the tail has everything but the head.           *)
LEMMA TailHas ==
    ASSUME NEW S, NEW s \in Seq(S), s # <<>>, NoDup(s)
    PROVE  /\ NoDup(Tail(s)) /\ Has(s, Head(s))
           /\ \A x : Has(Tail(s), x) <=> Has(s, x) /\ x # Head(s)
<1>1. NoDup(Tail(s))
  BY TailFacts, SMT DEF NoDup
<1>2. Has(s, Head(s))
  BY TailFacts DEF Has
<1>3. ASSUME NEW x, Has(Tail(s), x) PROVE Has(s, x) /\ x # Head(s)
  <2>1. PICK i \in DOMAIN Tail(s) : Tail(s)[i] = x
    BY <1>3 DEF Has
  <2>2. i \in Nat /\ i # 0 /\ i + 1 # 1 /\ i + 1 \in DOMAIN s /\ s[i + 1] = x
    BY <2>1, TailFacts, SMT
  <2> QED BY <2>2, TailFacts DEF Has, NoDup
<1>4. ASSUME NEW x, Has(s, x), x # Head(s) PROVE Has(Tail(s), x)
  <2>1. PICK i \in DOMAIN s : s[i] = x
    BY <1>4 DEF Has
  <2>2. i # 1
    BY <1>4, <2>1, TailFacts
  <2> QED BY <2>1, <2>2, TailFacts DEF Has
<1> QED BY <1>1, <1>2, <1>3, <1>4

(* Something new at the end.                                                  *)
LEMMA AppendHas ==
    ASSUME NEW S, NEW s \in Seq(S), NEW x \in S
    PROVE  /\ Append(s, x) \in Seq(S) /\ Append(s, x) # <<>>
           /\ \A y : Has(Append(s, x), y) <=> Has(s, y) \/ y = x
           /\ NoDup(s) /\ ~Has(s, x) => NoDup(Append(s, x))
<1> DEFINE t == Append(s, x)
           n == Len(s)
<1>1. /\ t \in Seq(S) /\ n \in Nat /\ t # <<>> /\ DOMAIN s = 1 .. n /\ DOMAIN t = 1 .. n + 1
      /\ t[n + 1] = x /\ \A i \in 1 .. n : t[i] = s[i]
  BY SMT
<1> HIDE DEF t, n
<1>2. \A i \in DOMAIN t : i \in DOMAIN s \/ i = n + 1
  BY <1>1, SMT
<1>3. n + 1 \in DOMAIN t /\ \A i \in DOMAIN s : i \in DOMAIN t /\ t[i] = s[i]
  BY <1>1, SMT
<1>4. \A y : Has(t, y) <=> Has(s, y) \/ y = x
  BY <1>1, <1>2, <1>3 DEF Has
<1>5. NoDup(s) /\ ~Has(s, x) => NoDup(t)
  BY <1>1, <1>2, <1>3 DEF Has, NoDup
<1> QED BY <1>1, <1>4, <1>5 DEF t

(* A function from 1 .. n is a sequence.                                      *)
LEMMA IsSequence ==
    ASSUME NEW S, NEW n \in Nat, NEW s, s = [i \in 1 .. n |-> s[i]],
           \A i \in 1 .. n : s[i] \in S
    PROVE  s \in Seq(S)
<1>1. [i \in 1 .. n |-> s[i]] \in [1 .. n -> S]
  OBVIOUS
<1>2. [i \in 1 .. n |-> s[i]] \in Seq(S)
  BY <1>1, SMT
<1> QED BY <1>2

(* The kernel puts a descriptor on the ready list once.                       *)
LEMMA EnqueueHas ==
    ASSUME NEW S, NEW s \in Seq(S), NEW x \in S, NoDup(s)
    PROVE  /\ Enqueue(s, x) \in Seq(S) /\ NoDup(Enqueue(s, x))
           /\ \A y : Has(Enqueue(s, x), y) <=> Has(s, y) \/ y = x
BY AppendHas DEF Enqueue, Has

(* Taking elements out in their order.                                        *)
LEMMA InOrderHas ==
    ASSUME NEW S, NEW s \in Seq(S), NoDup(s), NEW I \in SUBSET DOMAIN s, NEW t \in InOrder(s, I)
    PROVE  /\ t \in Seq(S) /\ NoDup(t)
           /\ \A y : Has(t, y) <=> \E i \in I : s[i] = y
<1> DEFINE Ns == 1 .. Cardinality(I)
<1>1. Cardinality(I) \in Nat
  <2>1. DOMAIN s = 1 .. Len(s) /\ Len(s) \in Nat
    BY SMT
  <2>2. IsFiniteSet(I)
    <3>1. IsFiniteSet(1 .. Len(s))
      BY <2>1, FS_Interval, SMT
    <3> QED BY <2>1, <3>1, FS_Subset
  <2> QED BY <2>2, FS_CardinalityType
<1>2. PICK at \in Bijection(Ns, I) : /\ \A i, j \in Ns : i < j => at[i] < at[j]
                                     /\ t = [i \in Ns |-> s[at[i]]]
  BY DEF InOrder
<1>3. /\ at \in [Ns -> I] /\ \A i \in I : \E n \in Ns : at[n] = i
      /\ \A i, j \in Ns : at[i] = at[j] => i = j
  BY <1>2 DEF Bijection, Injection, Surjection, IsInjective
<1>4. DOMAIN t = Ns /\ \A n \in Ns : t[n] = s[at[n]] /\ at[n] \in I /\ at[n] \in DOMAIN s /\ t[n] \in S
  <2>1. \A i \in DOMAIN s : s[i] \in S
    BY SMT
  <2> QED BY <1>2, <1>3, <2>1
<1>5. t \in Seq(S)
  BY <1>1, <1>2, <1>4, SMT
<1>6. NoDup(t)
  BY <1>3, <1>4 DEF NoDup
<1>7. \A y : Has(t, y) <=> \E i \in I : s[i] = y
  BY <1>3, <1>4 DEF Has
<1> QED BY <1>5, <1>6, <1>7

-----------------------------------------------------------------------------
(* What the invariant says of the variables' types, spelled out.              *)
Event == [fd : Fds \cup {Listener}, for : Clients \cup {NoConn}]

(* The facts about types that the steps below cite.                           *)
LEMMA Known ==
    ASSUME IInv
    PROVE  /\ ready \in Seq(Fds \cup {Listener}) /\ backlog \in Seq(Clients)
           /\ events \in Seq(Event) /\ NoDup(ready) /\ NoDup(backlog)
           /\ conn \in [Fds -> Clients \cup {NoConn}] /\ reg \in SUBSET Fds
           /\ client \in [Clients -> {"new", "connected", "left"}]
           /\ Listener \notin Fds /\ NoConn \notin Clients
           /\ \A f \in reg : conn[f] \in Clients
           /\ \A f : Has(ready, f) => f \in reg \cup {Listener}
<1>1. Listener \notin Fds
  BY SizeAssumption, SMT DEF Listener, Fds
<1>2. \A f : Has(ready, f) => f \in reg \cup {Listener}
  <2>1. ready \in Seq(Fds \cup {Listener})
    BY DEF IInv, TypeOK
  <2>2. \A i \in DOMAIN ready : ready[i] \in Fds \cup {Listener}
    BY <2>1, SMT
  <2> QED BY <2>2 DEF IInv, ReadyInv, Has
<1>3. \A f \in reg : conn[f] \in Clients
  BY DEF IInv, TypeOK, RegInv
<1> QED BY <1>1, <1>2, <1>3, NameAssumption DEF IInv, TypeOK, ReadyInv, OnceInv, Event

(* The walk over the ready list stops somewhere in it.                        *)
LEMMA ScannedInside ==
    ASSUME NEW S, ready \in Seq(S)
    PROVE  Scanned \in 0 .. Len(ready)
<1> DEFINE n == Len(ready)
           N == {k \in 0 .. n : Cardinality(Reported(k)) <= MAX_EVENTS}
           D == {d \in Nat : n - d \in N}
<1>1. n \in Nat
  BY SMT
<1>2. 0 \in N
  <2>1. Reported(0) = {}
    BY SMT DEF Reported
  <2> QED BY <1>1, <2>1, FS_EmptySet, SizeAssumption, SMT
<1>3. N \subseteq 0 .. n
  OBVIOUS
<1> HIDE DEF N, n
<1>4. n \in D
  <2>1. n - n = 0
    BY <1>1, SMT
  <2> QED BY <1>1, <1>2, <2>1
<1>5. PICK d \in D : \A e \in D : ~(e < d)
  <2>1. D \subseteq Nat /\ D # {}
    BY <1>4
  <2>2. \E d \in D : \A e \in D : <<e, d>> \notin OpToRel(<, Nat)
    BY <2>1, NatLessThanWellFounded, WFMin
  <2>3. PICK d \in D : \A e \in D : <<e, d>> \notin OpToRel(<, Nat)
    BY <2>2
  <2>4. \A e \in D : ~(e < d)
    BY <2>1, <2>3, Zenon DEF OpToRel
  <2> QED BY <2>4
<1>6. n - d \in N /\ \A k \in N : n - d >= k
  <2> SUFFICES ASSUME NEW k \in N PROVE n - d >= k
      OBVIOUS
  <2>1. d \in Nat /\ k \in Nat /\ k <= n
    BY <1>1, <1>3, SMT
  <2>2. n - k \in Nat /\ n - (n - k) = k
    BY <1>1, <2>1, SMT
  <2>3. ~(n - k < d)
    BY <1>5, <2>2
  <2> QED BY <1>1, <2>1, <2>2, <2>3, SMT
<1>7. Max(N) \in N
  BY <1>6 DEF Max
<1> QED BY <1>3, <1>7 DEF Scanned, N, n

(* The lowest free descriptor, where there is one.                            *)
LEMMA LowestFree ==
    ASSUME FreeFds # {}
    PROVE  Min(FreeFds) \in Fds /\ conn[Min(FreeFds)] = NoConn
<1>1. FreeFds \subseteq Nat
  BY SizeAssumption, SMT DEF FreeFds, Fds
<1>2. \E f \in FreeFds : \A g \in FreeFds : <<g, f>> \notin OpToRel(<, Nat)
  BY <1>1, NatLessThanWellFounded, WFMin
<1>3. PICK f \in FreeFds : \A g \in FreeFds : <<g, f>> \notin OpToRel(<, Nat)
  BY <1>2
<1>4. \A g \in FreeFds : ~(g < f)
  BY <1>1, <1>3, Zenon DEF OpToRel
<1>5. \A g \in FreeFds : f <= g
  BY <1>1, <1>4, SMT
<1>6. Min(FreeFds) \in FreeFds
  BY <1>5 DEF Min
<1> QED BY <1>6 DEF FreeFds

(* An event is done: the others of the batch are left.                        *)
LEMMA EventLeaves ==
    ASSUME IInv, events # <<>>, events' = Tail(events)
    PROVE  /\ events' \in Seq(Event) /\ Head(events) \in Event
           /\ \A i, j \in DOMAIN events' : events'[i].fd = events'[j].fd => i = j
           /\ \A i \in DOMAIN events' : \E j \in DOMAIN events :
                 events'[i] = events[j] /\ events[j].fd # Head(events).fd
           /\ \A f : Told(f)' <=> Told(f) /\ f # Head(events).fd
           /\ Head(events) = events[1] /\ 1 \in DOMAIN events
<1>1. events \in Seq(Event) /\ \A i, j \in DOMAIN events : events[i].fd = events[j].fd => i = j
  BY Known DEF IInv, BatchInv
<1>2. /\ Head(events) \in Event /\ Head(events) = events[1] /\ 1 \in DOMAIN events
      /\ events' \in Seq(Event) /\ DOMAIN events' = 1 .. Len(events) - 1
      /\ \A i \in DOMAIN events' : i + 1 \in DOMAIN events /\ events'[i] = events[i + 1]
      /\ \A i \in DOMAIN events : i # 1 => i - 1 \in DOMAIN events' /\ events'[i - 1] = events[i]
  BY <1>1, TailFacts
<1>3. \A i \in DOMAIN events' : i \in Nat /\ i + 1 # 1
  BY <1>2, SMT
<1>4. \A i, j \in DOMAIN events' : events'[i].fd = events'[j].fd => i = j
  <2>1. \A i, j \in DOMAIN events' : i + 1 = j + 1 => i = j
    BY <1>3, SMT
  <2> QED BY <1>1, <1>2, <2>1
<1>5. \A i \in DOMAIN events' : events'[i] = events[i + 1] /\ events[i + 1].fd # Head(events).fd
  BY <1>1, <1>2, <1>3
<1>6. \A f : Told(f)' <=> Told(f) /\ f # Head(events).fd
  <2>1. ASSUME NEW f, Told(f)' PROVE Told(f) /\ f # Head(events).fd
    BY <1>2, <1>5, <2>1 DEF Told
  <2>2. ASSUME NEW f, Told(f), f # Head(events).fd PROVE Told(f)'
    <3>1. PICK i \in DOMAIN events : events[i].fd = f
      BY <2>2 DEF Told
    <3>2. i # 1
      BY <1>1, <2>2, <3>1
    <3>3. i - 1 \in DOMAIN events' /\ events'[i - 1].fd = f
      BY <1>2, <3>1, <3>2
    <3> QED BY <3>3 DEF Told
  <2> QED BY <2>1, <2>2
<1> QED BY <1>2, <1>4, <1>5, <1>6

(* A descriptor is closed: it leaves the ready list, epoll and the table.     *)
LEMMA CloseLeaves ==
    ASSUME IInv, NEW f \in Fds, Close(f)
    PROVE  /\ ready' \in Seq(Fds \cup {Listener}) /\ NoDup(ready')
           /\ \A g : Has(ready', g) <=> Has(ready, g) /\ g # f
           /\ reg' = reg \ {f} /\ conn' \in [Fds -> Clients \cup {NoConn}]
           /\ \A g \in Fds : conn'[g] = IF g = f THEN NoConn ELSE conn[g]
<1>1. ready \in Seq(Fds \cup {Listener}) /\ NoDup(ready) /\ conn \in [Fds -> Clients \cup {NoConn}]
  BY Known
<1> DEFINE I == {i \in DOMAIN ready : ready[i] # f}
<1>2. ready' \in InOrder(ready, I) /\ I \in SUBSET DOMAIN ready
  BY DEF Close
<1>3. /\ ready' \in Seq(Fds \cup {Listener}) /\ NoDup(ready')
      /\ \A g : Has(ready', g) <=> \E i \in I : ready[i] = g
  BY <1>1, <1>2, InOrderHas
<1>4. \A g : Has(ready', g) <=> Has(ready, g) /\ g # f
  BY <1>3 DEF Has
<1> QED BY <1>1, <1>3, <1>4 DEF Close

(* Something arrives: if its connection is registered, its descriptor is on   *)
(* the ready list afterwards.                                                 *)
LEMMA EdgeTells ==
    ASSUME IInv, NEW c \in Clients, Edge(c)
    PROVE  /\ ready' \in Seq(Fds \cup {Listener}) /\ NoDup(ready')
           /\ \A f : Has(ready, f) => Has(ready', f)
           /\ \A f : Has(ready', f) => f \in reg \cup {Listener}
           /\ \A f \in reg : conn[f] = c => Has(ready', f)
<1> USE Known
<1>1. CASE ~ \E f \in reg : conn[f] = c
  BY <1>1 DEF Edge
<1>2. CASE \E f \in reg : conn[f] = c
  <2> DEFINE f == CHOOSE g \in reg : conn[g] = c
  <2>1. f \in reg /\ conn[f] = c /\ ready' = Enqueue(ready, f)
    BY <1>2 DEF Edge
  <2> HIDE DEF f
  <2>2. \A g \in reg : conn[g] = c => g = f
    BY <2>1 DEF IInv, OnceInv
  <2>3. f \in Fds \cup {Listener}
    BY <2>1
  <2>4. /\ Enqueue(ready, f) \in Seq(Fds \cup {Listener}) /\ NoDup(Enqueue(ready, f))
        /\ \A y : Has(Enqueue(ready, f), y) <=> Has(ready, y) \/ y = f
    BY <2>3, EnqueueHas
  <2>5. /\ ready' \in Seq(Fds \cup {Listener}) /\ NoDup(ready')
        /\ \A y : Has(ready', y) <=> Has(ready, y) \/ y = f
    BY <2>1, <2>4
  <2> QED BY <2>1, <2>2, <2>5
<1> QED BY <1>1, <1>2

-----------------------------------------------------------------------------
(* The invariant at the start, and at each step of the server.                *)
(* Nothing has arrived.                                                       *)
LEMMA InitIInv == Init => IInv
<1> SUFFICES ASSUME Init PROVE IInv
    OBVIOUS
<1>1. TypeOK
  BY SizeAssumption, BoundAssumption, SMT DEF Init, TypeOK, Listener, Fds, NoFd
<1>2. ReadyInv /\ RegInv /\ BatchInv
  BY SMT DEF Init, ReadyInv, RegInv, BatchInv, NoDup, Has, Told
<1>3. OnceInv
  <2>1. \A c \in Clients : c # NoConn
    BY NameAssumption
  <2> QED BY <2>1, SMT DEF Init, OnceInv, NoDup, Has, Pending, Connected
<1>4. NoLostEdge /\ EventsNotStale
  BY SMT DEF Init, NoLostEdge, EventsNotStale, Readable
<1> QED BY <1>1, <1>2, <1>3, <1>4 DEF IInv

(* What the kernel keeps on its list after a walk, without the listener.      *)
LEMMA LeftHas ==
    ASSUME IInv
    PROVE  /\ LeftReady \in Seq(Fds \cup {Listener}) /\ NoDup(LeftReady)
           /\ \A y : Has(LeftReady, y) <=> \E i \in DOMAIN ready \ (1 .. Scanned) : ready[i] = y
           /\ DOMAIN ready = 1 .. Len(ready) /\ Scanned \in 0 .. Len(ready) /\ Len(ready) \in Nat
<1>1. ready \in Seq(Fds \cup {Listener}) /\ NoDup(ready)
  BY Known
<1>2. /\ Scanned \in 0 .. Len(ready) /\ Len(ready) \in Nat
      /\ DOMAIN ready = 1 .. Len(ready)
      /\ \A i \in DOMAIN ready : ready[i] \in Fds \cup {Listener}
  BY <1>1, ScannedInside, SMT
<1> DEFINE n == Scanned
           t == LeftReady
<1>3. /\ t \in Seq(Fds \cup {Listener}) /\ DOMAIN t = 1 .. Len(ready) - n
      /\ \A i \in DOMAIN t : t[i] = ready[n + i]
  <2> HIDE DEF n
  <2>1. t = SubSeq(ready, n + 1, Len(ready))
    BY DEF LeftReady, n
  <2> HIDE DEF t
  <2> QED BY <1>1, <1>2, <2>1, SMT DEF n
<1> HIDE DEF n, t
<1>4. \A i \in DOMAIN t : n + i \in DOMAIN ready \ (1 .. n)
  BY <1>2, <1>3, SMT DEF n
<1>5. \A i \in DOMAIN ready \ (1 .. n) : i - n \in DOMAIN t /\ n + (i - n) = i
  BY <1>2, <1>3, SMT DEF n
<1>6. NoDup(t)
  <2>1. \A i, j \in DOMAIN t : n + i = n + j => i = j
    BY <1>2, <1>3, SMT DEF n
  <2> QED BY <1>1, <1>3, <1>4, <2>1 DEF NoDup
<1>7. \A y : Has(t, y) <=> \E i \in DOMAIN ready \ (1 .. n) : ready[i] = y
  <2>1. ASSUME NEW y, Has(t, y) PROVE \E i \in DOMAIN ready \ (1 .. n) : ready[i] = y
    BY <1>3, <1>4, <2>1 DEF Has
  <2>2. ASSUME NEW y, NEW i \in DOMAIN ready \ (1 .. n), ready[i] = y PROVE Has(t, y)
    BY <1>3, <1>5, <2>2 DEF Has
  <2> QED BY <2>1, <2>2
<1> QED BY <1>2, <1>3, <1>6, <1>7 DEF t, n

(* epoll_wait: what it reports it takes off the list, but for the listener.   *)
LEMMA EpollWaitKeeps == ASSUME IInv, EpollWait PROVE IInv'
<1> USE Known
<1> DEFINE R == Reported(Scanned)
<1>1. /\ pc = "wait" /\ pc' = "dispatch" /\ ready' = LevelTriggered
      /\ UNCHANGED <<cvars, len, client_fd, reg, conn, backlog>>
  BY DEF EpollWait
<1>2. PICK fds \in InOrder(ready, R) :
         events' = [i \in DOMAIN fds |->
                      [fd |-> fds[i], for |-> IF fds[i] = Listener THEN NoConn ELSE conn[fds[i]]]]
  BY DEF EpollWait
<1>3. /\ R \in SUBSET DOMAIN ready
      /\ \A i \in DOMAIN ready : i \in R <=> i \in 1 .. Scanned /\ Readable(ready[i])
  <2>1. 1 .. Scanned \subseteq DOMAIN ready
    BY LeftHas, SMT
  <2> QED BY <2>1 DEF Reported
<1> HIDE DEF R
<1>4. /\ fds \in Seq(Fds \cup {Listener}) /\ NoDup(fds)
      /\ \A y : Has(fds, y) <=> \E i \in R : ready[i] = y
  BY <1>2, <1>3, InOrderHas
<1>5. /\ DOMAIN events' = DOMAIN fds
      /\ \A i \in DOMAIN fds : /\ events'[i].fd = fds[i]
                               /\ events'[i].for = IF fds[i] = Listener THEN NoConn ELSE conn[fds[i]]
  BY <1>2
<1>6. \A f : Told(f)' <=> Has(fds, f)
  BY <1>5 DEF Told, Has
<1>7. \A i \in DOMAIN fds : fds[i] # Listener => fds[i] \in reg
  <2>1. \A f : Has(fds, f) => Has(ready, f)
    BY <1>3, <1>4 DEF Has
  <2> QED BY <2>1 DEF Has
<1>8. events' \in Seq(Event)
  <2>1. DOMAIN fds = 1 .. Len(fds) /\ Len(fds) \in Nat /\ \A i \in DOMAIN fds : fds[i] \in Fds \cup {Listener}
    BY <1>4, SMT
  <2>2. \A i \in DOMAIN fds : events'[i] \in Event
    BY <1>2, <1>7, <2>1 DEF Event
  <2>3. events' = [i \in 1 .. Len(fds) |-> events'[i]]
    BY <1>2, <2>1
  <2> QED BY <2>1, <2>2, <2>3, IsSequence
<1>9. /\ ready' \in Seq(Fds \cup {Listener}) /\ NoDup(ready')
      /\ \A f : Has(ready', f) <=> Has(LeftReady, f) \/ (f = Listener /\ Told(f)')
  <2>1. Told(Listener)' <=> \E i \in R : ready[i] = Listener
    BY <1>4, <1>6
  <2>2. CASE Told(Listener)'
    <3>1. ready' = Append(LeftReady, Listener)
      BY <1>1, <2>1, <2>2 DEF LevelTriggered, R
    <3>2. ~Has(LeftReady, Listener)
      BY <1>3, <2>1, <2>2, LeftHas DEF NoDup
    <3> QED BY <2>2, <3>1, <3>2, LeftHas, AppendHas
  <2>3. CASE ~Told(Listener)'
    <3>1. ready' = LeftReady
      BY <1>1, <2>1, <2>3 DEF LevelTriggered, R
    <3> QED BY <2>3, <3>1, LeftHas
  <2> QED BY <2>2, <2>3
<1>10. \A f \in reg \cup {Listener} : Has(ready', f) => Has(ready, f)
  <2>1. \A f : Has(LeftReady, f) => Has(ready, f)
    BY LeftHas DEF Has
  <2>2. Told(Listener)' => Has(ready, Listener)
    BY <1>3, <1>4, <1>6 DEF Has
  <2> QED BY <1>9, <2>1, <2>2
<1>11. TypeOK'
  BY <1>1, <1>8, <1>9 DEF IInv, TypeOK, cvars, Event
<1>12. ReadyInv' /\ RegInv'
  <2>1. \A f \in Fds : Has(ready', f) => f \in reg
    <3>1. \A f : Has(LeftReady, f) => Has(ready, f)
      BY LeftHas DEF Has
    <3> QED BY <1>9, <3>1
  <2> QED BY <1>1, <1>9, <2>1 DEF IInv, ReadyInv, RegInv
<1>13. Told(Listener)' => backlog # <<>>
  BY <1>3, <1>4, <1>6 DEF Readable
<1>14. BatchInv'
  <2>1. \A i, j \in DOMAIN events' : events'[i].fd = events'[j].fd => i = j
    BY <1>4, <1>5 DEF NoDup
  <2>2. \A i \in DOMAIN events' : events'[i].fd # Listener => events'[i].fd \in reg'
    BY <1>1, <1>5, <1>7
  <2> QED BY <1>1, <1>9, <1>13, <2>1, <2>2 DEF BatchInv
<1>15. OnceInv'
  BY <1>1 DEF IInv, OnceInv, cvars, Pending, Connected
<1>16. NoLostEdge'
  <2>1. \A f : Readable(f)' <=> Readable(f)
    BY <1>1 DEF Readable, HasInput, cvars
  <2>2. ASSUME NEW f \in reg \cup {Listener}, Readable(f) PROVE Has(ready', f) \/ Told(f)'
    <3>1. Has(ready, f)
      BY <1>1, <2>2 DEF IInv, BatchInv, NoLostEdge
    <3>2. PICK i \in DOMAIN ready : ready[i] = f
      BY <3>1 DEF Has
    <3>3. CASE i \in 1 .. Scanned
      BY <1>3, <1>4, <1>6, <2>2, <3>2, <3>3
    <3>4. CASE i \notin 1 .. Scanned
      BY <1>9, <3>2, <3>4, LeftHas
    <3> QED BY <3>3, <3>4
  <2> QED BY <1>1, <2>1, <2>2 DEF NoLostEdge, Told
<1>17. EventsNotStale'
  BY <1>1, <1>5 DEF EventsNotStale
<1> QED BY <1>11, <1>12, <1>14, <1>15, <1>16, <1>17 DEF IInv

(* Steps of the server that neither read nor wait nor close.                  *)
LEMMA DispatchKeeps == ASSUME IInv, Dispatch \/ WaitInterrupted PROVE IInv'
<1>1. /\ UNCHANGED <<kvars, cvars, len, client_fd, events>>
      /\ \/ pc = "dispatch" /\ pc' = IF events = <<>> THEN "wait"
                                     ELSE IF Head(events).fd = Listener THEN "accept" ELSE "recv"
         \/ pc = "wait" /\ pc' = "dead"
  BY DEF Dispatch, WaitInterrupted
<1> USE <1>1 DEF kvars, cvars
<1>2. TypeOK'          BY DEF IInv, TypeOK
<1>3. ReadyInv'        BY DEF IInv, ReadyInv
<1>4. RegInv'          BY DEF IInv, RegInv
<1>5. BatchInv'        BY DEF IInv, BatchInv, Told
<1>6. OnceInv'         BY DEF IInv, OnceInv, Pending, Connected
<1>7. NoLostEdge'      BY DEF IInv, NoLostEdge, Readable, HasInput
<1>8. EventsNotStale'  BY DEF IInv, EventsNotStale
<1> QED BY <1>2, <1>3, <1>4, <1>5, <1>6, <1>7, <1>8 DEF IInv

(* accept: the connection gets a descriptor no event of the batch is for.     *)
LEMMA AcceptKeeps == ASSUME IInv, Accept PROVE IInv'
<1> USE Known
<1>1. /\ pc = "accept" /\ events # <<>> /\ Head(events).fd = Listener
      /\ UNCHANGED <<cvars, len, ready, reg>>
      /\ Told(Listener)
  <2>1. events # <<>> /\ Head(events).fd = Listener
    BY DEF Accept, IInv, BatchInv
  <2>2. Told(Listener)
    BY <2>1, TailFacts DEF Told
  <2> QED BY <2>1, <2>2 DEF Accept
<1>2. Has(ready, Listener) /\ backlog # <<>>
  BY <1>1 DEF IInv, BatchInv
<1>3. CASE EventDone /\ client_fd' = NoFd /\ UNCHANGED <<conn, backlog>>
  <2>1. /\ pc' = "dispatch" /\ events' = Tail(events)
        /\ client_fd' = NoFd /\ UNCHANGED <<conn, backlog>>
    BY <1>3 DEF EventDone
  <2>2. TypeOK'
    BY <1>1, <2>1, EventLeaves DEF IInv, TypeOK, cvars, Event
  <2>3. ReadyInv' /\ RegInv'
    BY <1>1, <2>1 DEF IInv, ReadyInv, RegInv
  <2>4. BatchInv'
    BY <1>1, <2>1, EventLeaves DEF IInv, BatchInv
  <2>5. OnceInv'
    BY <1>1, <2>1 DEF IInv, OnceInv, cvars, Pending, Connected
  <2>6. NoLostEdge'
    BY <1>1, <1>2, <2>1, EventLeaves DEF IInv, NoLostEdge, Told, Readable, HasInput, cvars
  <2>7. EventsNotStale'
    BY <1>1, <2>1, EventLeaves DEF IInv, EventsNotStale
  <2> QED BY <2>2, <2>3, <2>4, <2>5, <2>6, <2>7 DEF IInv
<1>4. CASE FreeFds # {} /\ client_fd' = Min(FreeFds) /\ pc' = "add" /\ UNCHANGED events
           /\ conn' = [conn EXCEPT ![Min(FreeFds)] = Head(backlog)] /\ backlog' = Tail(backlog)
  <2> DEFINE f == Min(FreeFds)
             c == Head(backlog)
  <2>1. /\ f \in Fds /\ conn[f] = NoConn /\ f # Listener
        /\ c \in Clients /\ Has(backlog, c) /\ c # NoConn
        /\ backlog' \in Seq(Clients) /\ NoDup(backlog')
        /\ \A x : Has(backlog', x) <=> Has(backlog, x) /\ x # c
    BY <1>2, <1>4, LowestFree, TailFacts, TailHas
  <2>2. /\ client_fd' = f /\ pc' = "add" /\ UNCHANGED events
        /\ conn' \in [Fds -> Clients \cup {NoConn}]
        /\ \A g \in Fds : conn'[g] = IF g = f THEN c ELSE conn[g]
        /\ f \notin reg
    BY <1>4, <2>1
  <2> HIDE DEF f, c
  <2>3. TypeOK'
    BY <1>1, <2>1, <2>2 DEF IInv, TypeOK, cvars
  <2>4. ReadyInv'
    BY <1>1 DEF IInv, ReadyInv
  <2>5. RegInv'
    BY <1>1, <2>1, <2>2 DEF IInv, RegInv
  <2>6. BatchInv'
    BY <1>1, <2>2 DEF IInv, BatchInv, Told
  <2>7. OnceInv'
    <3>1. \A g, h \in Fds : conn'[g] = conn'[h] /\ conn'[g] # NoConn => g = h
      BY <2>1, <2>2 DEF IInv, OnceInv
    <3>2. \A g \in Fds : ~Has(backlog', conn'[g])
      BY <2>1, <2>2 DEF IInv, OnceInv
    <3>3. \A d \in Clients : d # c => (Connected(d)' <=> Connected(d))
      BY <2>1, <2>2 DEF Connected
    <3>4. client[c] # "new"
      BY <2>1 DEF IInv, OnceInv, Pending
    <3>5. \A d \in Clients : client[d] = "new" => ~Pending(d)' /\ ~Connected(d)'
      BY <2>1, <3>3, <3>4 DEF IInv, OnceInv, Pending
    <3> QED BY <1>1, <2>1, <3>1, <3>2, <3>5 DEF IInv, OnceInv, cvars
  <2>8. NoLostEdge'
    <3>1. ASSUME NEW g \in reg, Readable(g)' PROVE Readable(g)
      BY <1>1, <2>1, <2>2, <3>1 DEF Readable, HasInput, cvars
    <3> QED BY <1>1, <1>2, <2>2, <3>1 DEF IInv, NoLostEdge
  <2>9. EventsNotStale'
    <3>1. \A i \in DOMAIN events : events[i].fd # Listener => events[i].fd \in reg
      BY DEF IInv, BatchInv
    <3> QED BY <2>2, <3>1 DEF IInv, EventsNotStale
  <2> QED BY <2>3, <2>4, <2>5, <2>6, <2>7, <2>8, <2>9 DEF IInv
<1> QED BY <1>3, <1>4 DEF Accept

(* A descriptor is closed at the end of its event, or of the one that brought *)
(* it: no other event of the batch is for it.                                 *)
LEMMA CloseKeeps ==
    ASSUME IInv, NEW f \in Fds, Close(f), EventDone, events # <<>>,
           \/ pc = "add" /\ f = client_fd
           \/ pc = "recv" /\ f = Head(events).fd,
           UNCHANGED <<cvars, backlog, client_fd>>, len' \in Nat
    PROVE  IInv'
<1> USE Known
<1>1. /\ ready' \in Seq(Fds \cup {Listener}) /\ NoDup(ready')
      /\ \A g : Has(ready', g) <=> Has(ready, g) /\ g # f
      /\ reg' = reg \ {f} /\ conn' \in [Fds -> Clients \cup {NoConn}]
      /\ \A g \in Fds : conn'[g] = IF g = f THEN NoConn ELSE conn[g]
  BY CloseLeaves
<1>2. pc' = "dispatch" /\ events' = Tail(events)
  BY DEF EventDone
<1>3. /\ events' \in Seq(Event)
      /\ \A i, j \in DOMAIN events' : events'[i].fd = events'[j].fd => i = j
      /\ \A i \in DOMAIN events' : \E j \in DOMAIN events :
            events'[i] = events[j] /\ events[j].fd # Head(events).fd
      /\ \A g : Told(g)' <=> Told(g) /\ g # Head(events).fd
  BY <1>2, EventLeaves
<1>4. \A j \in DOMAIN events : events[j].fd # Head(events).fd => events[j].fd # f
  BY DEF IInv, RegInv, BatchInv
<1>5. TypeOK'
  BY <1>1, <1>2, <1>3 DEF IInv, TypeOK, cvars, Event
<1>6. ReadyInv' /\ RegInv'
  BY <1>1, <1>2 DEF IInv, ReadyInv, RegInv
<1>7. BatchInv'
  <2>1. Told(Listener)' => Told(Listener) /\ pc # "add"
    BY <1>3 DEF IInv, BatchInv
  <2>2. Told(Listener)' => Has(ready', Listener) /\ backlog # <<>>
    BY <1>1, <2>1 DEF IInv, BatchInv
  <2>3. \A i \in DOMAIN events' : events'[i].fd # Listener => events'[i].fd \in reg'
    BY <1>1, <1>3, <1>4 DEF IInv, BatchInv
  <2> QED BY <1>2, <1>3, <2>2, <2>3 DEF BatchInv
<1>8. OnceInv'
  <2>1. \A c \in Clients : Connected(c)' => Connected(c)
    BY <1>1 DEF Connected
  <2>2. ~Has(backlog, NoConn)
    BY SMT DEF Has
  <2> QED BY <1>1, <2>1, <2>2 DEF IInv, OnceInv, Pending, cvars
<1>9. NoLostEdge'
  <2>1. ASSUME NEW g \in reg' \cup {Listener}, Readable(g)' PROVE Has(ready', g) \/ Told(g)'
    <3>1. g \in reg \cup {Listener} /\ g # f /\ Readable(g)
      BY <1>1, <2>1 DEF Readable, HasInput, cvars
    <3>2. Has(ready, g) \/ Told(g)
      BY <3>1 DEF IInv, NoLostEdge, Told
    <3>3. CASE g # Head(events).fd
      BY <1>1, <1>3, <3>1, <3>2, <3>3
    <3>4. CASE g = Head(events).fd
      <4>1. g = Listener /\ Told(Listener)
        BY <3>1, <3>4, TailFacts DEF IInv, BatchInv, Told
      <4> QED BY <1>1, <3>1, <4>1 DEF IInv, BatchInv
    <3> QED BY <3>3, <3>4
  <2> QED BY <2>1 DEF NoLostEdge, Told
<1>10. EventsNotStale'
  <2>1. \A j \in DOMAIN events : events[j].fd # Listener => events[j].fd \in Fds
    BY DEF IInv, BatchInv
  <2> QED BY <1>1, <1>3, <1>4, <2>1 DEF IInv, EventsNotStale
<1> QED BY <1>5, <1>6, <1>7, <1>8, <1>9, <1>10 DEF IInv

(* Registration announces what has arrived before it.                         *)
LEMMA EpollAddKeeps == ASSUME IInv, EpollAdd PROVE IInv'
<1> USE Known
<1> DEFINE f == client_fd
<1>1. /\ pc = "add" /\ f \in Fds /\ f \notin reg /\ conn[f] # NoConn /\ f # Listener
      /\ events # <<>> /\ Head(events).fd = Listener /\ EventDone
      /\ UNCHANGED <<cvars, len, backlog, client_fd>>
  BY DEF EpollAdd, IInv, TypeOK, RegInv, BatchInv
<1>2. CASE Close(f)
  <2>1. len' \in Nat
    BY <1>1 DEF IInv, TypeOK
  <2> QED BY <1>1, <1>2, <2>1, CloseKeeps
<1>3. CASE /\ reg' = reg \cup {f} /\ UNCHANGED conn
           /\ ready' = IF Readable(f) THEN Append(ready, f) ELSE ready
  <2>1. pc' = "dispatch" /\ events' = Tail(events)
    BY <1>1 DEF EventDone
  <2>2. /\ ready' \in Seq(Fds \cup {Listener}) /\ NoDup(ready')
        /\ \A g : Has(ready', g) <=> Has(ready, g) \/ (g = f /\ Readable(f))
    <3>1. f \in Fds \cup {Listener} /\ ~Has(ready, f)
      BY <1>1
    <3>2. CASE Readable(f)
      BY <1>3, <3>1, <3>2, AppendHas
    <3>3. CASE ~Readable(f)
      BY <1>3, <3>3
    <3> QED BY <3>2, <3>3
  <2>3. TypeOK'
    BY <1>1, <1>3, <2>1, <2>2, EventLeaves DEF IInv, TypeOK, cvars, Event
  <2>4. ReadyInv' /\ RegInv'
    BY <1>1, <1>3, <2>1, <2>2 DEF IInv, ReadyInv, RegInv
  <2>5. BatchInv'
    BY <1>1, <1>3, <2>1, <2>2, EventLeaves DEF IInv, BatchInv
  <2>6. OnceInv'
    BY <1>1, <1>3 DEF IInv, OnceInv, cvars, Pending, Connected
  <2>7. NoLostEdge'
    <3>1. \A g : Readable(g)' <=> Readable(g)
      BY <1>1, <1>3 DEF Readable, HasInput, cvars
    <3>2. Told(Listener)
      BY <1>1, TailFacts DEF Told
    <3>3. ASSUME NEW g \in reg' \cup {Listener}, Readable(g) PROVE Has(ready', g) \/ Told(g)'
      <4>1. CASE g = f
        BY <2>2, <3>3, <4>1
      <4>2. CASE g = Listener
        BY <2>2, <3>2, <4>2 DEF IInv, BatchInv
      <4>3. CASE g \in reg
        <5>1. Has(ready, g) \/ Told(g)
          BY <3>3, <4>3 DEF IInv, NoLostEdge, Told
        <5>2. Told(g) => Told(g)' \/ g = Listener
          BY <1>1, <2>1, EventLeaves
        <5> QED BY <2>2, <4>2, <5>1, <5>2
      <4> QED BY <1>3, <3>3, <4>1, <4>2, <4>3
    <3> QED BY <3>1, <3>3 DEF NoLostEdge, Told
  <2>8. EventsNotStale'
    BY <1>1, <1>3, <2>1, EventLeaves DEF IInv, EventsNotStale
  <2> QED BY <2>3, <2>4, <2>5, <2>6, <2>7, <2>8 DEF IInv
<1> QED BY <1>2, <1>3 DEF EpollAdd

(* recv: more to come, the end, or EAGAIN.                                    *)
LEMMA RecvKeeps == ASSUME IInv, Recv PROVE IInv'
<1> USE Known
<1> DEFINE f == Head(events).fd
           c == conn[f]
<1>1. /\ pc = "recv" /\ events # <<>> /\ f # Listener /\ f \in reg /\ f \in Fds /\ c \in Clients
      /\ Told(f)
  <2>1. events # <<>> /\ f # Listener
    BY DEF Recv, IInv, BatchInv
  <2>2. Told(f) /\ f \in reg
    BY <2>1, TailFacts DEF Told, IInv, BatchInv
  <2> QED BY <2>1, <2>2 DEF Recv
<1>2. CASE /\ \E k \in 1 .. inbox[c] : len' = k /\ inbox' = [inbox EXCEPT ![c] = @ - k]
           /\ pc' = "send"
           /\ UNCHANGED <<kvars, client, sent, outbox, received, greedy, client_fd, events>>
  <2> USE DEF kvars
  <2>1. PICK k \in 1 .. inbox[c] : len' = k /\ inbox' = [inbox EXCEPT ![c] = @ - k]
    BY <1>2
  <2>2. /\ inbox \in [Clients -> Nat] /\ sent \in [Clients -> Nat] /\ inbox[c] \in Nat /\ k \in Nat
        /\ \A d \in Clients : inbox[d] <= sent[d]
    BY <1>1, <2>1, SMT DEF IInv, TypeOK
  <2>3. /\ inbox' \in [Clients -> Nat] /\ \A d \in Clients : inbox'[d] <= inbox[d]
        /\ len' \in Nat /\ \A d \in Clients : inbox'[d] <= sent[d]
    BY <1>1, <2>1, <2>2, SMT
  <2>4. TypeOK'
    BY <1>2, <2>3 DEF IInv, TypeOK
  <2>5. ReadyInv' /\ RegInv'
    BY <1>1, <1>2 DEF IInv, ReadyInv, RegInv
  <2>6. BatchInv'
    BY <1>1, <1>2 DEF IInv, BatchInv, Told
  <2>7. OnceInv'
    <3>1. client[c] # "new"
      BY <1>1 DEF IInv, OnceInv, Connected
    <3>2. \A d \in Clients : d # c => inbox'[d] = inbox[d]
      BY <2>1, <2>2
    <3> QED BY <1>2, <3>1, <3>2 DEF IInv, OnceInv, Pending, Connected
  <2>8. NoLostEdge'
    <3>1. \A d \in Clients : HasInput(d)' => HasInput(d)
      BY <1>2, <2>2, <2>3, SMT DEF HasInput
    <3>2. ASSUME NEW g \in reg \cup {Listener}, Readable(g)' PROVE Readable(g)
      BY <1>2, <3>1, <3>2 DEF Readable
    <3> QED BY <1>2, <3>2 DEF IInv, NoLostEdge
  <2>9. EventsNotStale'
    BY <1>2 DEF IInv, EventsNotStale
  <2> QED BY <2>4, <2>5, <2>6, <2>7, <2>8, <2>9 DEF IInv
<1>3. CASE CloseConnection
  <2>1. Close(f) /\ EventDone /\ UNCHANGED <<cvars, len, backlog, client_fd>> /\ len \in Nat
    BY <1>3 DEF CloseConnection, IInv, TypeOK
  <2> HIDE DEF f
  <2> QED BY <1>1, <2>1, CloseKeeps DEF f
<1>4. CASE ~HasInput(c) /\ EventDone /\ UNCHANGED <<kvars, cvars, len, client_fd>>
  <2>1. pc' = "dispatch" /\ events' = Tail(events)
    BY <1>4 DEF EventDone
  <2> USE DEF kvars
  <2>2. TypeOK'
    BY <1>1, <1>4, <2>1, EventLeaves DEF IInv, TypeOK, cvars, Event
  <2>3. ReadyInv' /\ RegInv'
    BY <1>1, <1>4, <2>1 DEF IInv, ReadyInv, RegInv
  <2>4. BatchInv'
    BY <1>1, <1>4, <2>1, EventLeaves DEF IInv, BatchInv
  <2>5. OnceInv'
    BY <1>4 DEF IInv, OnceInv, cvars, Pending, Connected
  <2>6. NoLostEdge'
    <3>1. \A g : Readable(g)' <=> Readable(g)
      BY <1>4 DEF Readable, HasInput, cvars
    <3>2. ~Readable(f)
      BY <1>1, <1>4 DEF Readable
    <3> QED BY <1>1, <1>4, <2>1, <3>1, <3>2, EventLeaves DEF IInv, NoLostEdge, Told
  <2>7. EventsNotStale'
    BY <1>1, <1>4, <2>1, EventLeaves DEF IInv, EventsNotStale
  <2> QED BY <2>2, <2>3, <2>4, <2>5, <2>6, <2>7 DEF IInv
<1> QED BY <1>2, <1>3, <1>4 DEF Recv

(* The smaller of two numbers.                                                *)
LEMMA MinOfTwo ==
    ASSUME NEW m \in Nat, NEW n \in Nat
    PROVE  /\ Min({m, n}) \in Nat /\ Min({m, n}) <= n
           /\ m <= n => Min({m, n}) = m
<1>1. CASE m <= n
  <2>1. \A x \in {m, n} : m <= x
    BY <1>1
  <2>2. \A z \in {m, n} : (\A x \in {m, n} : z <= x) => z = m
    BY <1>1, SMT
  <2> QED BY <1>1, <2>1, <2>2 DEF Min
<1>2. CASE ~(m <= n)
  <2>1. \A x \in {m, n} : n <= x
    BY <1>2, SMT
  <2>2. \A z \in {m, n} : (\A x \in {m, n} : z <= x) => z = n
    BY <1>2, SMT
  <2>3. Min({m, n}) = n
    BY <2>1, <2>2 DEF Min
  <2> QED BY <1>2, <2>3, SMT
<1> QED BY <1>1, <1>2

(* send changes nothing but the echoes.                                       *)
LEMMA SendKeeps == ASSUME IInv, Send PROVE IInv'
<1> USE Known
<1> DEFINE f == Head(events).fd
           c == conn[f]
<1>1. /\ pc = "send" /\ pc' \in {"recv", "dead"} /\ len' = 0
      /\ UNCHANGED <<kvars, client, sent, inbox, received, greedy, client_fd, events>>
      /\ UNCHANGED outbox \/ Echo(f)
  BY DEF Send
<1>2. events # <<>> /\ f # Listener /\ f \in reg /\ f \in Fds /\ c \in Clients
  <2>1. events # <<>> /\ f # Listener
    BY <1>1 DEF IInv, BatchInv
  <2> QED BY <2>1, TailFacts DEF IInv, BatchInv
<1>3. /\ outbox' \in [Clients -> 0 .. Window]
      /\ \A d \in Clients : d # c => outbox'[d] = outbox[d]
  <2>1. outbox \in [Clients -> 0 .. Window] /\ len \in Nat /\ Window \in Nat
    BY SizeAssumption DEF IInv, TypeOK
  <2>2. CASE UNCHANGED outbox
    BY <2>1, <2>2
  <2>3. CASE Echo(f)
    <3>1. outbox[c] + len \in Nat
      <4>1. outbox[c] \in 0 .. Window
        BY <1>2, <2>1
      <4> QED BY <2>1, <4>1, SMT
    <3>2. Min({outbox[c] + len, Window}) \in 0 .. Window
      <4> DEFINE m == outbox[c] + len
      <4>1. m \in Nat
        BY <3>1
      <4> HIDE DEF m
      <4>2. Min({m, Window}) \in Nat /\ Min({m, Window}) <= Window
        BY <2>1, <4>1, MinOfTwo
      <4>3. Min({m, Window}) \in 0 .. Window
        BY <2>1, <4>2, SMT
      <4> QED BY <4>3 DEF m
    <3>3. outbox' = [outbox EXCEPT ![c] = Min({@ + len, Window})]
      BY <2>3 DEF Echo
    <3> QED BY <1>2, <2>1, <3>2, <3>3
  <2> QED BY <1>1, <2>2, <2>3
<1> USE DEF kvars
<1>4. TypeOK'
  BY <1>1, <1>3, SMT DEF IInv, TypeOK
<1>5. ReadyInv' /\ RegInv'
  BY <1>1 DEF IInv, ReadyInv, RegInv
<1>6. BatchInv'
  BY <1>1 DEF IInv, BatchInv, Told
<1>7. OnceInv'
  <2>1. client[c] # "new"
    BY <1>2 DEF IInv, OnceInv, Connected
  <2> QED BY <1>1, <1>3, <2>1 DEF IInv, OnceInv, Pending, Connected
<1>8. NoLostEdge'
  BY <1>1 DEF IInv, NoLostEdge, Readable, HasInput
<1>9. EventsNotStale'
  BY <1>1 DEF IInv, EventsNotStale
<1> QED BY <1>4, <1>5, <1>6, <1>7, <1>8, <1>9 DEF IInv

-----------------------------------------------------------------------------
(* The clients.                                                               *)

(* A new client: the listener is on the list.                                 *)
LEMMA ConnectKeeps == ASSUME IInv, NEW c \in Clients, Connect(c) PROVE IInv'
<1> USE Known
<1>1. /\ client[c] = "new" /\ client' = [client EXCEPT ![c] = "connected"]
      /\ backlog' = Append(backlog, c) /\ ready' = Enqueue(ready, Listener)
      /\ UNCHANGED <<sent, inbox, outbox, received, greedy, reg, conn, svars>>
  BY DEF Connect
<1>2. ~Has(backlog, c) /\ ~Connected(c)
  BY <1>1 DEF IInv, OnceInv, Pending
<1>3. /\ backlog' \in Seq(Clients) /\ NoDup(backlog') /\ backlog' # <<>>
      /\ \A x : Has(backlog', x) <=> Has(backlog, x) \/ x = c
  BY <1>1, <1>2, AppendHas
<1>4. /\ ready' \in Seq(Fds \cup {Listener}) /\ NoDup(ready')
      /\ \A g : Has(ready', g) <=> Has(ready, g) \/ g = Listener
  <2> DEFINE S == Fds \cup {Listener}
  <2>1. Listener \in S /\ ready \in Seq(S)
    OBVIOUS
  <2>2. ready' = Enqueue(ready, Listener)
    BY <1>1
  <2> HIDE DEF S
  <2>3. /\ ready' \in Seq(S) /\ NoDup(ready')
        /\ \A g : Has(ready', g) <=> Has(ready, g) \/ g = Listener
    BY <2>1, <2>2, EnqueueHas
  <2> QED BY <2>3 DEF S
<1>5. TypeOK'
  BY <1>1, <1>3, <1>4 DEF IInv, TypeOK, svars
<1>6. ReadyInv' /\ RegInv'
  BY <1>1, <1>4 DEF IInv, ReadyInv, RegInv, svars
<1>7. BatchInv'
  BY <1>1, <1>3, <1>4 DEF IInv, BatchInv, Told, svars
<1>8. OnceInv'
  BY <1>1, <1>2, <1>3 DEF IInv, OnceInv, Pending, Connected
<1>9. NoLostEdge'
  <2>1. ASSUME NEW f \in reg, Readable(f)' PROVE Readable(f)
    <3>1. conn[f] # c
      BY <1>2 DEF Connected
    <3> QED BY <1>1, <2>1, <3>1 DEF Readable, HasInput
  <2> QED BY <1>1, <1>4, <2>1 DEF IInv, NoLostEdge, svars
<1>10. EventsNotStale'
  BY <1>1 DEF IInv, EventsNotStale, svars
<1> QED BY <1>5, <1>6, <1>7, <1>8, <1>9, <1>10 DEF IInv

(* A message or the end of a client: an edge.                                 *)
LEMMA ArrivalKeeps == ASSUME IInv, NEW c \in Clients, SendMessage(c) \/ Leave(c) PROVE IInv'
<1> USE Known
<1>1. /\ client[c] = "connected" /\ Edge(c)
      /\ UNCHANGED <<outbox, received, reg, conn, backlog, svars>>
      /\ \A d \in Clients \ {c} : client'[d] = client[d] /\ inbox'[d] = inbox[d] /\ sent'[d] = sent[d]
      /\ client'[c] # "new"
  BY SMT DEF SendMessage, Leave, IInv, TypeOK
<1>2. /\ ready' \in Seq(Fds \cup {Listener}) /\ NoDup(ready')
      /\ \A f : Has(ready, f) => Has(ready', f)
      /\ \A f : Has(ready', f) => f \in reg \cup {Listener}
      /\ \A f \in reg : conn[f] = c => Has(ready', f)
  BY <1>1, EdgeTells
<1>3. TypeOK'
  <2>1. CASE SendMessage(c)
    <3>1. /\ UNCHANGED client /\ sent[c] < MaxMessage[c]
          /\ sent' = [sent EXCEPT ![c] = @ + 1] /\ inbox' = [inbox EXCEPT ![c] = @ + 1]
          /\ greedy' \in {greedy, greedy \cup {c}}
      BY <2>1 DEF SendMessage
    <3>2. /\ sent' \in [Clients -> Nat] /\ inbox' \in [Clients -> Nat]
          /\ \A d \in Clients : inbox'[d] <= sent'[d] /\ sent'[d] <= MaxMessage[d]
      <4>1. /\ sent \in [Clients -> Nat] /\ inbox \in [Clients -> Nat] /\ MaxMessage \in [Clients -> Nat]
            /\ \A d \in Clients : inbox[d] <= sent[d] /\ sent[d] <= MaxMessage[d]
        BY BoundAssumption DEF IInv, TypeOK
      <4>2. sent' \in [Clients -> Nat] /\ inbox' \in [Clients -> Nat]
        BY <3>1, <4>1, SMT
      <4>3. \A d \in Clients : inbox'[d] <= sent'[d] /\ sent'[d] <= MaxMessage[d]
        BY <3>1, <4>1, SMT
      <4> QED BY <4>2, <4>3
    <3> QED BY <1>1, <1>2, <3>1, <3>2 DEF IInv, TypeOK, svars
  <2>2. CASE Leave(c)
    BY <1>1, <1>2, <2>2 DEF Leave, IInv, TypeOK, svars
  <2> QED BY <2>1, <2>2
<1>4. ReadyInv' /\ RegInv'
  BY <1>1, <1>2 DEF IInv, ReadyInv, RegInv, svars
<1>5. BatchInv'
  BY <1>1, <1>2 DEF IInv, BatchInv, Told, svars
<1>6. OnceInv'
  <2>1. ASSUME NEW d \in Clients, client'[d] = "new"
        PROVE  client[d] = "new" /\ inbox'[d] = inbox[d] /\ sent'[d] = sent[d]
    BY <1>1, <2>1
  <2>2. \A d \in Clients : (Pending(d)' <=> Pending(d)) /\ (Connected(d)' <=> Connected(d))
    BY <1>1 DEF Pending, Connected
  <2> QED BY <1>1, <2>1, <2>2 DEF IInv, OnceInv
<1>7. NoLostEdge'
  <2>1. ASSUME NEW f \in reg, Readable(f)', conn[f] # c PROVE Readable(f)
    BY <1>1, <2>1 DEF Readable, HasInput
  <2>2. Readable(Listener)' <=> Readable(Listener)
    BY <1>1 DEF Readable
  <2> QED BY <1>1, <1>2, <2>1, <2>2 DEF IInv, NoLostEdge, svars
<1>8. EventsNotStale'
  BY <1>1 DEF IInv, EventsNotStale, svars
<1> QED BY <1>3, <1>4, <1>5, <1>6, <1>7, <1>8 DEF IInv

(* Reading echoes is no business of the server's.                             *)
LEMMA ReadKeeps == ASSUME IInv, NEW c \in Clients, ReadEchoes(c) PROVE IInv'
<1> USE Known
<1>1. /\ client[c] = "connected"
      /\ outbox' = [outbox EXCEPT ![c] = 0] /\ received' = [received EXCEPT ![c] = @ + outbox[c]]
      /\ UNCHANGED <<client, sent, inbox, greedy, kvars, svars>>
  BY DEF ReadEchoes
<1> USE DEF kvars, svars
<1>2. /\ outbox' \in [Clients -> 0 .. Window] /\ received' \in [Clients -> Nat]
      /\ \A d \in Clients : d # c => outbox'[d] = outbox[d] /\ received'[d] = received[d]
  <2>1. /\ outbox \in [Clients -> 0 .. Window] /\ received \in [Clients -> Nat]
        /\ 0 \in 0 .. Window
    BY SizeAssumption DEF IInv, TypeOK
  <2>2. received[c] + outbox[c] \in Nat
    BY <2>1
  <2> QED BY <1>1, <2>1, <2>2
<1>3. TypeOK'          BY <1>1, <1>2 DEF IInv, TypeOK
<1>4. ReadyInv'        BY <1>1 DEF IInv, ReadyInv
<1>5. RegInv'          BY <1>1 DEF IInv, RegInv
<1>6. BatchInv'        BY <1>1 DEF IInv, BatchInv, Told
<1>7. OnceInv'         BY <1>1, <1>2 DEF IInv, OnceInv, Pending, Connected
<1>8. NoLostEdge'      BY <1>1 DEF IInv, NoLostEdge, Readable, HasInput
<1>9. EventsNotStale'  BY <1>1 DEF IInv, EventsNotStale
<1> QED BY <1>3, <1>4, <1>5, <1>6, <1>7, <1>8, <1>9 DEF IInv

(* Every step keeps the invariant.                                            *)
LEMMA NextIInv == IInv /\ [Next]_vars => IInv'
<1> SUFFICES ASSUME IInv, [Next]_vars PROVE IInv'
    OBVIOUS
<1>1. CASE Server
  BY <1>1, EpollWaitKeeps, DispatchKeeps, AcceptKeeps, EpollAddKeeps, RecvKeeps, SendKeeps DEF Server
<1>2. CASE WaitInterrupted
  BY <1>2, DispatchKeeps
<1>3. ASSUME NEW c \in Clients, Connect(c) \/ SendMessage(c) \/ ReadEchoes(c) \/ Leave(c)
      PROVE  IInv'
  BY <1>3, ConnectKeeps, ArrivalKeeps, ReadKeeps
<1>4. CASE UNCHANGED vars
  <2> USE <1>4 DEF vars, kvars, cvars, svars
  <2>1. TypeOK' /\ ReadyInv' /\ RegInv'
    BY DEF IInv, TypeOK, ReadyInv, RegInv
  <2>2. BatchInv' /\ OnceInv'
    BY DEF IInv, BatchInv, OnceInv, Told, Pending, Connected
  <2>3. NoLostEdge' /\ EventsNotStale'
    BY DEF IInv, NoLostEdge, EventsNotStale, Readable, HasInput
  <2> QED BY <2>1, <2>2, <2>3 DEF IInv
<1> QED BY <1>1, <1>2, <1>3, <1>4 DEF Next

(* Types, edges and batches together.                                         *)
LEMMA Kept == Spec => [](TypeOK /\ NoLostEdge /\ EventsNotStale)
<1>1. IInv => TypeOK /\ NoLostEdge /\ EventsNotStale
  BY DEF IInv
<1> QED BY <1>1, InitIInv, NextIInv, PTL DEF Spec

(* Every variable keeps its type: recv, send and close only get descriptors   *)
(* of the table, no client's buffer holds more than its window.               *)
THEOREM Typed == Spec => []TypeOK
BY Kept, PTL

(* No edge is lost although epoll reports each once: a registered descriptor  *)
(* with something to read is in the ready list or in the batch at hand.       *)
THEOREM Edges == Spec => []NoLostEdge
BY Kept, PTL

(* No event of a batch is handled for another connection than it was reported *)
(* for, although descriptors are closed and reused while the batch is run.    *)
THEOREM NotStale == Spec => []EventsNotStale
BY Kept, PTL

-----------------------------------------------------------------------------
(* The echoes.                                                                *)
EchoInv == EchoesKept /\ WindowInv

Here(c) == Pending(c) \/ Connected(c)

(* Steps that move no message and end with an empty buffer.                   *)
LEMMA QuietEcho ==
    ASSUME EchoInv, UNCHANGED <<sent, inbox, outbox, received, greedy, len>>, len = 0,
           pc' # "dead" => pc # "dead",
           \A c \in Clients : Here(c)' => Here(c)
    PROVE  EchoInv'
BY DEF EchoInv, EchoesKept, WindowInv, InBuf, Here

(* Where the buffer belongs to somebody, it is to the client being served.    *)
LEMMA Served ==
    ASSUME IInv, pc \in {"recv", "send"}
    PROVE  /\ events # <<>> /\ Head(events).fd \in Fds /\ conn[Head(events).fd] \in Clients
           /\ Connected(conn[Head(events).fd])
<1>1. events # <<>> /\ Head(events).fd # Listener
  BY DEF IInv, BatchInv
<1>2. Head(events).fd \in reg
  BY <1>1, Known, TailFacts DEF IInv, BatchInv
<1> QED BY <1>1, <1>2, Known DEF Connected

(* The counts are numbers.                                                    *)
LEMMA Counts ==
    ASSUME IInv
    PROVE  /\ sent \in [Clients -> Nat] /\ inbox \in [Clients -> Nat]
           /\ outbox \in [Clients -> Nat] /\ received \in [Clients -> Nat]
           /\ \A c \in Clients : outbox[c] <= Window
           /\ len \in Nat /\ Window \in Nat
<1>1. outbox \in [Clients -> 0 .. Window] /\ Window \in Nat
  BY SizeAssumption DEF IInv, TypeOK
<1>2. outbox \in [Clients -> Nat] /\ \A c \in Clients : outbox[c] <= Window
  BY <1>1, SMT
<1> QED BY <1>1, <1>2 DEF IInv, TypeOK

(* The server moves messages from one column of the account to the next; what *)
(* does not fit is a greedy client's.                                         *)
LEMMA ServerEcho == ASSUME IInv, EchoInv, Server \/ WaitInterrupted PROVE EchoInv'
<1> USE Counts
<1>1. CASE EpollWait \/ Dispatch \/ WaitInterrupted
  <2>1. /\ UNCHANGED <<cvars, len, conn, backlog>> /\ pc \in {"wait", "dispatch"}
    BY <1>1 DEF EpollWait, Dispatch, WaitInterrupted, kvars
  <2>2. len = 0 /\ pc # "dead"
    BY <2>1 DEF EchoInv, WindowInv
  <2> QED BY <2>1, <2>2, QuietEcho DEF Here, Pending, Connected, cvars
<1>2. CASE Accept
  <2>1. UNCHANGED <<cvars, len>> /\ pc = "accept"
    BY <1>2 DEF Accept
  <2>2. len = 0 /\ pc # "dead"
    BY <2>1 DEF EchoInv, WindowInv
  <2>3. ASSUME NEW c \in Clients, Here(c)' PROVE Here(c)
    <3>1. CASE UNCHANGED <<conn, backlog>>
      BY <2>3, <3>1 DEF Here, Pending, Connected
    <3>2. CASE FreeFds # {} /\ conn' = [conn EXCEPT ![Min(FreeFds)] = Head(backlog)]
               /\ backlog' = Tail(backlog)
      <4>1. backlog # <<>>
        <5>1. events # <<>> /\ Head(events).fd = Listener
          BY <2>1 DEF IInv, BatchInv
        <5>2. Told(Listener)
          BY <5>1, Known, TailFacts DEF Told
        <5> QED BY <2>1, <5>2 DEF IInv, BatchInv
      <4>2. Has(backlog, Head(backlog)) /\ \A x : Has(backlog', x) => Has(backlog, x)
        BY <3>2, <4>1, Known, TailHas
      <4>3. \A f \in Fds : conn'[f] = conn[f] \/ conn'[f] = Head(backlog)
        BY <3>2, Known
      <4> QED BY <2>3, <4>2, <4>3 DEF Here, Pending, Connected
    <3> QED BY <1>2, <3>1, <3>2 DEF Accept
  <2> QED BY <2>1, <2>2, <2>3, QuietEcho DEF cvars
<1>3. ASSUME NEW f \in Fds, Close(f), UNCHANGED <<cvars, len, backlog>>, pc \in {"add", "recv"}
      PROVE  EchoInv'
  <2>1. len = 0 /\ pc # "dead"
    BY <1>3 DEF EchoInv, WindowInv
  <2>2. \A g \in Fds : conn'[g] = conn[g] \/ conn'[g] = NoConn
    BY <1>3, CloseLeaves
  <2>3. \A c \in Clients : Here(c)' => Here(c)
    BY <1>3, <2>2, NameAssumption DEF Here, Pending, Connected
  <2> QED BY <1>3, <2>1, <2>3, QuietEcho DEF cvars
<1>4. CASE EpollAdd
  <2>1. UNCHANGED <<cvars, len, backlog>> /\ pc = "add" /\ client_fd \in Fds
    BY <1>4 DEF EpollAdd, IInv, TypeOK
  <2>2. len = 0
    BY <2>1 DEF EchoInv, WindowInv
  <2>3. CASE UNCHANGED conn
    BY <2>1, <2>2, <2>3, QuietEcho DEF Here, Pending, Connected, cvars
  <2>4. CASE Close(client_fd)
    BY <1>3, <2>1, <2>4
  <2> QED BY <1>4, <2>3, <2>4 DEF EpollAdd
<1>5. CASE Recv
  <2> DEFINE h == Head(events).fd
             c == conn[h]
  <2>1. /\ pc = "recv" /\ len = 0 /\ h \in Fds /\ c \in Clients
    BY <1>5, Served DEF Recv, EchoInv, WindowInv
  <2>2. CASE /\ \E k \in 1 .. inbox[c] : len' = k /\ inbox' = [inbox EXCEPT ![c] = @ - k]
             /\ pc' = "send"
             /\ UNCHANGED <<kvars, client, sent, outbox, received, greedy, client_fd, events>>
    <3>1. PICK k \in 1 .. inbox[c] : len' = k /\ inbox' = [inbox EXCEPT ![c] = @ - k]
      BY <2>2
    <3>2. /\ inbox[c] \in Nat /\ k \in Nat /\ k # 0 /\ inbox'[c] = inbox[c] - k
          /\ \A d \in Clients : d # c => inbox'[d] = inbox[d]
      BY <2>1, <3>1, SMT
    <3>3. \A d \in Clients : InBuf(d) = 0 /\ InBuf(d)' = IF d = c THEN k ELSE 0
      BY <2>1, <2>2, <3>1, <3>2 DEF InBuf, kvars
    <3>4. WindowInv'
      BY <2>2 DEF EchoInv, WindowInv
    <3>5. ASSUME NEW d \in Clients, d \notin greedy, Here(d)
          PROVE  sent[d] = inbox'[d] + InBuf(d)' + outbox[d] + received[d]
      <4>1. sent[d] = inbox[d] + 0 + outbox[d] + received[d]
        BY <2>1, <3>3, <3>5 DEF EchoInv, EchoesKept, Here
      <4>2. CASE d = c
        BY <3>2, <3>3, <4>1, <4>2, SMT
      <4>3. CASE d # c
        BY <3>2, <3>3, <4>1, <4>3
      <4> QED BY <4>2, <4>3
    <3> QED BY <2>2, <3>4, <3>5 DEF EchoInv, EchoesKept, Here, Pending, Connected, kvars
  <2>3. CASE CloseConnection
    <3>1. PICK g \in Fds : g = h
      BY <2>1
    <3>2. Close(g) /\ UNCHANGED <<cvars, len, backlog>>
      BY <2>3, <3>1 DEF CloseConnection
    <3> QED BY <1>3, <2>1, <3>2
  <2>4. CASE EventDone /\ UNCHANGED <<kvars, cvars, len, client_fd>>
    BY <2>1, <2>4, QuietEcho DEF EventDone, Here, Pending, Connected, cvars, kvars
  <2> QED BY <1>5, <2>2, <2>3, <2>4 DEF Recv
<1>6. CASE Send
  <2> DEFINE h == Head(events).fd
             c == conn[h]
  <2>1. /\ pc = "send" /\ h \in Fds /\ c \in Clients /\ Connected(c) /\ len' = 0
        /\ UNCHANGED <<kvars, client, sent, inbox, received, greedy, client_fd, events>>
        /\ \/ pc' = "recv" /\ Echo(h)
           \/ pc' = "dead"
    BY <1>6, Served DEF Send
  <2>2. WindowInv'
    BY <2>1 DEF EchoInv, WindowInv
  <2>3. CASE pc' = "dead"
    BY <2>2, <2>3 DEF EchoInv, EchoesKept
  <2>4. CASE Echo(h)
    <3>1. \A d \in Clients : InBuf(d)' = 0 /\ InBuf(d) = IF d = c THEN len ELSE 0
      BY <2>1, <2>4 DEF InBuf, kvars
    <3>2. /\ outbox'[c] = Min({outbox[c] + len, Window})
          /\ \A d \in Clients : d # c => outbox'[d] = outbox[d]
      BY <2>1, <2>4 DEF Echo
    <3>3. ASSUME NEW d \in Clients, d \notin greedy, Here(d)
          PROVE  sent[d] = inbox[d] + 0 + outbox'[d] + received[d]
      <4>1. sent[d] = inbox[d] + InBuf(d) + outbox[d] + received[d]
        BY <2>1, <3>3 DEF EchoInv, EchoesKept, Here
      <4>2. CASE d = c
        <5> DEFINE m == outbox[c] + len
        <5>1. /\ sent[c] = inbox[c] + len + outbox[c] + received[c]
              /\ sent[c] - received[c] <= Window
          BY <3>1, <3>3, <4>1, <4>2 DEF EchoInv, WindowInv
        <5>2. /\ sent[c] \in Nat /\ inbox[c] \in Nat /\ outbox[c] \in Nat /\ received[c] \in Nat
          BY <2>1
        <5>3. m \in Nat /\ m <= Window /\ sent[c] = inbox[c] + m + received[c]
          BY <5>1, <5>2, SMT
        <5> HIDE DEF m
        <5>4. Min({m, Window}) = m
          BY <5>3, MinOfTwo
        <5>5. outbox'[c] = m
          BY <3>2, <5>4 DEF m
        <5> QED BY <4>2, <5>2, <5>3, <5>5, SMT
      <4>3. CASE d # c
        BY <3>1, <3>2, <4>1, <4>3
      <4> QED BY <4>2, <4>3
    <3> QED BY <2>1, <2>2, <3>1, <3>3 DEF EchoInv, EchoesKept, Here, Pending, Connected, kvars
  <2> QED BY <2>1, <2>3, <2>4
<1> QED BY <1>1, <1>2, <1>4, <1>5, <1>6 DEF Server

(* A client's own steps.                                                      *)
LEMMA ClientEcho ==
    ASSUME IInv, EchoInv, NEW c \in Clients,
           Connect(c) \/ SendMessage(c) \/ ReadEchoes(c) \/ Leave(c)
    PROVE  EchoInv'
<1> USE Counts
<1>1. UNCHANGED <<pc, len, events, conn>> /\ \A d \in Clients : InBuf(d)' = InBuf(d)
  BY DEF Connect, SendMessage, ReadEchoes, Leave, svars, kvars, InBuf
<1>b. \A d \in Clients : InBuf(d) \in Nat
  BY DEF InBuf
<1>2. CASE Connect(c)
  <2>1. /\ client[c] = "new" /\ backlog' = Append(backlog, c)
        /\ UNCHANGED <<sent, inbox, outbox, received, greedy>>
    BY <1>2 DEF Connect
  <2>2. sent[c] = 0 /\ inbox[c] = 0 /\ outbox[c] = 0 /\ received[c] = 0 /\ ~Connected(c)
    BY <2>1 DEF IInv, OnceInv
  <2>3. InBuf(c) = 0
    BY <2>2, Served DEF InBuf, EchoInv, WindowInv
  <2>4. \A d \in Clients : d # c => (Here(d)' => Here(d))
    BY <1>1, <2>1, AppendHas, Known DEF Here, Pending, Connected
  <2> QED BY <1>1, <2>1, <2>2, <2>3, <2>4 DEF EchoInv, EchoesKept, WindowInv, Here
<1>3. CASE SendMessage(c)
  <2>1. /\ sent' = [sent EXCEPT ![c] = @ + 1] /\ inbox' = [inbox EXCEPT ![c] = @ + 1]
        /\ greedy' = IF sent[c] - received[c] >= Window THEN greedy \cup {c} ELSE greedy
        /\ UNCHANGED <<outbox, received, backlog>>
    BY <1>3 DEF SendMessage
  <2>2. /\ sent'[c] = sent[c] + 1 /\ inbox'[c] = inbox[c] + 1
        /\ \A d \in Clients : d # c => sent'[d] = sent[d] /\ inbox'[d] = inbox[d]
        /\ \A d \in Clients : d \notin greedy' => d \notin greedy
        /\ c \notin greedy' => ~(sent[c] - received[c] >= Window)
    BY <2>1
  <2>3. WindowInv'
    <3>1. ASSUME c \notin greedy' PROVE sent'[c] - received[c] <= Window
      <4>1. sent[c] \in Nat /\ received[c] \in Nat /\ Window \in Nat
        OBVIOUS
      <4> QED BY <2>2, <3>1, <4>1, SMT
    <3> QED BY <1>1, <2>1, <2>2, <3>1 DEF EchoInv, WindowInv
  <2>4. ASSUME NEW d \in Clients, d \notin greedy', Here(d), pc # "dead"
        PROVE  sent'[d] = inbox'[d] + InBuf(d) + outbox[d] + received[d]
    <3>1. sent[d] = inbox[d] + InBuf(d) + outbox[d] + received[d]
      BY <2>2, <2>4 DEF EchoInv, EchoesKept, Here
    <3>2. CASE d = c
      <4>1. /\ sent[c] \in Nat /\ inbox[c] \in Nat /\ InBuf(c) \in Nat /\ outbox[c] \in Nat
            /\ received[c] \in Nat
        BY <1>b
      <4> QED BY <2>2, <3>1, <3>2, <4>1, SMT
    <3>3. CASE d # c
      BY <2>2, <3>1, <3>3
    <3> QED BY <3>2, <3>3
  <2> QED BY <1>1, <2>1, <2>3, <2>4 DEF EchoInv, EchoesKept, Here, Pending, Connected
<1>4. CASE Leave(c)
  <2>1. UNCHANGED <<sent, inbox, outbox, received, greedy, backlog>>
    BY <1>4 DEF Leave
  <2> QED BY <1>1, <2>1 DEF EchoInv, EchoesKept, WindowInv, Pending, Connected
<1>5. CASE ReadEchoes(c)
  <2>1. /\ outbox'[c] = 0 /\ received'[c] = received[c] + outbox[c]
        /\ \A d \in Clients : d # c => outbox'[d] = outbox[d] /\ received'[d] = received[d]
        /\ UNCHANGED <<sent, inbox, greedy, backlog>>
    BY <1>5 DEF ReadEchoes, kvars
  <2>2. /\ sent[c] \in Nat /\ inbox[c] \in Nat /\ InBuf(c) \in Nat /\ outbox[c] \in Nat
        /\ received[c] \in Nat
    BY <1>b
  <2>3. sent[c] - received[c] <= Window => sent[c] - received'[c] <= Window
    BY <2>1, <2>2, SMT
  <2>4. WindowInv'
    BY <1>1, <2>1, <2>3 DEF EchoInv, WindowInv
  <2>5. sent[c] = inbox[c] + InBuf(c) + outbox[c] + received[c] =>
           sent[c] = inbox[c] + InBuf(c) + outbox'[c] + received'[c]
    BY <2>1, <2>2, SMT
  <2> QED BY <1>1, <2>1, <2>4, <2>5 DEF EchoInv, EchoesKept, Pending, Connected
<1> QED BY <1>2, <1>3, <1>4, <1>5

(* Every step keeps the account.                                              *)
LEMMA NextEcho == IInv /\ EchoInv /\ [Next]_vars => EchoInv'
<1> SUFFICES ASSUME IInv, EchoInv, [Next]_vars PROVE EchoInv'
    OBVIOUS
<1>1. CASE UNCHANGED vars
  BY <1>1 DEF vars, kvars, cvars, svars, EchoInv, EchoesKept, WindowInv, InBuf, Pending, Connected
<1> QED BY <1>1, ServerEcho, ClientEcho DEF Next

(* A client within its window loses no echo, whatever the others do.          *)
THEOREM Echoes == Spec => []EchoesKept
<1>1. Init => EchoInv
  BY SizeAssumption, SMT DEF Init, EchoInv, EchoesKept, WindowInv, InBuf, Pending, Connected
<1>2. EchoInv => EchoesKept
  BY DEF EchoInv
<1>3. IInv /\ EchoInv /\ [Next]_vars => IInv' /\ EchoInv'
  BY NextIInv, NextEcho
<1> QED BY <1>1, <1>2, <1>3, InitIInv, PTL DEF Spec

====
