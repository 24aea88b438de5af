---- MODULE CondBuffer_proof ----
(* Proofs about CondBuffer, for every BUFFER_SIZE and every bound.            *)
EXTENDS CondBuffer, SequenceTheorems, TLAPS

(* Who holds the mutex is who executes a critical statement.                  *)
MutexInv == \A t \in Workers : pc[t] \in Critical <=> mutex = t

(* What a thread's last look at the buffer still tells it, the mutex held.    *)
ClaimInv ==
    \A t \in Workers :
        /\ pc[t] = "use" => Ready(t)
        /\ pc[t] = "check" => Ready(t) \/ should_exit
        /\ pc[t] = "cond_wait" => ~Ready(t)

(* The inductive invariant: NoMissedSignal needs to know that a thread going  *)
(* to sleep has just seen its condition false, and that nobody changed it.    *)
IInv == TypeOK /\ MutexInv /\ ClaimInv /\ NoMissedSignal

LEMMA InitIInv == Init => IInv
<1> SUFFICES ASSUME Init PROVE IInv
    OBVIOUS
<1> USE SizeAssumption, BoundAssumption DEF Init, Workers, Free, None, Critical,
        WorkerLabels, MainLabels, Ready, Other
<1>1. TypeOK
  <2>1. buffer \in [0 .. BUFFER_SIZE - 1 -> Int]  BY SMT
  <2>2. /\ pc \in [Workers \cup {"main"} -> WorkerLabels \cup MainLabels]
        /\ \A t \in Workers : pc[t] \in WorkerLabels
    BY SMT
  <2>3. taken \in SUBSET Int  OBVIOUS
  <2>4. item \in Nat /\ spurious \in Nat /\ count \in 0 .. BUFFER_SIZE  BY SMT
  <2> QED BY <2>1, <2>2, <2>3, <2>4 DEF TypeOK
<1>2. MutexInv  BY SMT DEF MutexInv
<1>3. ClaimInv  BY SMT DEF ClaimInv
<1>4. NoMissedSignal  BY SMT DEF NoMissedSignal
<1> QED BY <1>1, <1>2, <1>3, <1>4 DEF IInv

(* Every statement of the three threads preserves it.                         *)
LEMMA NextIInv == IInv /\ [Next]_vars => IInv'
<1> SUFFICES ASSUME IInv, [Next]_vars PROVE IInv'
    OBVIOUS
<1> USE SizeAssumption, BoundAssumption
<1> USE DEF IInv, TypeOK, MutexInv, ClaimInv, NoMissedSignal, Workers, Free,
            Critical, WorkerLabels, MainLabels, Ready, Other, Goto, data
<1>1. ASSUME NEW t \in Workers, Work(t) PROVE IInv'
  <2>1. CASE WhileTest(t)  BY <2>1, SMT DEF WhileTest
  <2>2. CASE Lock(t)       BY <2>2, SMT DEF Lock
  <2>3. CASE WaitTest(t)   BY <2>3, SMT DEF WaitTest
  <2>4. CASE CondWait(t)   BY <2>4, SMT DEF CondWait
  <2>5. CASE Relock(t)     BY <2>5, SMT DEF Relock
  <2>6. CASE ExitCheck(t)  BY <2>6, SMT DEF ExitCheck
  <2>7. CASE Signal(t)     BY <2>7, SMT DEF Signal
  <2>8. CASE Unlock(t)     BY <2>8, SMT DEF Unlock
  <2> QED BY <1>1, <2>1, <2>2, <2>3, <2>4, <2>5, <2>6, <2>7, <2>8 DEF Work
<1>2. CASE Produce  BY <1>2, SMT DEF Produce
<1>3. CASE Consume
  <2>1. count - 1 \in 0 .. BUFFER_SIZE - 1  BY <1>3, SMT DEF Consume
  <2>2. taken' \in SUBSET Int
    <3>1. buffer[count - 1] \in Int  BY <2>1
    <3> QED BY <1>3, <3>1 DEF Consume
  <2> QED BY <1>3, <2>1, <2>2, SMT DEF Consume
<1>4. CASE Main
  <2>1. CASE RaiseExit  BY <2>1, SMT DEF RaiseExit
  <2>2. CASE Broadcast  BY <2>2, SMT DEF Broadcast
  <2>3. CASE Join("join_p", "producer", "join_c")  BY <2>3, SMT DEF Join
  <2>4. CASE Join("join_c", "consumer", "destroy")  BY <2>4, SMT DEF Join
  <2>5. CASE Destroy  BY <2>5, SMT DEF Destroy
  <2> QED BY <1>4, <2>1, <2>2, <2>3, <2>4, <2>5 DEF Main, Leave
<1>5. ASSUME NEW t \in Workers, SpuriousWake(t) PROVE IInv'
      BY <1>5, SMT DEF SpuriousWake
<1>6. CASE UNCHANGED vars  BY <1>6, SMT DEF vars
<1> QED BY <1>1, <1>2, <1>3, <1>4, <1>5, <1>6 DEF Next, Producer, Consumer

(* IInv holds in every reachable state.                                       *)
THEOREM Invariant == Spec => []IInv
<1>1. Init => IInv  BY InitIInv
<1>2. IInv /\ [Next]_vars => IInv'  BY NextIInv
<1> QED BY <1>1, <1>2, PTL DEF Spec

(* Both accesses to the array fall inside it (lines 115 and 141).             *)
THEOREM Bounds == Spec => [](TypeOK /\ AccessInBounds)
<1>1. IInv => TypeOK /\ AccessInBounds
  BY SizeAssumption, SMT DEF IInv, TypeOK, ClaimInv, AccessInBounds, Ready, Workers
<1> QED BY <1>1, Invariant, PTL

(* No wake-up is lost between the two workers, and they never wait for each   *)
(* other, although one condition variable serves both directions.             *)
THEOREM Signals == Spec => [](NoMissedSignal /\ NeverBothBlocked)
<1>1. IInv => NoMissedSignal /\ NeverBothBlocked
  BY SizeAssumption, SMT
     DEF IInv, TypeOK, NoMissedSignal, NeverBothBlocked, Ready, Workers, Other
<1> QED BY <1>1, Invariant, PTL

-----------------------------------------------------------------------------
(* What the array holds.                                                      *)
Held == {buffer[i] : i \in 0 .. count - 1}

(* No item is lost, invented or handed out twice: the items produced are      *)
(* exactly those in the array and those consumed, and these do not overlap.   *)
Conservation ==
    /\ Held \cup taken = 0 .. item - 1
    /\ Held \cap taken = {}
    /\ \A i, j \in 0 .. count - 1 : buffer[i] = buffer[j] => i = j

(* Only the two accesses change what Conservation speaks of.                  *)
LEMMA DataSteps ==
    ASSUME [Next]_vars PROVE Produce \/ Consume \/ UNCHANGED data
<1>1. ASSUME NEW t \in Workers, Work(t) PROVE UNCHANGED data
  BY <1>1 DEF Work, WhileTest, Lock, WaitTest, CondWait, Relock, ExitCheck, Signal, Unlock
<1>2. ASSUME Main PROVE UNCHANGED data
  BY <1>2, Zenon DEF Main, Leave, RaiseExit, Broadcast, Join, Destroy
<1>3. ASSUME NEW t \in Workers, SpuriousWake(t) PROVE UNCHANGED data
  BY <1>3 DEF SpuriousWake
<1>4. ASSUME UNCHANGED vars PROVE UNCHANGED data
  BY <1>4 DEF vars, data
<1> QED BY <1>1, <1>2, <1>3, <1>4 DEF Next, Producer, Consumer, Workers

(* Every item produced is in the array or was consumed, never both, and is in *)
(* at most one slot.                                                          *)
THEOREM NothingLost == Spec => []Conservation
<1>1. Init => Conservation
  BY SMT DEF Init, Conservation, Held
<1>2. IInv /\ Conservation /\ [Next]_vars => Conservation'
  <2> SUFFICES ASSUME IInv, Conservation, [Next]_vars PROVE Conservation'
      OBVIOUS
  <2>t. TypeOK /\ AccessInBounds
    BY SizeAssumption, SMT DEF IInv, TypeOK, ClaimInv, AccessInBounds, Ready, Workers
  <2>1. CASE Produce
    <3> count < BUFFER_SIZE /\ count \in Nat
        BY <2>1, <2>t, SMT DEF Produce, AccessInBounds, TypeOK
    <3>b. /\ buffer'[count] = item
          /\ \A i \in 0 .. count - 1 : buffer'[i] = buffer[i]
      BY <2>1, <2>t, SizeAssumption, SMT DEF Produce, TypeOK
    <3>c. 0 .. count' - 1 = (0 .. count - 1) \cup {count}
      BY <2>1, SMT DEF Produce
    <3>1. Held' = Held \cup {item}
      BY <3>b, <3>c, Zenon DEF Held
    <3>2. item \notin Held /\ item \notin taken
      BY <2>t, SMT DEF Conservation, TypeOK
    <3>3. \A i, j \in 0 .. count' - 1 : buffer'[i] = buffer'[j] => i = j
      BY <3>b, <3>c, <3>2, Zenon DEF Held, Conservation
    <3>4. 0 .. item' - 1 = (0 .. item - 1) \cup {item}
      BY <2>1, <2>t, SMT DEF Produce, TypeOK
    <3> QED BY <2>1, <3>1, <3>2, <3>3, <3>4 DEF Conservation, Produce
  <2>2. CASE Consume
    <3> count > 0 /\ count \in Nat
        BY <2>2, <2>t, SMT DEF Consume, AccessInBounds, TypeOK
    <3>1. Held = Held' \cup {buffer[count - 1]}
      BY <2>2, <2>t, SMT DEF Consume, Held, TypeOK
    <3>2. buffer[count - 1] \notin Held'
      BY <2>2, <2>t, SMT DEF Consume, Held, Conservation, TypeOK
    <3>3. \A i, j \in 0 .. count' - 1 : buffer'[i] = buffer'[j] => i = j
      BY <2>2, <2>t, SMT DEF Consume, Conservation, TypeOK
    <3> QED BY <2>2, <3>1, <3>2, <3>3 DEF Conservation, Consume
  <2>3. CASE UNCHANGED data
    BY <2>3 DEF data, Conservation, Held
  <2> QED BY <2>1, <2>2, <2>3, DataSteps
<1> QED BY <1>1, <1>2, Invariant, PTL DEF Spec

(* The first n slots of an array b of integers, read as a sequence.           *)
LEMMA SlotsAsSequence ==
    ASSUME NEW N \in Nat, NEW n \in 0 .. N, NEW b \in [0 .. N - 1 -> Int]
    PROVE  LET s == [i \in 1 .. n |-> b[i - 1]] IN
           /\ s \in Seq(Int)
           /\ Len(s) = n
           /\ \A i \in 1 .. n : s[i] = b[i - 1]
<1> DEFINE s == [i \in 1 .. n |-> b[i - 1]]
<1>1. \A i \in 1 .. n : i - 1 \in 0 .. N - 1  BY SMT
<1>2. s \in [1 .. n -> Int]  BY <1>1, Zenon
<1>3. \A i \in 1 .. n : s[i] = b[i - 1]  OBVIOUS
<1> HIDE DEF s
<1>4. s \in Seq(Int) /\ Len(s) = n  BY <1>2, SMT
<1> QED BY <1>3, <1>4 DEF s

(* What identifies the sequence after a push, and after a pop.                *)
LEMMA AppendIs ==
    ASSUME NEW s \in Seq(Int), NEW t \in Seq(Int), NEW e \in Int,
           Len(t) = Len(s) + 1, t[Len(s) + 1] = e, \A i \in 1 .. Len(s) : t[i] = s[i]
    PROVE  t = Append(s, e)
<1>1. Append(s, e) \in Seq(Int) /\ Len(Append(s, e)) = Len(s) + 1  BY SMT
<1>2. \A i \in 1 .. Len(s) + 1 : Append(s, e)[i] = t[i]  BY SMT
<1> QED BY <1>1, <1>2, SeqEqual, Zenon

LEMMA FrontIs ==
    ASSUME NEW s \in Seq(Int), NEW t \in Seq(Int), s # <<>>,
           Len(t) = Len(s) - 1, \A i \in 1 .. Len(t) : t[i] = s[i]
    PROVE  t = SubSeq(s, 1, Len(s) - 1)
<1>1. \A i \in 1 .. Len(s) - 1 : s[i] \in Int  BY SMT
<1>2. Len(s) \in Nat /\ Len(s) >= 1  BY SMT
<1> DEFINE u == SubSeq(s, 1, Len(s) - 1)
<1>3. u \in Seq(Int) /\ Len(u) = Len(s) - 1  BY <1>1, <1>2, SMT
<1>4. \A i \in 1 .. Len(t) : u[i] = t[i]  BY <1>1, <1>2, SMT
<1> HIDE DEF u
<1>5. u = t  BY <1>3, <1>4, SeqEqual, Zenon
<1> QED BY <1>5 DEF u

(* The threads implement the bounded stack: Produce is a push, Consume a pop, *)
(* every other statement leaves the stack alone.                              *)
THEOREM Refinement == Spec => StackSpec
<1> DEFINE S == [i \in 1 .. count |-> buffer[i - 1]]
<1>1. Init => Stack!Init
  <2> SUFFICES ASSUME Init PROVE Stack!Init
      OBVIOUS
  <2>1. S = <<>>  BY SMT DEF Init
  <2> QED BY <2>1 DEF Init, Stack!Init
<1>2. IInv /\ IInv' /\ [Next]_vars => [Stack!Next]_(Stack!vars)
  <2> SUFFICES ASSUME IInv, IInv', [Next]_vars PROVE [Stack!Next]_(Stack!vars)
      OBVIOUS
  <2>t. TypeOK /\ TypeOK' /\ AccessInBounds
    BY SizeAssumption, SMT DEF IInv, TypeOK, ClaimInv, AccessInBounds, Ready, Workers
  <2>s. S \in Seq(Int) /\ Len(S) = count /\ \A i \in 1 .. count : S[i] = buffer[i - 1]
    <3>0. count \in 0 .. BUFFER_SIZE /\ buffer \in [0 .. BUFFER_SIZE - 1 -> Int]
      BY <2>t DEF TypeOK
    <3> QED BY <3>0, SizeAssumption, SlotsAsSequence, Zenon
  <2>p. S' \in Seq(Int) /\ Len(S') = count' /\ \A i \in 1 .. count' : S'[i] = buffer'[i - 1]
    <3>0. count' \in 0 .. BUFFER_SIZE /\ buffer' \in [0 .. BUFFER_SIZE - 1 -> Int]
      BY <2>t DEF TypeOK
    <3> QED BY <3>0, SizeAssumption, SlotsAsSequence, Zenon
  <2>1. CASE Produce
    <3>a. /\ count \in Nat /\ count' = count + 1 /\ count < BUFFER_SIZE
          /\ item \in Int
        BY <2>1, <2>t, SMT DEF Produce, AccessInBounds, TypeOK
    <3>b. /\ buffer'[count] = item
          /\ \A i \in 1 .. count : buffer'[i - 1] = buffer[i - 1]
      BY <2>1, <2>t, <3>a, SizeAssumption, SMT DEF Produce, TypeOK
    <3>1. S' = Append(S, item)
      <4> HIDE DEF S
      <4>1. Len(S) = count /\ Len(S') = Len(S) + 1 /\ S'[Len(S) + 1] = item
        BY <2>s, <2>p, <3>a, <3>b, SMT
      <4>i. \A i \in 1 .. count : i \in 1 .. count'
        BY <3>a, SMT
      <4>2. \A i \in 1 .. Len(S) : S'[i] = S[i]
        BY <2>s, <2>p, <4>i, <3>b, Zenon
      <4> QED BY <2>s, <2>p, <3>a, <4>1, <4>2, AppendIs, Zenon
    <3> QED BY <2>1, <2>s, <3>a, <3>1 DEF Produce, Stack!Next, Stack!Push
  <2>2. CASE Consume
    <3>a. count \in Nat /\ count > 0 /\ count' = count - 1 /\ buffer' = buffer
        BY <2>2, <2>t, SMT DEF Consume, AccessInBounds, TypeOK
    <3>1. S # <<>> /\ S[Len(S)] = buffer[count - 1]
      <4> HIDE DEF S
      <4> QED BY <2>s, <3>a, SMT
    <3>2. S' = SubSeq(S, 1, Len(S) - 1)
      <4> HIDE DEF S
      <4>i. \A i \in 1 .. count' : i \in 1 .. count
        BY <3>a, SMT
      <4>1. Len(S') = Len(S) - 1 /\ \A i \in 1 .. Len(S') : S'[i] = S[i]
        BY <2>s, <2>p, <3>a, <4>i, Zenon
      <4> QED BY <2>s, <2>p, <3>1, <4>1, FrontIs, Zenon
    <3> QED BY <2>2, <3>1, <3>2 DEF Consume, Stack!Next, Stack!Pop
  <2>3. CASE UNCHANGED data
    BY <2>3 DEF data, Stack!vars
  <2> QED BY <2>1, <2>2, <2>3, DataSteps
<1> QED BY <1>1, <1>2, Invariant, PTL DEF Spec, StackSpec, Stack!Spec
====
