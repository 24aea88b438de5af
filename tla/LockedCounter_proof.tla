---- MODULE LockedCounter_proof ----
(* The lock keeps a load and the store that follows it together, for every    *)
(* set of threads and programs. Inductive invariant: who holds the lock is    *)
(* who stands between lock and unlock, and a holder is alone. With it the     *)
(* shared integer counts the increments made, each by its place in the loops. *)
EXTENDS LockedCounter, FiniteSetTheorems, TLAPS

Inside == {"load", "store", "unlock"}

(* The lock's own state agrees with the program counters.                     *)
HoldersInside ==
    /\ \A t \in holder : t \in prog.writers
    /\ \A t \in reading : t \in prog.readers
    /\ \A t \in Threads :
        /\ pc[t] \in {"load", "store"} => t \in prog.writers
        /\ pc[t] = "read" => t \in prog.readers /\ t \in reading
        /\ prog.locked /\ t \in prog.writers /\ pc[t] \in Inside => t \in holder

(* A writer excludes everybody else.                                          *)
Exclusive ==
    /\ holder # {} => reading = {}
    /\ \A t, u \in holder : t = u

(* The loop counters are below their bounds where another turn is taken.      *)
LoopsBounded ==
    \A t \in Threads :
        /\ pc[t] # "done" => round[t] < prog.rounds
        /\ pc[t] \in {"new", "start", "wait", "done"} => i[t] = 0
        /\ pc[t] \in {"load", "store"} => i[t] < prog.inner

(* No update is lost: the value a writer is about to store was computed from  *)
(* the present one.                                                           *)
FreshWhenStored ==
    prog.locked => \A t \in Threads : pc[t] = "store" => tmp[t] = shared

IInv == TypeOK /\ LoopsBounded /\ HoldersInside /\ Exclusive /\ FreshWhenStored

(* Writers and readers of a program are different threads.                    *)
LEMMA Disjoint ==
    ASSUME prog \in Programs
    PROVE  /\ prog.writers \in SUBSET Threads /\ prog.readers \in SUBSET Threads
           /\ prog.rounds \in Nat \ {0} /\ prog.inner \in Nat \ {0}
           /\ prog.locked \in BOOLEAN
           /\ \A t \in Threads : ~(t \in prog.writers /\ t \in prog.readers)
<1>1. prog \in Program /\ prog.writers \cap prog.readers = {}
  BY ProgramAssumption
<1> QED BY <1>1 DEF Program

(* The invariant holds at first.                                              *)
LEMMA InitIInv == Init => IInv
<1> SUFFICES ASSUME Init PROVE IInv
  OBVIOUS
<1>1. /\ prog.rounds \in Nat \ {0} /\ prog.inner \in Nat \ {0}
  BY Disjoint DEF Init
<1>2. TypeOK
  BY <1>1 DEF Init, TypeOK
<1>3. HoldersInside /\ Exclusive /\ FreshWhenStored
  BY DEF Init, HoldersInside, Exclusive, FreshWhenStored, Inside
<1>4. LoopsBounded
  BY <1>1 DEF Init, LoopsBounded
<1> QED BY <1>2, <1>3, <1>4 DEF IInv

(* The steps that leave lock and integer alone and enter no critical section. *)
LEMMA Outside ==
    ASSUME IInv, NEW t \in Threads, NEW l \in {"start", "wait"},
           Goto(t, l), pc[t] \in {"new", "start"},
           UNCHANGED <<prog, main, round, i, tmp, shared, holder, reading>>
    PROVE  IInv'
<1>1. TypeOK'
  BY DEF IInv, TypeOK, Goto
<1>2. \A u \in Threads : pc'[u] = IF u = t THEN l ELSE pc[u]
  BY DEF IInv, TypeOK, Goto
<1>3. HoldersInside'
  BY <1>2 DEF IInv, HoldersInside, Inside
<1>4. Exclusive' /\ FreshWhenStored'
  BY <1>2 DEF IInv, Exclusive, FreshWhenStored
<1>5. LoopsBounded'
  BY <1>2 DEF IInv, LoopsBounded
<1> QED BY <1>1, <1>3, <1>4, <1>5 DEF IInv

(* The invariant is inductive.                                                *)
LEMMA StepIInv == IInv /\ [Next]_vars => IInv'
<1> SUFFICES ASSUME IInv, [Next]_vars PROVE IInv'
  OBVIOUS
<1> USE DEF IInv
<1>0. /\ prog.writers \in SUBSET Threads /\ prog.readers \in SUBSET Threads
      /\ prog.rounds \in Nat \ {0} /\ prog.inner \in Nat \ {0}
      /\ prog.locked \in BOOLEAN
      /\ \A t \in Threads : ~(t \in prog.writers /\ t \in prog.readers)
  BY Disjoint DEF TypeOK
<1>1. CASE UNCHANGED vars
  BY <1>1 DEF vars, tvars, TypeOK, LoopsBounded, HoldersInside, Exclusive, FreshWhenStored
<1>2. CASE JoinAll
  BY <1>2 DEF JoinAll, tvars, TypeOK, LoopsBounded, HoldersInside, Exclusive, FreshWhenStored
<1>3. ASSUME NEW t \in Threads, Create(t) PROVE IInv'
  BY <1>3, Outside DEF Create
<1>4. ASSUME NEW t \in Threads, CallLock(t) PROVE IInv'
  BY <1>4, Outside DEF CallLock
<1>5. ASSUME NEW t \in Threads, WriteLock(t) PROVE IInv'
  <2>1. TypeOK'
    BY <1>0, <1>5 DEF WriteLock, TypeOK, Goto
  <2>2. \A u \in Threads : pc'[u] = IF u = t THEN "load" ELSE pc[u]
    BY <1>5 DEF WriteLock, TypeOK, Goto
  <2>3. HoldersInside'
    BY <1>0, <1>5, <2>2 DEF WriteLock, HoldersInside, Inside
  <2>4. Exclusive'
    BY <1>5 DEF WriteLock, Exclusive
  <2>5. FreshWhenStored'
    BY <1>5, <2>2 DEF WriteLock, FreshWhenStored
  <2>9. LoopsBounded'
    BY <1>0, <1>5, <2>2 DEF WriteLock, LoopsBounded, HoldersInside, TypeOK
  <2> QED BY <2>9, <2>1, <2>3, <2>4, <2>5
<1>6. ASSUME NEW t \in Threads, ReadLock(t) PROVE IInv'
  <2>1. TypeOK'
    BY <1>0, <1>6 DEF ReadLock, TypeOK, Goto
  <2>2. \A u \in Threads : pc'[u] = IF u = t THEN "read" ELSE pc[u]
    BY <1>6 DEF ReadLock, TypeOK, Goto
  <2>3. HoldersInside'
    BY <1>0, <1>6, <2>2 DEF ReadLock, HoldersInside, Inside
  <2>4. Exclusive' /\ FreshWhenStored'
    BY <1>6, <2>2 DEF ReadLock, Exclusive, FreshWhenStored
  <2>9. LoopsBounded'
    BY <1>0, <1>6, <2>2 DEF ReadLock, LoopsBounded, HoldersInside, TypeOK
  <2> QED BY <2>9, <2>1, <2>3, <2>4
<1>7. ASSUME NEW t \in Threads, Load(t) PROVE IInv'
  <2>1. TypeOK'
    BY <1>7 DEF Load, TypeOK, Goto
  <2>2. \A u \in Threads : /\ pc'[u] = IF u = t THEN "store" ELSE pc[u]
                           /\ tmp'[u] = IF u = t THEN shared ELSE tmp[u]
    BY <1>7 DEF Load, TypeOK, Goto
  <2>3. HoldersInside'
    BY <1>0, <1>7, <2>2 DEF Load, HoldersInside, Inside
  <2>4. Exclusive' /\ FreshWhenStored'
    BY <1>7, <2>2 DEF Load, Exclusive, FreshWhenStored
  <2>9. LoopsBounded'
    BY <1>0, <1>7, <2>2 DEF Load, LoopsBounded, HoldersInside, TypeOK
  <2> QED BY <2>9, <2>1, <2>3, <2>4
<1>8. ASSUME NEW t \in Threads, Store(t) PROVE IInv'
  <2> DEFINE l == IF i[t] + 1 < prog.inner THEN "load" ELSE "unlock"
  <2>1. i[t] + 1 \in 0 .. prog.inner
    <3>1. i[t] \in 0 .. prog.inner /\ i[t] < prog.inner
      BY <1>8 DEF TypeOK, Store, LoopsBounded
    <3> QED BY <1>0, <3>1
  <2>2. TypeOK'
    BY <1>8, <2>1 DEF Store, TypeOK, Goto
  <2>3. l \in {"load", "unlock"} /\ \A u \in Threads : pc'[u] = IF u = t THEN l ELSE pc[u]
    BY <1>8 DEF Store, TypeOK, Goto
  <2>9. LoopsBounded'
    <3>1. pc[t] # "done" /\ pc'[t] # "done"
      BY <1>8, <2>3 DEF Store, TypeOK
    <3>2. /\ i' = [i EXCEPT ![t] = @ + 1] /\ UNCHANGED <<prog, round>>
          /\ l = "load" => i[t] + 1 < prog.inner
      BY <1>8 DEF Store
    <3> QED BY <2>3, <3>1, <3>2 DEF LoopsBounded, TypeOK
  <2> HIDE DEF l
  <2>4. HoldersInside'
    BY <1>0, <1>8, <2>3 DEF Store, HoldersInside, Inside
  <2>5. Exclusive'
    BY <1>8 DEF Store, Exclusive
  <2>6. prog.locked => \A u \in Threads : pc[u] = "store" => u = t
    BY <1>8 DEF Store, HoldersInside, Exclusive, Inside
  <2>7. FreshWhenStored'
    BY <1>8, <2>3, <2>6 DEF Store, FreshWhenStored
  <2> QED BY <2>2, <2>4, <2>5, <2>7, <2>9
<1>9. ASSUME NEW t \in Threads, Read(t) PROVE IInv'
  <2>1. TypeOK'
    BY <1>9 DEF Read, TypeOK, Goto
  <2>2. \A u \in Threads : /\ pc'[u] = IF u = t THEN "unlock" ELSE pc[u]
                           /\ u # t => tmp'[u] = tmp[u]
    BY <1>9 DEF Read, TypeOK, Goto
  <2>3. HoldersInside'
    BY <1>0, <1>9, <2>2 DEF Read, HoldersInside, Inside
  <2>4. Exclusive' /\ FreshWhenStored'
    BY <1>9, <2>2 DEF Read, Exclusive, FreshWhenStored
  <2>9. LoopsBounded'
    BY <1>0, <1>9, <2>2 DEF Read, LoopsBounded, HoldersInside, TypeOK
  <2> QED BY <2>9, <2>1, <2>3, <2>4
<1>10. ASSUME NEW t \in Threads, Unlock(t) PROVE IInv'
  <2> DEFINE l == IF round[t] + 1 < prog.rounds THEN "start" ELSE "done"
  <2>1. round[t] + 1 \in 0 .. prog.rounds
    <3>1. round[t] \in 0 .. prog.rounds /\ round[t] < prog.rounds
      BY <1>10 DEF TypeOK, Unlock, LoopsBounded
    <3> QED BY <1>0, <3>1
  <2>5. TypeOK'
    BY <1>0, <1>10, <2>1 DEF Unlock, TypeOK, Goto
  <2>2. l \in {"start", "done"} /\ \A u \in Threads : pc'[u] = IF u = t THEN l ELSE pc[u]
    BY <1>10 DEF Unlock, TypeOK, Goto
  <2>6. LoopsBounded'
    <3>1. /\ round' = [round EXCEPT ![t] = @ + 1] /\ i' = [i EXCEPT ![t] = 0]
          /\ UNCHANGED prog
          /\ l = "start" => round[t] + 1 < prog.rounds
      BY <1>10 DEF Unlock
    <3> QED BY <1>0, <2>2, <3>1 DEF LoopsBounded, TypeOK
  <2> HIDE DEF l
  <2>3. HoldersInside'
    BY <1>0, <1>10, <2>2 DEF Unlock, HoldersInside, Inside
  <2>4. Exclusive' /\ FreshWhenStored'
    BY <1>10, <2>2 DEF Unlock, Exclusive, FreshWhenStored
  <2> QED BY <2>3, <2>4, <2>5, <2>6
<1> QED
  BY <1>1, <1>2, <1>3, <1>4, <1>5, <1>6, <1>7, <1>8, <1>9, <1>10 DEF Next, Thread

(* Type correctness, and no lost update, of every locking program.            *)
THEOREM Safety == Spec => [](TypeOK /\ FreshWhenStored)
<1>1. IInv => TypeOK /\ FreshWhenStored
  BY DEF IInv
<1> QED BY InitIInv, StepIInv, <1>1, PTL DEF Spec

(* Nobody writes while a reader reads.                                        *)
THEOREM Readers == Spec => ReadersUndisturbed
<1>1. ASSUME IInv, [Next]_vars, prog.locked, NEW r \in Threads, pc[r] = "read"
      PROVE  UNCHANGED shared
  <2>1. \A t \in Threads : pc[t] # "store"
    BY <1>1 DEF IInv, HoldersInside, Exclusive, Inside
  <2> QED
    BY <1>1, <2>1 DEF Next, vars, tvars, JoinAll, Create, Thread, CallLock, WriteLock,
       ReadLock, Load, Store, Read, Unlock
<1>2. IInv /\ [Next]_vars =>
        [prog.locked /\ (\E t \in Threads : pc[t] = "read") => UNCHANGED shared]_vars
  BY <1>1
<1> QED BY InitIInv, StepIInv, <1>2, PTL DEF Spec, ReadersUndisturbed

-----------------------------------------------------------------------------
(* Every increment of a program: which writer makes it, in which round, as    *)
(* which of the round; and those already made, as the loop counters have it.  *)
Increments == prog.writers \X ((0 .. prog.rounds - 1) \X (0 .. prog.inner - 1))

Made(d) == \/ d[2][1] < round[d[1]]
           \/ d[2][1] = round[d[1]] /\ d[2][2] < i[d[1]]

Done == {d \in Increments : Made(d)}

(* The shared integer counts them; and where the loops end all are made.      *)
CountInv ==
    /\ prog.locked => shared = Cardinality(Done)
    /\ \A t \in Threads :
        /\ pc[t] # "new" => t \in Running
        /\ pc[t] = "unlock" /\ t \in prog.writers => i[t] = prog.inner
        /\ pc[t] = "done" => round[t] = prog.rounds
    /\ main = "printed" => \A t \in Running : pc[t] = "done"

(* There are as many increments as the loops have turns.                      *)
LEMMA IncrementsFinite ==
    ASSUME prog \in Programs
    PROVE  /\ IsFiniteSet(Increments) /\ IsFiniteSet(Done)
           /\ Cardinality(Increments) = Cardinality(prog.writers) * prog.rounds * prog.inner
<1>1. prog.writers \in SUBSET Threads /\ prog.rounds \in Nat \ {0} /\ prog.inner \in Nat \ {0}
  BY Disjoint
<1> DEFINE R == 0 .. prog.rounds - 1
           K == 0 .. prog.inner - 1
<1>2. IsFiniteSet(prog.writers) /\ Cardinality(prog.writers) \in Nat
  BY <1>1, ThreadsAssumption, FS_Subset, FS_CardinalityType
<1>3. IsFiniteSet(R) /\ Cardinality(R) = prog.rounds
  <2>1. 0 \in Int /\ prog.rounds - 1 \in Int /\ ~(0 > prog.rounds - 1)
    BY <1>1
  <2>2. IsFiniteSet(R) /\ Cardinality(R) = (prog.rounds - 1) - 0 + 1
    BY <2>1, FS_Interval
  <2> QED BY <1>1, <2>2
<1>4. IsFiniteSet(K) /\ Cardinality(K) = prog.inner
  <2>1. 0 \in Int /\ prog.inner - 1 \in Int /\ ~(0 > prog.inner - 1)
    BY <1>1
  <2>2. IsFiniteSet(K) /\ Cardinality(K) = (prog.inner - 1) - 0 + 1
    BY <2>1, FS_Interval
  <2> QED BY <1>1, <2>2
<1> HIDE DEF R, K
<1>5. IsFiniteSet(R \X K) /\ Cardinality(R \X K) = prog.rounds * prog.inner
  BY <1>3, <1>4, FS_Product
<1>6. /\ IsFiniteSet(Increments)
      /\ Cardinality(Increments) = Cardinality(prog.writers) * (prog.rounds * prog.inner)
  <2>1. Increments = prog.writers \X (R \X K)
    BY DEF Increments, R, K
  <2> QED BY <1>2, <1>5, <2>1, FS_Product
<1>7. IsFiniteSet(Done)
  BY <1>6, FS_Subset DEF Done
<1>8. \A a, b, c \in Nat : a * (b * c) = a * b * c
  OBVIOUS
<1> QED BY <1>1, <1>2, <1>6, <1>7, <1>8

(* In the beginning none is made.                                             *)
LEMMA InitCount == Init => CountInv
<1> SUFFICES ASSUME Init PROVE CountInv
  OBVIOUS
<1>1. Done = {}
  <2> SUFFICES ASSUME NEW d \in Increments, Made(d) PROVE FALSE
    BY DEF Done
  <2>1. d[1] \in Threads /\ d[2][1] \in Nat /\ d[2][2] \in Nat
    BY Disjoint DEF Init, Increments
  <2> QED BY <2>1 DEF Init, Made
<1> QED BY <1>1, FS_EmptySet DEF Init, CountInv

(* An increment under the lock is one that was not made before.               *)
LEMMA StoreCounts ==
    ASSUME IInv, CountInv, prog.locked, NEW t \in Threads, Store(t)
    PROVE  shared' = Cardinality(Done')
<1> DEFINE e == <<t, <<round[t], i[t]>>>>
<1>0. /\ prog.writers \in SUBSET Threads
      /\ prog.rounds \in Nat \ {0} /\ prog.inner \in Nat \ {0}
  BY Disjoint DEF IInv, TypeOK
<1>1. /\ t \in prog.writers /\ round[t] \in 0 .. prog.rounds - 1
      /\ i[t] \in 0 .. prog.inner - 1 /\ tmp[t] = shared
  BY <1>0 DEF IInv, TypeOK, HoldersInside, LoopsBounded, FreshWhenStored, Store
<1>2. e \in Increments /\ ~Made(e)
  <2>1. ~(round[t] < round[t]) /\ ~(i[t] < i[t])
    BY <1>0, <1>1
  <2> QED BY <1>1, <2>1 DEF Increments, Made
<1>3. UNCHANGED <<prog, round>> /\ i' = [i EXCEPT ![t] = @ + 1] /\ shared' = shared + 1
  BY <1>1 DEF Store
<1>4. Increments' = Increments
  BY <1>3 DEF Increments
<1>5. ASSUME NEW d \in Increments PROVE Made(d)' <=> Made(d) \/ d = e
  <2>1. /\ d = <<d[1], <<d[2][1], d[2][2]>>>> /\ d[1] \in Threads
        /\ d[2][1] \in Nat /\ d[2][2] \in Nat
    BY <1>0 DEF Increments
  <2>2. /\ i'[d[1]] = IF d[1] = t THEN i[t] + 1 ELSE i[d[1]]
        /\ round' = round
    BY <1>3, <2>1 DEF IInv, TypeOK
  <2>3. CASE d[1] # t
    BY <2>2, <2>3 DEF Made
  <2>4. CASE d[1] = t
    <3>1. d = e <=> d[2][1] = round[t] /\ d[2][2] = i[t]
      BY <2>1, <2>4
    <3>2. d[2][2] < i[t] + 1 <=> d[2][2] < i[t] \/ d[2][2] = i[t]
      BY <1>0, <1>1, <2>1
    <3>3. Made(d)' <=> d[2][1] < round[t] \/ (d[2][1] = round[t] /\ d[2][2] < i[t] + 1)
      BY <2>2, <2>4 DEF Made
    <3>4. Made(d) <=> d[2][1] < round[t] \/ (d[2][1] = round[t] /\ d[2][2] < i[t])
      BY <2>4 DEF Made
    <3> HIDE DEF e
    <3> QED BY <3>1, <3>2, <3>3, <3>4
  <2> QED BY <2>3, <2>4
<1>6. Done' = Done \cup {e} /\ e \notin Done
  BY <1>2, <1>4, <1>5 DEF Done
<1>7. Cardinality(Done \cup {e}) = Cardinality(Done) + 1
  BY <1>6, IncrementsFinite, FS_AddElement DEF IInv, TypeOK
<1> QED BY <1>3, <1>6, <1>7 DEF CountInv

(* The step to the next round makes no increment.                             *)
LEMMA UnlockCounts ==
    ASSUME IInv, CountInv, NEW t \in Threads, Unlock(t)
    PROVE  Done' = Done
<1>0. /\ prog.writers \in SUBSET Threads
      /\ prog.rounds \in Nat \ {0} /\ prog.inner \in Nat \ {0}
  BY Disjoint DEF IInv, TypeOK
<1>1. UNCHANGED prog /\ round' = [round EXCEPT ![t] = @ + 1] /\ i' = [i EXCEPT ![t] = 0]
  BY DEF Unlock
<1>2. Increments' = Increments
  BY <1>1 DEF Increments
<1>3. ASSUME NEW d \in Increments PROVE Made(d)' <=> Made(d)
  <2>1. /\ d[1] \in prog.writers /\ d[1] \in Threads
        /\ d[2][1] \in Nat /\ d[2][2] \in 0 .. prog.inner - 1
    BY <1>0 DEF Increments
  <2>2. CASE d[1] # t
    <3>1. i'[d[1]] = i[d[1]] /\ round'[d[1]] = round[d[1]]
      BY <1>1, <2>1, <2>2 DEF IInv, TypeOK
    <3> QED BY <3>1 DEF Made
  <2>3. CASE d[1] = t
    <3>1. i'[t] = 0 /\ round'[t] = round[t] + 1 /\ round[t] \in Nat
      BY <1>0, <1>1 DEF IInv, TypeOK
    <3>2. i[t] = prog.inner
      BY <2>1, <2>3 DEF CountInv, Unlock
    <3>3. Made(d)' <=> d[2][1] < round[t] + 1 \/ (d[2][1] = round[t] + 1 /\ d[2][2] < 0)
      BY <2>3, <3>1 DEF Made
    <3>4. Made(d) <=> d[2][1] < round[t] \/ (d[2][1] = round[t] /\ d[2][2] < prog.inner)
      BY <2>3, <3>2 DEF Made
    <3> QED BY <1>0, <2>1, <3>1, <3>3, <3>4
  <2> QED BY <2>2, <2>3
<1> QED BY <1>2, <1>3 DEF Done

(* The count is kept by every step.                                           *)
LEMMA StepCount == IInv /\ CountInv /\ [Next]_vars => CountInv'
<1> SUFFICES ASSUME IInv, CountInv, [Next]_vars PROVE CountInv'
  OBVIOUS
<1>0. /\ prog.writers \in SUBSET Threads /\ prog.readers \in SUBSET Threads
      /\ prog.rounds \in Nat \ {0} /\ prog.inner \in Nat \ {0}
      /\ \A t \in Threads : ~(t \in prog.writers /\ t \in prog.readers)
  BY Disjoint DEF IInv, TypeOK
<1> DEFINE Ends == \A t \in Threads :
                     /\ pc[t] # "new" => t \in Running
                     /\ pc[t] = "unlock" /\ t \in prog.writers => i[t] = prog.inner
                     /\ pc[t] = "done" => round[t] = prog.rounds
           Joined == main = "printed" => \A t \in Running : pc[t] = "done"
<1>1. ASSUME UNCHANGED <<prog, round, i, shared>>, Ends', Joined' PROVE CountInv'
  <2>1. Done' = Done
    BY <1>1 DEF Done, Made, Increments
  <2> QED BY <1>1, <2>1 DEF CountInv
<1>2. CASE UNCHANGED vars
  BY <1>1, <1>2 DEF vars, tvars, CountInv, Running
<1>3. CASE JoinAll
  BY <1>1, <1>3 DEF JoinAll, tvars, CountInv, Running
<1>4. ASSUME NEW t \in Threads, Create(t) \/ Thread(t) PROVE CountInv'
  <2>1. t \in Running
    BY <1>4 DEF CountInv, Create, Thread, CallLock, WriteLock, ReadLock, Load, Store, Read,
       Unlock, Running
  <2>2. pc[t] # "done" /\ UNCHANGED <<prog, main>> /\ Running' = Running
    BY <1>4 DEF Create, Thread, CallLock, WriteLock, ReadLock, Load, Store, Read, Unlock,
       Running
  <2>3. Joined'
    BY <2>1, <2>2 DEF CountInv
  <2>4. CASE Create(t) \/ CallLock(t) \/ WriteLock(t) \/ ReadLock(t) \/ Load(t)
    <3>1. PICK l \in {"start", "wait", "load", "read", "store"} : Goto(t, l)
      BY <2>4 DEF Create, CallLock, WriteLock, ReadLock, Load
    <3>2. UNCHANGED <<prog, round, i, shared>>
      BY <2>4 DEF Create, CallLock, WriteLock, ReadLock, Load
    <3>3. \A u \in Threads : pc'[u] = IF u = t THEN l ELSE pc[u]
      BY <3>1 DEF IInv, TypeOK, Goto
    <3>4. Ends'
      BY <2>1, <2>2, <3>2, <3>3 DEF CountInv
    <3> QED BY <1>1, <2>3, <3>2, <3>4
  <2>5. CASE Read(t)
    <3>1. UNCHANGED <<prog, round, i, shared>> /\ ~(t \in prog.writers)
      BY <1>0, <2>5 DEF Read, IInv, HoldersInside
    <3>2. \A u \in Threads : pc'[u] = IF u = t THEN "unlock" ELSE pc[u]
      BY <2>5 DEF Read, IInv, TypeOK, Goto
    <3>3. Ends'
      BY <2>1, <2>2, <3>1, <3>2 DEF CountInv
    <3> QED BY <1>1, <2>3, <3>1, <3>3
  <2>6. CASE Store(t)
    <3> DEFINE l == IF i[t] + 1 < prog.inner THEN "load" ELSE "unlock"
    <3>1. UNCHANGED <<prog, round>> /\ i' = [i EXCEPT ![t] = @ + 1]
      BY <2>6 DEF Store
    <3>2. i[t] \in Nat /\ i[t] < prog.inner
      BY <2>6, <1>0 DEF Store, IInv, TypeOK, LoopsBounded
    <3>3. /\ l \in {"load", "unlock"} /\ (l = "unlock" => i[t] + 1 = prog.inner)
          /\ \A u \in Threads : pc'[u] = IF u = t THEN l ELSE pc[u]
      BY <1>0, <2>6, <3>2 DEF Store, IInv, TypeOK, Goto
    <3> HIDE DEF l
    <3>4. \A u \in Threads : i'[u] = IF u = t THEN i[t] + 1 ELSE i[u]
      BY <3>1 DEF IInv, TypeOK
    <3>5. Ends'
      BY <2>1, <2>2, <3>1, <3>3, <3>4 DEF CountInv
    <3> QED BY <2>2, <2>3, <2>6, <3>5, StoreCounts DEF CountInv
  <2>7. CASE Unlock(t)
    <3> DEFINE l == IF round[t] + 1 < prog.rounds THEN "start" ELSE "done"
    <3>1. /\ UNCHANGED <<prog, shared>> /\ round' = [round EXCEPT ![t] = @ + 1]
          /\ i' = [i EXCEPT ![t] = 0]
      BY <2>7 DEF Unlock
    <3>2. round[t] \in Nat /\ round[t] < prog.rounds
      BY <2>7, <1>0 DEF Unlock, IInv, TypeOK, LoopsBounded
    <3>3. /\ l \in {"start", "done"} /\ (l = "done" => round[t] + 1 = prog.rounds)
          /\ \A u \in Threads : pc'[u] = IF u = t THEN l ELSE pc[u]
      BY <1>0, <2>7, <3>2 DEF Unlock, IInv, TypeOK, Goto
    <3> HIDE DEF l
    <3>4. \A u \in Threads : /\ round'[u] = IF u = t THEN round[t] + 1 ELSE round[u]
                             /\ u # t => i'[u] = i[u]
      BY <3>1 DEF IInv, TypeOK
    <3>5. Ends'
      BY <2>1, <2>2, <3>1, <3>3, <3>4 DEF CountInv
    <3>6. Done' = Done
      BY <2>7, UnlockCounts
    <3> QED BY <2>2, <2>3, <3>1, <3>5, <3>6 DEF CountInv
  <2> QED BY <1>4, <2>4, <2>5, <2>6, <2>7 DEF Thread
<1> QED BY <1>2, <1>3, <1>4 DEF Next

(* What a locking program prints is the exact total.                          *)
THEOREM Total == Spec => []Exact
<1>1. ASSUME IInv, CountInv PROVE Exact
  <2> SUFFICES ASSUME prog.locked, main = "printed"
      PROVE  shared = Cardinality(prog.writers) * prog.rounds * prog.inner
    BY DEF Exact
  <2>0. prog \in Programs /\ prog.writers \in SUBSET Threads /\ prog.rounds \in Nat
    BY <1>1, Disjoint DEF IInv, TypeOK
  <2>1. \A t \in prog.writers : round[t] = prog.rounds
    BY <1>1, <2>0 DEF CountInv, Running
  <2>2. ASSUME NEW d \in Increments PROVE Made(d)
    <3>1. d[1] \in prog.writers /\ d[2][1] \in 0 .. prog.rounds - 1
      BY DEF Increments
    <3> QED BY <2>0, <2>1, <3>1 DEF Made
  <2>3. Done = Increments
    BY <2>2 DEF Done
  <2> QED BY <1>1, <2>0, <2>3, IncrementsFinite DEF CountInv
<1> QED BY InitIInv, StepIInv, InitCount, StepCount, <1>1, PTL DEF Spec

-----------------------------------------------------------------------------
(* Nobody waits for nobody.                                                   *)

(* The lock is held only by those on their way to unlock.                     *)
HoldersWork ==
    /\ \A t \in holder : pc[t] \in Inside
    /\ \A t \in reading : pc[t] \in {"read", "unlock"}

(* The lock is free for t, a writer or a reader.                              *)
Admits(t) ==
    \/ t \in prog.writers /\ (prog.locked => holder = {} /\ reading = {})
    \/ /\ t \in prog.readers /\ holder = {}
       /\ prog.writerFirst => \A w \in prog.writers : pc[w] # "wait"

(* Until the result is printed there is a thread that need not wait, or the   *)
(* lock admits one that does, or all are done and main's joins return.        *)
NotAllWaiting ==
    main = "create" =>
        \/ \E t \in Running : pc[t] \notin {"wait", "done"}
        \/ \E t \in Running : pc[t] = "wait" /\ Admits(t)
        \/ \A t \in Running : pc[t] = "done"

(* A lock is taken on entering the critical section and given back on leaving *)
(* it, from whichever side it was taken.                                      *)
LEMMA HoldersKeepWorking == IInv /\ HoldersWork /\ [Next]_vars => HoldersWork'
<1> SUFFICES ASSUME IInv, HoldersWork, [Next]_vars PROVE HoldersWork'
  OBVIOUS
<1>0. /\ prog.writers \in SUBSET Threads /\ prog.readers \in SUBSET Threads
      /\ pc \in [Threads -> {"new", "start", "wait", "load", "store", "read", "unlock", "done"}]
      /\ holder \in SUBSET Threads /\ reading \in SUBSET Threads
      /\ \A t \in Threads : ~(t \in prog.writers /\ t \in prog.readers)
      /\ \A t \in holder : t \in prog.writers
      /\ \A t \in reading : t \in prog.readers
      /\ \A t \in Threads : pc[t] \in {"load", "store"} => t \in prog.writers
  BY Disjoint DEF IInv, TypeOK, HoldersInside
<1> USE DEF HoldersWork, Inside
<1>1. CASE UNCHANGED vars
  BY <1>1 DEF vars, tvars
<1>2. CASE JoinAll
  BY <1>2 DEF JoinAll, tvars
<1>3. ASSUME NEW t \in Threads, Create(t) \/ CallLock(t) PROVE HoldersWork'
  BY <1>0, <1>3 DEF Create, CallLock, Goto
<1>4. ASSUME NEW t \in Threads, WriteLock(t) PROVE HoldersWork'
  BY <1>0, <1>4 DEF WriteLock, Goto
<1>5. ASSUME NEW t \in Threads, ReadLock(t) PROVE HoldersWork'
  BY <1>0, <1>5 DEF ReadLock, Goto
<1>6. ASSUME NEW t \in Threads, Load(t) PROVE HoldersWork'
  BY <1>0, <1>6 DEF Load, Goto
<1>7. ASSUME NEW t \in Threads, Store(t) PROVE HoldersWork'
  BY <1>0, <1>7 DEF Store, Goto
<1>8. ASSUME NEW t \in Threads, Read(t) PROVE HoldersWork'
  BY <1>0, <1>8 DEF Read, Goto
<1>9. ASSUME NEW t \in Threads, Unlock(t) PROVE HoldersWork'
  BY <1>0, <1>9 DEF Unlock, Goto
<1> QED
  BY <1>1, <1>2, <1>3, <1>4, <1>5, <1>6, <1>7, <1>8, <1>9 DEF Next, Thread

(* If all that are left wait, nobody holds the lock; then it admits a writer, *)
(* or a reader if no writer waits.                                            *)
LEMMA LockAdmits == IInv /\ HoldersWork => NotAllWaiting
<1> SUFFICES ASSUME IInv, HoldersWork,
                    \A t \in Running : pc[t] \in {"wait", "done"},
                    NEW t \in Running, pc[t] = "wait"
             PROVE  \E u \in Running : pc[u] = "wait" /\ Admits(u)
  BY DEF NotAllWaiting
<1>1. holder = {} /\ reading = {}
  BY DEF IInv, HoldersInside, HoldersWork, Inside, Running
<1>2. CASE \E w \in prog.writers : pc[w] = "wait"
  BY <1>1, <1>2 DEF Admits, Running
<1>3. CASE \A w \in prog.writers : pc[w] # "wait"
  BY <1>1, <1>3 DEF Admits, Running
<1> QED BY <1>2, <1>3

(* Mutex, spinlock, semaphore or rwlock, whichever side it prefers: threads   *)
(* and main never all wait for one another.                                   *)
THEOREM NoDeadlock == Spec => []NotAllWaiting
<1>1. Init => IInv /\ HoldersWork
  BY InitIInv DEF Init, HoldersWork
<1>2. (IInv /\ HoldersWork) /\ [Next]_vars => (IInv /\ HoldersWork)'
  BY StepIInv, HoldersKeepWorking
<1> QED BY <1>1, <1>2, LockAdmits, PTL DEF Spec

-----------------------------------------------------------------------------
(* The refinement.                                                            *)

(* A turn within the loops: the increments made before it are fewer than all. *)
LEMMA TurnsLeft ==
    ASSUME NEW R \in Nat, NEW K \in Nat, NEW r \in Nat, NEW k \in Nat, r < R, k <= K
    PROVE  /\ R * K - (r * K + k) \in Nat
           /\ k < K => R * K - (r * K + k) > 0
<1>1. PICK e \in Nat : R = r + 1 + e
  <2>1. R - (r + 1) \in Nat /\ R = r + 1 + (R - (r + 1))
    OBVIOUS
  <2> QED BY <2>1
<1>2. R * K = r * K + K + e * K
  BY <1>1
<1>3. e * K \in Nat /\ r * K \in Nat
  OBVIOUS
<1> QED BY <1>2, <1>3

(* What a thread owes, by where it is.                                        *)
LEMMA OwedFacts ==
    ASSUME IInv, CountInv, NEW t \in Threads
    PROVE  /\ Owed(t) \in Nat
           /\ prog.locked /\ pc[t] \in {"load", "store"} => Owed(t) > 0
           /\ (t \in Running => pc[t] = "done") => Owed(t) = 0
<1>1. CASE prog.locked /\ t \in prog.writers
  <2> DEFINE R == prog.rounds
             K == prog.inner
  <2>0. R \in Nat /\ K \in Nat /\ R # 0 /\ K # 0 /\ round[t] \in 0 .. R /\ i[t] \in 0 .. K
    BY Disjoint DEF IInv, TypeOK
  <2>1. Owed(t) = R * K - (round[t] * K + i[t])
    BY <1>1 DEF Owed
  <2>2. /\ pc[t] # "done" => round[t] < R
        /\ pc[t] \in {"new", "start", "wait"} => i[t] = 0
        /\ pc[t] \in {"load", "store"} => i[t] < K
        /\ pc[t] = "unlock" => i[t] = K
        /\ pc[t] = "done" => round[t] = R /\ i[t] = 0
        /\ pc[t] \in {"new", "start", "wait", "load", "store", "unlock", "done"}
        /\ t \in Running
    <3>1. pc[t] # "read"
      BY <1>1, Disjoint DEF IInv, TypeOK, HoldersInside
    <3>2. pc[t] \in {"new", "start", "wait", "load", "store", "read", "unlock", "done"}
      BY DEF IInv, TypeOK
    <3> QED BY <1>1, <3>1, <3>2 DEF IInv, LoopsBounded, CountInv, Running
  <2> HIDE DEF R, K
  <2>3. CASE pc[t] \in {"new", "start", "wait", "load", "store"}
    <3>1. round[t] < R /\ i[t] < K
      BY <2>0, <2>2, <2>3
    <3> QED BY <2>0, <2>1, <2>2, <2>3, <3>1, TurnsLeft
  <2>4. CASE pc[t] = "unlock"
    <3>1. R * K - (round[t] * K + K) \in Nat
      BY <2>0, <2>2, <2>4, TurnsLeft
    <3> QED BY <2>1, <2>2, <2>4, <3>1
  <2>5. CASE pc[t] = "done"
    <3>1. R * K \in Nat /\ Owed(t) = R * K - (R * K + 0)
      BY <2>0, <2>1, <2>2, <2>5
    <3> QED BY <2>5, <3>1
  <2> QED BY <2>2, <2>3, <2>4, <2>5
<1>2. CASE ~(prog.locked /\ t \in prog.writers)
  <2>1. Owed(t) = 0
    BY <1>2 DEF Owed
  <2>2. ~(prog.locked /\ pc[t] \in {"load", "store"})
    BY <1>2 DEF IInv, HoldersInside
  <2> QED BY <2>1, <2>2
<1> QED BY <1>1, <1>2

(* An increment: the writer that stores owes one less, nobody else changes.   *)
LEMMA StoreIncrements ==
    ASSUME IInv, CountInv, prog.locked, NEW t \in Threads, Store(t)
    PROVE  Atomic!Increment(t)
<1>1. Owed(t) \in Nat /\ Owed(t) > 0
  BY OwedFacts DEF Store
<1>2. /\ UNCHANGED <<prog, main, round>> /\ shared' = tmp[t] + 1
      /\ i' = [i EXCEPT ![t] = @ + 1] /\ i \in [Threads -> 0 .. prog.inner]
  BY DEF Store, IInv, TypeOK
<1>3. shared' = shared + 1
  BY <1>2 DEF IInv, FreshWhenStored, Store
<1>4. \A u \in Threads : u # t => Owed(u)' = Owed(u)
  BY <1>2 DEF Owed
<1>5. Owed(t)' = Owed(t) - 1
  <2>1. t \in prog.writers /\ i'[t] = i[t] + 1
    BY <1>2 DEF IInv, HoldersInside, Store
  <2>2. /\ prog.rounds * prog.inner \in Int /\ round[t] * prog.inner \in Int /\ i[t] \in Int
    BY Disjoint DEF IInv, TypeOK
  <2>3. /\ Owed(t) = prog.rounds * prog.inner - (round[t] * prog.inner + i[t])
        /\ Owed(t)' = prog.rounds * prog.inner - (round[t] * prog.inner + (i[t] + 1))
    BY <1>2, <2>1 DEF Owed
  <2> DEFINE a == prog.rounds * prog.inner
             b == round[t] * prog.inner
  <2> HIDE DEF a, b
  <2> QED BY <2>2, <2>3 DEF a, b
<1>6. [u \in Threads |-> Owed(u)]' = [[u \in Threads |-> Owed(u)] EXCEPT ![t] = @ - 1]
  BY <1>4, <1>5
<1> QED BY <1>1, <1>2, <1>3, <1>6 DEF Atomic!Increment

(* Nothing else is seen: the value and what everybody owes stay.              *)
LEMMA NothingElse ==
    ASSUME IInv, CountInv, [Next]_vars, ~JoinAll, \A t \in Threads : ~Store(t) \/ ~prog.locked
    PROVE  /\ UNCHANGED <<prog, main>> /\ (prog.locked => UNCHANGED shared)
           /\ \A u \in Threads : Owed(u)' = Owed(u)
<1>1. CASE UNCHANGED vars
  BY <1>1 DEF vars, tvars, Owed
<1>2. ASSUME NEW t \in Threads, Create(t) \/ Thread(t), ~Unlock(t), ~Store(t)
      PROVE  UNCHANGED <<prog, main, shared, round, i>>
  BY <1>2 DEF Create, Thread, CallLock, WriteLock, ReadLock, Load, Read
<1>3. ASSUME NEW t \in Threads, Store(t), ~prog.locked
      PROVE  UNCHANGED <<prog, main>>
  BY <1>3 DEF Store
<1>4. ASSUME NEW t \in Threads, Unlock(t)
      PROVE  /\ UNCHANGED <<prog, main, shared>>
             /\ \A u \in Threads : Owed(u)' = Owed(u)
  <2>1. /\ UNCHANGED <<prog, main, shared>>
        /\ round' = [round EXCEPT ![t] = @ + 1] /\ i' = [i EXCEPT ![t] = 0]
    BY <1>4 DEF Unlock
  <2>2. round \in [Threads -> 0 .. prog.rounds] /\ i \in [Threads -> 0 .. prog.inner]
    BY DEF IInv, TypeOK
  <2>3. \A u \in Threads : u # t => Owed(u)' = Owed(u)
    BY <2>1 DEF Owed
  <2>4. CASE t \in prog.writers
    <3>1. i[t] = prog.inner /\ prog.inner \in Nat /\ round[t] \in Nat
      BY <1>4, <2>2, <2>4, Disjoint DEF CountInv, Unlock, IInv, TypeOK
    <3>2. round'[t] = round[t] + 1 /\ i'[t] = 0
      BY <2>1, <2>2
    <3>3. (round[t] + 1) * prog.inner + 0 = round[t] * prog.inner + prog.inner
      BY <3>1
    <3>4. Owed(t)' = Owed(t)
      BY <2>1, <3>1, <3>2, <3>3 DEF Owed
    <3> QED BY <2>1, <2>3, <3>4
  <2>5. CASE t \notin prog.writers
    <3>1. Owed(t)' = Owed(t)
      BY <2>1, <2>5 DEF Owed
    <3> QED BY <2>1, <2>3, <3>1
  <2> QED BY <2>4, <2>5
<1>5. ASSUME UNCHANGED <<prog, main, shared, round, i>>
      PROVE  \A u \in Threads : Owed(u)' = Owed(u)
  BY <1>5 DEF Owed
<1>6. ASSUME UNCHANGED prog, ~prog.locked
      PROVE  \A u \in Threads : Owed(u)' = Owed(u)
  BY <1>6 DEF Owed
<1> QED BY <1>1, <1>2, <1>3, <1>4, <1>5, <1>6 DEF Next

(* The programs that lock are a counter with an atomic increment, whatever    *)
(* the lock, and however the threads' loads and stores interleave.            *)
THEOREM Refinement == Spec => CounterSpec
<1>1. Init => Atomic!Init
  <2> SUFFICES ASSUME Init PROVE Atomic!Init
    OBVIOUS
  <2>1. \A t \in Threads : Owed(t) \in Nat
    BY InitIInv, InitCount, OwedFacts
  <2> QED BY <2>1 DEF Init, Atomic!Init
<1>2. ASSUME IInv, CountInv, [Next]_vars PROVE [Atomic!Next]_(Atomic!vars)
  <2>1. CASE JoinAll
    <3>1. UNCHANGED <<prog, round, i, shared>> /\ main = "create" /\ main' = "printed"
      BY <2>1 DEF JoinAll, tvars
    <3>2. \A t \in Threads : Owed(t)' = Owed(t) /\ Owed(t) = 0
      <4>1. \A t \in Threads : Owed(t)' = Owed(t)
        BY <3>1 DEF Owed
      <4>2. \A t \in Threads : Owed(t) = 0
        BY <1>2, <2>1, OwedFacts DEF JoinAll
      <4> QED BY <4>1, <4>2
    <3>3. CASE prog.locked
      BY <3>1, <3>2, <3>3 DEF Atomic!Next, Atomic!PrintResult
    <3>4. CASE ~prog.locked
      BY <3>1, <3>2, <3>4 DEF Atomic!vars
    <3> QED BY <3>3, <3>4
  <2>2. ASSUME NEW t \in Threads, Store(t), prog.locked PROVE Atomic!Next
    BY <1>2, <2>2, StoreIncrements DEF Atomic!Next
  <2>3. CASE ~JoinAll /\ \A t \in Threads : ~Store(t) \/ ~prog.locked
    <3>1. /\ UNCHANGED <<prog, main>> /\ (prog.locked => UNCHANGED shared)
          /\ \A u \in Threads : Owed(u)' = Owed(u)
      BY <1>2, <2>3, NothingElse
    <3> QED BY <3>1 DEF Atomic!vars
  <2> QED BY <2>1, <2>2, <2>3
<1> QED BY InitIInv, StepIInv, InitCount, StepCount, <1>1, <1>2, PTL DEF Spec, CounterSpec, Atomic!Spec
====
