---- MODULE LockedCounter ----
(* The programs of chapter04 in which threads, or a parent and its child,     *)
(* increment one shared integer: under a mutex, a spinlock, a binary          *)
(* semaphore, the write side of a read-write lock, or under nothing. They     *)
(* differ in what a Program record says; an increment is a load and a store.  *)
(* For its users a mutex, a spinlock and a semaphore of value 1 are one thing:*)
(* a lock with one holder. LockPrograms lists the programs.                   *)
EXTENDS Integers, FiniteSets

CONSTANTS Threads,
          Programs

(* What a program is: who writes and who reads, how often each locks, how     *)
(* many increments one critical section holds, whether the writers lock, and  *)
(* whether the lock makes new readers wait for a waiting writer.              *)
Program == [writers : SUBSET Threads, readers : SUBSET Threads,
            rounds : Nat \ {0}, inner : Nat \ {0},
            locked : BOOLEAN, writerFirst : BOOLEAN]

(* A program has finitely many threads.                                       *)
ASSUME ThreadsAssumption == IsFiniteSet(Threads)

ASSUME ProgramAssumption ==
    /\ Programs \subseteq Program
    /\ \A p \in Programs : p.writers \cap p.readers = {} /\ p.writers \cup p.readers # {}

VARIABLES prog,      \* the program that runs
          main,
          pc, round, i, tmp,   \* of each thread
          shared,    \* the shared integer
          holder,    \* who holds the lock for writing
          reading    \* who holds it for reading

tvars == <<pc, round, i, tmp>>
vars == <<prog, main, tvars, shared, holder, reading>>

Init == /\ prog \in Programs
        /\ main = "create"
        /\ pc = [t \in Threads |-> "new"]
        /\ round = [t \in Threads |-> 0]
        /\ i = [t \in Threads |-> 0]
        /\ tmp = [t \in Threads |-> 0]
        /\ shared = 0
        /\ holder = {}
        /\ reading = {}

Goto(t, l) == pc' = [pc EXCEPT ![t] = l]
Running == prog.writers \cup prog.readers

-----------------------------------------------------------------------------
(* main: the threads are created, in any order as far as their work goes, and *)
(* all of them joined before the result is printed.                           *)
Create(t) ==
    /\ main = "create"
    /\ t \in Running /\ pc[t] = "new"
    /\ Goto(t, "start")
    /\ UNCHANGED <<prog, main, round, i, tmp, shared, holder, reading>>

(* Mutant: the result is printed when the writers are only created.           *)
JoinForgotten ==
    /\ main = "create"
    /\ \A t \in Running : pc[t] # "new"
    /\ main' = "printed"
    /\ UNCHANGED <<prog, tvars, shared, holder, reading>>

JoinAll ==
    /\ main = "create"
    /\ \A t \in Running : pc[t] = "done"
    /\ main' = "printed"
    /\ UNCHANGED <<prog, tvars, shared, holder, reading>>

-----------------------------------------------------------------------------
(* Writers and readers.                                                       *)

(* The lock function is called, and the lock knows of it: the thread waits.   *)
CallLock(t) ==
    /\ t \in Running /\ pc[t] = "start"
    /\ Goto(t, "wait")
    /\ UNCHANGED <<prog, main, round, i, tmp, shared, holder, reading>>

(* Mutant: the writer takes the read side of the lock.                        *)
WriterTakesReadSide(t) ==
    /\ t \in prog.writers /\ pc[t] = "wait"
    /\ holder = {}
    /\ IF prog.locked THEN reading' = reading \cup {t} ELSE UNCHANGED reading
    /\ Goto(t, "load")
    /\ UNCHANGED <<prog, main, round, i, tmp, shared, holder>>

(* A writer without lock just goes on.                                        *)
WriteLock(t) ==
    /\ t \in prog.writers /\ pc[t] = "wait"
    /\ IF prog.locked
       THEN holder = {} /\ reading = {} /\ holder' = {t}
       ELSE UNCHANGED holder
    /\ Goto(t, "load")
    /\ UNCHANGED <<prog, main, round, i, tmp, shared, reading>>

(* A lock that puts writers first turns a reader away only while other        *)
(* readers hold it: a free one goes to whoever is first.                      *)
ReadLock(t) ==
    /\ t \in prog.readers /\ pc[t] = "wait"
    /\ holder = {}
    /\ prog.writerFirst /\ reading # {} => \A w \in prog.writers : pc[w] # "wait"
    /\ reading' = reading \cup {t}
    /\ Goto(t, "read")
    /\ UNCHANGED <<prog, main, round, i, tmp, shared, holder>>

Load(t) ==
    /\ pc[t] = "load"
    /\ tmp' = [tmp EXCEPT ![t] = shared]
    /\ Goto(t, "store")
    /\ UNCHANGED <<prog, main, round, i, shared, holder, reading>>

(* shared_data = tmp + 1, and the inner loop.                                 *)
Store(t) ==
    /\ pc[t] = "store"
    /\ shared' = tmp[t] + 1
    /\ i' = [i EXCEPT ![t] = @ + 1]
    /\ Goto(t, IF i[t] + 1 < prog.inner THEN "load" ELSE "unlock")
    /\ UNCHANGED <<prog, main, round, tmp, holder, reading>>

(* shared_data is used twice (printed, or compared) without being written.    *)
Read(t) ==
    /\ pc[t] = "read"
    /\ tmp' = [tmp EXCEPT ![t] = shared]
    /\ Goto(t, "unlock")
    /\ UNCHANGED <<prog, main, round, i, shared, holder, reading>>

(* Mutant: the lock is not released.                                          *)
UnlockForgotten(t) ==
    /\ pc[t] = "unlock"
    /\ round' = [round EXCEPT ![t] = @ + 1]
    /\ i' = [i EXCEPT ![t] = 0]
    /\ Goto(t, IF round[t] + 1 < prog.rounds THEN "start" ELSE "done")
    /\ UNCHANGED <<prog, main, tmp, shared, holder, reading>>

(* Unlock, and the next round.                                                *)
Unlock(t) ==
    /\ pc[t] = "unlock"
    /\ holder' = holder \ {t}
    /\ reading' = reading \ {t}
    /\ round' = [round EXCEPT ![t] = @ + 1]
    /\ i' = [i EXCEPT ![t] = 0]
    /\ Goto(t, IF round[t] + 1 < prog.rounds THEN "start" ELSE "done")
    /\ UNCHANGED <<prog, main, tmp, shared>>

Thread(t) == \/ CallLock(t) \/ WriteLock(t) \/ ReadLock(t)
             \/ Load(t) \/ Store(t) \/ Read(t) \/ Unlock(t)

-----------------------------------------------------------------------------
Next == JoinAll \/ \E t \in Threads : Create(t) \/ Thread(t)

Spec == Init /\ [][Next]_vars

(* Threads are scheduled, and a lock that stays free is acquired.             *)
FairSpec == /\ Spec
            /\ WF_vars(JoinAll)
            /\ \A t \in Threads : WF_vars(Create(t)) /\ WF_vars(Thread(t))

-----------------------------------------------------------------------------
(* Types of the variables.                                                    *)
TypeOK ==
    /\ prog \in Programs
    /\ main \in {"create", "printed"}
    /\ pc \in [Threads -> {"new", "start", "wait", "load", "store", "read", "unlock", "done"}]
    /\ round \in [Threads -> 0 .. prog.rounds]
    /\ i \in [Threads -> 0 .. prog.inner]
    /\ tmp \in [Threads -> Nat]
    /\ shared \in Nat
    /\ holder \in SUBSET Threads
    /\ reading \in SUBSET Threads

(* The value is the expected one when the program prints it.                  *)
Exact ==
    prog.locked /\ main = "printed" =>
        shared = Cardinality(prog.writers) * prog.rounds * prog.inner

(* The increments a thread's loops have still to make. A program that does    *)
(* not lock promises nothing; it is seen as a counter nobody increments.      *)
Owed(t) == IF prog.locked /\ t \in prog.writers
           THEN prog.rounds * prog.inner - (round[t] * prog.inner + i[t]) ELSE 0

Atomic == INSTANCE AtomicCounter WITH
             value <- IF prog.locked THEN shared ELSE 0,
             owed <- [t \in Threads |-> Owed(t)],
             printed <- prog.locked /\ main = "printed"

(* Under the lock a load and its store are one increment: what is stored is   *)
(* the present value plus one, whatever the others did since the load; no     *)
(* other step changes the value, and it is printed when all are made.         *)
CounterSpec == Atomic!Spec

(* While a reader reads, no step changes what it reads.                       *)
ReadersUndisturbed ==
    [][prog.locked /\ (\E t \in Threads : pc[t] = "read") => UNCHANGED shared]_vars

(* The program ends: whoever waits for the lock gets it.                      *)
Terminates == <>(main = "printed")

(* "while a writer waits new readers are blocked" (rwlockattr_solution.c,     *)
(* lines 23 and 31, of PTHREAD_RWLOCK_PREFER_WRITER_NP): while readers hold   *)
(* the lock and a writer waits for them, no further reader joins them.        *)
WaitingWriterStopsReaders ==
    [][reading # {} /\ (\E w \in prog.writers : pc[w] = "wait")
          => reading' \subseteq reading]_vars
====
