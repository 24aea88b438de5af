---- MODULE LockPrograms ----
(* The programs LockedCounter stands for. Thread, round and loop counts are   *)
(* scaled down (bounds: three writers, two readers, two rounds); the structure*)
(* is that of the file: who locks, what one critical section holds, and the   *)
(* kind of the read-write lock. The C library treats PREFER_WRITER_NP like    *)
(* PREFER_READER_NP; only the NONRECURSIVE kind puts waiting writers first.   *)
EXTENDS LockedCounter

AllThreads == {"w1", "w2", "w3", "r1", "r2"}

Counter(ws, n, k) == [writers |-> ws, readers |-> {}, rounds |-> n, inner |-> k,
                      locked |-> TRUE, writerFirst |-> FALSE]
ReadersWriters(ws, first) == [Counter(ws, 2, 1) EXCEPT !.readers = {"r1", "r2"},
                                                       !.writerFirst = first]
Unlocked(p) == [p EXCEPT !.locked = FALSE]

Two == {"w1", "w2"}
Three == {"w1", "w2", "w3"}

RaceConditionTest == Unlocked(Counter(Three, 1, 1))
RaceConditionMutexTest == Counter(Three, 1, 1)
ThreadSumExample == Counter(Two, 1, 2)     \* the whole loop under the mutex
SpinlockSimpleDemo == Counter(Three, 2, 1)
SpinlockWorker == Counter(Two, 2, 1)
MutexWorker == Counter(Two, 2, 1)
ShortCritical == Counter(Two, 2, 1)
LongCritical == Counter(Two, 2, 1)
SignalStudyDefine == Counter(Three, 1, 1)  \* a semaphore of value 1
UnnamedSemBinProcess == Counter(Two, 1, 1) \* parent and child, shared memory
UnnamedSemBinProcessCondition == Unlocked(Counter(Two, 1, 1))
RwlockTestWriterUnlock == Unlocked(ReadersWriters(Two, FALSE))
RwlockTest2 == ReadersWriters(Two, FALSE)
RwlockTest3 == ReadersWriters(Two, FALSE)
RwlockattrSolution == ReadersWriters(Two, FALSE)
RwlockattrComparison == {ReadersWriters(Two, first) : first \in BOOLEAN}
WriterStarvationDemo == [ReadersWriters(Two, FALSE) EXCEPT !.rounds = 1]

AllPrograms ==
    RwlockattrComparison \cup
    {RaceConditionTest, RaceConditionMutexTest, ThreadSumExample, SpinlockSimpleDemo,
     SpinlockWorker, MutexWorker, ShortCritical, LongCritical, SignalStudyDefine,
     UnnamedSemBinProcess, UnnamedSemBinProcessCondition, RwlockTestWriterUnlock,
     RwlockTest2, RwlockTest3, RwlockattrSolution, WriterStarvationDemo}

WriterPreferring == {RwlockattrSolution}
====
