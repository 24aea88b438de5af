---- MODULE AtomicCounter ----
(* What the counter programs of chapter04 that lock promise, without locks,   *)
(* loads and stores: an integer that is incremented in one step. Each thread  *)
(* owes some increments, and the result is printed once, when none is owed.   *)
EXTENDS Integers

CONSTANT Threads

VARIABLES value,
          owed,      \* the increments each thread has still to make
          printed

vars == <<value, owed, printed>>

Init == value = 0 /\ owed \in [Threads -> Nat] /\ ~printed

Increment(t) == /\ owed[t] > 0
                /\ owed' = [owed EXCEPT ![t] = @ - 1]
                /\ value' = value + 1
                /\ UNCHANGED printed

PrintResult ==
    /\ \A t \in Threads : owed[t] = 0
    /\ ~printed /\ printed'
    /\ UNCHANGED <<value, owed>>

Next == PrintResult \/ \E t \in Threads : Increment(t)

Spec == Init /\ [][Next]_vars
====
