---- MODULE SemHandoff ----
(* chapter04/src/unnamed_sem_count_thread.c: a producer and a consumer thread *)
(* pass Rounds numbers through one shared variable, guarded by the counting   *)
(* semaphores empty (initially 1) and full (initially 0) and by nothing else. *)
EXTENDS Integers, Sequences

CONSTANTS Rounds,   \* iterations of both loops (5 in the code)
          Values    \* what rand_num may return

ASSUME RoundsAssumption == Rounds \in Nat
ASSUME ValuesAssumption == Values \subseteq Int

VARIABLES empty, full,    \* the semaphores
          shared_num,     \* the shared variable
          prod, cons,     \* the statement each thread is at
          main,           \* main's progress through its joins
          produced,       \* the numbers written, in order
          received        \* the numbers the consumer printed, in order

vars == <<empty, full, shared_num, prod, cons, main, produced, received>>

Init == /\ empty = 1
        /\ full = 0
        /\ shared_num = 0
        /\ prod = "loop"
        /\ cons = "loop"
        /\ main = "join_p"
        /\ produced = <<>>
        /\ received = <<>>

-----------------------------------------------------------------------------
(* producer_func                                                              *)

(* Mutant: the producer waits on the wrong semaphore's initial count.         *)
ProducerWaitTry ==
    /\ prod = "loop"
    /\ Len(produced) < Rounds
    /\ empty' = IF empty > 0 THEN empty - 1 ELSE 0
    /\ prod' = "write"
    /\ UNCHANGED <<full, shared_num, cons, main, produced, received>>

(* for(i < 5) sem_wait(empty)                                                 *)
ProducerWait ==
    /\ prod = "loop"
    /\ Len(produced) < Rounds
    /\ empty > 0
    /\ empty' = empty - 1
    /\ prod' = "write"
    /\ UNCHANGED <<full, shared_num, cons, main, produced, received>>

(* sleep(1); shared_num = rand_num()                                          *)
ProducerWrite ==
    /\ prod = "write"
    /\ \E v \in Values : /\ shared_num' = v
                         /\ produced' = Append(produced, v)
    /\ prod' = "post"
    /\ UNCHANGED <<empty, full, cons, main, received>>

ProducerPost ==
    /\ prod = "post"
    /\ full' = full + 1
    /\ prod' = "loop"
    /\ UNCHANGED <<empty, shared_num, cons, main, produced, received>>

ProducerEnds ==
    /\ prod = "loop"
    /\ Len(produced) = Rounds
    /\ prod' = "done"
    /\ UNCHANGED <<empty, full, shared_num, cons, main, produced, received>>

-----------------------------------------------------------------------------
(* consumer_func                                                              *)

(* Mutant: the consumer frees the slot before it reads it.                    *)
ConsumerWaitPosts ==
    /\ cons = "loop"
    /\ Len(received) < Rounds
    /\ full > 0
    /\ full' = full - 1
    /\ empty' = empty + 1
    /\ cons' = "read"
    /\ UNCHANGED <<shared_num, prod, main, produced, received>>

ConsumerWait ==
    /\ cons = "loop"
    /\ Len(received) < Rounds
    /\ full > 0
    /\ full' = full - 1
    /\ cons' = "read"
    /\ UNCHANGED <<empty, shared_num, prod, main, produced, received>>

(* sleep(1); the number is printed                                            *)
ConsumerRead ==
    /\ cons = "read"
    /\ received' = Append(received, shared_num)
    /\ cons' = "post"
    /\ UNCHANGED <<empty, full, shared_num, prod, main, produced>>

(* Mutant: the consumer posts the semaphore it waits on.                      *)
ConsumerPostFull ==
    /\ cons = "post"
    /\ full' = full + 1
    /\ cons' = "loop"
    /\ UNCHANGED <<empty, shared_num, prod, main, produced, received>>

ConsumerPost ==
    /\ cons = "post"
    /\ empty' = empty + 1
    /\ cons' = "loop"
    /\ UNCHANGED <<full, shared_num, prod, main, produced, received>>

ConsumerEnds ==
    /\ cons = "loop"
    /\ Len(received) = Rounds
    /\ cons' = "done"
    /\ UNCHANGED <<empty, full, shared_num, prod, main, produced, received>>

-----------------------------------------------------------------------------
(* main joins the producer, then the consumer, and destroys the semaphores.   *)
MainJoins ==
    \/ /\ main = "join_p" /\ prod = "done"
       /\ main' = "join_c"
       /\ UNCHANGED <<empty, full, shared_num, prod, cons, produced, received>>
    \/ /\ main = "join_c" /\ cons = "done"
       /\ main' = "done"
       /\ UNCHANGED <<empty, full, shared_num, prod, cons, produced, received>>

Producer == ProducerWait \/ ProducerWrite \/ ProducerPost \/ ProducerEnds
Consumer == ConsumerWait \/ ConsumerRead \/ ConsumerPost \/ ConsumerEnds

Next == Producer \/ Consumer \/ MainJoins

Spec == Init /\ [][Next]_vars

(* Every runnable thread is scheduled.                                        *)
Fairness == WF_vars(Producer) /\ WF_vars(Consumer) /\ WF_vars(MainJoins)

FairSpec == Spec /\ Fairness

-----------------------------------------------------------------------------
(* Types of the variables; both semaphores stay binary.                       *)
TypeOK ==
    /\ empty \in 0 .. 1
    /\ full \in 0 .. 1
    /\ shared_num \in Values \cup {0}
    /\ prod \in {"loop", "write", "post", "done"}
    /\ cons \in {"loop", "read", "post", "done"}
    /\ main \in {"join_p", "join_c", "done"}
    /\ produced \in Seq(Values)
    /\ received \in Seq(Values \cup {0})

(* The variable is never written while it is being read: the two semaphores   *)
(* leave one thread at a time between its wait and its post.                  *)
MutualExclusion == ~(prod \in {"write", "post"} /\ cons \in {"read", "post"})

(* What the consumer prints is what was produced, in order, and it is never   *)
(* more than one number behind.                                               *)
ReceivedInOrder ==
    /\ Len(produced) - Len(received) \in 0 .. 1
    /\ \A i \in 1 .. Len(received) : received[i] = produced[i]

(* The program ends, and everything produced was received.                    *)
Completes == <>(main = "done" /\ Len(received) = Rounds)

Slot == INSTANCE OneSlot WITH
            slot <- IF Len(received) < Len(produced) THEN <<shared_num>> ELSE <<>>

(* The threads implement a one-place channel.                                 *)
SlotSpec == Slot!Spec
====
