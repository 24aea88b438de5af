---- MODULE CondBuffer ----
(* chapter04/src/condition_variable.c: a producer and a consumer share an     *)
(* array used as a stack, one mutex and ONE condition variable; after ten     *)
(* seconds main raises should_exit without taking the mutex, broadcasts, and  *)
(* joins both threads.                                                        *)
EXTENDS Integers, Sequences

CONSTANTS BUFFER_SIZE,   \* slots of the array (5 in the code)
          MaxItem,       \* bound: items the producer may still start
          MaxSpurious    \* bound: spurious wake-ups of pthread_cond_wait

ASSUME SizeAssumption == BUFFER_SIZE \in Nat \ {0}
ASSUME BoundAssumption == MaxItem \in Nat /\ MaxSpurious \in Nat

VARIABLES buffer, count, should_exit,   \* the globals
          item,       \* the producer's local counter
          mutex,      \* the thread that holds the mutex, or Free
          pc,         \* the statement each thread is at
          taken,      \* the items the consumer printed
          spurious    \* spurious wake-ups so far

vars == <<buffer, count, should_exit, item, mutex, pc, taken, spurious>>

Workers == {"producer", "consumer"}
Free == "free"
None == -1      \* content of a slot never written

Other(t) == IF t = "producer" THEN "consumer" ELSE "producer"

(* The statements executed while holding the mutex.                           *)
Critical == {"test", "cond_wait", "check", "use", "signal", "unlock"}

WorkerLabels == Critical \cup {"while", "lock", "blocked", "relock", "done"}
MainLabels == {"sleep", "broadcast", "join_p", "join_c", "destroy", "done"}

Init == /\ buffer = [i \in 0 .. BUFFER_SIZE - 1 |-> None]
        /\ count = 0
        /\ should_exit = FALSE
        /\ item = 0
        /\ mutex = Free
        /\ pc = [t \in Workers \cup {"main"} |->
                    IF t = "main" THEN "sleep" ELSE "while"]
        /\ taken = {}
        /\ spurious = 0

Goto(t, l) == pc' = [pc EXCEPT ![t] = l]
data == <<buffer, count, item, taken>>

-----------------------------------------------------------------------------
(* The loop both threads run.                                                 *)

(* while(!should_exit), read without the mutex. MaxItem keeps the producer    *)
(* from starting more rounds; it can still leave the loop.                    *)
WhileTest(t) ==
    /\ pc[t] = "while"
    /\ \/ should_exit /\ Goto(t, "done")
       \/ /\ ~should_exit
          /\ t = "producer" => item < MaxItem
          /\ Goto(t, "lock")
    /\ UNCHANGED <<data, should_exit, mutex, spurious>>

Lock(t) ==
    /\ pc[t] = "lock"
    /\ mutex = Free
    /\ mutex' = t
    /\ Goto(t, "test")
    /\ UNCHANGED <<data, should_exit, spurious>>

(* There is room for the producer, there is an item for the consumer.         *)
Ready(t) == IF t = "producer" THEN count # BUFFER_SIZE ELSE count # 0

(* Mutant: the condition is tested by "if", so a woken thread goes on.        *)
RelockIf(t) ==
    /\ pc[t] = "relock"
    /\ mutex = Free
    /\ mutex' = t
    /\ Goto(t, "check")
    /\ UNCHANGED <<data, should_exit, spurious>>

WaitTest(t) ==
    /\ pc[t] = "test"
    /\ Goto(t, IF ~Ready(t) /\ ~should_exit THEN "cond_wait" ELSE "check")
    /\ UNCHANGED <<data, should_exit, mutex, spurious>>

(* pthread_cond_wait: release the mutex and block, in one step.               *)
CondWait(t) ==
    /\ pc[t] = "cond_wait"
    /\ mutex' = Free
    /\ Goto(t, "blocked")
    /\ UNCHANGED <<data, should_exit, spurious>>

(* pthread_cond_wait returns with the mutex held, and the test is repeated.   *)
Relock(t) ==
    /\ pc[t] = "relock"
    /\ mutex = Free
    /\ mutex' = t
    /\ Goto(t, "test")
    /\ UNCHANGED <<data, should_exit, spurious>>

SpuriousWake(t) ==
    /\ pc[t] = "blocked"
    /\ spurious < MaxSpurious
    /\ spurious' = spurious + 1
    /\ Goto(t, "relock")
    /\ UNCHANGED <<data, should_exit, mutex>>

(* Mutant: the thread leaves the loop with the mutex held.                    *)
ExitCheckKeepsMutex(t) ==
    /\ pc[t] = "check"
    /\ Goto(t, IF should_exit THEN "done" ELSE "use")
    /\ UNCHANGED <<data, should_exit, mutex, spurious>>

(* if(should_exit){ unlock; break; }                                          *)
ExitCheck(t) ==
    /\ pc[t] = "check"
    /\ \/ should_exit /\ mutex' = Free /\ Goto(t, "done")
       \/ ~should_exit /\ UNCHANGED mutex /\ Goto(t, "use")
    /\ UNCHANGED <<data, should_exit, spurious>>

(* Mutant: nobody is told that the buffer changed.                            *)
SignalDropped(t) ==
    /\ pc[t] = "signal"
    /\ Goto(t, "unlock")
    /\ UNCHANGED <<data, should_exit, mutex, spurious>>

(* pthread_cond_signal: one blocked thread, if there is one, is woken.        *)
Signal(t) ==
    /\ pc[t] = "signal"
    /\ \/ /\ \A w \in Workers : pc[w] # "blocked"
          /\ Goto(t, "unlock")
       \/ \E w \in Workers : /\ pc[w] = "blocked"
                             /\ pc' = [pc EXCEPT ![w] = "relock", ![t] = "unlock"]
    /\ UNCHANGED <<data, should_exit, mutex, spurious>>

Unlock(t) ==
    /\ pc[t] = "unlock"
    /\ mutex' = Free
    /\ Goto(t, "while")
    /\ UNCHANGED <<data, should_exit, spurious>>

-----------------------------------------------------------------------------
(* What each thread does in the middle of its round.                          *)

(* buffer[count++] = item++                                                   *)
Produce ==
    /\ pc["producer"] = "use"
    /\ buffer' = [buffer EXCEPT ![count] = item]
    /\ count' = count + 1
    /\ item' = item + 1
    /\ Goto("producer", "signal")
    /\ UNCHANGED <<should_exit, mutex, taken, spurious>>

(* Mutant: the index is decremented after the read.                           *)
ConsumePostDecrement ==
    /\ pc["consumer"] = "use"
    /\ count' = count - 1
    /\ taken' = taken \cup {buffer[count % BUFFER_SIZE]}
    /\ Goto("consumer", "signal")
    /\ UNCHANGED <<buffer, item, should_exit, mutex, spurious>>

(* consumed_item = buffer[--count], then printed                              *)
Consume ==
    /\ pc["consumer"] = "use"
    /\ count' = count - 1
    /\ taken' = taken \cup {buffer[count - 1]}
    /\ Goto("consumer", "signal")
    /\ UNCHANGED <<buffer, item, should_exit, mutex, spurious>>

-----------------------------------------------------------------------------
(* main                                                                       *)

RaiseExit ==
    /\ pc["main"] = "sleep"
    /\ should_exit' = TRUE
    /\ Goto("main", "broadcast")
    /\ UNCHANGED <<data, mutex, spurious>>

(* pthread_cond_broadcast, without the mutex                                  *)
Broadcast ==
    /\ pc["main"] = "broadcast"
    /\ pc' = [t \in DOMAIN pc |-> IF t = "main" THEN "join_p"
                                  ELSE IF pc[t] = "blocked" THEN "relock"
                                  ELSE pc[t]]
    /\ UNCHANGED <<data, should_exit, mutex, spurious>>

(* pthread_join, producer first                                               *)
Join(from, t, to) ==
    /\ pc["main"] = from
    /\ pc[t] = "done"
    /\ Goto("main", to)
    /\ UNCHANGED <<data, should_exit, mutex, spurious>>

Destroy ==
    /\ pc["main"] = "destroy"
    /\ Goto("main", "done")
    /\ UNCHANGED <<data, should_exit, mutex, spurious>>

-----------------------------------------------------------------------------
Work(t) == \/ WhileTest(t) \/ Lock(t) \/ WaitTest(t) \/ CondWait(t) \/ Relock(t)
           \/ ExitCheck(t) \/ Signal(t) \/ Unlock(t)

Producer == Work("producer") \/ Produce
Consumer == Work("consumer") \/ Consume
Leave == \/ Broadcast
         \/ Join("join_p", "producer", "join_c")
         \/ Join("join_c", "consumer", "destroy")
         \/ Destroy

Main == RaiseExit \/ Leave

Next == \/ Producer \/ Consumer \/ Main
        \/ \E t \in Workers : SpuriousWake(t)

Spec == Init /\ [][Next]_vars

(* Every runnable thread is eventually scheduled, and a mutex that stays free *)
(* is eventually acquired. Spurious wake-ups are never relied upon.           *)
WorkersFair == WF_vars(Producer) /\ WF_vars(Consumer)

(* The ten seconds of sleep may seem any length to the workers: nothing        *)
(* obliges main to raise the flag, but it goes on once it has.                *)
RunningSpec == Spec /\ WorkersFair /\ WF_vars(Leave)

(* The ten seconds end, too.                                                  *)
FairSpec == Spec /\ WorkersFair /\ WF_vars(Main)

-----------------------------------------------------------------------------
(* Types of the variables.                                                    *)
TypeOK ==
    /\ buffer \in [0 .. BUFFER_SIZE - 1 -> Int]
    /\ count \in 0 .. BUFFER_SIZE
    /\ should_exit \in BOOLEAN
    /\ item \in Nat
    /\ mutex \in Workers \cup {Free}
    /\ pc \in [Workers \cup {"main"} -> WorkerLabels \cup MainLabels]
    /\ \A t \in Workers : pc[t] \in WorkerLabels
    /\ taken \in SUBSET Int
    /\ spurious \in Nat

(* buffer[count++] and buffer[--count] stay inside the array: a thread that   *)
(* reaches its access finds room, respectively an item, although it last      *)
(* tested the condition before other threads ran.                             *)
AccessInBounds ==
    /\ pc["producer"] = "use" => count < BUFFER_SIZE
    /\ pc["consumer"] = "use" => count > 0

(* One condition variable serves both directions: a thread stays blocked with *)
(* its condition true only while the other is about to signal it.             *)
NoMissedSignal ==
    \A t \in Workers : pc[t] = "blocked" /\ Ready(t) => pc[Other(t)] = "signal"

(* Producer and consumer never wait for each other, so the signal sent to     *)
(* the single condition variable cannot reach the wrong one.                  *)
NeverBothBlocked == ~(\A t \in Workers : pc[t] = "blocked")

(* While the program runs, a full buffer is drained and an empty one filled   *)
(* (as long as the producer's bound allows another item).                     *)
KeepsMoving ==
    /\ (count = BUFFER_SIZE) ~> (count < BUFFER_SIZE \/ should_exit)
    /\ (count = 0 /\ item < MaxItem) ~> (count > 0 \/ should_exit)

(* The one way in which the shutdown can fail: once the flag is raised, either *)
(* the program ends or a thread is left blocked whose partner has gone.       *)
Stranded == \E t \in Workers : pc[t] = "blocked" /\ pc[Other(t)] = "done"
ExitsUnlessStranded == should_exit ~> (pc["main"] = "done" \/ Stranded)

Stack == INSTANCE BoundedStack WITH
            Depth <- BUFFER_SIZE,
            stack <- [i \in 1 .. count |-> buffer[i - 1]],
            next <- item

(* Seen from outside, the threads operate one bounded stack, step by step.    *)
StackSpec == Stack!Spec

(* "the program will run for 10 seconds and then exit by itself" (line 67)    *)
ExitsByItself == <>(pc["main"] = "done")
====
