---- MODULE OneSlot ----
(* What the semaphore programs of chapter04 promise: a slot that holds one    *)
(* value; it is filled when empty and emptied when full, so the values are    *)
(* received in the order in which they were produced, each exactly once.      *)
EXTENDS Sequences

CONSTANT Values

VARIABLES slot,      \* the value not received yet, as a sequence of length 0 or 1
          produced,  \* the values put so far
          received   \* the values got so far

vars == <<slot, produced, received>>

Init == slot = <<>> /\ produced = <<>> /\ received = <<>>

Put(v) == /\ slot = <<>>
          /\ slot' = <<v>>
          /\ produced' = Append(produced, v)
          /\ UNCHANGED received

Get == /\ slot # <<>>
       /\ slot' = <<>>
       /\ received' = Append(received, slot[1])
       /\ UNCHANGED produced

Next == (\E v \in Values : Put(v)) \/ Get

Spec == Init /\ [][Next]_vars
====
