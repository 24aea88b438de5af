---- MODULE BoundedStack ----
(* What the producer/consumer program of chapter04/src/condition_variable.c   *)
(* promises, without threads, locks or condition variables: numbered items    *)
(* are pushed on a stack of bounded depth and each is popped at most once,    *)
(* the newest first.                                                          *)
EXTENDS Integers, Sequences

CONSTANT Depth

VARIABLES stack,   \* the items held, the newest last
          next,    \* the number of the next item
          taken    \* the items popped so far

vars == <<stack, next, taken>>

Init == stack = <<>> /\ next = 0 /\ taken = {}

Push == /\ Len(stack) < Depth
        /\ stack' = Append(stack, next)
        /\ next' = next + 1
        /\ UNCHANGED taken

Pop == /\ stack # <<>>
       /\ taken' = taken \cup {stack[Len(stack)]}
       /\ stack' = SubSeq(stack, 1, Len(stack) - 1)
       /\ UNCHANGED next

Next == Push \/ Pop

Spec == Init /\ [][Next]_vars
====
