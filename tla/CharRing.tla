---- MODULE CharRing ----
(* chapter04/src/create_thread_test.c: one thread stores the characters typed *)
(* in a ring, the other prints and clears them. A cell that is not zero is    *)
(* full; the storing thread does not look whether it is. Characters are       *)
(* numbered in the order they are typed; '\n' and '\0' are not stored and are *)
(* left out. EOF, cast to char, is one more character, repeated for ever.     *)
EXTENDS Integers, Sequences

CONSTANTS BUF_LEN,
          MaxTyped   \* bound: characters typed

ASSUME RingAssumption == BUF_LEN \in Nat \ {0} /\ MaxTyped \in Nat

VARIABLES buf,
          ch,       \* thread1_func: the character just read, NUL if none
          put,      \* its index i
          opc,      \* thread2_func: at the test, at fputc, or at the clearing
          take,     \* its index i
          typed,    \* characters read from the terminal
          printed,  \* history: what thread2_func has written
          lapped    \* history: a cell was stored to before it was cleared

rvars == <<buf, ch, put, opc, take, typed, printed, lapped>>

NUL == 0
Cells == 0 .. BUF_LEN - 1

RingInit ==
    /\ buf = [p \in Cells |-> NUL]
    /\ ch = NUL
    /\ put = 0
    /\ opc = "test"
    /\ take = 0
    /\ typed = 0
    /\ printed = <<>>
    /\ lapped = FALSE

(* Mutant: the test is > instead of >=.                                       *)
AdvanceLate(i) == IF i + 1 > BUF_LEN THEN 0 ELSE i + 1

(* i++, and back to 0 at BUF_LEN.                                             *)
Advance(i) == IF i + 1 >= BUF_LEN THEN 0 ELSE i + 1

(* fgetc                                                                      *)
Fgetc ==
    /\ ch = NUL
    /\ typed < MaxTyped
    /\ typed' = typed + 1
    /\ ch' = typed + 1
    /\ UNCHANGED <<buf, put, opc, take, printed, lapped>>

Store ==
    /\ ch # NUL
    /\ buf' = [buf EXCEPT ![put] = ch]
    /\ lapped' = (lapped \/ buf[put] # NUL)
    /\ put' = Advance(put)
    /\ ch' = NUL
    /\ UNCHANGED <<opc, take, typed, printed>>

(* if(buf[i]); otherwise sleep and look again                                 *)
Look ==
    /\ opc = "test"
    /\ buf[take] # NUL
    /\ opc' = "print"
    /\ UNCHANGED <<buf, ch, put, take, typed, printed, lapped>>

(* fputc reads the cell a second time.                                        *)
Fputc ==
    /\ opc = "print"
    /\ printed' = Append(printed, buf[take])
    /\ opc' = "clear"
    /\ UNCHANGED <<buf, ch, put, take, typed, lapped>>

(* Mutant: the printed cell keeps its character.                              *)
ClearForgotten ==
    /\ opc = "clear"
    /\ take' = Advance(take)
    /\ opc' = "test"
    /\ UNCHANGED <<buf, ch, put, typed, printed, lapped>>

(* buf[i++] = '\0'                                                            *)
Clear ==
    /\ opc = "clear"
    /\ buf' = [buf EXCEPT ![take] = NUL]
    /\ take' = Advance(take)
    /\ opc' = "test"
    /\ UNCHANGED <<ch, put, typed, printed, lapped>>

thread1_func == Fgetc \/ Store
thread2_func == Look \/ Fputc \/ Clear

RingNext == thread1_func \/ thread2_func

RingSpec == RingInit /\ [][RingNext]_rvars

-----------------------------------------------------------------------------
RingTypeOK ==
    /\ buf \in [Cells -> 0 .. typed]
    /\ ch \in {NUL, typed}
    /\ put \in Cells /\ take \in Cells
    /\ opc \in {"test", "print", "clear"}
    /\ typed \in 0 .. MaxTyped
    /\ printed \in Seq(1 .. typed)
    /\ lapped \in BOOLEAN

(* Until the storing thread is a whole buffer ahead, what is printed is what  *)
(* was typed, in order and without a gap, although neither thread takes a     *)
(* lock and a cell is read, read again and cleared in three steps. Whatever   *)
(* happens, no character is printed twice.                                    *)
RingInOrder ==
    /\ ~lapped => \A k \in DOMAIN printed : printed[k] = k
    /\ \A k, l \in DOMAIN printed : printed[k] = printed[l] => k = l

(* Everything typed is printed, unless the storing thread has lapped.         *)
RingDrains == \A n \in 1 .. MaxTyped : typed >= n ~> (Len(printed) >= n \/ lapped)
====
