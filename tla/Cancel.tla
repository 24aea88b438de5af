---- MODULE Cancel ----
(* chapter04/src/pthread_cancel_async_test.c, pthread_cancel_deferred_test.c, *)
(* pthread_cancel_disable_test.c, exit_phread_test.c and pthread_detach_test. *)
(* c: main starts a thread, cancels it, joins it or neither, and ends. The    *)
(* thread functions are scripts; printf and sleep are cancellation points.    *)
EXTENDS Integers, Sequences

VARIABLES script,    \* which program runs
          tpc,       \* the thread's next statement, 0 once it has ended
          inside,    \* it is within printf, holding the lock of stdout
          ctype,     \* its cancellation type
          enabled,   \* its cancellation state
          pending,   \* pthread_cancel has been called
          lock,      \* who holds stdout: nobody, the thread, or nobody for ever
          tres,      \* how the thread ended
          cmain      \* main: the statement it is at

cavars == <<script, tpc, inside, ctype, enabled, pending, lock, tres, cmain>>

(* "loop" goes back to the printf before it.                                  *)
thread_func ==
    [async    |-> <<"printf", "setasync", "printf", "printf", "loop">>,
     deferred |-> <<"printf", "printf", "sleep", "testcancel", "printf">>,
     disable  |-> <<"printf", "setoff", "printf", "sleep">>,
     exit     |-> <<"printf", "sleep", "printf">>,
     detach   |-> <<"printf", "sleep", "printf">>]

(* From the creation of the thread on; the printfs in a row are one.          *)
main_func ==
    [async    |-> <<"cancel", "join", "printf">>,
     deferred |-> <<"cancel", "join", "printf">>,
     disable  |-> <<"cancel", "join", "printf">>,
     exit     |-> <<"join", "printf">>,
     detach   |-> <<"printf", "sleep", "printf">>]

ThreadOver == 0

CancelInit ==
    /\ script \in DOMAIN thread_func
    /\ tpc = 1
    /\ inside = FALSE
    /\ ctype = "deferred"
    /\ enabled = TRUE
    /\ pending = FALSE
    /\ lock = "free"
    /\ tres = "none"
    /\ cmain = 1

MainOver == Len(main_func[script]) + 1
MainAt(stmt) == cmain # MainOver /\ main_func[script][cmain] = stmt

(* return from main and exit end the thread with the process.                 *)
Running == tpc # ThreadOver /\ cmain # MainOver
At(stmt) == Running /\ thread_func[script][tpc] = stmt
CancelDue == pending /\ enabled

(* The next statement, or return NULL, or pthread_exit.                       *)
NextStmt ==
    IF tpc = Len(thread_func[script])
    THEN tpc' = ThreadOver /\ tres' = "null"
    ELSE tpc' = tpc + 1 /\ UNCHANGED tres

-----------------------------------------------------------------------------
(* The thread.                                                                *)

PrintfLocks ==
    /\ At("printf") /\ ~inside
    /\ lock = "free"
    /\ lock' = "thread"
    /\ inside' = TRUE
    /\ UNCHANGED <<script, tpc, ctype, enabled, pending, tres, cmain>>

PrintfReturns ==
    /\ At("printf") /\ inside
    /\ lock' = "free"
    /\ inside' = FALSE
    /\ NextStmt
    /\ UNCHANGED <<script, ctype, enabled, pending, cmain>>

Loop ==
    /\ At("loop")
    /\ tpc' = tpc - 1
    /\ UNCHANGED <<script, inside, ctype, enabled, pending, lock, tres, cmain>>

SetCancel ==
    /\ At("setasync") \/ At("setoff")
    /\ ctype' = IF At("setasync") THEN "async" ELSE ctype
    /\ enabled' = (enabled /\ ~At("setoff"))
    /\ NextStmt
    /\ UNCHANGED <<script, inside, pending, lock, cmain>>

(* sleep and pthread_testcancel return only if no cancellation is due.        *)
PassPoint ==
    /\ At("sleep") \/ At("testcancel")
    /\ ~CancelDue
    /\ NextStmt
    /\ UNCHANGED <<script, inside, ctype, enabled, pending, lock, cmain>>

(* A cancellation point: the clean-up handler of printf unlocks.              *)
CancelAtPoint ==
    /\ At("sleep") \/ At("testcancel") \/ (At("printf") /\ inside)
    /\ CancelDue
    /\ tpc' = ThreadOver
    /\ tres' = "canceled"
    /\ inside' = FALSE
    /\ lock' = IF inside THEN "free" ELSE lock
    /\ UNCHANGED <<script, ctype, enabled, pending, cmain>>

(* Anywhere: printf is not safe to be left, and its lock may stay taken.      *)
CancelAnywhere ==
    /\ Running
    /\ CancelDue /\ ctype = "async"
    /\ tpc' = ThreadOver
    /\ tres' = "canceled"
    /\ inside' = FALSE
    /\ IF inside THEN lock' \in {"free", "lost"} ELSE UNCHANGED lock
    /\ UNCHANGED <<script, ctype, enabled, pending, cmain>>

cancel_thread ==
    PrintfLocks \/ PrintfReturns \/ Loop \/ SetCancel \/ PassPoint \/ CancelAtPoint

-----------------------------------------------------------------------------
(* main.                                                                      *)

(* Mutant: the request is not delivered.                                      *)
PthreadCancelLost ==
    /\ MainAt("cancel")
    /\ cmain' = cmain + 1
    /\ UNCHANGED <<script, tpc, inside, ctype, enabled, pending, lock, tres>>

(* On a thread that has ended it may fail, and main exits.                    *)
PthreadCancel ==
    /\ MainAt("cancel")
    /\ \/ cmain' = cmain + 1
       \/ tpc = ThreadOver /\ cmain' = MainOver
    /\ pending' = TRUE
    /\ UNCHANGED <<script, tpc, inside, ctype, enabled, lock, tres>>

PthreadJoin ==
    /\ MainAt("join")
    /\ tpc = ThreadOver
    /\ cmain' = cmain + 1
    /\ UNCHANGED <<script, tpc, inside, ctype, enabled, pending, lock, tres>>

MainPrintf ==
    /\ MainAt("printf") /\ lock = "free"
    /\ cmain' = cmain + 1
    /\ UNCHANGED <<script, tpc, inside, ctype, enabled, pending, lock, tres>>

MainSleep ==
    /\ MainAt("sleep")
    /\ cmain' = cmain + 1
    /\ UNCHANGED <<script, tpc, inside, ctype, enabled, pending, lock, tres>>

cancel_main == PthreadCancel \/ PthreadJoin \/ MainPrintf \/ MainSleep

CancelNext == cancel_thread \/ CancelAnywhere \/ cancel_main

CancelSpec == CancelInit /\ [][CancelNext]_cavars

-----------------------------------------------------------------------------
CancelTypeOK ==
    /\ script \in DOMAIN thread_func
    /\ tpc \in 0 .. Len(thread_func[script])
    /\ inside \in BOOLEAN /\ enabled \in BOOLEAN /\ pending \in BOOLEAN
    /\ ctype \in {"deferred", "async"}
    /\ lock \in {"free", "thread", "lost"}
    /\ inside => lock = "thread"
    /\ tres \in {"none", "null", "canceled"}
    /\ cmain \in 1 .. MainOver

(* The program ends, also the one whose thread loops for ever; except that an *)
(* asynchronous cancellation within printf may leave stdout locked, and main  *)
(* then waits for it in its own printf.                                       *)
CancelEnds == <>(cmain = MainOver \/ (lock = "lost" /\ script = "async"))
====
