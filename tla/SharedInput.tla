---- MODULE SharedInput ----
(* chapter04/src/terminate_test.c: two threads read the one standard input    *)
(* until each has read a line that begins with its own letter. A line that    *)
(* was meant for the other thread is thrown away.                             *)

CONSTANTS Roses     \* the threads; a line is named after the one it is for

VARIABLES rose,     \* each thread: in fgets, at the test, or gone
          ans,      \* what its buffer holds: malloc leaves it to chance
          terminal, \* the line typed and not read yet
          ended,    \* end of file has been typed
          rmain     \* main: the threads joined so far, and printed

sivars == <<rose, ans, terminal, ended, rmain>>

Other == "other"
Nothing == "nothing"
Lines == Roses \cup {Other}

SharedInit ==
    /\ rose = [t \in Roses |-> "fgets"]
    /\ ans \in [Roses -> Lines]
    /\ terminal = Nothing
    /\ ended = FALSE
    /\ rmain = "join"

Type ==
    /\ terminal = Nothing
    /\ ~ended
    /\ \/ terminal' \in Lines /\ UNCHANGED ended
       \/ ended' = TRUE /\ UNCHANGED terminal
    /\ UNCHANGED <<rose, ans, rmain>>

(* fgets: whichever thread is first gets the line; at end of file the buffer  *)
(* stays as it was, and nobody looks at the result.                           *)
FgetsLine(t) ==
    /\ rose[t] = "fgets"
    /\ \/ terminal # Nothing /\ ans' = [ans EXCEPT ![t] = terminal]
       \/ terminal = Nothing /\ ended /\ UNCHANGED ans
    /\ terminal' = Nothing
    /\ rose' = [rose EXCEPT ![t] = "test"]
    /\ UNCHANGED <<ended, rmain>>

(* if(ans[0] == code) ... pthread_exit                                        *)
Test(t) ==
    /\ rose[t] = "test"
    /\ rose' = [rose EXCEPT ![t] = IF ans[t] = t THEN "gone" ELSE "fgets"]
    /\ UNCHANGED <<ans, terminal, ended, rmain>>

(* Both joins have returned, and the results are printed and freed.           *)
JoinRoses ==
    /\ rmain = "join"
    /\ \A t \in Roses : rose[t] = "gone"
    /\ rmain' = "over"
    /\ UNCHANGED <<rose, ans, terminal, ended>>

SharedNext == Type \/ JoinRoses \/ \E t \in Roses : FgetsLine(t) \/ Test(t)

SharedSpec == SharedInit /\ [][SharedNext]_sivars

-----------------------------------------------------------------------------
SharedTypeOK ==
    /\ rose \in [Roses -> {"fgets", "test", "gone"}]
    /\ ans \in [Roses -> Lines]
    /\ terminal \in Lines \cup {Nothing}
    /\ ended \in BOOLEAN
    /\ rmain \in {"join", "over"}

(* While both threads read, a line may be lost to the wrong one, again and    *)
(* again. Once one has gone, the next line for the other is not: it is read,  *)
(* the thread leaves and the program ends.                                    *)
LastOneServed ==
    \A t \in Roses :
        (terminal = t /\ \A u \in Roses \ {t} : rose[u] = "gone") ~> rmain = "over"
====
