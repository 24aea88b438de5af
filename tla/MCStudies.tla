---- MODULE MCStudies ----
(* Small instances of the small programs: one client of the echo server types *)
(* two lines, the other one.                                                  *)
EXTENDS Studies

CONSTANTS c1, c2
Talk == [k \in Clients |-> IF k = c1 THEN 2 ELSE 1]
====
