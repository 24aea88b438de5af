---- MODULE MCProcessServer ----
(* A small instance of ProcessServer: one client types two lines, the other one. *)
EXTENDS ProcessServer

CONSTANTS c1, c2
Talk == [c \in Clients |-> IF c = c1 THEN 2 ELSE 1]
====
