---- MODULE MCThreadServer ----
(* A small instance of ThreadServer: one client types two lines, the other    *)
(* one. Two descriptors: both clients at once fill the table.                 *)
EXTENDS ThreadServer

CONSTANTS c1, c2
Talk == [c \in Clients |-> IF c = c1 THEN 2 ELSE 1]
====
