---- MODULE MCEpollServer ----
(* A small instance of EpollServer: more clients than descriptors; one sends  *)
(* two messages, one a single message, and one only connects and leaves.      *)
EXTENDS EpollServer

CONSTANTS c1, c2, c3
Talk == [c \in Clients |-> IF c = c1 THEN 2 ELSE IF c = c2 THEN 1 ELSE 0]
====
