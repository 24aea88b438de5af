---- MODULE MCDaemonServer ----
(* A small instance of DaemonServer: successive starts on one port.           *)
EXTENDS DaemonServer

CONSTANTS d1, d2, p1
SamePort == [d \in Daemons |-> p1]
====
