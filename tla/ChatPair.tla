---- MODULE ChatPair ----
(* chapter06/src/single_conn_client.c and single_conn_server.c: one           *)
(* connection, on which both ends run the same two threads. One sends the     *)
(* lines typed and half-closes at the end of input, the other reads until the *)
(* end of the stream; main joins both and closes. An error in either thread   *)
(* is exit(EXIT_FAILURE) for its process.                                     *)
EXTENDS Integers

CONSTANT MaxSaid   \* bound: lines typed at each end

ASSUME ChatAssumption == MaxSaid \in Nat

VARIABLES life,     \* each process: off, listen, open, done, or failed
          speaker,  \* its thread write_to_*
          hearer,   \* its thread read_from_*
          said, heard,
          wire,     \* lines of each end the other has not read yet
          shut,     \* each end's direction is shut down
          rst,      \* the connection was reset
          killed    \* a user interrupted one of the processes

chvars == <<life, speaker, hearer, said, heard, wire, shut, rst, killed>>

Ends == {"client", "server"}
Peer(e) == IF e = "client" THEN "server" ELSE "client"

ChatInit ==
    /\ life = [e \in Ends |-> "off"]
    /\ speaker = [e \in Ends |-> "none"]
    /\ hearer = [e \in Ends |-> "none"]
    /\ said = [e \in Ends |-> 0]
    /\ heard = [e \in Ends |-> 0]
    /\ wire = [e \in Ends |-> 0]
    /\ shut = [e \in Ends |-> FALSE]
    /\ rst = FALSE
    /\ killed = FALSE

Over(e) == life[e] \in {"done", "failed"}

(* The process has gone: its direction ends, and what it has not read turns   *)
(* the end into a reset.                                                      *)
Gone(e, how) ==
    /\ life' = [life EXCEPT ![e] = how]
    /\ speaker' = [speaker EXCEPT ![e] = "done"]
    /\ hearer' = [hearer EXCEPT ![e] = "done"]
    /\ shut' = [shut EXCEPT ![e] = TRUE]
    /\ rst' = (rst \/ wire[Peer(e)] > 0)

-----------------------------------------------------------------------------
(* The two mains.                                                             *)

(* socket, bind, listen                                                       *)
Listen ==
    /\ life["server"] = "off"
    /\ life' = [life EXCEPT !["server"] = "listen"]
    /\ UNCHANGED <<speaker, hearer, said, heard, wire, shut, rst, killed>>

BothThreads(e) ==
    /\ life' = [life EXCEPT ![e] = "open"]
    /\ speaker' = [speaker EXCEPT ![e] = "run"]
    /\ hearer' = [hearer EXCEPT ![e] = "run"]

(* connect succeeds as soon as the server listens.                            *)
ConnectToServer ==
    /\ life["client"] = "off"
    /\ life["server"] = "listen"
    /\ BothThreads("client")
    /\ UNCHANGED <<said, heard, wire, shut, rst, killed>>

ConnectRefusedByServer ==
    /\ life["client"] = "off"
    /\ life["server"] \notin {"listen", "open"}
    /\ life' = [life EXCEPT !["client"] = "failed"]
    /\ UNCHANGED <<speaker, hearer, said, heard, wire, shut, rst, killed>>

AcceptClient ==
    /\ life["server"] = "listen"
    /\ speaker["client"] # "none"
    /\ BothThreads("server")
    /\ UNCHANGED <<said, heard, wire, shut, rst, killed>>

(* Mutant: the reading thread is not joined.                                  *)
CloseUnjoined(e) ==
    /\ life[e] = "open"
    /\ speaker[e] = "done"
    /\ Gone(e, "done")
    /\ UNCHANGED <<said, heard, wire, killed>>

(* Both joins have returned: close.                                           *)
CloseBoth(e) ==
    /\ life[e] = "open"
    /\ speaker[e] = "done" /\ hearer[e] = "done"
    /\ Gone(e, "done")
    /\ UNCHANGED <<said, heard, wire, killed>>

-----------------------------------------------------------------------------
(* The threads.                                                               *)

(* One line. To a closed peer it is answered by a reset; on a reset           *)
(* connection it ends the process (exit, or SIGPIPE).                         *)
Speak(e) ==
    /\ speaker[e] = "run"
    /\ said[e] < MaxSaid
    /\ IF rst THEN Gone(e, "failed") /\ UNCHANGED <<said, wire>>
       ELSE /\ said' = [said EXCEPT ![e] = @ + 1]
            /\ IF Over(Peer(e)) THEN rst' = TRUE /\ UNCHANGED wire
                                ELSE wire' = [wire EXCEPT ![e] = @ + 1] /\ UNCHANGED rst
            /\ UNCHANGED <<life, speaker, hearer, shut>>
    /\ UNCHANGED <<heard, killed>>

(* Mutant: no shutdown at the end of input.                                   *)
ShutdownForgotten(e) ==
    /\ speaker[e] = "run"
    /\ speaker' = [speaker EXCEPT ![e] = "done"]
    /\ UNCHANGED <<life, hearer, said, heard, wire, shut, rst, killed>>

(* fgets returns NULL: shutdown(SHUT_WR).                                     *)
Hush(e) ==
    /\ speaker[e] = "run"
    /\ speaker' = [speaker EXCEPT ![e] = "done"]
    /\ shut' = [shut EXCEPT ![e] = TRUE]
    /\ UNCHANGED <<life, hearer, said, heard, wire, rst, killed>>

(* recv: what has arrived, then the end of the stream, or the error.          *)
Hear(e) ==
    /\ hearer[e] = "run"
    /\ \/ /\ \E k \in 1 .. wire[Peer(e)] :
                /\ heard' = [heard EXCEPT ![e] = @ + k]
                /\ wire' = [wire EXCEPT ![Peer(e)] = @ - k]
          /\ UNCHANGED <<life, speaker, hearer, shut, rst>>
       \/ /\ wire[Peer(e)] = 0 /\ ~rst /\ shut[Peer(e)]
          /\ hearer' = [hearer EXCEPT ![e] = "done"]
          /\ UNCHANGED <<life, speaker, heard, wire, shut, rst>>
       \/ /\ wire[Peer(e)] = 0 /\ rst
          /\ Gone(e, "failed")
          /\ UNCHANGED <<heard, wire>>
    /\ UNCHANGED <<said, killed>>

write_to_server == Speak("client") \/ Hush("client")
write_to_client == Speak("server") \/ Hush("server")
read_from_server == Hear("client")
read_from_client == Hear("server")

(* Ctrl+C at one of the ends; a server that had not accepted yet takes the    *)
(* waiting client with it.                                                    *)
KillEnd(e) ==
    /\ life[e] \in {"listen", "open"}
    /\ killed' = TRUE
    /\ life' = [life EXCEPT ![e] = "failed"]
    /\ speaker' = [speaker EXCEPT ![e] = "done"]
    /\ hearer' = [hearer EXCEPT ![e] = "done"]
    /\ shut' = [shut EXCEPT ![e] = TRUE]
    /\ rst' = (rst \/ wire[Peer(e)] > 0 \/ (life[e] = "listen" /\ life["client"] = "open"))
    /\ UNCHANGED <<said, heard, wire>>

ChatNext ==
    \/ Listen \/ ConnectToServer \/ ConnectRefusedByServer \/ AcceptClient
    \/ write_to_server \/ write_to_client \/ read_from_server \/ read_from_client
    \/ \E e \in Ends : CloseBoth(e) \/ KillEnd(e)

ChatSpec == ChatInit /\ [][ChatNext]_chvars

-----------------------------------------------------------------------------
ChatTypeOK ==
    /\ life \in [Ends -> {"off", "listen", "open", "done", "failed"}]
    /\ life["client"] # "listen"
    /\ speaker \in [Ends -> {"none", "run", "done"}]
    /\ hearer \in [Ends -> {"none", "run", "done"}]
    /\ said \in [Ends -> 0 .. MaxSaid]
    /\ heard \in [Ends -> 0 .. MaxSaid]
    /\ wire \in [Ends -> 0 .. MaxSaid]
    /\ shut \in [Ends -> BOOLEAN]
    /\ rst \in BOOLEAN /\ killed \in BOOLEAN

(* Unless a user interrupts one, neither end ever resets the connection or    *)
(* fails on it, whichever closes first, and an end that has closed has read   *)
(* everything the other has said: the half-close comes after the last line,   *)
(* and the close after the other's half-close.                                *)
ChatComplete ==
    ~killed =>
        /\ ~rst
        /\ \A e \in Ends : life[e] = "done" => heard[e] = said[Peer(e)] /\ shut[Peer(e)]

(* When both users have ended their input, or an interrupt has ended it, both *)
(* programs terminate.                                                        *)
ChatEnds ==
    (\A e \in Ends : speaker[e] = "done") ~> (\A e \in Ends : Over(e))
====
