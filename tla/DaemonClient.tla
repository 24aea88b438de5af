---- MODULE DaemonClient ----
(* chapter07/src/daemon_client.c at its connection to daemon_server.c: the    *)
(* client goes on asking for lines, the daemon answers one and closes.        *)
EXTENDS Integers

CONSTANT MaxWords   \* bound: lines typed

ASSUME WordsAssumption == MaxWords \in Nat

VARIABLES dialog,  \* the client: new, reading a line, in recv, or over
          desk,    \* the daemon: busy with others, recv, send, close, closed, dead
          words,   \* lines sent
          replies, \* replies received
          unread,  \* lines the daemon has not read
          unheard, \* replies on their way
          torn,    \* the connection was reset
          stopped  \* the user interrupted the client

dcvars == <<dialog, desk, words, replies, unread, unheard, torn, stopped>>

DialogInit ==
    /\ dialog = "new"
    /\ desk = "busy"
    /\ words = 0 /\ replies = 0 /\ unread = 0 /\ unheard = 0
    /\ torn = FALSE /\ stopped = FALSE

Closed == desk \in {"closed", "dead"}

-----------------------------------------------------------------------------
(* The client.                                                                *)

DialogConnect ==
    /\ dialog = "new"
    /\ dialog' = IF Closed THEN "over" ELSE "input"
    /\ UNCHANGED <<desk, words, replies, unread, unheard, torn, stopped>>

(* send: on a reset connection it fails, or SIGPIPE ends the client; if the   *)
(* daemon has merely closed it succeeds, and a reset comes back.              *)
DialogSend ==
    /\ dialog = "input"
    /\ words < MaxWords
    /\ IF torn
       THEN dialog' = "over" /\ UNCHANGED <<words, unread, torn>>
       ELSE /\ dialog' = "recv"
            /\ words' = words + 1
            /\ torn' = Closed
            /\ unread' = IF Closed THEN unread ELSE unread + 1
    /\ UNCHANGED <<desk, replies, unheard, stopped>>

(* "quit", "EOF", or the end of input.                                        *)
DialogQuit ==
    /\ dialog = "input"
    /\ dialog' = "over"
    /\ UNCHANGED <<desk, words, replies, unread, unheard, torn, stopped>>

(* recv: the reply, or the end or the reset, on which the client leaves.      *)
DialogRecv ==
    /\ dialog = "recv"
    /\ \/ /\ unheard > 0
          /\ unheard' = unheard - 1
          /\ replies' = replies + 1
          /\ dialog' = "input"
       \/ /\ unheard = 0 /\ (Closed \/ torn)
          /\ dialog' = "over"
          /\ UNCHANGED <<replies, unheard>>
    /\ UNCHANGED <<desk, words, unread, torn, stopped>>

DialogStopped ==
    /\ dialog \in {"input", "recv"}
    /\ dialog' = "over"
    /\ stopped' = TRUE
    /\ UNCHANGED <<desk, words, replies, unread, unheard, torn>>

-----------------------------------------------------------------------------
(* The daemon: accept and handle_client.                                      *)

DeskAccept ==
    /\ desk = "busy"
    /\ dialog # "new"
    /\ desk' = "recv"
    /\ UNCHANGED <<dialog, words, replies, unread, unheard, torn, stopped>>

(* One recv, for all that has come; at the end of the stream no reply.        *)
DeskRecv ==
    /\ desk = "recv"
    /\ unread > 0 \/ dialog = "over"
    /\ desk' = IF unread > 0 THEN "send" ELSE "close"
    /\ unread' = 0
    /\ UNCHANGED <<dialog, words, replies, unheard, torn, stopped>>

DeskSend ==
    /\ desk = "send"
    /\ desk' = "close"
    /\ unheard' = IF dialog = "over" THEN unheard ELSE unheard + 1
    /\ UNCHANGED <<dialog, words, replies, unread, torn, stopped>>

(* Mutant: the connection is left open.                                       *)
DeskCloseForgotten ==
    /\ desk = "close"
    /\ UNCHANGED dcvars

(* Closing on a line not read is a reset.                                     *)
DeskClose ==
    /\ desk = "close"
    /\ desk' = "closed"
    /\ torn' = (torn \/ unread > 0)
    /\ UNCHANGED <<dialog, words, replies, unread, unheard, stopped>>

handle_client == DeskRecv \/ DeskSend \/ DeskClose

(* The daemon is killed; a client it had not accepted is reset.               *)
DeskDies ==
    /\ ~Closed
    /\ desk' = "dead"
    /\ torn' = (torn \/ unread > 0 \/ (desk = "busy" /\ dialog # "new"))
    /\ UNCHANGED <<dialog, words, replies, unread, unheard, stopped>>

DialogNext ==
    \/ DialogConnect \/ DialogSend \/ DialogQuit \/ DialogRecv \/ DialogStopped
    \/ DeskAccept \/ handle_client \/ DeskDies

DialogSpec == DialogInit /\ [][DialogNext]_dcvars

-----------------------------------------------------------------------------
DialogTypeOK ==
    /\ dialog \in {"new", "input", "recv", "over"}
    /\ desk \in {"busy", "recv", "send", "close", "closed", "dead"}
    /\ words \in 0 .. MaxWords /\ replies \in 0 .. words
    /\ unread \in 0 .. MaxWords /\ unheard \in 0 .. MaxWords
    /\ torn \in BOOLEAN /\ stopped \in BOOLEAN

(* Whenever the second line comes, before the daemon closes or after, the     *)
(* reset it provokes takes nothing of the first exchange with it: unless      *)
(* somebody is killed, the first line has its reply, and the client that was  *)
(* given a second one ends there.                                             *)
FirstLineAnswered ==
    desk # "dead" /\ ~stopped =>
        /\ dialog = "over" /\ words > 0 => replies = 1
        /\ words <= 2

(* The client does not wait in recv for ever, unless the daemon never gets    *)
(* round to it.                                                               *)
DialogEnds == dialog = "recv" ~> (dialog # "recv" \/ [](desk = "busy"))
====
