---- MODULE DaemonServer ----
(* chapter07/src/daemon_server.c, and the commands of chapter07/src/          *)
(* test_daemon.sh and of its user. With -d it writes its pid to one fixed file *)
(* before it owns its port, serves one connection at a time, and leaves its   *)
(* accept loop when a signal handler has cleared keep_running. signal()       *)
(* restarts interrupted calls, so a daemon blocked in accept or recv stays    *)
(* there after the handler returns (the EINTR branch, lines 322-325, is dead).*)
EXTENDS Integers, FiniteSets

CONSTANTS Daemons,       \* successive starts of the program
          Ports,
          Port,          \* the -p option of each start
          Backlog,       \* bound: connections queued at a port
          MaxCrash       \* bound: daemons killed from outside

ASSUME PortAssumption == Port \in [Daemons -> Ports]
ASSUME BoundAssumption == Backlog \in Nat /\ MaxCrash \in Nat

VARIABLES pc,        \* the statement of main each process is at
          keep,      \* keep_running
          pending,   \* signals sent and not handled yet
          hpc,       \* signal_handler: off, in write_log, or blocked there
          spoke,     \* the client being served has sent or closed
          pidfile,   \* the content of PID_FILE
          streams,   \* who is writing the file that PID_FILE names
          owner,     \* the process listening on each port
          queue,     \* connections waiting at each port
          op,        \* what the command of the script does next
          target,    \* the pid it read, or the process it runs
          foreground,\* the processes started without -d
          crowded,   \* history: somebody acted in the middle of a start or a command
          crashes

dvars == <<pc, keep, pending, hpc, spoke>>
fvars == <<pidfile, streams>>
ovars == <<op, target, foreground, crowded>>
vars == <<dvars, fvars, owner, queue, ovars, crashes>>

None == "none"
Empty == "empty"
ASSUME NameAssumption == None \notin Daemons /\ Empty \notin Daemons

Alive(d) == pc[d] \notin {"off", "gone"}

(* ps -p of what was read from the file; without a number it fails.           *)
Running(pid) == IF pid \in Daemons THEN Alive(pid) ELSE FALSE

(* Started, and the PID file not written yet; and all of a run until its own  *)
(* clean-up has removed the file.                                             *)
Coming(d) == pc[d] \in {"fork", "open", "write"}
Active(d) == pc[d] \notin {"off", "nofile", "close", "gone"}

Init == /\ pc = [d \in Daemons |-> "off"]
        /\ keep = [d \in Daemons |-> TRUE]
        /\ pending = [d \in Daemons |-> {}]
        /\ hpc = [d \in Daemons |-> "off"]
        /\ spoke = [d \in Daemons |-> FALSE]
        /\ pidfile = None
        /\ streams = {}
        /\ owner = [p \in Ports |-> None]
        /\ queue = [p \in Ports |-> 0]
        /\ op = "idle"
        /\ target = None
        /\ foreground = {}
        /\ crowded = FALSE
        /\ crashes = 0

(* main advances only while no handler runs on top of it.                     *)
At(d, l) == pc[d] = l /\ hpc[d] = "off"
Goto(d, l) == pc' = [pc EXCEPT ![d] = l]

-----------------------------------------------------------------------------
(* main                                                                       *)

(* create_daemon: the second child goes on; a failing fork or setsid ends it. *)
Daemonize(d) ==
    /\ At(d, "fork")
    /\ \E l \in {"open", "gone"} : Goto(d, l)
    /\ UNCHANGED <<keep, pending, hpc, spoke, fvars, owner, queue, ovars, crashes>>

(* write_pid_file: fopen empties the file at once ...                         *)
OpenPidFile(d) ==
    /\ At(d, "open")
    /\ \/ pidfile' = Empty /\ streams' = streams \cup {d} /\ Goto(d, "write")
       \/ UNCHANGED fvars /\ Goto(d, "nofile")
    /\ UNCHANGED <<keep, pending, hpc, spoke, owner, queue, ovars, crashes>>

(* ... and fclose writes the pid, to a file that may have been removed.       *)
WritePidFile(d) ==
    /\ At(d, "write")
    /\ pidfile' = IF d \in streams THEN d ELSE pidfile
    /\ streams' = streams \ {d}
    /\ Goto(d, "bind")
    /\ UNCHANGED <<keep, pending, hpc, spoke, owner, queue, ovars, crashes>>

(* The log of the start; then socket, bind and listen, each of which may fail.*)
Bind(d) ==
    /\ At(d, "bind")
    /\ \/ /\ owner[Port[d]] = None
          /\ owner' = [owner EXCEPT ![Port[d]] = d]
          /\ Goto(d, "log_port")
       \/ Goto(d, "abort") /\ UNCHANGED owner
    /\ UNCHANGED <<keep, pending, hpc, spoke, fvars, queue, ovars, crashes>>

(* The process is over; signals still pending go with it.                     *)
Ended(d) ==
    /\ Goto(d, "gone")
    /\ pending' = [pending EXCEPT ![d] = {}]

(* The log that the file cannot be created, and exit.                         *)
NoPidFile(d) ==
    /\ At(d, "nofile")
    /\ Ended(d)
    /\ UNCHANGED <<keep, hpc, spoke, fvars, owner, queue, ovars, crashes>>

(* unlink, whoever wrote the file.                                            *)
Unlink == pidfile' = None /\ streams' = {}

(* In the foreground there is no file to remove.                              *)
RemovePidFile(d) == IF d \in foreground THEN UNCHANGED fvars ELSE Unlink

(* The start fails, which a daemon logs: exit(EXIT_FAILURE).                  *)
AbortStart(d) ==
    /\ At(d, "abort")
    /\ RemovePidFile(d)
    /\ Ended(d)
    /\ UNCHANGED <<keep, hpc, spoke, owner, queue, ovars, crashes>>

LogPort(d) ==
    /\ At(d, "log_port")
    /\ Goto(d, "while")
    /\ UNCHANGED <<keep, pending, hpc, spoke, fvars, owner, queue, ovars, crashes>>

(* while(keep_running)                                                        *)
WhileTest(d) ==
    /\ At(d, "while")
    /\ Goto(d, IF keep[d] THEN "accept" ELSE "cleanup")
    /\ UNCHANGED <<keep, pending, hpc, spoke, fvars, owner, queue, ovars, crashes>>

(* Mutant: the result of accept is not looked at.                             *)
AcceptUnchecked(d) ==
    /\ At(d, "accept")
    /\ queue' = [queue EXCEPT ![Port[d]] = @ - 1]
    /\ Goto(d, "log_conn")
    /\ UNCHANGED <<keep, pending, hpc, spoke, fvars, owner, ovars, crashes>>

(* accept, then the log of the new connection.                                *)
Accept(d) ==
    /\ At(d, "accept")
    /\ queue[Port[d]] > 0
    /\ queue' = [queue EXCEPT ![Port[d]] = @ - 1]
    /\ Goto(d, "log_conn")
    /\ UNCHANGED <<keep, pending, hpc, spoke, fvars, owner, ovars, crashes>>

(* accept fails for want of a descriptor or of memory: reported, and retried. *)
AcceptFails(d) ==
    /\ At(d, "accept")
    /\ Goto(d, "retry")
    /\ UNCHANGED <<keep, pending, hpc, spoke, fvars, owner, queue, ovars, crashes>>

ReportFailure(d) ==
    /\ At(d, "retry")
    /\ Goto(d, "while")
    /\ UNCHANGED <<keep, pending, hpc, spoke, fvars, owner, queue, ovars, crashes>>

LogConnection(d) ==
    /\ At(d, "log_conn")
    /\ Goto(d, "recv")
    /\ UNCHANGED <<keep, pending, hpc, spoke, fvars, owner, queue, ovars, crashes>>

(* handle_client: one recv, without a timeout.                                *)
Recv(d) ==
    /\ At(d, "recv")
    /\ spoke[d]
    /\ Goto(d, "log_msg")
    /\ spoke' = [spoke EXCEPT ![d] = FALSE]
    /\ UNCHANGED <<keep, pending, hpc, fvars, owner, queue, ovars, crashes>>

(* The message is logged and answered, and the connection closed.             *)
Reply(d) ==
    /\ At(d, "log_msg")
    /\ Goto(d, "while")
    /\ UNCHANGED <<keep, pending, hpc, spoke, fvars, owner, queue, ovars, crashes>>

(* Mutant: the PID file is left behind.                                       *)
CleanupForgotten(d) ==
    /\ At(d, "cleanup")
    /\ Goto(d, "close")
    /\ UNCHANGED <<keep, pending, hpc, spoke, fvars, owner, queue, ovars, crashes>>

(* The log of the end, and remove_pid_file.                                   *)
Cleanup(d) ==
    /\ At(d, "cleanup")
    /\ RemovePidFile(d)
    /\ Goto(d, "close")
    /\ UNCHANGED <<keep, pending, hpc, spoke, owner, queue, ovars, crashes>>

(* A port is free again, and its queue lost, when its owner ends.             *)
Release(d) ==
    /\ owner' = [p \in Ports |-> IF owner[p] = d THEN None ELSE owner[p]]
    /\ queue' = [p \in Ports |-> IF owner[p] = d THEN 0 ELSE queue[p]]

CloseSocket(d) ==
    /\ At(d, "close")
    /\ Release(d)
    /\ Ended(d)
    /\ UNCHANGED <<keep, hpc, spoke, fvars, ovars, crashes>>

MainStep(d) ==
    \/ Daemonize(d) \/ OpenPidFile(d) \/ WritePidFile(d) \/ NoPidFile(d) \/ Bind(d)
    \/ AbortStart(d) \/ LogPort(d) \/ WhileTest(d) \/ Accept(d) \/ ReportFailure(d)
    \/ LogConnection(d) \/ Recv(d) \/ Reply(d) \/ Cleanup(d) \/ CloseSocket(d)

-----------------------------------------------------------------------------
(* signal_handler                                                             *)

(* main may be in a write_log: its calls stand at the head of these labels    *)
(* (of abort and retry only as a daemon); or a handler is, which itself calls *)
(* it.                                                                        *)
InWriteLog(d) ==
    \/ pc[d] \in {"nofile", "bind", "log_port", "log_conn", "log_msg", "cleanup"}
    \/ pc[d] \in {"abort", "retry"} /\ d \notin foreground
    \/ hpc[d] = "log"

(* write_log takes the C library's locks (ctime, fopen): a handler that       *)
(* interrupts it there and logs again waits for its own process.              *)
HandlerLogs(d, s) ==
    /\ hpc[d] # "stuck"
    /\ \/ hpc' = [hpc EXCEPT ![d] = "log"] /\ pending' = [pending EXCEPT ![d] = @ \ {s}]
       \/ /\ InWriteLog(d)
          /\ hpc' = [hpc EXCEPT ![d] = "stuck"]
          /\ pending' = [pending EXCEPT ![d] = {}]

(* Mutant: the handler only logs the signal.                                  *)
HandlerOnlyLogs(d, s) ==
    /\ Alive(d) /\ s \in pending[d]
    /\ HandlerLogs(d, s)
    /\ UNCHANGED <<pc, keep, spoke, fvars, owner, queue, ovars, crashes>>

(* SIGTERM (and SIGINT) clears keep_running; SIGHUP only logs.                *)
HandlerRuns(d, s) ==
    /\ Alive(d) /\ s \in pending[d]
    /\ keep' = [keep EXCEPT ![d] = @ /\ s # "TERM"]
    /\ HandlerLogs(d, s)
    /\ UNCHANGED <<pc, spoke, fvars, owner, queue, ovars, crashes>>

HandlerReturns(d) ==
    /\ hpc[d] = "log"
    /\ hpc' = [hpc EXCEPT ![d] = "off"]
    /\ UNCHANGED <<pc, keep, pending, spoke, fvars, owner, queue, ovars, crashes>>

HandlerStep(d) == (\E s \in {"TERM", "HUP"} : HandlerRuns(d, s)) \/ HandlerReturns(d)

-----------------------------------------------------------------------------
(* The user's own commands, and the clients.                                  *)

(* kill of the pid read, if there is such a process; a blocked handler never  *)
(* sees another signal.                                                       *)
SignalTo(pid, s) ==
    pending' = [d \in Daemons |->
                  pending[d] \cup (IF d = pid /\ Alive(d) /\ hpc[d] # "stuck" THEN {s} ELSE {})]

(* kill -TERM / -HUP as the manual shows, and as reload does after is_running *)
(* (bound: one at a time, between commands of the script, and until the first *)
(* SIGTERM has been handled).                                                 *)
UserSignal(s) ==
    /\ Running(pidfile)
    /\ keep[pidfile] /\ pending[pidfile] = {} /\ hpc[pidfile] = "off" /\ op = "idle"
    /\ SignalTo(pidfile, s)
    /\ UNCHANGED <<pc, keep, hpc, spoke, fvars, owner, queue, ovars, crashes>>

(* Ctrl+C: SIGINT is handled like SIGTERM.                                    *)
Interrupt(d) ==
    /\ d \in foreground /\ Alive(d) /\ keep[d]
    /\ SignalTo(d, "TERM")
    /\ UNCHANGED <<pc, keep, hpc, spoke, fvars, owner, queue, ovars, crashes>>

(* The next process is started. It is crowded if another one runs, or if a    *)
(* command of the script is on its way to something it decided before.        *)
Launch(d, inForeground) ==
    /\ pc[d] = "off" /\ d = CHOOSE e \in Daemons : pc[e] = "off"
    /\ Goto(d, IF inForeground THEN "bind" ELSE "fork")
    /\ foreground' = IF inForeground THEN foreground \cup {d} ELSE foreground
    /\ crowded' = (crowded \/ op \notin {"idle", "launch"} \/ \E e \in Daemons : Active(e))

(* By hand, with -d or in the foreground, at any time.                        *)
UserStart ==
    /\ \E d \in Daemons, inForeground \in BOOLEAN : Launch(d, inForeground)
    /\ UNCHANGED <<keep, pending, hpc, spoke, fvars, owner, queue, op, target, crashes>>

(* A process is killed: nothing of its clean-up happens.                      *)
Kill(d) ==
    /\ Ended(d)
    /\ hpc' = [hpc EXCEPT ![d] = "off"]
    /\ spoke' = [spoke EXCEPT ![d] = FALSE]
    /\ streams' = streams \ {d}
    /\ Release(d)

(* A daemon is killed from outside, or by SIGPIPE.                            *)
Crash(d) ==
    /\ crashes < MaxCrash
    /\ Alive(d)
    /\ crashes' = crashes + 1
    /\ Kill(d)
    /\ UNCHANGED <<keep, pidfile, ovars>>

Connect(p) ==
    /\ owner[p] # None
    /\ queue[p] < Backlog
    /\ queue' = [queue EXCEPT ![p] = @ + 1]
    /\ UNCHANGED <<dvars, fvars, owner, ovars, crashes>>

(* The client being served sends its message, or closes.                      *)
ClientSpeaks(d) ==
    /\ pc[d] = "recv"
    /\ ~spoke[d]
    /\ spoke' = [spoke EXCEPT ![d] = TRUE]
    /\ UNCHANGED <<pc, keep, pending, hpc, fvars, owner, queue, ovars, crashes>>

-----------------------------------------------------------------------------
(* test_daemon.sh: one command at a time, each a sequence of programs that    *)
(* daemons and users come between; its sleeps promise nothing.                *)

(* is_running, the file: without one a start goes on and all others are over. *)
ReadPidFile(command) ==
    /\ target' = pidfile
    /\ op' = IF pidfile # None THEN command
             ELSE IF command = "start" THEN "launch" ELSE "idle"
    /\ crowded' = (crowded \/ \E d \in Daemons : Coming(d))
    /\ UNCHANGED <<dvars, fvars, owner, queue, foreground, crashes>>

(* status and test change no more than is_running; restart is stop and start. *)
ScriptBegins ==
    /\ op = "idle"
    /\ \E command \in {"start", "stop", "status"} : ReadPidFile(command)

(* is_running, ps: what it says is acted on later, whatever happens meanwhile.*)
LooksAlive ==
    /\ Running(target)
    /\ op' = IF op = "stop" THEN "term" ELSE "idle"

LooksDead ==
    /\ ~Running(target)
    /\ op' = IF op = "start" THEN "rm launch" ELSE "rm"

ScriptChecks ==
    /\ op \in {"start", "stop", "status"}
    /\ LooksAlive \/ LooksDead
    /\ target' = None
    /\ UNCHANGED <<dvars, fvars, owner, queue, foreground, crowded, crashes>>

(* rm -f                                                                      *)
ScriptRemoves ==
    /\ op \in {"rm", "rm launch"}
    /\ Unlink
    /\ op' = IF op = "rm" THEN "idle" ELSE "launch"
    /\ UNCHANGED <<dvars, owner, queue, target, foreground, crowded, crashes>>

(* start runs the program without -d: a server in the foreground of the       *)
(* script, which sees it end and looks at the file once more.                 *)
ScriptLaunches ==
    /\ op = "launch"
    /\ \E d \in Daemons : Launch(d, TRUE) /\ target' = d
    /\ op' = "run"
    /\ UNCHANGED <<keep, pending, hpc, spoke, fvars, owner, queue, crashes>>

ScriptRunEnds ==
    /\ op = "run"
    /\ ~Running(target)
    /\ ReadPidFile("status")

(* Mutant: the file is removed before the daemon has ended.                   *)
TerminatesAndRemoves ==
    /\ op = "term"
    /\ SignalTo(pidfile, "TERM")
    /\ target' = pidfile
    /\ op' = "wait"
    /\ Unlink
    /\ UNCHANGED <<pc, keep, hpc, spoke, owner, queue, foreground, crowded, crashes>>

(* stop reads the file again, for the pid to send SIGTERM to.                 *)
ScriptTerminates ==
    /\ op = "term"
    /\ SignalTo(pidfile, "TERM")
    /\ target' = pidfile
    /\ op' = "wait"
    /\ UNCHANGED <<pc, keep, hpc, spoke, fvars, owner, queue, foreground, crowded, crashes>>

(* ps no longer shows the process: rm -f, but not if only the look after the  *)
(* ten of the loop finds it gone ...                                          *)
ScriptSeesEnd ==
    /\ op = "wait"
    /\ ~Running(target)
    /\ op' \in {"rm", "idle"}
    /\ target' = None
    /\ UNCHANGED <<dvars, fvars, owner, queue, foreground, crowded, crashes>>

(* ... or if that look still shows it: kill -9, rm -f.                         *)
ScriptKills ==
    /\ op = "wait"
    /\ Running(target)
    /\ Kill(target)
    /\ op' = "rm"
    /\ target' = None
    /\ UNCHANGED <<keep, pidfile, foreground, crowded, crashes>>

ScriptStep ==
    \/ ScriptBegins \/ ScriptChecks \/ ScriptRemoves \/ ScriptLaunches \/ ScriptRunEnds
    \/ ScriptTerminates \/ ScriptSeesEnd \/ ScriptKills

-----------------------------------------------------------------------------
Next == \/ \E d \in Daemons : \/ MainStep(d) \/ AcceptFails(d) \/ HandlerStep(d)
                              \/ Crash(d) \/ ClientSpeaks(d) \/ Interrupt(d)
        \/ \E s \in {"TERM", "HUP"} : UserSignal(s)
        \/ UserStart \/ ScriptStep
        \/ \E p \in Ports : Connect(p)

Spec == Init /\ [][Next]_vars

(* Daemons run and SIGTERM is delivered even if SIGHUP keeps coming (strong   *)
(* fairness: nobody signals faster than a handler logs). Nobody is obliged to *)
(* connect, nor to speak once connected.                                      *)
Fairness == \A d \in Daemons : /\ SF_vars(MainStep(d))
                               /\ SF_vars(HandlerRuns(d, "TERM"))
                               /\ WF_vars(HandlerReturns(d))

FairSpec == Spec /\ Fairness

(* The same with clients that keep coming.                                    *)
BusySpec == FairSpec /\ \A p \in Ports : WF_vars(Connect(p))

-----------------------------------------------------------------------------
Labels == {"off", "fork", "open", "nofile", "write", "bind", "abort", "log_port", "while",
           "accept", "retry", "log_conn", "recv", "log_msg", "cleanup", "close", "gone"}

(* Types of the variables.                                                    *)
TypeOK ==
    /\ pc \in [Daemons -> Labels]
    /\ keep \in [Daemons -> BOOLEAN]
    /\ pending \in [Daemons -> SUBSET {"TERM", "HUP"}]
    /\ hpc \in [Daemons -> {"off", "log", "stuck"}]
    /\ spoke \in [Daemons -> BOOLEAN]
    /\ pidfile \in Daemons \cup {None, Empty}
    /\ streams \in SUBSET Daemons
    /\ owner \in [Ports -> Daemons \cup {None}]
    /\ queue \in [Ports -> 0 .. Backlog]
    /\ op \in {"idle", "start", "stop", "status", "rm", "rm launch", "launch", "run", "term", "wait"}
    /\ target \in Daemons \cup {None, Empty}
    /\ foreground \in SUBSET Daemons
    /\ crowded \in BOOLEAN
    /\ crashes \in 0 .. MaxCrash

(* However daemons are started, also over one that runs, the file never names *)
(* a process that ended by itself: it is stale only after a crash, or while   *)
(* the script, which has killed the process, is about to remove it.           *)
StaleOnlyByKill == pidfile \in Daemons /\ ~Alive(pidfile) => crashes > 0 \/ op = "rm"

(* As long as nobody starts a process while another one runs or a command of  *)
(* the script is under way, nor runs a command while one is being started, a  *)
(* daemon that listens can be found through the file until it has removed it  *)
(* itself, and a start finds its port taken only by one that is leaving:      *)
(* crashes, signals, stops and is_running's own rm never part the two.        *)
ServerIsFound ==
    ~crowded =>
        /\ \A p \in Ports : owner[p] # None =>
              pidfile = owner[p] \/ owner[p] \in foreground \/ pc[owner[p]] = "close"
        /\ \A d, e \in Daemons : pc[d] = "bind" /\ owner[Port[d]] = e => pc[e] = "close"

(* What the PID file tells of the processes, and what it hides.               *)
PidFileTells == StaleOnlyByKill /\ ServerIsFound

(* A daemon that is sent SIGTERM terminates, unless a signal caught it in     *)
(* write_log (its handler then waits for locks that main holds), or the       *)
(* client it is serving never says anything (recv has no timeout).            *)
TermEnds ==
    \A d \in Daemons :
        ("TERM" \in pending[d] /\ pc[d] # "off")
            ~> (~Alive(d) \/ hpc[d] = "stuck" \/ [](pc[d] = "recv" /\ ~spoke[d]))
====
