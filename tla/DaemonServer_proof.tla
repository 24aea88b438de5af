---- MODULE DaemonServer_proof ----
(* Proofs about DaemonServer, for any number of starts on any ports.          *)
EXTENDS DaemonServer, TLAPS

(* From bind to the end of the loop a process that was started with -d has    *)
(* written its pid to the file; before, it is about to.                       *)
Serving == {"log_port", "while", "accept", "retry", "log_conn", "recv", "log_msg", "cleanup"}
Filed == {"bind", "abort"} \cup Serving

(* Who owns a port serves, or is leaving.                                     *)
OwnerInv == \A p \in Ports : owner[p] # None => pc[owner[p]] \in Serving \cup {"close"}

(* The file names somebody who wrote it and has not removed it; when that     *)
(* process is over, it was killed. Only who is about to write has it open.    *)
FileInv ==
    /\ pidfile \in Daemons =>
        /\ pidfile \notin foreground
        /\ pc[pidfile] \in Filed \cup {"gone"}
        /\ pc[pidfile] = "gone" => crashes > 0 \/ op = "rm"
    /\ \A d \in foreground : ~Coming(d) /\ pc[d] # "off"
    /\ \A d \in streams : pc[d] = "write"

(* Without crowding one process is between its start and its clean-up; the    *)
(* file is its own, and so is what a command of the script has read: a        *)
(* command that goes on to remove the file has no daemon to hide.             *)
CrowdInv ==
    ~crowded =>
        /\ \A d, e \in Daemons : Active(d) /\ Active(e) => d = e
        /\ \A d \in Daemons : pc[d] = "write" => d \in streams
        /\ \A d \in Daemons \ foreground : pc[d] \in Filed => pidfile = d
        /\ op \notin {"idle", "launch"} => \A d \in Daemons : ~Coming(d)
        /\ op \in {"start", "stop", "status", "wait"} =>
              \A d \in Daemons \ foreground : pc[d] \in Filed => target = d
        /\ op \in {"rm", "rm launch"} => \A d \in Daemons : Active(d) => d \in foreground

DInv == TypeOK /\ OwnerInv /\ FileInv /\ CrowdInv

-----------------------------------------------------------------------------
(* Nobody has been started.                                                   *)
LEMMA InitDInv == Init => DInv
<1> SUFFICES ASSUME Init PROVE DInv
    OBVIOUS
<1>1. TypeOK
  <2>1. 0 \in 0 .. Backlog /\ 0 \in 0 .. MaxCrash
    BY BoundAssumption, SMT
  <2>2. "off" \in Labels
    BY DEF Labels
  <2> QED BY <2>1, <2>2 DEF Init, TypeOK
<1>2. OwnerInv /\ FileInv /\ CrowdInv
  BY NameAssumption DEF Init, OwnerInv, FileInv, CrowdInv, Active, Filed, Serving
<1> QED BY <1>1, <1>2 DEF DInv

(* One process moves to l.                                                    *)
LEMMA Moves ==
    ASSUME TypeOK, NEW d \in Daemons, NEW l \in Labels, Goto(d, l)
    PROVE  pc' \in [Daemons -> Labels] /\ \A e \in Daemons : pc'[e] = IF e = d THEN l ELSE pc[e]
<1>1. pc \in [Daemons -> Labels]
  BY DEF TypeOK
<1> QED BY <1>1 DEF Goto

(* When a process ends, the port it listened at is free.                      *)
LEMMA Releases ==
    ASSUME TypeOK, NEW d \in Daemons, Release(d)
    PROVE  /\ owner' \in [Ports -> Daemons \cup {None}] /\ queue' \in [Ports -> 0 .. Backlog]
           /\ \A p \in Ports : owner'[p] # None => owner'[p] = owner[p] /\ owner[p] # d
<1>1. /\ owner \in [Ports -> Daemons \cup {None}] /\ queue \in [Ports -> 0 .. Backlog]
  BY DEF TypeOK
<1>2. 0 \in 0 .. Backlog
  BY BoundAssumption, SMT
<1> QED BY <1>1, <1>2 DEF Release

-----------------------------------------------------------------------------
(* Types.                                                                     *)

LEMMA MainTypes ==
    ASSUME TypeOK, NEW d \in Daemons, MainStep(d) \/ AcceptFails(d) PROVE TypeOK'
<1>o. UNCHANGED <<ovars, crashes>>
  BY DEF MainStep, Daemonize, OpenPidFile, WritePidFile, NoPidFile, Bind, AbortStart, LogPort,
         WhileTest, Accept, AcceptFails, ReportFailure, LogConnection, Recv, Reply, Cleanup, CloseSocket
<1>1. pc' \in [Daemons -> Labels]
  <2>1. \E l \in Labels : Goto(d, l)
    BY DEF MainStep, Daemonize, OpenPidFile, WritePidFile, NoPidFile, Bind, AbortStart, LogPort,
           WhileTest, Accept, AcceptFails, ReportFailure, LogConnection, Recv, Reply, Cleanup,
           CloseSocket, Ended, Labels
  <2> QED BY <2>1, Moves
<1>2. /\ keep' \in [Daemons -> BOOLEAN] /\ hpc' \in [Daemons -> {"off", "log", "stuck"}]
      /\ pending' \in [Daemons -> SUBSET {"TERM", "HUP"}] /\ spoke' \in [Daemons -> BOOLEAN]
  BY DEF TypeOK, MainStep, Daemonize, OpenPidFile, WritePidFile, NoPidFile, Bind, AbortStart,
         LogPort, WhileTest, Accept, AcceptFails, ReportFailure, LogConnection, Recv, Reply,
         Cleanup, CloseSocket, Ended
<1>3. pidfile' \in Daemons \cup {None, Empty} /\ streams' \in SUBSET Daemons
  BY DEF TypeOK, MainStep, Daemonize, OpenPidFile, WritePidFile, NoPidFile, Bind, AbortStart,
         LogPort, WhileTest, Accept, AcceptFails, ReportFailure, LogConnection, Recv, Reply,
         Cleanup, CloseSocket, RemovePidFile, Unlink, fvars
<1>4. owner' \in [Ports -> Daemons \cup {None}] /\ queue' \in [Ports -> 0 .. Backlog]
  <2>1. CASE CloseSocket(d)
    BY <2>1, Releases DEF CloseSocket
  <2>2. CASE Accept(d)
    <3>1. queue \in [Ports -> 0 .. Backlog] /\ Port[d] \in Ports
      BY PortAssumption DEF TypeOK
    <3>2. queue[Port[d]] - 1 \in 0 .. Backlog
      BY <2>2, <3>1, BoundAssumption, SMT DEF Accept
    <3> QED BY <2>2, <3>1, <3>2 DEF Accept, TypeOK
  <2>3. CASE Bind(d)
    BY <2>3 DEF Bind, TypeOK
  <2>4. CASE UNCHANGED <<owner, queue>>
    BY <2>4 DEF TypeOK
  <2> QED
    BY <2>1, <2>2, <2>3, <2>4 DEF MainStep, Daemonize, OpenPidFile, WritePidFile, NoPidFile,
       AbortStart, LogPort, WhileTest, AcceptFails, ReportFailure, LogConnection, Recv, Reply, Cleanup
<1> QED BY <1>o, <1>1, <1>2, <1>3, <1>4 DEF TypeOK, ovars

LEMMA HandlerTypes == ASSUME TypeOK, NEW d \in Daemons, HandlerStep(d) PROVE TypeOK'
<1>1. UNCHANGED <<pc, spoke, fvars, owner, queue, ovars, crashes>>
  BY DEF HandlerStep, HandlerRuns, HandlerReturns
<1>2. /\ pending' \in [Daemons -> SUBSET {"TERM", "HUP"}]
      /\ hpc' \in [Daemons -> {"off", "log", "stuck"}] /\ keep' \in [Daemons -> BOOLEAN]
  <2>1. CASE HandlerReturns(d)
    BY <2>1 DEF HandlerReturns, TypeOK
  <2>2. ASSUME NEW s \in {"TERM", "HUP"}, HandlerRuns(d, s)
        PROVE  /\ pending' \in [Daemons -> SUBSET {"TERM", "HUP"}]
               /\ hpc' \in [Daemons -> {"off", "log", "stuck"}] /\ keep' \in [Daemons -> BOOLEAN]
    <3>1. /\ keep' = [keep EXCEPT ![d] = keep[d] /\ s # "TERM"]
          /\ \E h \in {"log", "stuck"} : hpc' = [hpc EXCEPT ![d] = h]
          /\ \E set \in {pending[d] \ {s}, {}} : pending' = [pending EXCEPT ![d] = set]
      BY <2>2 DEF HandlerRuns, HandlerLogs
    <3>2. /\ keep \in [Daemons -> BOOLEAN] /\ hpc \in [Daemons -> {"off", "log", "stuck"}]
          /\ pending \in [Daemons -> SUBSET {"TERM", "HUP"}]
      BY DEF TypeOK
    <3>3. hpc' \in [Daemons -> {"off", "log", "stuck"}]
      BY <3>1, <3>2
    <3>4. pending' \in [Daemons -> SUBSET {"TERM", "HUP"}]
      BY <3>1, <3>2
    <3>5. keep' \in [Daemons -> BOOLEAN]
      BY <3>1, <3>2
    <3> QED BY <3>3, <3>4, <3>5
  <2> QED BY <2>1, <2>2 DEF HandlerStep
<1> QED BY <1>1, <1>2 DEF TypeOK, fvars, ovars

LEMMA SignalTypes ==
    ASSUME TypeOK, NEW pid, NEW s \in {"TERM", "HUP"}, SignalTo(pid, s)
    PROVE  pending' \in [Daemons -> SUBSET {"TERM", "HUP"}]
BY DEF TypeOK, SignalTo

LEMMA KillTypes ==
    ASSUME TypeOK, NEW d \in Daemons, Kill(d)
    PROVE  /\ pc' \in [Daemons -> Labels] /\ pending' \in [Daemons -> SUBSET {"TERM", "HUP"}]
           /\ hpc' \in [Daemons -> {"off", "log", "stuck"}] /\ spoke' \in [Daemons -> BOOLEAN]
           /\ streams' \in SUBSET Daemons
           /\ owner' \in [Ports -> Daemons \cup {None}] /\ queue' \in [Ports -> 0 .. Backlog]
<1>1. pc' \in [Daemons -> Labels]
  BY Moves DEF Kill, Ended, Labels
<1>2. owner' \in [Ports -> Daemons \cup {None}] /\ queue' \in [Ports -> 0 .. Backlog]
  BY Releases DEF Kill
<1>3. /\ pending' \in [Daemons -> SUBSET {"TERM", "HUP"}] /\ streams' \in SUBSET Daemons
      /\ hpc' \in [Daemons -> {"off", "log", "stuck"}] /\ spoke' \in [Daemons -> BOOLEAN]
  BY DEF TypeOK, Kill, Ended
<1> QED BY <1>1, <1>2, <1>3

LEMMA ScriptTypes == ASSUME TypeOK, ScriptStep PROVE TypeOK'
<1> USE DEF dvars, fvars, ovars
<1>1. ASSUME NEW command \in {"start", "stop", "status"}, ReadPidFile(command) PROVE TypeOK'
  BY <1>1 DEF TypeOK, ReadPidFile
<1>2. CASE ScriptBegins \/ ScriptRunEnds
  BY <1>1, <1>2 DEF ScriptBegins, ScriptRunEnds
<1>3. CASE ScriptChecks
  <2>1. op' \in {"term", "idle", "rm launch", "rm"}
    BY <1>3 DEF ScriptChecks, LooksAlive, LooksDead
  <2> QED BY <1>3, <2>1 DEF TypeOK, ScriptChecks
<1>4. CASE ScriptRemoves
  BY <1>4 DEF TypeOK, ScriptRemoves, Unlink
<1>5. CASE ScriptLaunches
  <2>1. PICK d \in Daemons : Launch(d, TRUE) /\ target' = d
    BY <1>5 DEF ScriptLaunches
  <2>2. pc' \in [Daemons -> Labels]
    BY <2>1, Moves DEF Launch, Labels
  <2>3. foreground' \in SUBSET Daemons /\ crowded' \in BOOLEAN
    BY <2>1 DEF Launch, TypeOK
  <2> QED BY <1>5, <2>1, <2>2, <2>3 DEF TypeOK, ScriptLaunches
<1>6. CASE ScriptTerminates
  BY <1>6, SignalTypes DEF TypeOK, ScriptTerminates
<1>7. CASE ScriptSeesEnd
  BY <1>7 DEF TypeOK, ScriptSeesEnd
<1>8. CASE ScriptKills
  <2>1. target \in Daemons
    BY <1>8 DEF ScriptKills, Running
  <2> QED BY <1>8, <2>1, KillTypes DEF TypeOK, ScriptKills
<1> QED BY <1>2, <1>3, <1>4, <1>5, <1>6, <1>7, <1>8 DEF ScriptStep

LEMMA NextTypes == TypeOK /\ [Next]_vars => TypeOK'
<1> SUFFICES ASSUME TypeOK, [Next]_vars PROVE TypeOK'
    OBVIOUS
<1> USE DEF dvars, fvars, ovars
<1>1. ASSUME NEW d \in Daemons, MainStep(d) \/ AcceptFails(d) PROVE TypeOK'
  BY <1>1, MainTypes
<1>2. ASSUME NEW d \in Daemons, HandlerStep(d) PROVE TypeOK'
  BY <1>2, HandlerTypes
<1>3. ASSUME NEW d \in Daemons, Crash(d) PROVE TypeOK'
  <2>1. crashes \in 0 .. MaxCrash /\ crashes < MaxCrash /\ crashes' = crashes + 1
    BY <1>3 DEF Crash, TypeOK
  <2>2. crashes' \in 0 .. MaxCrash
    BY <2>1, BoundAssumption, SMT
  <2> QED BY <1>3, <2>2, KillTypes DEF Crash, TypeOK
<1>4. ASSUME NEW d \in Daemons, ClientSpeaks(d) \/ Interrupt(d) PROVE TypeOK'
  <2>1. CASE ClientSpeaks(d)
    BY <2>1 DEF ClientSpeaks, TypeOK
  <2>2. CASE Interrupt(d)
    BY <2>2, SignalTypes DEF Interrupt, TypeOK
  <2> QED BY <1>4, <2>1, <2>2
<1>5. ASSUME NEW s \in {"TERM", "HUP"}, UserSignal(s) PROVE TypeOK'
  BY <1>5, SignalTypes DEF UserSignal, TypeOK
<1>6. CASE UserStart
  <2>1. PICK d \in Daemons, inForeground \in BOOLEAN : Launch(d, inForeground)
    BY <1>6 DEF UserStart
  <2>2. pc' \in [Daemons -> Labels]
    BY <2>1, Moves DEF Launch, Labels
  <2>3. foreground' \in SUBSET Daemons /\ crowded' \in BOOLEAN
    BY <2>1 DEF Launch, TypeOK
  <2> QED BY <1>6, <2>2, <2>3 DEF UserStart, TypeOK
<1>7. ASSUME NEW p \in Ports, Connect(p) PROVE TypeOK'
  <2>1. queue \in [Ports -> 0 .. Backlog] /\ queue[p] < Backlog
    BY <1>7 DEF Connect, TypeOK
  <2>2. queue[p] + 1 \in 0 .. Backlog
    BY <2>1, BoundAssumption, SMT
  <2> QED BY <1>7, <2>1, <2>2 DEF Connect, TypeOK
<1>8. CASE UNCHANGED vars
  BY <1>8 DEF vars, TypeOK
<1> QED BY <1>1, <1>2, <1>3, <1>4, <1>5, <1>6, <1>7, <1>8, ScriptTypes DEF Next

-----------------------------------------------------------------------------
(* The invariant.                                                             *)

(* What a process does between bind and its clean-up, and what its handler,   *)
(* its clients and senders of signals do, changes nothing of it.              *)
LEMMA Inside ==
    ASSUME DInv, TypeOK', UNCHANGED <<fvars, owner, ovars, crashes>>,
           \A d \in Daemons : pc'[d] = pc[d] \/ (pc[d] \in Serving /\ pc'[d] \in Serving)
    PROVE  DInv'
<1>t. /\ TypeOK /\ OwnerInv /\ FileInv /\ CrowdInv
      /\ owner \in [Ports -> Daemons \cup {None}] /\ foreground \in SUBSET Daemons
      /\ streams \in SUBSET Daemons
  BY DEF DInv, TypeOK
<1> USE DEF fvars, ovars
<1>1. \A d \in Daemons : /\ Coming(d)' <=> Coming(d)
                         /\ Active(d)' <=> Active(d)
                         /\ pc'[d] \in Filed <=> pc[d] \in Filed
                         /\ pc'[d] \in Serving <=> pc[d] \in Serving
                         /\ pc'[d] = "write" <=> pc[d] = "write"
                         /\ pc'[d] = "gone" <=> pc[d] = "gone"
                         /\ pc'[d] = "off" <=> pc[d] = "off"
                         /\ pc'[d] = "close" <=> pc[d] = "close"
  BY DEF Coming, Active, Filed, Serving
<1>2. OwnerInv'
  BY <1>t, <1>1 DEF OwnerInv
<1>3. FileInv'
  BY <1>t, <1>1 DEF FileInv
<1>4. CrowdInv'
  BY <1>t, <1>1 DEF CrowdInv
<1> QED BY <1>2, <1>3, <1>4 DEF DInv

(* The kinds of statement, once and for all.                                  *)
LEMMA Kinds ==
    ASSUME NEW d \in Daemons, pc[d] \in Labels
    PROVE  /\ Active(d) <=> Coming(d) \/ pc[d] \in Filed
           /\ pc[d] \in Filed => ~Coming(d) /\ pc[d] \notin {"off", "nofile", "close", "gone"}
           /\ pc[d] \in Serving => pc[d] \in Filed /\ pc[d] # "bind"
           /\ pc[d] = "write" => Coming(d)
BY DEF Labels, Active, Coming, Filed, Serving

(* main before bind, and when it removes the file or ends.                    *)
LEMMA MainDInv == ASSUME DInv, NEW d \in Daemons, MainStep(d) \/ AcceptFails(d) PROVE DInv'
<1>t. /\ TypeOK /\ OwnerInv /\ FileInv /\ CrowdInv /\ TypeOK'
      /\ owner \in [Ports -> Daemons \cup {None}] /\ pidfile \in Daemons \cup {None, Empty}
      /\ foreground \in SUBSET Daemons /\ streams \in SUBSET Daemons
      /\ pc \in [Daemons -> Labels] /\ None \notin Daemons /\ Empty \notin Daemons
  BY MainTypes, NameAssumption DEF DInv, TypeOK
<1> USE DEF At, fvars, ovars
<1>m. ASSUME NEW l \in Labels, Goto(d, l)
      PROVE  pc'[d] = l /\ \A e \in Daemons : e # d => pc'[e] = pc[e]
  BY <1>t, <1>m, Moves
<1>o. UNCHANGED <<ovars, crashes>>
  BY DEF MainStep, Daemonize, OpenPidFile, WritePidFile, NoPidFile, Bind, AbortStart, LogPort,
         WhileTest, Accept, AcceptFails, ReportFailure, LogConnection, Recv, Reply, Cleanup, CloseSocket
<1>1. CASE Daemonize(d)
  <2>1. /\ pc[d] = "fork" /\ pc'[d] \in {"open", "gone"} /\ \A e \in Daemons : e # d => pc'[e] = pc[e]
        /\ UNCHANGED <<fvars, owner>>
    BY <1>1, <1>m DEF Daemonize, Labels
  <2>2. OwnerInv'  BY <1>t, <2>1 DEF OwnerInv, Serving
  <2>3. FileInv'  BY <1>t, <1>o, <2>1 DEF FileInv, Coming, Filed, Serving
  <2>4. CrowdInv'  BY <1>t, <1>o, <2>1 DEF CrowdInv, Coming, Active, Filed, Serving
  <2> QED BY <1>t, <2>2, <2>3, <2>4 DEF DInv
<1>2. CASE OpenPidFile(d)
  <2>1. /\ pc[d] = "open" /\ \A e \in Daemons : e # d => pc'[e] = pc[e]
        /\ \/ pc'[d] = "write" /\ pidfile' = Empty /\ streams' = streams \cup {d}
           \/ pc'[d] = "nofile" /\ UNCHANGED fvars
        /\ UNCHANGED owner
    BY <1>2, <1>m DEF OpenPidFile, Labels
  <2>2. OwnerInv'  BY <1>t, <2>1 DEF OwnerInv, Serving
  <2>3. FileInv'  BY <1>t, <1>o, <2>1 DEF FileInv, Coming, Filed, Serving
  <2>4. CrowdInv'  BY <1>t, <1>o, <2>1 DEF CrowdInv, Coming, Active, Filed, Serving
  <2> QED BY <1>t, <2>2, <2>3, <2>4 DEF DInv
<1>3. CASE WritePidFile(d)
  <2>1. /\ pc[d] = "write" /\ pc'[d] = "bind" /\ \A e \in Daemons : e # d => pc'[e] = pc[e]
        /\ pidfile' = (IF d \in streams THEN d ELSE pidfile) /\ streams' = streams \ {d}
        /\ UNCHANGED owner
    BY <1>3, <1>m DEF WritePidFile, Labels
  <2>2. OwnerInv'  BY <1>t, <2>1 DEF OwnerInv, Serving
  <2>3. d \notin foreground
    BY <1>t, <2>1 DEF FileInv, Coming
  <2>4. FileInv'  BY <1>t, <1>o, <2>1, <2>3 DEF FileInv, Coming, Filed, Serving
  <2>5. CrowdInv'  BY <1>t, <1>o, <2>1 DEF CrowdInv, Coming, Active, Filed, Serving
  <2> QED BY <1>t, <2>2, <2>4, <2>5 DEF DInv
<1>4. CASE NoPidFile(d)
  <2>1. /\ pc[d] = "nofile" /\ pc'[d] = "gone" /\ \A e \in Daemons : e # d => pc'[e] = pc[e]
        /\ UNCHANGED <<fvars, owner>>
    BY <1>4, <1>m DEF NoPidFile, Ended, Labels
  <2>2. OwnerInv'  BY <1>t, <2>1 DEF OwnerInv, Serving
  <2>3. FileInv'  BY <1>t, <1>o, <2>1 DEF FileInv, Coming, Filed, Serving
  <2>4. CrowdInv'  BY <1>t, <1>o, <2>1 DEF CrowdInv, Coming, Active, Filed, Serving
  <2> QED BY <1>t, <2>2, <2>3, <2>4 DEF DInv
<1>5. CASE Bind(d)
  <2>1. /\ pc[d] = "bind" /\ \A e \in Daemons : e # d => pc'[e] = pc[e]
        /\ \/ pc'[d] = "log_port" /\ owner' = [owner EXCEPT ![Port[d]] = d]
           \/ pc'[d] = "abort" /\ UNCHANGED owner
        /\ UNCHANGED fvars
    BY <1>5, <1>m DEF Bind, Labels
  <2>2. OwnerInv'
    <3>1. \A p \in Ports : owner'[p] = owner[p] \/ (owner'[p] = d /\ pc'[d] = "log_port")
      BY <1>t, <2>1
    <3>2. \A p \in Ports : owner[p] # None => owner[p] \in Daemons /\ owner[p] # d
      BY <1>t, <2>1 DEF OwnerInv, Serving
    <3>3. \A p \in Ports : owner[p] # None => pc'[owner[p]] = pc[owner[p]]
      BY <2>1, <3>2
    <3> QED BY <1>t, <3>1, <3>3 DEF OwnerInv, Serving
  <2>3. FileInv'  BY <1>t, <1>o, <2>1 DEF FileInv, Coming, Filed, Serving
  <2>4. CrowdInv'  BY <1>t, <1>o, <2>1 DEF CrowdInv, Coming, Active, Filed, Serving
  <2> QED BY <1>t, <2>2, <2>3, <2>4 DEF DInv
<1>6. CASE AbortStart(d) \/ Cleanup(d)
  <2>1. /\ \/ pc[d] = "abort" /\ pc'[d] = "gone"
           \/ pc[d] = "cleanup" /\ pc'[d] = "close"
        /\ \A e \in Daemons : e # d => pc'[e] = pc[e]
        /\ IF d \in foreground THEN UNCHANGED fvars ELSE pidfile' = None /\ streams' = {}
        /\ UNCHANGED owner
    BY <1>6, <1>m DEF AbortStart, Cleanup, RemovePidFile, Unlink, Ended, Labels
  <2>2. OwnerInv'  BY <1>t, <2>1 DEF OwnerInv, Serving
  <2>3. FileInv'  BY <1>t, <1>o, <2>1 DEF FileInv, Coming, Filed, Serving
  <2>4. CrowdInv'  BY <1>t, <1>o, <2>1 DEF CrowdInv, Coming, Active, Filed, Serving
  <2> QED BY <1>t, <2>2, <2>3, <2>4 DEF DInv
<1>7. CASE CloseSocket(d)
  <2>1. /\ pc[d] = "close" /\ pc'[d] = "gone" /\ \A e \in Daemons : e # d => pc'[e] = pc[e]
        /\ UNCHANGED fvars
    BY <1>7, <1>m DEF CloseSocket, Ended, Labels
  <2>2. \A p \in Ports : owner'[p] # None => owner'[p] = owner[p] /\ owner[p] # d
    BY <1>t, <1>7, Releases DEF CloseSocket
  <2>3. OwnerInv'  BY <1>t, <2>1, <2>2 DEF OwnerInv
  <2>4. FileInv'  BY <1>t, <1>o, <2>1 DEF FileInv, Coming, Filed, Serving
  <2>5. CrowdInv'  BY <1>t, <1>o, <2>1 DEF CrowdInv, Coming, Active, Filed, Serving
  <2> QED BY <1>t, <2>3, <2>4, <2>5 DEF DInv
<1>8. CASE \/ LogPort(d) \/ WhileTest(d) \/ Accept(d) \/ AcceptFails(d) \/ ReportFailure(d)
           \/ LogConnection(d) \/ Recv(d) \/ Reply(d)
  <2>1. /\ pc[d] \in Serving /\ \E l \in Serving : Goto(d, l)
        /\ UNCHANGED <<fvars, owner>>
    BY <1>8 DEF LogPort, WhileTest, Accept, AcceptFails, ReportFailure, LogConnection, Recv, Reply, Serving
  <2>2. pc'[d] \in Serving /\ \A e \in Daemons : e # d => pc'[e] = pc[e]
    BY <2>1, <1>m DEF Serving, Labels
  <2> QED BY <1>t, <1>o, <2>1, <2>2, Inside
<1> QED BY <1>1, <1>2, <1>3, <1>4, <1>5, <1>6, <1>7, <1>8 DEF MainStep

(* A process is started, by hand or by the script.                            *)
LEMMA StartDInv == ASSUME DInv, UserStart \/ ScriptLaunches PROVE DInv'
<1>t. /\ TypeOK /\ OwnerInv /\ FileInv /\ CrowdInv /\ TypeOK'
      /\ owner \in [Ports -> Daemons \cup {None}] /\ foreground \in SUBSET Daemons
      /\ streams \in SUBSET Daemons /\ None \notin Daemons /\ crowded \in BOOLEAN
  <2>1. Next
    BY DEF Next, ScriptStep
  <2> QED BY <2>1, NextTypes, NameAssumption DEF DInv, TypeOK
<1>1. PICK d \in Daemons, inForeground \in BOOLEAN :
         Launch(d, inForeground) /\ (op' # op => op = "launch" /\ op' = "run" /\ inForeground)
  BY DEF UserStart, ScriptLaunches
<1>2. UNCHANGED <<fvars, owner, crashes>>
  BY DEF UserStart, ScriptLaunches
<1>3. /\ pc[d] = "off" /\ pc'[d] = (IF inForeground THEN "bind" ELSE "fork")
      /\ \A e \in Daemons : e # d => pc'[e] = pc[e]
      /\ foreground' = IF inForeground THEN foreground \cup {d} ELSE foreground
  BY <1>t, <1>1, Moves DEF Launch, Labels
<1>4. ~crowded' => op \in {"idle", "launch"} /\ \A e \in Daemons : ~Active(e)
  BY <1>t, <1>1 DEF Launch
<1> USE DEF fvars
<1>5. OwnerInv'
  BY <1>t, <1>2, <1>3 DEF OwnerInv, Serving
<1>6. FileInv'
  <2>1. d \notin foreground /\ pidfile # d /\ d \notin streams
    BY <1>t, <1>3 DEF FileInv, Filed, Serving
  <2> QED BY <1>t, <1>1, <1>2, <1>3, <2>1 DEF FileInv, Coming
<1>7. CrowdInv'
  <2> SUFFICES ASSUME ~crowded' PROVE CrowdInv'
      BY DEF CrowdInv
  <2>1. \A e \in Daemons : e # d => ~Active(e)'
    BY <1>3, <1>4 DEF Active
  <2>2. ~Active(d) /\ \A e \in Daemons : pc'[e] \in Filed \/ Coming(e)' => Active(e)'
    BY <1>3 DEF Active, Coming, Filed, Serving
  <2>3. /\ pc'[d] # "write" /\ (pc'[d] \in Filed => d \in foreground')
        /\ inForeground => ~Coming(d)'
    BY <1>3 DEF Coming, Filed, Serving
  <2>4. op' \in {"idle", "launch"} \/ (op' = "run" /\ inForeground)
    BY <1>1, <1>4
  <2>5. \A e \in Daemons : pc'[e] # "write"
    BY <2>1, <2>3 DEF Active
  <2>6. \A e \in Daemons \ foreground' : pc'[e] \notin Filed
    BY <2>1, <2>2, <2>3
  <2>7. op' = "run" => \A e \in Daemons : ~Coming(e)'
    BY <2>1, <2>2, <2>3, <2>4
  <2> QED BY <2>1, <2>4, <2>5, <2>6, <2>7 DEF CrowdInv
<1> QED BY <1>t, <1>5, <1>6, <1>7 DEF DInv

(* A command of the script reads the file, looks for the process, signals it, *)
(* or removes the file.                                                       *)
LEMMA ScriptDInv ==
    ASSUME DInv,
           \/ ScriptBegins \/ ScriptChecks \/ ScriptRemoves \/ ScriptRunEnds
           \/ ScriptTerminates \/ ScriptSeesEnd
    PROVE  DInv'
<1>t. /\ TypeOK /\ OwnerInv /\ FileInv /\ CrowdInv /\ TypeOK'
      /\ owner \in [Ports -> Daemons \cup {None}] /\ foreground \in SUBSET Daemons
      /\ streams \in SUBSET Daemons /\ pidfile \in Daemons \cup {None, Empty}
      /\ crowded \in BOOLEAN /\ pc \in [Daemons -> Labels]
      /\ None \notin Daemons /\ Empty \notin Daemons
  <2>1. ScriptStep
    BY DEF ScriptStep
  <2> QED BY <2>1, ScriptTypes, NameAssumption DEF DInv, TypeOK
<1>u. UNCHANGED <<pc, owner, foreground, crashes>>
  BY DEF ScriptBegins, ScriptChecks, ScriptRemoves, ScriptRunEnds, ReadPidFile, ScriptTerminates,
         ScriptSeesEnd, dvars
<1>k. \A d \in Daemons : /\ Active(d) <=> Coming(d) \/ pc[d] \in Filed
                         /\ pc[d] \in Filed => Alive(d)
                         /\ pc[d] = "write" => Coming(d)
                         /\ Coming(d)' <=> Coming(d)
                         /\ Active(d)' <=> Active(d)
  BY <1>t, <1>u, Kinds DEF Alive, Coming, Active
<1> USE DEF fvars
<1>1. OwnerInv'
  BY <1>t, <1>u DEF OwnerInv
<1>2. ASSUME NEW command \in {"start", "stop", "status"}, ReadPidFile(command), op # "rm" PROVE DInv'
  <2>1. UNCHANGED fvars /\ target' = pidfile /\ op' \in {"idle", "launch", "start", "stop", "status"}
    BY <1>2 DEF ReadPidFile
  <2>2. FileInv'
    BY <1>t, <1>u, <1>k, <1>2, <2>1 DEF FileInv
  <2>3. ~crowded' => ~crowded /\ \A d \in Daemons : ~Coming(d)
    BY <1>2, <1>t DEF ReadPidFile
  <2>4. CrowdInv'
    BY <1>t, <1>u, <1>k, <2>1, <2>3 DEF CrowdInv
  <2> QED BY <1>t, <1>1, <2>2, <2>4 DEF DInv
<1>3. CASE ScriptBegins
  BY <1>2, <1>3 DEF ScriptBegins
<1>4. CASE ScriptRunEnds
  BY <1>2, <1>4 DEF ScriptRunEnds
<1>5. CASE ScriptChecks
  <2>1. /\ UNCHANGED <<fvars, crowded>> /\ op \in {"start", "stop", "status"}
        /\ op' \in {"idle", "term", "rm", "rm launch"}
        /\ op' \in {"rm", "rm launch"} => ~Running(target)
    BY <1>5 DEF ScriptChecks, LooksAlive, LooksDead
  <2>2. FileInv'
    BY <1>t, <1>u, <1>k, <2>1 DEF FileInv
  <2>3. CrowdInv'
    <3>1. ~crowded => \A d \in Daemons \ foreground : Active(d) => target = d /\ Alive(d)
      BY <1>t, <1>k, <2>1 DEF CrowdInv
    <3>2. ~crowded /\ ~Running(target) => \A d \in Daemons : Active(d) => d \in foreground
      BY <3>1 DEF Running
    <3> QED BY <1>t, <1>u, <1>k, <2>1, <3>2 DEF CrowdInv
  <2> QED BY <1>t, <1>1, <2>2, <2>3 DEF DInv
<1>6. CASE ScriptRemoves
  <2>1. /\ op \in {"rm", "rm launch"} /\ op' \in {"idle", "launch"} /\ UNCHANGED crowded
        /\ pidfile' = None /\ streams' = {}
    BY <1>6 DEF ScriptRemoves, Unlink
  <2>2. FileInv'
    BY <1>t, <1>u, <1>k, <2>1 DEF FileInv
  <2>3. CrowdInv'
    BY <1>t, <1>u, <1>k, <2>1 DEF CrowdInv
  <2> QED BY <1>t, <1>1, <2>2, <2>3 DEF DInv
<1>7. CASE ScriptTerminates
  <2>1. UNCHANGED <<fvars, crowded>> /\ op = "term" /\ op' = "wait" /\ target' = pidfile
    BY <1>7 DEF ScriptTerminates
  <2>2. FileInv'
    BY <1>t, <1>u, <1>k, <2>1 DEF FileInv
  <2>3. CrowdInv'
    BY <1>t, <1>u, <1>k, <2>1 DEF CrowdInv
  <2> QED BY <1>t, <1>1, <2>2, <2>3 DEF DInv
<1>8. CASE ScriptSeesEnd
  <2>1. UNCHANGED <<fvars, crowded>> /\ op = "wait" /\ op' \in {"rm", "idle"} /\ ~Running(target)
    BY <1>8 DEF ScriptSeesEnd
  <2>2. FileInv'
    BY <1>t, <1>u, <1>k, <2>1 DEF FileInv
  <2>3. CrowdInv'
    <3>1. ~crowded => \A d \in Daemons \ foreground : Active(d) => target = d /\ Alive(d)
      BY <1>t, <1>k, <2>1 DEF CrowdInv
    <3>2. ~crowded => \A d \in Daemons : Active(d) => d \in foreground
      BY <2>1, <3>1 DEF Running
    <3> QED BY <1>t, <1>u, <1>k, <2>1, <3>2 DEF CrowdInv
  <2> QED BY <1>t, <1>1, <2>2, <2>3 DEF DInv
<1> QED BY <1>3, <1>4, <1>5, <1>6, <1>7, <1>8

(* A process is killed from outside, or by the script after its wait.         *)
LEMMA KillDInv ==
    ASSUME DInv, NEW d \in Daemons, Crash(d) \/ (ScriptKills /\ d = target)
    PROVE  DInv'
<1>t. /\ TypeOK /\ OwnerInv /\ FileInv /\ CrowdInv /\ TypeOK'
      /\ owner \in [Ports -> Daemons \cup {None}] /\ foreground \in SUBSET Daemons
      /\ streams \in SUBSET Daemons /\ None \notin Daemons /\ crashes \in Nat
      /\ pc \in [Daemons -> Labels]
  <2>1. Next
    BY DEF Next, ScriptStep
  <2>2. TypeOK /\ TypeOK' /\ OwnerInv /\ FileInv /\ CrowdInv
    BY <2>1, NextTypes DEF DInv
  <2>3. crashes \in 0 .. MaxCrash
    BY <2>2 DEF TypeOK
  <2>4. crashes \in Nat
    BY <2>3, BoundAssumption, SMT
  <2> QED BY <2>2, <2>4, NameAssumption DEF TypeOK
<1>1. /\ pc'[d] = "gone" /\ \A e \in Daemons : e # d => pc'[e] = pc[e]
      /\ streams' = streams \ {d} /\ UNCHANGED <<pidfile, foreground, crowded>> /\ pc[d] # "off"
  <2>1. Kill(d) /\ UNCHANGED <<pidfile, foreground, crowded>> /\ pc[d] # "off"
    BY DEF Crash, ScriptKills, Running, Alive, ovars
  <2>2. Goto(d, "gone") /\ "gone" \in Labels
    BY <2>1 DEF Kill, Ended, Labels
  <2> QED BY <1>t, <2>1, <2>2, Moves DEF Kill
<1>2. \/ crashes' = crashes + 1 /\ UNCHANGED <<op, target>>
      \/ crashes' = crashes /\ op = "wait" /\ op' = "rm" /\ target = d
  BY DEF Crash, ScriptKills, ovars
<1>3. OwnerInv'
  <2>1. \A p \in Ports : owner'[p] # None => owner'[p] = owner[p] /\ owner[p] # d
    BY <1>t, Releases DEF Crash, ScriptKills, Kill
  <2> QED BY <1>t, <1>1, <2>1 DEF OwnerInv
<1>4. FileInv'
  <2>1. crashes' > 0 \/ (op # "rm" /\ op' = "rm" /\ crashes' = crashes)
    BY <1>t, <1>2, SMT
  <2> QED BY <1>t, <1>1, <1>2, <2>1 DEF FileInv, Coming
<1>5. CrowdInv'
  <2>1. \A e \in Daemons : /\ Active(e)' => Active(e) /\ e # d
                           /\ Coming(e)' => Coming(e)
                           /\ pc'[e] \in Filed => pc[e] \in Filed /\ e # d
                           /\ pc'[e] = "write" => pc[e] = "write" /\ e # d
    BY <1>1 DEF Active, Coming, Filed, Serving
  <2>2. CASE UNCHANGED <<op, target>>
    BY <1>t, <1>1, <2>1, <2>2 DEF CrowdInv
  <2>3. CASE op = "wait" /\ op' = "rm" /\ target = d
    <3>1. ~crowded => \A e \in Daemons : Active(e) /\ e # d => e \in foreground
      BY <1>t, <2>3, Kinds DEF CrowdInv
    <3> QED BY <1>t, <1>1, <2>1, <2>3, <3>1 DEF CrowdInv
  <2> QED BY <1>2, <2>2, <2>3
<1> QED BY <1>t, <1>3, <1>4, <1>5 DEF DInv

(* Every step.                                                                *)
LEMMA NextDInv == DInv /\ [Next]_vars => DInv'
<1> SUFFICES ASSUME DInv, [Next]_vars PROVE DInv'
    OBVIOUS
<1>t. TypeOK'
  BY NextTypes DEF DInv
<1>1. ASSUME NEW d \in Daemons, MainStep(d) \/ AcceptFails(d) PROVE DInv'
  BY <1>1, MainDInv
<1>2. ASSUME NEW d \in Daemons, HandlerStep(d) \/ ClientSpeaks(d) \/ Interrupt(d) PROVE DInv'
  <2>1. UNCHANGED <<pc, fvars, owner, ovars, crashes>>
    BY <1>2 DEF HandlerStep, HandlerRuns, HandlerReturns, ClientSpeaks, Interrupt
  <2> QED BY <1>t, <2>1, Inside
<1>3. ASSUME NEW s \in {"TERM", "HUP"}, UserSignal(s) PROVE DInv'
  BY <1>t, <1>3, Inside DEF UserSignal
<1>4. ASSUME NEW p \in Ports, Connect(p) PROVE DInv'
  BY <1>t, <1>4, Inside DEF Connect, dvars
<1>5. ASSUME NEW d \in Daemons, Crash(d) PROVE DInv'
  BY <1>5, KillDInv
<1>6. CASE ScriptKills
  <2>1. target \in Daemons
    BY <1>6 DEF ScriptKills, Running
  <2> QED BY <1>6, <2>1, KillDInv
<1>7. CASE UNCHANGED vars
  BY <1>t, <1>7, Inside DEF vars, dvars
<1> QED BY <1>1, <1>2, <1>3, <1>4, <1>5, <1>6, <1>7, StartDInv, ScriptDInv DEF Next, ScriptStep

(* Every variable keeps its type, however daemons are started and killed.     *)
THEOREM Typed == Spec => []TypeOK
<1>1. DInv => TypeOK  BY DEF DInv
<1> QED BY <1>1, InitDInv, NextDInv, PTL DEF Spec

(* For any number of starts on any ports, by hand and by the script: the      *)
(* file is stale only by a kill; and unless somebody started a process over   *)
(* another one, or in the middle of a command, or ran a command in the middle *)
(* of a start, it names whoever listens, and no two compete for a port: not    *)
(* between fopen and fclose, nor between a command's ps and its rm.           *)
THEOREM FileTells == Spec => []PidFileTells
<1>1. DInv => PidFileTells
  <2> SUFFICES ASSUME DInv PROVE PidFileTells
      OBVIOUS
  <2>t. /\ OwnerInv /\ FileInv /\ CrowdInv /\ None \notin Daemons
        /\ owner \in [Ports -> Daemons \cup {None}] /\ pc \in [Daemons -> Labels]
        /\ Port \in [Daemons -> Ports]
    BY NameAssumption, PortAssumption DEF DInv, TypeOK
  <2>1. StaleOnlyByKill
    BY <2>t DEF FileInv, StaleOnlyByKill, Alive, Filed, Serving
  <2>2. ASSUME ~crowded, NEW p \in Ports, owner[p] # None
        PROVE  pidfile = owner[p] \/ owner[p] \in foreground \/ pc[owner[p]] = "close"
    BY <2>t, <2>2 DEF OwnerInv, CrowdInv, Filed
  <2>3. ASSUME ~crowded, NEW d \in Daemons, NEW e \in Daemons, pc[d] = "bind", owner[Port[d]] = e
        PROVE  pc[e] = "close"
    <3>1. pc[e] \in Serving \cup {"close"}
      BY <2>t, <2>3 DEF OwnerInv
    <3>2. pc[e] \in Serving => d = e
      BY <2>t, <2>3 DEF CrowdInv, Active, Serving
    <3> QED BY <2>3, <3>1, <3>2 DEF Serving
  <2> QED BY <2>1, <2>2, <2>3 DEF PidFileTells, ServerIsFound
<1> QED BY <1>1, InitDInv, NextDInv, PTL DEF Spec

-----------------------------------------------------------------------------
(* How far each statement of main is from the end once keep_running is        *)
(* cleared: serving one client takes main past the test only once more.       *)
Ahead(l) ==
    CASE l = "off" -> 9 [] l = "fork" -> 8 [] l = "open" -> 7 [] l = "write" -> 6 [] l = "bind" -> 5
      [] l = "accept" -> 7 [] l = "log_conn" -> 6 [] l = "recv" -> 5
      [] l \in {"log_msg", "retry", "log_port"} -> 4 [] l = "while" -> 3 [] l = "cleanup" -> 2
      [] l \in {"close", "abort", "nofile"} -> 1 [] OTHER -> 0

(* A daemon whose handler has cleared keep_running never takes it up again:   *)
(* each statement it executes brings it nearer to its end.                    *)
OnlyOnward ==
    \A d \in Daemons : ~keep[d] =>
        ~keep'[d] /\ (pc'[d] # pc[d] => Ahead(pc'[d]) < Ahead(pc[d]))

(* One process moves, from l to m.                                            *)
LEMMA OneMoves ==
    ASSUME TypeOK, UNCHANGED keep, NEW e \in Daemons, NEW l, NEW m, pc[e] = l, Goto(e, m),
           ~keep[e] => Ahead(m) < Ahead(l)
    PROVE  OnlyOnward
BY DEF TypeOK, OnlyOnward, Goto

LEMMA AheadValues ==
    /\ Ahead("gone") = 0 /\ Ahead("close") = 1 /\ Ahead("abort") = 1 /\ Ahead("nofile") = 1
    /\ Ahead("cleanup") = 2 /\ Ahead("while") = 3 /\ Ahead("log_msg") = 4 /\ Ahead("retry") = 4
    /\ Ahead("log_port") = 4 /\ Ahead("recv") = 5 /\ Ahead("log_conn") = 6 /\ Ahead("accept") = 7
    /\ Ahead("bind") = 5 /\ Ahead("write") = 6 /\ Ahead("open") = 7 /\ Ahead("fork") = 8
    /\ Ahead("off") = 9
BY DEF Ahead

(* Each statement of main.                                                    *)
LEMMA MainOnward ==
    ASSUME TypeOK, NEW e \in Daemons, MainStep(e) \/ AcceptFails(e) PROVE OnlyOnward
<1>0. UNCHANGED keep
  BY DEF MainStep, Daemonize, OpenPidFile, WritePidFile, NoPidFile, Bind, AbortStart, LogPort,
         WhileTest, Accept, AcceptFails, ReportFailure, LogConnection, Recv, Reply, Cleanup,
         CloseSocket, Ended
<1>1. ASSUME NEW l, NEW m, pc[e] = l, Goto(e, m), Ahead(m) < Ahead(l) \/ keep[e]
      PROVE  OnlyOnward
  BY <1>0, <1>1, OneMoves
<1> USE DEF At
<1>2. CASE Daemonize(e) \/ OpenPidFile(e) \/ WritePidFile(e) \/ NoPidFile(e)
  <2>1. \/ pc[e] = "fork" /\ (Goto(e, "open") \/ Goto(e, "gone"))
        \/ pc[e] = "open" /\ (Goto(e, "write") \/ Goto(e, "nofile"))
        \/ pc[e] = "write" /\ Goto(e, "bind")
        \/ pc[e] = "nofile" /\ Goto(e, "gone")
    BY <1>2 DEF Daemonize, OpenPidFile, WritePidFile, NoPidFile, Ended
  <2> QED BY <1>1, <2>1, AheadValues
<1>3. CASE Bind(e) \/ AbortStart(e) \/ LogPort(e) \/ Cleanup(e) \/ CloseSocket(e)
  <2>1. \/ pc[e] = "bind" /\ (Goto(e, "log_port") \/ Goto(e, "abort"))
        \/ pc[e] = "log_port" /\ Goto(e, "while")
        \/ pc[e] \in {"abort", "close"} /\ Goto(e, "gone")
        \/ pc[e] = "cleanup" /\ Goto(e, "close")
    BY <1>3 DEF Bind, AbortStart, LogPort, Cleanup, CloseSocket, Ended
  <2> QED BY <1>1, <2>1, AheadValues
<1>4. CASE WhileTest(e) \/ Accept(e) \/ AcceptFails(e) \/ ReportFailure(e)
  <2>1. \/ pc[e] = "while" /\ ((keep[e] /\ Goto(e, "accept")) \/ Goto(e, "cleanup"))
        \/ pc[e] = "accept" /\ (Goto(e, "log_conn") \/ Goto(e, "retry"))
        \/ pc[e] = "retry" /\ Goto(e, "while")
    BY <1>4 DEF WhileTest, Accept, AcceptFails, ReportFailure
  <2> QED BY <1>1, <2>1, AheadValues
<1>5. CASE LogConnection(e) \/ Recv(e) \/ Reply(e)
  <2>1. \/ pc[e] = "log_conn" /\ Goto(e, "recv")
        \/ pc[e] = "recv" /\ Goto(e, "log_msg")
        \/ pc[e] = "log_msg" /\ Goto(e, "while")
    BY <1>5 DEF LogConnection, Recv, Reply
  <2> QED BY <1>1, <2>1, AheadValues
<1> QED BY <1>2, <1>3, <1>4, <1>5 DEF MainStep

(* A daemon that was told to stop is on its way out for good, whatever        *)
(* signals, clients and starts come: it takes at most eight more steps and    *)
(* serves at most one more client. Only waiting or a stuck handler holds it.  *)
THEOREM Leaves == Spec => [][OnlyOnward]_vars
<1>1. TypeOK /\ [Next]_vars => [OnlyOnward]_vars
  <2> SUFFICES ASSUME TypeOK, Next PROVE OnlyOnward
      OBVIOUS
  <2>t. pc \in [Daemons -> Labels] /\ keep \in [Daemons -> BOOLEAN]
    BY DEF TypeOK
  <2>k. ASSUME UNCHANGED <<pc, keep>> PROVE OnlyOnward
    BY <2>k DEF OnlyOnward
  <2>1. ASSUME NEW e \in Daemons, MainStep(e) \/ AcceptFails(e) PROVE OnlyOnward
    BY <2>1, MainOnward
  <2>2. ASSUME NEW e \in Daemons, HandlerStep(e) PROVE OnlyOnward
    <3>1. UNCHANGED pc /\ \A d \in Daemons : ~keep[d] => ~keep'[d]
      BY <2>t, <2>2 DEF HandlerStep, HandlerRuns, HandlerReturns
    <3> QED BY <3>1 DEF OnlyOnward
  <2>3. ASSUME NEW e \in Daemons, Alive(e), Kill(e), UNCHANGED keep PROVE OnlyOnward
    <3>1. Ahead("gone") < Ahead(pc[e])
      BY <2>t, <2>3, AheadValues DEF Alive, Labels
    <3> QED BY <2>3, <3>1, OneMoves DEF Kill, Ended
  <2>4. ASSUME NEW e \in Daemons, NEW b \in BOOLEAN, Launch(e, b), UNCHANGED keep PROVE OnlyOnward
    <3>1. pc[e] = "off" /\ (Goto(e, "fork") \/ Goto(e, "bind"))
      BY <2>4 DEF Launch
    <3> QED BY <2>4, <3>1, AheadValues, OneMoves
  <2>5. CASE UserStart
    BY <2>4, <2>5 DEF UserStart
  <2>6. CASE ScriptLaunches
    BY <2>4, <2>6 DEF ScriptLaunches
  <2>7. CASE ScriptKills
    BY <2>3, <2>7 DEF ScriptKills, Running
  <2>8. CASE \/ ScriptBegins \/ ScriptChecks \/ ScriptRemoves \/ ScriptRunEnds
             \/ ScriptTerminates \/ ScriptSeesEnd \/ (\E s \in {"TERM", "HUP"} : UserSignal(s))
    BY <2>8, <2>k DEF ScriptBegins, ScriptChecks, ScriptRemoves, ScriptRunEnds, ReadPidFile,
       ScriptTerminates, ScriptSeesEnd, UserSignal, dvars
  <2>9. ASSUME NEW e \in Daemons, ClientSpeaks(e) \/ Interrupt(e) PROVE OnlyOnward
    BY <2>9, <2>k DEF ClientSpeaks, Interrupt
  <2>10. ASSUME NEW p \in Ports, Connect(p) PROVE OnlyOnward
    BY <2>10, <2>k DEF Connect, dvars
  <2>11. ASSUME NEW e \in Daemons, Crash(e) PROVE OnlyOnward
    BY <2>3, <2>11 DEF Crash
  <2> QED
    BY <2>1, <2>2, <2>5, <2>6, <2>7, <2>8, <2>9, <2>10, <2>11 DEF Next, ScriptStep
<1> QED BY <1>1, Typed, PTL DEF Spec
====
