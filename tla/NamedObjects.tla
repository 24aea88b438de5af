---- MODULE NamedObjects ----
(* The programs of chapter03 and chapter04 whose processes meet at a kernel   *)
(* object: a named semaphore, a message queue, a fifo, a pipe, a semaphore in *)
(* shared memory. Each file is a Script, the list of the calls it makes; the  *)
(* actions below are those calls. IpcPrograms holds the scripts. The programs *)
(* may be started again, several at a time, and interrupted (^C): then a name *)
(* and what its object holds outlive them.                                    *)
EXTENDS Integers, Sequences, FiniteSets

CONSTANTS Scenarios,   \* which programs are started, and whether they overlap
          Names,       \* the names of objects
          Capacity,    \* mq_maxmsg, and what a fifo holds
          MaxRuns,     \* bound: runs in a scenario
          MaxLines,    \* bound: lines typed into a sender
          MaxCuts      \* bound: interrupted runs, failed forks and reads

Invocations == 1 .. MaxRuns
Procs == Invocations \X {"parent", "child"}
Parent(i) == <<i, "parent">>
Child(i) == <<i, "child">>

Executables == [parent : Seq([do : STRING, on : Names]),
                child : Seq([do : STRING, on : Names])]

ASSUME ScenariosAssumption ==
    \A s \in Scenarios : /\ DOMAIN s = {"runs", "overlap"} /\ s.overlap \in BOOLEAN
                         /\ s.runs \in Seq(Executables) /\ Len(s.runs) \in Invocations

ASSUME BoundAssumption == /\ Capacity \in Nat /\ MaxRuns \in Nat
                          /\ MaxLines \in Nat /\ MaxCuts \in Nat

(* What all the programs have in common; the theorems rest on it.             *)
Makes(c, n) == c.do \in {"create", "mkfifo"} /\ c.on = n
Unlinks(c, n) == c.do \in {"unlink", "unlinkOrFail"} /\ c.on = n
Opens(c, n) == c.do \in {"create", "pipe", "openRdwr", "openRdonly"} /\ c.on = n
Closes(c, n) == c.do = "close" /\ c.on = n
MayGiveUp(c) == c.do \in {"mkfifo", "openRdwr", "openRdonly", "unlinkOrFail"}
Uses(c) == c.do \in {"sem_init", "post", "take", "writeArgument", "send", "receive",
                     "sendLines", "receiveLines", "writeLines", "readLines"}

(* n is open when s comes to its call k.                                      *)
OpenAt(s, k, n) == \E j \in 1 .. k - 1 : /\ Opens(s[j], n)
                                         /\ \A l \in j .. k - 1 : ~Closes(s[l], n)

(* One fork at most; a child only uses what it inherits; nothing is used that *)
(* is not open.                                                               *)
UsesOpen(e) ==
    /\ \A j, k \in DOMAIN e.parent : e.parent[j].do = "fork" /\ e.parent[k].do = "fork" => j = k
    /\ \A k \in DOMAIN e.parent : Uses(e.parent[k]) => OpenAt(e.parent, k, e.parent[k].on)
    /\ \A k \in DOMAIN e.child :
          /\ e.child[k].do \in {"take", "post", "receive"}
          /\ \A f \in DOMAIN e.parent :
                e.parent[f].do = "fork" => OpenAt(e.parent, f, e.child[k].on)

(* The binary semaphore is made by sem_open, and posted right after it was    *)
(* taken and only then; queue and fifo are filled by calls that mind their    *)
(* capacity.                                                                  *)
UsesRight(s) ==
    \A k \in DOMAIN s :
        /\ s[k].on = "bin" => s[k].do \notin {"pipe", "mkfifo"}
        /\ s[k].on = "bin" /\ Uses(s[k]) => s[k].do \in {"take", "post"}
        /\ s[k].on = "bin" /\ s[k].do = "take" =>
              k < Len(s) /\ s[k + 1].do = "post" /\ s[k + 1].on = "bin"
        /\ s[k].on = "bin" /\ s[k].do = "post" =>
              k > 1 /\ s[k - 1].do = "take" /\ s[k - 1].on = "bin"
        /\ s[k].on \in {"mq", "fifo"} => s[k].do \notin {"post", "writeArgument"}

(* A name is made once and unlinked once, after it was made; in between the   *)
(* program gives up only over this very name, or, if it is "full", because    *)
(* another name it has made is gone.                                          *)
Tidy(s) ==
    \A n \in Names :
        /\ \A j, k \in DOMAIN s : Makes(s[j], n) /\ Makes(s[k], n) => j = k
        /\ \A j, k \in DOMAIN s : Unlinks(s[j], n) /\ Unlinks(s[k], n) => j = k
        /\ \A j \in DOMAIN s : Makes(s[j], n) =>
              \E l \in DOMAIN s :
                 /\ j < l /\ Unlinks(s[l], n)
                 /\ \A k \in j + 1 .. l - 1 : MayGiveUp(s[k]) =>
                       \/ s[k].on = n
                       \/ /\ n = "full" /\ s[k].do = "unlinkOrFail"
                          /\ \E i \in 1 .. k - 1 : Makes(s[i], s[k].on)

ASSUME ProgramsAssumption ==
    \A s \in Scenarios : \A i \in DOMAIN s.runs :
        LET e == s.runs[i]
        IN  /\ UsesOpen(e)
            /\ UsesRight(e.parent) /\ UsesRight(e.child) /\ Tidy(e.parent)

VARIABLES scenario,
          status,    \* of each process
          at,        \* its place in its script
          fd,        \* the object it has open under each name, 0 for none
          lines,     \* lines typed into it
          typed,     \* it holds a line that its fifo has not taken yet
          got,       \* the runs it has received something from
          bound,     \* the object each name stands for, 0 for none
          objects,   \* every object made so far: what it holds
          cuts

pvars == <<status, at, fd, lines, typed, got>>
vars == <<scenario, pvars, bound, objects, cuts>>

END == 0                       \* the message "EOF"
Initial(n) == IF n \in {"bin", "empty"} THEN <<END>> ELSE <<>>   \* sem_open's value
Nothing == [n \in Names |-> 0]

Init == /\ scenario \in Scenarios
        /\ status = [p \in Procs |-> "new"]
        /\ at = [p \in Procs |-> 1]
        /\ fd = [p \in Procs |-> Nothing]
        /\ lines = [p \in Procs |-> 0]
        /\ typed = [p \in Procs |-> FALSE]
        /\ got = [p \in Procs |-> {}]
        /\ bound = Nothing
        /\ objects = <<>>
        /\ cuts = 0

Script(p) == IF p[1] \in DOMAIN scenario.runs THEN scenario.runs[p[1]][p[2]] ELSE <<>>
Step(p) == Script(p)[at[p]]
Calls(p, op) == status[p] = "running" /\ at[p] <= Len(Script(p)) /\ Step(p).do = op
N(p) == Step(p).on
Obj(p) == fd[p][N(p)]
Holds(o) == objects[o]

Over(p) == status[p] \in {"new", "done", "failed", "cut"}
RunOver(i) == status[Parent(i)] # "new" /\ Over(Parent(i)) /\ Over(Child(i))

(* Who can write to a fifo or pipe: readers open only its read end.           *)
Writers(o) == {p \in Procs : /\ \E n \in {"fifo", "pipe"} \cap Names : fd[p][n] = o
                             /\ \E k \in DOMAIN Script(p) :
                                    Script(p)[k].do \in {"writeLines", "writeArgument"}}

Return(ps) == at' = [p \in Procs |-> IF p \in ps THEN at[p] + 1 ELSE at[p]]
Open(p, o) == fd' = [fd EXCEPT ![p][N(p)] = o]
Put(o, m) == objects' = [objects EXCEPT ![o] = Append(@, m)]
Get(p) == /\ objects' = [objects EXCEPT ![Obj(p)] = Tail(@)]
          /\ got' = [got EXCEPT ![p] = @ \cup ({Head(Holds(Obj(p)))} \ {END})]

(* What a fifo holds is lost with its last descriptor.                        *)
Emptied(f) == [o \in DOMAIN objects |->
                 IF /\ \E p \in Procs, n \in {"fifo"} \cap Names : fd[p][n] = o
                    /\ \A p \in Procs, n \in {"fifo"} \cap Names : f[p][n] # o
                 THEN <<>> ELSE objects[o]]

(* Processes end, and the kernel closes what they have open.                  *)
Leave(ps, how) ==
    LET left == [p \in Procs |-> IF p \in ps THEN Nothing ELSE fd[p]]
    IN  /\ status' = [p \in Procs |-> IF p \in ps THEN how ELSE status[p]]
        /\ fd' = left
        /\ objects' = Emptied(left)

-----------------------------------------------------------------------------
(* Life of the processes.                                                     *)

(* A program is started, after the earlier ones unless they may overlap.      *)
Start(i) ==
    /\ i \in DOMAIN scenario.runs /\ status[Parent(i)] = "new"
    /\ \A j \in Invocations : j < i =>
           IF scenario.overlap THEN status[Parent(j)] # "new" ELSE RunOver(j)
    /\ status' = [status EXCEPT ![Parent(i)] = "running"]
    /\ UNCHANGED <<scenario, at, fd, lines, typed, got, bound, objects, cuts>>

Fork(p) ==
    /\ Calls(p, "fork")
    /\ status' = [status EXCEPT ![Child(p[1])] = "running"]
    /\ fd' = [fd EXCEPT ![Child(p[1])] = fd[p]]
    /\ Return({p})
    /\ UNCHANGED <<scenario, lines, typed, got, bound, objects, cuts>>

(* fork fails; or read does, of the terminal or of the fifo: exit at once,    *)
(* whatever name was made.                                                    *)
CallFails(p) ==
    /\ \/ Calls(p, "fork") \/ Calls(p, "readLines")
       \/ Calls(p, "writeLines") /\ ~typed[p]
    /\ cuts < MaxCuts
    /\ cuts' = cuts + 1
    /\ Leave({p}, "failed")
    /\ UNCHANGED <<scenario, at, lines, typed, got, bound>>

WaitChild(p) ==
    /\ Calls(p, "waitpid")
    /\ Over(Child(p[1]))
    /\ Return({p})
    /\ UNCHANGED <<scenario, status, fd, lines, typed, got, bound, objects, cuts>>

Exit(p) ==
    /\ status[p] = "running" /\ at[p] > Len(Script(p))
    /\ Leave({p}, "done")
    /\ UNCHANGED <<scenario, at, lines, typed, got, bound, cuts>>

(* ^C reaches the parent and the child.                                       *)
Interrupt(i) ==
    LET ps == {p \in {Parent(i), Child(i)} : status[p] = "running"}
    IN  /\ ps # {}
        /\ cuts < MaxCuts
        /\ cuts' = cuts + 1
        /\ Leave(ps, "cut")
        /\ UNCHANGED <<scenario, at, lines, typed, got, bound>>

-----------------------------------------------------------------------------
(* Names.                                                                     *)

(* Mutant: the object of an earlier run is given its first value again.       *)
CreateResets(p) ==
    /\ Calls(p, "create")
    /\ IF bound[N(p)] = 0
       THEN /\ objects' = Append(objects, Initial(N(p)))
            /\ bound' = [bound EXCEPT ![N(p)] = Len(objects) + 1]
            /\ Open(p, Len(objects) + 1)
       ELSE /\ objects' = [objects EXCEPT ![bound[N(p)]] = Initial(N(p))]
            /\ Open(p, bound[N(p)]) /\ UNCHANGED bound
    /\ Return({p})
    /\ UNCHANGED <<scenario, status, lines, typed, got, cuts>>

(* sem_open, mq_open, shm_open with O_CREAT: value and attributes are used    *)
(* only when the name is new.                                                 *)
Create(p) ==
    /\ Calls(p, "create")
    /\ IF bound[N(p)] = 0
       THEN /\ objects' = Append(objects, Initial(N(p)))
            /\ bound' = [bound EXCEPT ![N(p)] = Len(objects) + 1]
            /\ Open(p, Len(objects) + 1)
       ELSE Open(p, bound[N(p)]) /\ UNCHANGED <<bound, objects>>
    /\ Return({p})
    /\ UNCHANGED <<scenario, status, lines, typed, got, cuts>>

(* sem_init on the mapped memory: whatever the semaphore held is gone.        *)
SemInit(p) ==
    /\ Calls(p, "sem_init")
    /\ objects' = [objects EXCEPT ![Obj(p)] = <<>>]
    /\ Return({p})
    /\ UNCHANGED <<scenario, status, fd, lines, typed, got, bound, cuts>>

Pipe(p) ==
    /\ Calls(p, "pipe")
    /\ objects' = Append(objects, <<>>)
    /\ Open(p, Len(objects) + 1)
    /\ Return({p})
    /\ UNCHANGED <<scenario, status, lines, typed, got, bound, cuts>>

Mkfifo(p) ==
    /\ Calls(p, "mkfifo") /\ bound[N(p)] = 0
    /\ objects' = Append(objects, <<>>)
    /\ bound' = [bound EXCEPT ![N(p)] = Len(objects) + 1]
    /\ Return({p})
    /\ UNCHANGED <<scenario, status, fd, lines, typed, got, cuts>>

(* EEXIST: the writer gives up.                                               *)
MkfifoExists(p) ==
    /\ Calls(p, "mkfifo") /\ bound[N(p)] # 0
    /\ Leave({p}, "failed")
    /\ UNCHANGED <<scenario, at, lines, typed, got, bound, cuts>>

(* O_RDWR does not wait for a reader; readers that wait for a writer go on.   *)
OpenReadWrite(p) ==
    /\ Calls(p, "openRdwr") /\ bound[N(p)] # 0
    /\ Open(p, bound[N(p)])
    /\ Return({p} \cup {q \in Procs : Calls(q, "awaitWriter") /\ Obj(q) = bound[N(p)]})
    /\ UNCHANGED <<scenario, status, lines, typed, got, bound, objects, cuts>>

(* O_RDONLY finds the file, then waits until someone has opened it to write.  *)
OpenReadOnly(p) ==
    /\ Calls(p, "openRdonly") /\ bound[N(p)] # 0
    /\ Open(p, bound[N(p)])
    /\ Return({p})
    /\ UNCHANGED <<scenario, status, lines, typed, got, bound, objects, cuts>>

AwaitWriter(p) ==
    /\ Calls(p, "awaitWriter")
    /\ Writers(Obj(p)) # {}
    /\ Return({p})
    /\ UNCHANGED <<scenario, status, fd, lines, typed, got, bound, objects, cuts>>

(* Mutant: what open returned is not looked at, and -1 is used.               *)
OpenUnchecked(p) ==
    /\ Calls(p, "openRdwr") \/ Calls(p, "openRdonly")
    /\ bound[N(p)] = 0
    /\ Open(p, -1)
    /\ Return({p})
    /\ UNCHANGED <<scenario, status, lines, typed, got, bound, objects, cuts>>

(* ENOENT.                                                                    *)
OpenFails(p) ==
    /\ Calls(p, "openRdwr") \/ Calls(p, "openRdonly")
    /\ bound[N(p)] = 0
    /\ Leave({p}, "failed")
    /\ UNCHANGED <<scenario, at, lines, typed, got, bound, cuts>>

Close(p) ==
    /\ Calls(p, "close")
    /\ Open(p, 0)
    /\ objects' = Emptied(fd')
    /\ Return({p})
    /\ UNCHANGED <<scenario, status, lines, typed, got, bound, cuts>>

(* Mutant: the name is left in the system.                                    *)
UnlinkForgotten(p) ==
    /\ Calls(p, "unlink") \/ Calls(p, "unlinkOrFail")
    /\ Return({p})
    /\ UNCHANGED <<scenario, status, fd, lines, typed, got, bound, objects, cuts>>

(* The name is free at once, whoever has the object open keeps it. When       *)
(* another process was faster, some programs only go on, some exit(1).        *)
Unlink(p) ==
    /\ Calls(p, "unlink") \/ (Calls(p, "unlinkOrFail") /\ bound[N(p)] # 0)
    /\ bound' = [bound EXCEPT ![N(p)] = 0]
    /\ Return({p})
    /\ UNCHANGED <<scenario, status, fd, lines, typed, got, objects, cuts>>

UnlinkFails(p) ==
    /\ Calls(p, "unlinkOrFail") /\ bound[N(p)] = 0
    /\ Leave({p}, "failed")
    /\ UNCHANGED <<scenario, at, lines, typed, got, bound, cuts>>

-----------------------------------------------------------------------------
(* Data.                                                                      *)

(* Mutant: sem_post is left out.                                              *)
PostForgotten(p) ==
    /\ Calls(p, "post")
    /\ Return({p})
    /\ UNCHANGED <<scenario, status, fd, lines, typed, got, bound, objects, cuts>>

Post(p) ==
    /\ Calls(p, "post")
    /\ Put(Obj(p), p[1])
    /\ Return({p})
    /\ UNCHANGED <<scenario, status, fd, lines, typed, got, bound, cuts>>

(* sem_wait, or a read that waits for data.                                   *)
Take(p) ==
    /\ Calls(p, "take")
    /\ Holds(Obj(p)) # <<>>
    /\ Get(p)
    /\ Return({p})
    /\ UNCHANGED <<scenario, status, fd, lines, typed, bound, cuts>>

(* The pipe's writer sends its argument, which may be the empty string.       *)
WriteArgument(p) ==
    /\ Calls(p, "writeArgument")
    /\ Put(Obj(p), p[1]) \/ UNCHANGED objects
    /\ Return({p})
    /\ UNCHANGED <<scenario, status, fd, lines, typed, got, bound, cuts>>

(* mq_timedsend and mq_timedreceive: on a full or an empty queue the five     *)
(* seconds may pass; then the program goes on without.                        *)
TimedPut(o, m) == IF Len(Holds(o)) < Capacity THEN Put(o, m) ELSE UNCHANGED objects

Send(p) ==
    /\ Calls(p, "send")
    /\ TimedPut(Obj(p), p[1])
    /\ Return({p})
    /\ UNCHANGED <<scenario, status, fd, lines, typed, got, bound, cuts>>

Receive(p) ==
    /\ Calls(p, "receive")
    /\ IF Holds(Obj(p)) # <<>> THEN Get(p) ELSE UNCHANGED <<objects, got>>
    /\ Return({p})
    /\ UNCHANGED <<scenario, status, fd, lines, typed, bound, cuts>>

(* The producer: a line, or the end of its input.                             *)
SendLine(p) ==
    /\ Calls(p, "sendLines") /\ lines[p] < MaxLines
    /\ lines' = [lines EXCEPT ![p] = @ + 1]
    /\ TimedPut(Obj(p), p[1])
    /\ UNCHANGED <<scenario, status, at, fd, typed, got, bound, cuts>>

SendEnd(p) ==
    /\ Calls(p, "sendLines")
    /\ TimedPut(Obj(p), END)
    /\ Return({p})
    /\ UNCHANGED <<scenario, status, fd, lines, typed, got, bound, cuts>>

(* The consumer blocks until there is a message, and leaves at "EOF".         *)
ReceiveLine(p) ==
    /\ Calls(p, "receiveLines")
    /\ Holds(Obj(p)) # <<>>
    /\ Get(p)
    /\ Return(IF Head(Holds(Obj(p))) = END THEN {p} ELSE {})
    /\ UNCHANGED <<scenario, status, fd, lines, typed, bound, cuts>>

(* The writer of the fifo reads a line from its terminal; "quit" or ^D ends   *)
(* it.                                                                        *)
TypeLine(p) ==
    /\ Calls(p, "writeLines") /\ ~typed[p] /\ lines[p] < MaxLines
    /\ lines' = [lines EXCEPT ![p] = @ + 1]
    /\ typed' = [typed EXCEPT ![p] = TRUE]
    /\ UNCHANGED <<scenario, status, at, fd, got, bound, objects, cuts>>

(* Its write blocks while the fifo is full.                                   *)
WriteLine(p) ==
    /\ Calls(p, "writeLines") /\ typed[p]
    /\ Len(Holds(Obj(p))) < Capacity
    /\ typed' = [typed EXCEPT ![p] = FALSE]
    /\ Put(Obj(p), p[1])
    /\ UNCHANGED <<scenario, status, at, fd, lines, got, bound, cuts>>

QuitWriting(p) ==
    /\ Calls(p, "writeLines") /\ ~typed[p]
    /\ Return({p})
    /\ UNCHANGED <<scenario, status, fd, lines, typed, got, bound, objects, cuts>>

ReadLine(p) ==
    /\ Calls(p, "readLines")
    /\ Holds(Obj(p)) # <<>>
    /\ Get(p)
    /\ UNCHANGED <<scenario, status, at, fd, lines, typed, bound, cuts>>

(* read() = 0: nothing left and nobody who could write.                       *)
ReadEnd(p) ==
    /\ Calls(p, "readLines")
    /\ Holds(Obj(p)) = <<>> /\ Writers(Obj(p)) = {}
    /\ Return({p})
    /\ UNCHANGED <<scenario, status, fd, lines, typed, got, bound, objects, cuts>>

-----------------------------------------------------------------------------
Process(p) ==
    \/ Fork(p) \/ WaitChild(p) \/ Exit(p)
    \/ Create(p) \/ SemInit(p) \/ Pipe(p) \/ Mkfifo(p) \/ MkfifoExists(p)
    \/ OpenReadWrite(p) \/ OpenReadOnly(p) \/ AwaitWriter(p) \/ OpenFails(p)
    \/ Close(p) \/ Unlink(p) \/ UnlinkFails(p)
    \/ Post(p) \/ Take(p) \/ WriteArgument(p) \/ Send(p) \/ Receive(p)
    \/ SendLine(p) \/ SendEnd(p) \/ ReceiveLine(p)
    \/ TypeLine(p) \/ WriteLine(p) \/ QuitWriting(p) \/ ReadLine(p) \/ ReadEnd(p)

Next == \/ \E i \in Invocations : Start(i) \/ Interrupt(i)
        \/ \E p \in Procs : Process(p) \/ CallFails(p)

Spec == Init /\ [][Next]_vars

(* Whoever can return from a call does; programs need not be started, and ^C  *)
(* need not come.                                                             *)
FairSpec == Spec /\ \A p \in Procs : WF_vars(Process(p))

-----------------------------------------------------------------------------
(* An object some process has open under name n, or could open.               *)
Used(o, n) == bound[n] = o \/ \E p \in Procs : fd[p][n] = o

(* Types of the variables; no queue or fifo holds more than it may.           *)
TypeOK ==
    /\ scenario \in Scenarios
    /\ status \in [Procs -> {"new", "running", "done", "failed", "cut"}]
    /\ \A p \in Procs : at[p] \in 1 .. Len(Script(p)) + 1
    /\ fd \in [Procs -> [Names -> 0 .. Len(objects)]]
    /\ lines \in [Procs -> 0 .. MaxLines]
    /\ typed \in [Procs -> BOOLEAN]
    /\ got \in [Procs -> SUBSET Invocations]
    /\ bound \in [Names -> 0 .. Len(objects)]
    /\ objects \in Seq(Seq(Invocations \cup {END}))
    /\ \A o \in DOMAIN objects, n \in {"mq", "fifo"} \cap Names :
          Used(o, n) => Len(objects[o]) <= Capacity
    /\ cuts \in 0 .. MaxCuts

(* Between a parent, its child and every other run that shares their binary   *)
(* semaphore at most one process is between sem_wait and sem_post, also when  *)
(* runs overlap, end and unlink the name, or are interrupted inside. Without  *)
(* an interruption the semaphore's one is never lost, either: while nobody is *)
(* inside, the next sem_wait returns.                                         *)
Inside(o) == {p \in Procs : Calls(p, "post") /\ N(p) = "bin" /\ Obj(p) = o}
OneInside ==
    \A o \in DOMAIN objects :
        Inside(o) # {} \/ (cuts = 0 /\ "bin" \in Names /\ Used(o, "bin")) =>
            Cardinality(Inside(o)) + Len(objects[o]) = 1

(* A program that runs alone receives only what it sent itself, unless an     *)
(* earlier one was cut off: whatever timeouts left in a queue goes with it.   *)
FromOwnRun ==
    ~scenario.overlap /\ cuts = 0 => \A p \in Procs : got[p] \subseteq {p[1]}

(* When all that was started is over and nothing was cut off, no name is left *)
(* in the system, although any of the runs may have removed it first. The one *)
(* exception has two names: a run that finds the first one gone exits before  *)
(* it removes the second.                                                     *)
NoNameLeft ==
    (cuts = 0 /\ \A p \in Procs : Over(p)) =>
        \A n \in Names : bound[n] # 0 => n = "full" /\ scenario.overlap

(* A process stays for ever only in these places: a consumer of an empty      *)
(* queue, or a reader of the fifo before its first byte, that no writer has   *)
(* the same object open as; a writer whose line finds the fifo full, with     *)
(* nobody who reads it; the pipe's child, when its parent had nothing to      *)
(* write and waits for it without closing its end; a process that waits for a *)
(* semaphore a run interrupted inside has taken with it, or for one of the    *)
(* pair of which a run was interrupted before a post; and the parent that     *)
(* waits for a child in such a place.                                         *)
AtMyObject(p, op) == \E q \in Procs : Calls(q, op) /\ Obj(q) = Obj(p)
CutBefore(q, k) == status[q] = "cut" /\ k \in DOMAIN Script(q) /\ Script(q)[k].do = "post"
Robbed(n) ==
    \E q \in Procs :
        \/ n = "bin" /\ CutBefore(q, at[q]) /\ N(q) = n
        \/ n \in {"empty", "full"} /\ \E k \in at[q] .. Len(Script(q)) :
              CutBefore(q, k) /\ Script(q)[k].on \in {"empty", "full"}
Deserted(p) ==
    \/ /\ Calls(p, "receiveLines") /\ Holds(Obj(p)) = <<>>
       /\ ~AtMyObject(p, "sendLines")
    \/ Calls(p, "awaitWriter") /\ ~AtMyObject(p, "writeLines")
    \/ /\ Calls(p, "writeLines") /\ typed[p] /\ Len(Holds(Obj(p))) = Capacity
       /\ ~AtMyObject(p, "readLines")
    \/ /\ Calls(p, "take") /\ Holds(Obj(p)) = <<>>
       /\ N(p) = "pipe" \/ Robbed(N(p))
EndsUnlessDeserted ==
    \A p \in Procs : <>[]\/ Over(p) \/ Deserted(p)
                         \/ Calls(p, "waitpid") /\ Deserted(Child(p[1]))
====
