# TLA+ models of the Linux study programs

The repository is a collection of small C programs, each written to exercise one
Linux facility: processes and pipes (`chapter03`), threads, locks and semaphores
(`chapter04`), sockets (`chapter06`), a daemon and an epoll server (`chapter07`), and
a TCP echo project (`project/tcp_udp_server`). They share no code; what they share is
the way they can go wrong: two threads, processes or machines in an order nobody tried.
This directory models those programs, checks the models with TLC and proves the
most important results with TLAPS.

Paths below are relative to the repository; line numbers are those of the commit
the models were written against. The C library and the kernel are not in the
repository: they are modelled as the programs use them, and marked external in
`PROJECT.json`.

## 1. Inventory

| component | state | operations | interacts through | hard part |
|---|---|---|---|---|
| condition-variable producer/consumer (`chapter04/src/condition_variable.c`) | array, `count`, `should_exit`, mutex, one condition variable | produce, consume, raise the exit flag, join | shared memory | one condition variable for both directions, exit flag without the mutex, spurious wake-ups |
| semaphore hand-over (`unnamed_sem_count_thread.c`) | two counting semaphores, one number | five productions, five consumptions, joins | shared memory | order rests on waits and posts alone |
| counters and readers/writers (fifteen files of `chapter04/src`) | one shared integer, a mutex, spinlock, semaphore or rwlock | create, lock, load, store, read, unlock, join | shared memory | lost updates, wrong side of the lock, starvation |
| two-thread TCP client (`multi_conn_*_client.c`) | socket, sender thread, receiver thread | connect, send line, half-close, read, join, close | TCP with both servers | half-close against close, reset, SIGPIPE |
| process-per-connection server (`multi_conn_process_server.c`) | children, descriptors per process, pending SIGCHLD | accept, fork, close, reap; child: recv, send, close, exit | TCP, signals, fork | SIGCHLD does not queue, inherited descriptors, failing fork |
| thread-per-connection server (`multi_conn_threads_server.c`) | descriptor table, one local `clientfd`, threads | accept, create, read the argument, recv, send, close | TCP, the address of a local variable | the argument is overwritten, descriptor numbers are reused, one `exit` for all |
| daemon, its script, its client (`daemon_server.c`, `test_daemon.sh`, `daemon_client.c`) | PID file, port, `keep_running`, pending signals | start, serve, handle SIGTERM/SIGHUP, clean up; start/stop/status/reload by the script | files, signals, TCP | signals between two statements, a check of the file acted on later, restarts, crashes |
| epoll echo server (`epoll_test.c`) | ready list, registrations, descriptor table, one batch of events | wait, accept, register, read to EAGAIN, echo, close | TCP, epoll | edges that are reported once, descriptors reused inside a batch |
| named semaphores, message queues, fifo, pipe (nine files of `chapter03`, `chapter04`) | names, kernel objects, open descriptors | open/create, fork, wait/post, send/receive, read/write, unlink | kernel objects that outlive a run | overlapping runs, interrupted runs, timeouts, unlink by either side |
| ring buffer (`create_thread_test.c`) | array of characters, one index per thread | store, look, print, clear | shared memory without a lock | no test for a full ring, a cell is read twice before it is cleared |
| two readers of one standard input (`terminate_test.c`) | terminal, one buffer per thread | type, `fgets`, compare, join | standard input | a line is taken by the wrong thread, the end of file goes unnoticed |
| cancellation, detaching, exit (five files of `chapter04/src`) | cancellation type and state, pending request, the lock of stdout | run, cancel, join, end | `pthread_cancel`, stdout | asynchronous cancellation inside `printf` |
| one-to-one chat (`single_conn_*.c`) | two threads at each end, one connection | say, hear, half-close, join, close | TCP | two half-closes in either order, interrupts |
| UDP request and reply (`udp_conn_*.c`) | server's receive buffer, clients that wait | send, receive, answer, close, start again | UDP | datagrams that vanish without an error, no timeout, nothing numbered |
| iterative echo server (`tcp_echo_server.c`) | one connection, one buffer | accept, recv, send, close | TCP | one client at a time, no timeout |
| daemon's client (`daemon_client.c`) | one connection | connect, send, recv, close | TCP with the daemon | it expects a dialogue where the daemon answers once |
| demonstrations of one call, thread pool, makefiles, documents, copied headers | none | | | not modelled |

What makes each of them correct:

* producer/consumer: no access outside the array, no item lost or seen twice, no
  lost wake-up, the program ends;
* semaphores and locks: exclusion, no update lost, every waiter served, the printed
  value is the expected one;
* servers: each connection is served by exactly one process or thread and by the right
  one, its descriptor is closed exactly when it should be, nobody is forgotten,
  clients that follow the protocol terminate;
* daemon: a daemon that listens is the one in the PID file, SIGTERM ends it;
* epoll: whatever arrives is read although the kernel announces it only once, and echoed
  to a client that reads;
* chat, echo, dialogue: a close cuts off nothing that was to arrive, who waits is answered;
* UDP: an answer belongs to the latest request; ring: the order is kept;
* kernel objects: exclusion across runs, nothing stale, no name left behind, processes
  end.

`PROJECT.json` lists every component (those not modelled with the reason) and under
`hazards` the places in the code where these properties are at stake.

## 2. Modules

```
CondBuffer  --refines-->  BoundedStack                  CondBuffer_proof
LockedCounter  --refines-->  AtomicCounter              LockedCounter_proof
               <--  LockPrograms (15 files)
NamedObjects   <--  IpcPrograms  (9 files)              NamedObjects_proof
ChatClient  <--  ProcessServer  <-- MCProcessServer     ProcessServer_proof
            <--  ThreadServer   <-- MCThreadServer      ThreadServer_proof
            <--  EchoServer     <-- Studies             Studies_proof
DaemonServer   <--  MCDaemonServer                      DaemonServer_proof
EpollServer    <--  MCEpollServer                       EpollServer_proof
SemHandoff  --refines-->  OneSlot
SemHandoff, CharRing, SharedInput, Cancel, UdpEcho, ChatPair, EchoServer, DaemonClient
            <--  Studies  <--  MCStudies                Studies_proof
```

`<--` is EXTENDS. A `_proof` module extends the module it is about.

**CondBuffer** has one action per statement of the two worker threads (`while`, lock,
predicate, `pthread_cond_wait`, its return with the mutex, the second exit test, the
array access, signal, unlock) and of `main`. `pc` is the statement each thread
is at; `mutex` the holder; a thread in `pthread_cond_wait` is `blocked` until a signal,
broadcast or spurious wake-up moves it to `relock`. Items are numbered instead of
random, which is what tells a lost item from a repeated one. **BoundedStack** is what
the program promises without threads; the array prefix below `count` is its stack.

**SemHandoff** has the waits, accesses and posts of both threads as separate actions;
**OneSlot** is a channel of one place. `produced` and `received` record the history.

**LockedCounter** is one program for all the counter and reader/writer examples. What a
file adds is in a `Program` record of **LockPrograms**: who writes, who reads, how
often each locks, how many increments one critical section holds, whether the writers
lock at all, and whether the rwlock makes readers wait for waiting writers. An
increment is a load into `tmp` and a store. A mutex, a spinlock and a binary
semaphore are the same to their users: a lock with one holder. **AtomicCounter** is what the
programs that lock promise: an integer that each thread increments in one step as often as it owes it, and
whose value is printed when nobody owes any. A thread owes the increments its loop counters say are still to come.

**ChatClient** is the client of the two chapter06 servers and the TCP connection: counters
of unread lines and replies per connection, a flag for the half-close, one for a reset. It has
no `Spec` of its own: **ProcessServer** and **ThreadServer** extend it and interleave
its actions with theirs. ProcessServer keeps for every connection the set
of processes that hold it (`holders`); the connection ends when the last one closes
it. `handler` is the SIGCHLD handler, which may run between any two steps of the
parent. ThreadServer keeps the descriptor table (`fdtab`, lowest free number first, `MaxFds` of them: a full table, or any other error
of `accept`, ends the process, `AcceptFails`) and main's `clientfd`; `accepted[i]` records for which connection thread `i` was
created.

**DaemonServer** has the statements of the daemon as labels (`pc`): the double `fork`; the
PID file in two steps, as `fopen("w")` empties it before `fclose` writes the pid (`streams` holds who has open the file that
the name stands for, which an `unlink` takes away); `bind`; the loop (`while`, `accept`, log, `recv`, reply);
and the clean-up in the order of the code (PID file, then socket). The handler may run between any
two of these steps (`pending`, `hpc`), and every label at which `main` calls `write_log` is one where it may
find `main` inside it (`InWriteLog`): it then returns or is blocked. Processes are started by hand at any time,
with `-d` or in the `foreground`, where no PID file is written and Ctrl+C takes the place of SIGTERM. A
client that has been accepted speaks when it likes (`spoke`), perhaps never.
`test_daemon.sh` is a second program in the same module: `op` is what its present command does next, `target` the pid
it has read. `is_running` is three steps, reading the file, `ps`, and `rm -f` when there is no such process; `stop`
adds reading it again with SIGTERM, the wait, `kill -9` and `rm -f`, `start` the launch of line 63 (without
`-d`, so in the script's foreground) and one more `is_running` after it. Between any two steps daemons, users and clients do what
they like; the script's sleeps exclude nothing. `crowded` is a history variable: it becomes true when a process is
started while another runs or in the middle of a command, or when a command reads the file in the middle of a start.

**EpollServer** has the kernel's ready list (`ready`), the batch `epoll_wait` returned
(`events`), and the loop over it. A descriptor enters the ready list when something
arrives, is reported once (edge-triggered clients) or as long as it is readable (the
listener), and leaves it when closed. Each event records for which connection it was
reported (`for`), which the code does not know. `Window` is what fits on the way to a client;
the part of an echo beyond it is dropped, as the unlooked-at result of `send` has it.
`greedy` are the clients that sent more than fits without reading.

**NamedObjects** has one action per library call of the programs that meet at a kernel object:
`create`, `fork`, `take`/`post`, timed `send`/`receive`, the loops over lines, `unlink`.
A program is a script, the list of its calls, in **IpcPrograms**, one per
file. A scenario starts up to three of them, in turn or overlapping. What all the scripts have in common
(they use only what they have open, a child only what it inherits; a semaphore is posted
right after it was taken; a name is made and unlinked once) is stated as predicates on scripts,
`UsesOpen`, `UsesRight` and `Tidy`, and assumed of every scenario; TLC evaluates that assumption on the nine programs. `bound` says which
object a name stands for, `fd` which object each process has open; the two may differ after
an unlink, which is where the hard cases are.

**Studies** is eight small programs that share nothing but a run. A behaviour picks one
(`study`) and leaves the variables of the others alone; each has a module of its own with
`...Init`, `...Next`, `...Spec` and its properties.

* **CharRing** (`create_thread_test.c`): storing a character, testing a cell, printing it and
  clearing it are separate steps; `lapped` remembers that a cell was stored to before it was cleared.
* **SharedInput** (`terminate_test.c`): whichever thread is first gets the line typed, and drops
  it if it was for the other; the buffers hold anything before the first line.
* **Cancel** (five files): thread function and `main` of each file as scripts. `printf` takes the
  lock of stdout; a deferred cancellation gives it back, an asynchronous one may not.
* **UdpEcho** (`udp_conn_*.c`): one receive buffer with a limit, a server that can be
  started again, other programs that send to its port. A datagram to a closed port or a full buffer
  vanishes (`vanished`).
* **ChatPair** (`single_conn_*.c`): the same two threads at both ends of a connection.
* **EchoServer** (`tcp_echo_server.c`): the clients of ChatClient with a server of one loop.
* **DaemonClient** (`daemon_client.c`): one connection seen from both ends, while the daemon
  may be busy with others.

## 3. Runs

Distinct states in parentheses. A type invariant is part of every passing run except
`cond_buffer`, `process_server` and `locks`, where it is proved (section 5).

| run | instance | what it shows |
|---|---|---|
| `cond_buffer` (9 350) | two slots, four items, two spurious wake-ups, main may never raise the flag | indices stay inside the array; the single condition variable loses no wake-up between the workers (`NoMissedSignal`) and the buffer keeps moving (`KeepsMoving`); `BoundedStack` is implemented, so items are neither lost nor repeated; once the flag is up, the program ends or exactly one worker is left blocked |
| `cond_exit` (violation) | one slot, no spurious wake-ups | `ExitsByItself` fails, see section 4 |
| `locks` (240 508) | seventeen programs, up to three writers and two readers | every program that locks implements `AtomicCounter` (`CounterSpec`), prints the exact total, disturbs no reader, ends. The three that do not lock run, too, and are excepted: they are meant to lose updates |
| `rwlock_writers` (violation) | two writers, two readers | a reader joins one that holds the lock although a writer waits, see section 4 |
| `process_server` (215 630) | two clients, two lines and one line, one failing fork or malloc, interrupted clients | a zombie never stays unnoticed (`ZombieNoticed`, `ZombiesReaped`); no connection is open in a process that should not have it; every line sent is read before its connection is closed, and only clients whose connection was refused or who were interrupted are reset (`AnsweredBeforeClose`); every client that ended its input terminates |
| `thread_server` (72 242) | the same clients, two descriptors, `accept` failing at a full table or at any time, one failing `malloc`, one failing `pthread_create`, schedules restricted by `Eager` | as long as each thread reads its argument before the next `accept`, threads and connections are never confused although numbers are reused; connections are orphaned only by a failing `pthread_create`, and the server falls only to that, to an error of `accept` or to an interrupted client (`NoneOrphaned`); while it runs, whoever was not refused is read to the last line and answered before the close (`AnsweredBeforeClose`); every client terminates |
| `thread_server_race` (violation) | the same without the restriction | `OneThreadPerClient` fails, see section 4 |
| `daemon` (196 614) | two starts on one port, by hand as a daemon or in the foreground or by the script, at any time; the commands of the script step by step, a crash, TERM and HUP, clients keep coming | the PID file is stale only by a kill, however daemons are started; unless starts and commands overlap (`crowded`) the file names the daemon that listens until it has removed it, no command removes it from under a daemon, and starts collide only with a process that is leaving (`PidFileTells`); SIGTERM ends a process, unless its handler is caught in `write_log` or the client being served never speaks |
| `daemon_term` (violation) | one daemon, nobody obliged to connect | `TermEnds` fails, see section 4 |
| `epoll` (320 039) | three clients, two descriptors, batches of two, room for one echo | no edge is lost; no event of a batch is applied to a descriptor that has changed hands; a client that reads its echoes loses none, though others lose theirs; everybody is accepted and read unless the server dies |
| `ipc` (97 284) | nine programs in ten scenarios, up to three runs, three lines typed into a sender, one interruption, failing `fork` or failing `read` | the binary semaphore excludes across overlapping and interrupted runs, and only an interruption loses its one; a program that runs alone never receives something older than itself; no name is left in the system (one exception, named in the property); a process stays for ever only in the places `Deserted` lists, also after an interruption: a consumer or a reader of the fifo without a writer, a writer at a full fifo without a reader, the pipe's child that got no data (and its parent), whoever waits for a semaphore that a run took with it when it was interrupted (and a parent waiting for such a child) |
| `studies` (14 975) | eight programs: five rounds of the hand-over; a ring of three cells and seven characters; two threads at a terminal; five cancellation scripts; two UDP clients, a buffer of two, two starts, one stranger; two lines from each end of a chat; two echo clients; three lines for the daemon | the two semaphores exclude and implement `OneSlot`; UDP answers stay in step with their requests (`InStep`); a close cuts nothing off a chat, an echo or a daemon's reply (`NothingCut`); the ring keeps the order until it is lapped; whoever waits for an answer (`Answered`) or a thread (`ThreadsEnd`) gets it, with the exceptions named there |

**Bounds.** They are the smallest at which the interesting cases occur. Two slots
distinguish full, empty and neither, one client more than descriptors makes `accept` fail,
batches of two leave an event behind a closed descriptor, room for one echo makes the
second be dropped, two lines let a reply overtake a half-close, two clients make two SIGCHLD merge.
Seven characters go twice round a ring of three; with a buffer of two a stranger's datagram and
one client's fill it against the other; the daemon's client never gets to its third line. Capacity 2 fills with two
overlapping runs of the message-queue program, and with three lines a writer of the fifo finds it full. Two starts are enough for two
processes to meet at the one PID file and the one port; the theorems hold for any number. Loops of fixed length (ten messages, five numbers, ten
thousand threads) are cut to two or three rounds, since no round behaves differently from
the second. Every bound is a constant with a comment `bound`, or named in a
comment of the module that gives it.

**Fairness.** Weak fairness of each thread, process or loop: the scheduler runs
whoever can run, and a lock or semaphore that stays available is obtained. Where the code
gives no guarantee, none is assumed: clients need not connect, programs need not be
started, faults, interruptions and spurious wake-ups need not happen, in `cond_buffer`
`main` need not ever wake, in `studies` nobody need type anything, and the daemon need not get
round to a client. A client the daemon serves need not speak: that is an exception in
`TermEnds`, because `recv` there has no timeout. One assumption goes further: in
`DaemonServer` the main loop and the delivery of SIGTERM are strongly fair, because a stream of
SIGHUPs disables them again and again; nobody sends signals faster than a handler logs one
line. `daemon` adds that clients keep coming, `daemon_term` drops it.

The readers and writers all have a finite number of rounds, so weak fairness is enough for
`Terminates`; with readers that never stop, writers may starve, which is what
`chapter04/src/writer_starvation_demo.c` demonstrates.

## 4. Disagreements between the code and what is said of it

* **The exit of the condition-variable program** (`cond_exit`).
  `condition_variable.c:67` says that the program ends by itself after ten
  seconds. `main` sets the flag and broadcasts without the mutex, so a worker that has just
  tested its predicate can go to sleep after the broadcast; its partner leaves, and the join never returns.
* **The argument of the worker threads** (`thread_server_race`).
  `multi_conn_threads_server.c:101` passes the address of a variable
  the next `accept` overwrites. `多线程网络编程使用说明.md:161,163` says every client
  has its own socket and nothing is shared.
* **SIGTERM and a blocked accept** (`daemon_term`).
  `daemon_server.c:323` expects `accept` to be interrupted, but `signal()` installs
  the handler with `SA_RESTART`: an idle daemon notices SIGTERM only with the next
  connection. The script hides this with `kill -9` after ten seconds.
* **The writer-preferring rwlock** (`rwlock_writers`).
  `rwlockattr_solution.c:23,31` says new readers are blocked while a writer waits.
  `PTHREAD_RWLOCK_PREFER_WRITER_NP` does not do that in the GNU library; only the
  non-recursive kind does.

Met while modelling, without a run of their own:

* `test_daemon.sh:63` starts the server without `-d`: `start` blocks until that server ends, and then reports that
  the start failed, as no PID file was written. Daemons come from starts by hand, which is what the guide shows.
* `signal_handler` calls `write_log`; if `main` is inside `write_log`, the handler waits for
  locks its own thread may hold (`hpc = "stuck"`, excepted in `TermEnds`).
* A second daemon started by hand overwrites the PID file of the first, and removes it when
  its `bind` fails, although `守护进程直接运行说明.md:187` allows several instances. `status`, run between the `fopen` and
  the `fclose` of a start, finds an empty file, takes it for a stale one and removes it: the pid goes to a file without a name.
* One bad client ends the thread server for all (`多线程网络编程使用说明.md:103`), and a failing
  `pthread_create` is not noticed because the wrong value is tested.
* A fifo left behind by a `fifo_pipe_write` that was interrupted, or whose `read` failed, makes each later writer exit
  (`mkfifo` fails) and each reader wait in `open`. `named_sem_bin_process` interrupted between
  wait and post leaves the value 0, which the next `sem_open` does not reset.
* Two overlapping runs of `named_sem_producer_consumer` can leave `/named_sem_full`; two of
  `unnamed_sem_count_process` can hang, since the second `sem_init` erases a post. That
  scenario is not part of the `ipc` run, the first is, with its exception.
* `project/tcp_udp_server/README.md:11` promises several clients at once; `tcp_echo_server.c`
  accepts the next one only when the last has closed. A client that keeps its connection open
  holds up all others (exception in `TurnComes`).
* `daemon_client.c:36` announces a loop of sending and receiving; the daemon answers one line and
  closes, so the second line meets a reset (`FirstLineAnswered` shows that the first reply is safe).
* `udp_conn_server.c` waits for the datagram `EOF`, which `udp_conn_client.c` never sends: it ends
  without telling. An empty line of any client does end the server, since `recvfrom` returns 0.
* `single_conn_server.c:115` listens with a backlog of ten and accepts one connection; whoever comes second is
  connected to a queue.
* Nothing but the user's patience keeps starts and commands apart: `is_running` is a check that is acted on later, and
  `PidFileTells` has its second half only while `crowded` is false. What it shows is that patience is enough: the window before
  the pid is written, the one between `ps` and `rm`, signals, crashes and `kill -9` then never hide a daemon that listens.
* `stop` leaves the file alone when the process disappears between the tenth look and the eleventh (line 101); after
  a crash it then stays stale until the next command.
* In `unnamede_pipe_test.c` the parent waits for its child before it closes the write end; with
  an empty argument both wait for ever.

## 5. Proofs

TLC checks the instances above; the following hold for every value of the constants. The
assumptions are the named `ASSUME`s of the modules, nothing else.

| module | theorem | statement |
|---|---|---|
| `CondBuffer_proof` | `Bounds`, `Signals`, `NothingLost` | types, both array accesses in bounds, no lost wake-up and never both threads blocked, items conserved, for every `BUFFER_SIZE`, with any number of spurious wake-ups |
| | `Refinement` | `Spec => StackSpec` |
| `LockedCounter_proof` | `Safety`, `Readers` | no update lost; no step changes what a reader is reading, for any finite set of threads and any programs |
| | `NoDeadlock` | threads and `main` never all wait for one another, whichever side the rwlock prefers (`NotAllWaiting`) |
| | `Refinement` | `Spec => CounterSpec`: the programs that lock implement the counter with an atomic increment |
| | `Total` | what a locking program prints is writers x rounds x increments (`Exact`) |
| `ProcessServer_proof` | `Reaping`, `Descriptors`, `Typed` | no zombie unnoticed, descriptors private, types, for any set of clients |
| | `Answered` | `AnsweredBeforeClose`, for any number of lines |
| | `Attended` | a connection that is not closed is in the queue, in the parent's hands, or has a child that will close it (`NoneForgotten`) |
| `ThreadServer_proof` | `Typed` | types, under every schedule |
| | `OwnThread`, `NotOrphaned` | `Eager => (Spec => []OneThreadPerClient)`, and the same for `NoneOrphaned` |
| | `AnsweredInFull` | `Eager => (Spec => []AnsweredBeforeClose)`, for any number of lines |
| `DaemonServer_proof` | `Typed`, `FileTells` | types and `PidFileTells` for any daemons, ports, signals, commands and crashes |
| | `Leaves` | once `keep_running` is cleared it stays so and each statement of main is a step nearer to the end, eight at most (`OnlyOnward`) |
| `EpollServer_proof` | `Typed`, `Edges`, `NotStale` | types, no edge lost, no event stale, for any clients, descriptors and batches |
| | `Echoes` | `EchoesKept` for any window |
| `NamedObjects_proof` | `Typed` | types, and no queue or fifo over its capacity, for any programs that keep the common rules |
| | `OneAtATime` | `OneInside`: at most one process between wait and post, and the semaphore's one is lost only by an interruption |
| | `OwnMessages`, `NamesGone` | `FromOwnRun` and `NoNameLeft`, for any number of runs |
| `Studies_proof` | `HandoffInOrder`, `HandoffIsSlot` | exclusion and order of the hand-over for any number of rounds; `Spec => SlotSpec` |
| | `HandoffNeverStuck` | when one thread waits, the other is on its way to the post (`OtherWillPost`) |
| | `CancelSafe` | only an asynchronous cancellation leaves stdout locked; who has disabled cancellation is not cancelled (`CancelTells`) |
| | `RingOrder`, `UdpInStep`, `ChatCloses`, `EchoInFull`, `FirstReply` | the safety property of each of these programs, in its own specification |
| | `StudiesKeep`, `StudiesTyped`, `StudiesSlot` | every invariant of the run, and the refinement, in the specification it checks |

Every invariant and every action property a passing run checks is stated by one of these theorems.

The assumptions are: numbers of slots, rounds, lines, words, capacities, windows and bounds are natural numbers, the sizes of
buffers, batches and tables at least 1; a port for each daemon; what stands for nobody (`None`, `NoConn`, `Parent`, `Stranger`) is not
one of the daemons or clients; the clients of ThreadServer and the threads of LockedCounter are finitely many, the programs of the latter
records of `Program` with writers and readers disjoint; `Eager` is a hypothesis of three theorems of
ThreadServer, not an assumption; scenarios of NamedObjects are sequences of scripts that keep
`UsesOpen`, `UsesRight` and `Tidy`. The last is the only one about the programs' text. It says
what is plain to see in each of the nine files, and a program that broke it, say one that posts a binary
semaphore it has not taken, would break the theorems, too.

The inductive invariants:

* **CondBuffer.** `NoMissedSignal` alone is not inductive: a thread that goes to sleep must have
  seen its predicate false *and nobody may have changed it since*. `MutexInv` says the holder of the
  mutex is the one thread inside the critical statements, `ClaimInv` that a thread past its test
  still finds what it tested. With these a thread can fall asleep only with its condition false,
  and only a change of `count` by the other thread, followed by its signal, makes it true.
  `should_exit` is outside the mutex and appears in none of them, which is why safety is untouched by
  the race that breaks the exit.
* **LockedCounter.** Who is inside a critical section holds the lock on its side (`HoldersInside`),
  a writer excludes everyone (`Exclusive`); then the value loaded is still the present one when it is stored.
  For the total, `Done` is the set of the increments made, each a triple of writer, round and turn,
  as the loop counters have it. A fresh store adds one triple and one to the integer, the step to
  the next round none of either; at the end the set is the whole product, and its cardinality is known.
  For the refinement, what a thread owes follows from its loop counters (`Owed`); the lemma `TurnsLeft` says
  that the end of a round and the loads leave it as it is and that a store lowers it by one, so that the store of a fresh
  value is the abstract increment and all else but the print is a stutter.
  That nobody waits for nobody needs the converse of `HoldersInside`: whoever the lock names as its
  holder has not left the critical section (`HoldersWork`). Then, when all who are left wait, the lock is free.
* **NamedObjects.** `Types`, `BirthInv` and `OpenInv` say that what the script has opened by now has a descriptor, in
  the child from its birth on. No object is in use under two names (`NameInv`), so what is done to a queue is never done
  to a semaphore. From these, and because an object in use keeps its use only with those that have it open,
  follow the room in queues (`RoomInv`), that a binary semaphore is 0 while someone is inside (`BinInv`) and, without
  interruption, 1 when nobody is (`TokenInv`). For the names: runs that do not overlap start when all earlier ones are
  over (`SerialInv`); without interruption every name has a process that made it and has its unlink before
  it (`KeepInv`), or, for the name that may be left, only while runs do not overlap, where nobody else can have removed the
  first name (`SoloInv`). So a run that starts alone finds no name and nothing in use, and what is in use
  from then on holds its own messages only (`OwnInv`). The proof sorts the actions into eight groups that change the
  same variables in the same way (`Grouped`), and has one lemma each on what a step does to a process, a name and an object
  (`ProcessStep`, `NameStep`, `ObjectStep`); the invariants follow from those three.
* **ProcessServer.** To `ZombieNoticed` and `DescriptorsPrivate` is added that the parent has a
  current connection exactly while it is handing it over. `AnsweredBeforeClose` needs the path of a
  connection (`PathInv`: through the queue, the parent's hands and those of its child, each at most
  once, and open until the child closes it) and an account of its lines and replies (`AccountInv`).
  That none is forgotten (`WayInv`) rests on the kernel's rule: what a process lets go of is closed or has another holder.
* **ThreadServer.** Under any schedule a connection is in the queue or was accepted, once, and open
  descriptors stand for different connections (`PInv`); that no more connections are accepted than there are threads is a
  pigeonhole argument, and whether there is a free descriptor is `accept`'s own concern: without one it ends the server. Under `Eager` at most one thread has yet to read its argument, and `clientfd`
  is still that connection (`OwnInv`); then every open descriptor is in somebody's hands (`Covered`) unless a
  failing `pthread_create` lost it, and only that, an error of `accept` or an interrupted client ends the server (`Blame`). From `OwnInv` and the
  uniqueness of `PInv` each connection has one thread, so an account of lines and replies per connection is inductive
  (`AInv`): strictly fewer replies than lines while its thread is at `send`, nothing unread when it is at `close`. Without
  `Eager` it is not: the thread that got the wrong number answers, and closes, for another.
* **DaemonServer.** Who owns a port serves or is leaving (`OwnerInv`); the file names somebody who
  wrote it and has not removed it, and who is over only by a kill (`FileInv`); without crowding one
  process at most is between its start and its clean-up, the file is its own, a command under way has read its pid
  and finds it past the writing of it, and a command on its way to `rm` has no daemon to hide (`CrowdInv`). The last two are what makes it
  inductive: `rm` acts on a `ps` of the past, so the invariant has to carry what that `ps` saw.
  `Leaves` is an action property, from a distance of every statement to the end (`Ahead`).
* **EpollServer.** The ready list has no duplicates and, of the clients, only registered ones; the events of a batch are
  for different descriptors, so that closing the one being handled makes no later event stale; a listener's
  event keeps the listener on the list; each connection is queued or has a descriptor, once. For the
  echoes, a client that was never greedy has no more unanswered messages than the window.
* **Studies.** Hand-over: `empty + full` plus the threads between a wait and the following post is one.
  Ring: without a lap the characters not yet cleared lie in the cells from `take` on, and `put` is
  the cell behind the last; each character is in one cell only. UDP: a client has at most one datagram in the buffer, and
  is in one of four situations. Chat: while nobody interrupts, each end has shut its direction after its last line and
  heard the end only with all lines before it (`Orderly`). Echo: lines sent are in the server's socket, in its
  buffer, on the way back or received. Dialogue: five situations, in the order in which they
  come. Cancellation: who is within `printf` holds stdout, and only the script that asks for it is asynchronous (`CancelInv`).
  `StudiesInv` is their conjunction; a step of one program leaves the rest as it was.

A refinement proof shows that the initial states map to initial states and every action to
one step of the abstract specification or to a stutter; only the array access (respectively the
production and the consumption of a number, the store of the incremented value and the print) is a visible step.

Only model-checked: the liveness properties (`KeepsMoving`, `ExitsUnlessStranded`, `Terminates`, `ZombiesReaped`,
`ClientsFinish`, `TermEnds`, `AllServed`, `EndsUnlessDeserted`, `Answered`, `ThreadsEnd`), because the prover does not reason
about fairness and `ENABLED`. Of SharedInput, whose only claim is one of them, the types are proved. `NoDeadlock`,
`HandoffNeverStuck`, `CancelSafe`, `Signals`, `Reaping`, `Attended`, `NotOrphaned`, `Leaves`, `Edges` and the second half of `OneAtATime` are
the safety halves of several: they say of whoever waits that someone else is on the way to wake it.

## 6. What is not modelled, and the plan

Left out of the modelled components: failures of `malloc` and `pthread_create` in clients, in the chat and in the counter
programs; errors of `accept` other than EINTR, which end the process, in the process server, the echo server and
the chat server (`multi_conn_process_server.c:132`, `tcp_echo_server.c:48`, `single_conn_server.c:124`); a failing `sendto` or `recvfrom`, which ends the
UDP client (`udp_conn_client.c:49,68`) or server; a full disk, on which the PID file stays empty; pids of different lengths written over one another,
and pids used again; the text of the daemon's log; message text, priorities and thread timing (`sleep` is never relied on: any
interleaving it makes unlikely is still allowed); a datagram of a stranger to a UDP client, and losses on a network (its address is
127.0.0.1). Memory is sequentially
consistent; the counter programs without a lock and the ring are data races in C, and the models
give them the interleavings of their loads and stores only.

Two hazards have no property. An epoll client that sends faster than the loop reads keeps the only thread for itself
(`epoll_test.c:80`): messages are bounded, so the loop always reaches EAGAIN. Ten
thousand `pthread_create` whose results are not looked at (`signal_study_define.c:70`): joining a thread that was never
created is undefined by the library.

Not modelled at all:

* `socket_ipc_communication.c` and `tcp_echo_client.c`, which do not compile and have no behaviour.
* `process_pool_test.c`: the pool is GLib's, the program pushes ten tasks and frees it.
* Demonstrations of a single call (`fork`, `execve`, `system`, `perror`, one signal handler), and
  `shared_memory.c`, where the parent reads after `waitpid` and no two steps can be swapped.
* Hand-written test scripts that print hints, makefiles, documents.
* `chapter03/share`: some 234 000 lines of copied system headers, nearly all of the lines of C in
  the repository. They declare and do nothing; the programs proper are about 5 000 lines.

What could still be added: the safety half of `EndsUnlessDeserted` for queues; the counter programs with failing
`pthread_create`; weaker memory for the ring.

## 7. Running

```
tlc -workers 2 -config MCCondBuffer.cfg CondBuffer.tla
tlc -workers 2 -config LockPrograms.cfg LockPrograms.tla
tlc -workers 2 -config MCStudies.cfg MCStudies.tla
tlapm CondBuffer_proof.tla
```

`PROJECT.json` names module and configuration of every run, the definition each property is meant to
guard (`mutants`: a small change of the code under which TLC finds the property violated; the changed
definitions stand in the modules, marked "Mutant"), and for every definition the lines it was
translated from. Deadlock checking is off everywhere: programs end, servers may wait for clients.
