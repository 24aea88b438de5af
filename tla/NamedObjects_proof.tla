---- MODULE NamedObjects_proof ----
(* Proofs about NamedObjects, for every set of scenarios made of programs of  *)
(* the kind its assumptions describe, every number of runs, lines, failures   *)
(* and every capacity.                                                        *)
EXTENDS NamedObjects, FiniteSetTheorems, TLAPS

Call == [do : STRING, on : Names]
Started(i) == status[Parent(i)] # "new"

-----------------------------------------------------------------------------
(* The inductive invariant.                                                   *)

(* TypeOK without the room in queues.                                         *)
Types ==
    /\ scenario \in Scenarios
    /\ status \in [Procs -> {"new", "running", "done", "failed", "cut"}]
    /\ at \in [Procs -> Nat]
    /\ \A p \in Procs : at[p] \in 1 .. Len(Script(p)) + 1
    /\ fd \in [Procs -> [Names -> 0 .. Len(objects)]]
    /\ lines \in [Procs -> 0 .. MaxLines]
    /\ typed \in [Procs -> BOOLEAN]
    /\ got \in [Procs -> SUBSET Invocations]
    /\ bound \in [Names -> 0 .. Len(objects)]
    /\ objects \in Seq(Seq(Invocations \cup {END}))
    /\ cuts \in 0 .. MaxCuts

(* A process has nothing open before it starts and after it ends; a child is  *)
(* there only when its parent is past the fork.                               *)
BirthInv ==
    /\ \A p \in Procs : Over(p) => fd[p] = Nothing
    /\ \A p \in Procs : status[p] = "new" => at[p] = 1
    /\ \A i \in Invocations : status[Child(i)] # "new" =>
          /\ Started(i)
          /\ \E f \in DOMAIN Script(Parent(i)) :
                f < at[Parent(i)] /\ Script(Parent(i))[f].do = "fork"

(* What the scripts say is open has a descriptor.                             *)
OpenInv ==
    /\ \A i \in Invocations : status[Parent(i)] = "running" =>
          \A n \in Names : OpenAt(Script(Parent(i)), at[Parent(i)], n) => fd[Parent(i)][n] # 0
    /\ \A i \in Invocations : status[Child(i)] = "running" =>
          \A k \in DOMAIN Script(Child(i)) : fd[Child(i)][Script(Child(i))[k].on] # 0

LInv == Types /\ BirthInv /\ OpenInv

-----------------------------------------------------------------------------
(* Processes and scripts.                                                     *)

(* A process is the parent or the child of one invocation.                    *)
LEMMA ProcFacts ==
    /\ \A p \in Procs : /\ p[1] \in Invocations /\ p[2] \in {"parent", "child"}
                        /\ p[2] = "parent" => p = Parent(p[1])
                        /\ p[2] = "child" => p = Child(p[1])
    /\ \A i \in Invocations : /\ Parent(i) \in Procs /\ Child(i) \in Procs
                              /\ Parent(i)[1] = i /\ Parent(i)[2] = "parent"
                              /\ Child(i)[1] = i /\ Child(i)[2] = "child"
    /\ \A i, j \in Invocations : /\ Parent(i) # Child(j)
                                 /\ Parent(i) = Parent(j) => i = j
                                 /\ Child(i) = Child(j) => i = j
  BY DEF Procs, Parent, Child

(* A process's script is a sequence of calls and keeps the common rules.      *)
LEMMA ScriptFacts ==
    ASSUME scenario \in Scenarios, NEW p \in Procs
    PROVE  /\ Script(p) \in Seq(Call)
           /\ UsesRight(Script(p))
           /\ p[2] = "parent" => Tidy(Script(p))
<1>1. CASE p[1] \in DOMAIN scenario.runs
  <2> DEFINE e == scenario.runs[p[1]]
  <2>1. e \in Executables
    BY <1>1, ScenariosAssumption
  <2>2. e.parent \in Seq(Call) /\ e.child \in Seq(Call)
    BY <2>1 DEF Executables, Call
  <2>3. UsesRight(e.parent) /\ UsesRight(e.child) /\ Tidy(e.parent)
    BY <1>1, ProgramsAssumption
  <2>4. Script(p) = e[p[2]]
    BY <1>1 DEF Script
  <2>5. p[2] = "parent" \/ p[2] = "child"
    BY ProcFacts
  <2> HIDE DEF e
  <2> QED BY <2>2, <2>3, <2>4, <2>5
<1>2. CASE p[1] \notin DOMAIN scenario.runs
  <2>1. Script(p) = <<>>
    BY <1>2 DEF Script
  <2> QED BY <2>1 DEF UsesRight, Tidy
<1> QED BY <1>1, <1>2

(* What UsesOpen says of an invocation's two scripts.                         *)
LEMMA PairFacts ==
    ASSUME scenario \in Scenarios, NEW i \in Invocations
    PROVE  LET s == Script(Parent(i))
               c == Script(Child(i))
           IN  /\ \A j, k \in DOMAIN s : s[j].do = "fork" /\ s[k].do = "fork" => j = k
               /\ \A k \in DOMAIN s : Uses(s[k]) => OpenAt(s, k, s[k].on)
               /\ \A k \in DOMAIN c :
                     /\ c[k].do \in {"take", "post", "receive"}
                     /\ \A f \in DOMAIN s : s[f].do = "fork" => OpenAt(s, f, c[k].on)
<1>0. /\ Parent(i)[1] = i /\ Parent(i)[2] = "parent"
      /\ Child(i)[1] = i /\ Child(i)[2] = "child"
  BY ProcFacts
<1>1. CASE i \in DOMAIN scenario.runs
  <2> DEFINE e == scenario.runs[i]
  <2>1. UsesOpen(e)
    BY <1>1, ProgramsAssumption
  <2>2. Script(Parent(i)) = e.parent /\ Script(Child(i)) = e.child
    BY <1>0, <1>1 DEF Script
  <2> HIDE DEF e
  <2> QED BY <2>1, <2>2 DEF UsesOpen
<1>2. CASE i \notin DOMAIN scenario.runs
  <2>1. Script(Parent(i)) = <<>> /\ Script(Child(i)) = <<>>
    BY <1>0, <1>2 DEF Script
  <2> QED BY <2>1
<1> QED BY <1>1, <1>2

(* The call a running process stands at.                                      *)
LEMMA CallFacts ==
    ASSUME Types, NEW p \in Procs, NEW op, Calls(p, op)
    PROVE  /\ status[p] = "running" /\ at[p] \in DOMAIN Script(p)
           /\ Step(p) = Script(p)[at[p]] /\ Step(p).do = op
           /\ N(p) = Step(p).on /\ N(p) \in Names /\ Obj(p) \in 0 .. Len(objects)
<1>1. Script(p) \in Seq(Call)
  BY ScriptFacts DEF Types
<1>2. status[p] = "running" /\ at[p] <= Len(Script(p)) /\ Step(p) = Script(p)[at[p]] /\ Step(p).do = op
  BY DEF Calls, Step
<1>3. at[p] \in Nat /\ at[p] >= 1
  BY DEF Types
<1>4. at[p] \in DOMAIN Script(p)
  BY <1>1, <1>2, <1>3
<1>5. Script(p)[at[p]] \in Call
  BY <1>1, <1>4
<1>6. N(p) = Step(p).on /\ N(p) \in Names
  BY <1>2, <1>5 DEF N, Call
<1>7. Obj(p) \in 0 .. Len(objects)
  BY <1>6 DEF Obj, Types
<1> QED BY <1>2, <1>4, <1>6, <1>7

(* What is used is open.                                                      *)
LEMMA UsedIsOpen ==
    ASSUME LInv, NEW p \in Procs, NEW op, Calls(p, op), Uses(Step(p))
    PROVE  Obj(p) \in DOMAIN objects
<1>1. /\ status[p] = "running" /\ at[p] \in DOMAIN Script(p) /\ Step(p) = Script(p)[at[p]]
      /\ N(p) = Step(p).on /\ N(p) \in Names /\ Obj(p) \in 0 .. Len(objects)
  BY CallFacts DEF LInv
<1>2. Obj(p) # 0
  <2>1. p[1] \in Invocations /\ (p = Parent(p[1]) \/ p = Child(p[1]))
    BY ProcFacts
  <2>2. CASE p = Parent(p[1])
    <3>1. OpenAt(Script(p), at[p], N(p))
      BY <1>1, <2>1, <2>2, PairFacts DEF LInv, Types
    <3> QED BY <1>1, <2>1, <2>2, <3>1 DEF LInv, OpenInv, Obj
  <2>3. CASE p = Child(p[1])
    BY <1>1, <2>1, <2>3 DEF LInv, OpenInv, Obj
  <2> QED BY <2>1, <2>2, <2>3
<1> QED BY <1>1, <1>2 DEF LInv, Types

(* A call further, and what is open there.                                    *)
LEMMA OpenNext ==
    ASSUME NEW s, NEW k \in Nat \ {0}, NEW n
    PROVE  OpenAt(s, k + 1, n) <=> ~Closes(s[k], n) /\ (Opens(s[k], n) \/ OpenAt(s, k, n))
<1>1. ASSUME OpenAt(s, k + 1, n)
      PROVE  ~Closes(s[k], n) /\ (Opens(s[k], n) \/ OpenAt(s, k, n))
  <2>1. PICK j \in 1 .. k : Opens(s[j], n) /\ \A l \in j .. k : ~Closes(s[l], n)
    BY <1>1 DEF OpenAt
  <2> QED BY <2>1 DEF OpenAt
<1>2. ASSUME ~Closes(s[k], n), Opens(s[k], n) PROVE OpenAt(s, k + 1, n)
  <2>1. k \in 1 .. (k + 1) - 1 /\ \A l \in k .. (k + 1) - 1 : l = k
    OBVIOUS
  <2> QED BY <1>2, <2>1 DEF OpenAt
<1>3. ASSUME ~Closes(s[k], n), OpenAt(s, k, n) PROVE OpenAt(s, k + 1, n)
  <2>1. PICK j \in 1 .. k - 1 : Opens(s[j], n) /\ \A l \in j .. k - 1 : ~Closes(s[l], n)
    BY <1>3 DEF OpenAt
  <2>2. j \in 1 .. (k + 1) - 1 /\ \A l \in j .. (k + 1) - 1 : l = k \/ l \in j .. k - 1
    OBVIOUS
  <2> QED BY <1>3, <2>1, <2>2 DEF OpenAt
<1> QED BY <1>1, <1>2, <1>3

-----------------------------------------------------------------------------
(* The actions in groups that change the same variables the same way.         *)

Standing(p) == status[p] = "running" /\ at[p] \in DOMAIN Script(p)

(* A call that touches nothing.                                               *)
Goes(p) ==
    /\ Standing(p) /\ Step(p).do \in {"waitpid", "awaitWriter", "writeLines", "readLines"}
    /\ Return({p})
    /\ UNCHANGED <<scenario, status, fd, lines, typed, got, bound, objects, cuts>>

(* A call that uses what p has open: it adds to it, takes from it, makes it   *)
(* new, or finds no room or nothing there.                                    *)
Puts(p) ==
    /\ Step(p).do # "take"
    /\ Step(p).do \in {"post", "writeArgument"} \/ Len(Holds(Obj(p))) < Capacity
    /\ \E m \in {p[1], END} : Put(Obj(p), m)
    /\ UNCHANGED got
Gets(p) == Step(p).do # "post" /\ Holds(Obj(p)) # <<>> /\ Get(p)
Resets(p) ==
    /\ Step(p).do = "sem_init"
    /\ objects' = [objects EXCEPT ![Obj(p)] = <<>>] /\ UNCHANGED got
Works(p) ==
    /\ Standing(p) /\ Uses(Step(p))
    /\ Return({p}) \/ (UNCHANGED at /\ Step(p).do \notin {"take", "post"})
    /\ \/ UNCHANGED lines
       \/ lines[p] < MaxLines /\ lines' = [lines EXCEPT ![p] = @ + 1]
    /\ \E b \in BOOLEAN : typed' \in {typed, [typed EXCEPT ![p] = b]}
    /\ \/ Step(p).do \notin {"take", "post"} /\ UNCHANGED <<objects, got>>
       \/ Puts(p) \/ Gets(p) \/ Resets(p)
    /\ UNCHANGED <<scenario, status, fd, bound, cuts>>

(* A call that leaves a descriptor: of a new object, or of the one the name   *)
(* stands for. Others may have waited for it.                                 *)
OpensNew(p) ==
    /\ \E v \in {<<>>, Initial(N(p))} : /\ Step(p).do = "create" => v = Initial(N(p))
                                        /\ objects' = Append(objects, v)
    /\ Open(p, Len(objects) + 1)
    /\ \/ /\ Step(p).do = "create" /\ bound[N(p)] = 0
          /\ bound' = [bound EXCEPT ![N(p)] = Len(objects) + 1]
       \/ Step(p).do = "pipe" /\ UNCHANGED bound
OpensOld(p) ==
    /\ Step(p).do # "pipe" /\ bound[N(p)] # 0
    /\ Open(p, bound[N(p)]) /\ UNCHANGED <<bound, objects>>
OpensObject(p) ==
    /\ Standing(p) /\ Opens(Step(p), N(p))
    /\ OpensNew(p) \/ OpensOld(p)
    /\ \E ps \in SUBSET {q \in Procs : Calls(q, "awaitWriter")} : Return({p} \cup ps)
    /\ UNCHANGED <<scenario, status, lines, typed, got, cuts>>

(* Processes end: p at the end of its script or because of a name, or some    *)
(* of an invocation at any place.                                             *)
Ends(ps) ==
    /\ \A p \in ps : status[p] = "running"
    /\ \E how \in {"done", "failed", "cut"} : Leave(ps, how)
    /\ UNCHANGED <<scenario, at, lines, typed, got, bound>>
GivesUp(p) ==
    /\ at[p] \in DOMAIN Script(p)
    /\ \/ Step(p).do = "mkfifo" /\ bound[N(p)] # 0
       \/ Step(p).do \in {"openRdwr", "openRdonly", "unlinkOrFail"} /\ bound[N(p)] = 0
Quits(p) ==
    /\ status[p] = "running" /\ (at[p] > Len(Script(p)) \/ GivesUp(p))
    /\ Ends({p}) /\ UNCHANGED cuts
IsCut(ps) == Ends(ps) /\ cuts < MaxCuts /\ cuts' = cuts + 1

Group(p) ==
    \/ Goes(p) \/ Works(p) \/ OpensObject(p) \/ Quits(p)
    \/ Mkfifo(p) \/ Close(p) \/ Unlink(p) \/ Fork(p)

(* Every step is one of these.                                                *)
LEMMA Grouped ==
    ASSUME LInv, Next
    PROVE  \/ \E p \in Procs : Group(p)
           \/ \E ps \in SUBSET Procs : IsCut(ps)
           \/ \E i \in Invocations : Start(i)
<1>0. Types
  BY DEF LInv
<1>s. \A p \in Procs : status[p] = "running" /\ at[p] <= Len(Script(p)) => at[p] \in DOMAIN Script(p)
  BY <1>0, ScriptFacts DEF Types
<1>1. ASSUME NEW p \in Procs, Process(p) PROVE Group(p)
  <2> USE <1>s
  <2>1. CASE Fork(p)           BY <2>1 DEF Group
  <2>2. CASE WaitChild(p)      BY <2>2 DEF Group, WaitChild, Goes, Calls, Standing
  <2>3. CASE Exit(p)           BY <2>3 DEF Group, Exit, Quits, Ends
  <2>4. CASE Create(p)
    <3>1. /\ Standing(p) /\ Step(p).do = "create" /\ Opens(Step(p), N(p))
          /\ UNCHANGED <<scenario, status, lines, typed, got, cuts>>
      BY <2>4 DEF Create, Standing, Calls, Opens, N
    <3>2. Return({p} \cup {})
      BY <2>4 DEF Create
    <3>3. OpensNew(p) \/ OpensOld(p)
      BY <2>4, <3>1 DEF Create, OpensNew, OpensOld
    <3> QED BY <3>1, <3>2, <3>3 DEF Group, OpensObject
  <2>5. CASE SemInit(p)        BY <2>5 DEF Group, SemInit, Works, Resets, Calls, Standing, Uses
  <2>6. CASE Pipe(p)
    <3>1. /\ Standing(p) /\ Step(p).do = "pipe" /\ Opens(Step(p), N(p))
          /\ UNCHANGED <<scenario, status, lines, typed, got, cuts>>
      BY <2>6 DEF Pipe, Standing, Calls, Opens, N
    <3>2. Return({p} \cup {})
      BY <2>6 DEF Pipe
    <3>3. OpensNew(p)
      BY <2>6, <3>1 DEF Pipe, OpensNew
    <3> QED BY <3>1, <3>2, <3>3 DEF Group, OpensObject
  <2>7. CASE Mkfifo(p)         BY <2>7 DEF Group
  <2>8. CASE MkfifoExists(p)   BY <2>8 DEF Group, MkfifoExists, Quits, Ends, GivesUp, Calls
  <2>9. CASE OpenReadWrite(p)
    <3>1. /\ Standing(p) /\ Step(p).do = "openRdwr" /\ Opens(Step(p), N(p))
          /\ UNCHANGED <<scenario, status, lines, typed, got, cuts>>
      BY <2>9 DEF OpenReadWrite, Standing, Calls, Opens, N
    <3>2. \E ps \in SUBSET {q \in Procs : Calls(q, "awaitWriter")} : Return({p} \cup ps)
      BY <2>9 DEF OpenReadWrite
    <3>3. OpensOld(p)
      BY <2>9, <3>1 DEF OpenReadWrite, OpensOld
    <3> QED BY <3>1, <3>2, <3>3 DEF Group, OpensObject
  <2>10. CASE OpenReadOnly(p)
    <3>1. /\ Standing(p) /\ Step(p).do = "openRdonly" /\ Opens(Step(p), N(p))
          /\ UNCHANGED <<scenario, status, lines, typed, got, cuts>>
      BY <2>10 DEF OpenReadOnly, Standing, Calls, Opens, N
    <3>2. Return({p} \cup {})
      BY <2>10 DEF OpenReadOnly
    <3>3. OpensOld(p)
      BY <2>10, <3>1 DEF OpenReadOnly, OpensOld
    <3> QED BY <3>1, <3>2, <3>3 DEF Group, OpensObject
  <2>11. CASE AwaitWriter(p)   BY <2>11 DEF Group, AwaitWriter, Goes, Calls, Standing
  <2>12. CASE OpenFails(p)     BY <2>12 DEF Group, OpenFails, Quits, Ends, GivesUp, Calls
  <2>13. CASE Close(p)         BY <2>13 DEF Group
  <2>14. CASE Unlink(p)        BY <2>14 DEF Group
  <2>15. CASE UnlinkFails(p)   BY <2>15 DEF Group, UnlinkFails, Quits, Ends, GivesUp, Calls
  <2>16. CASE \/ Post(p) \/ Take(p) \/ WriteArgument(p) \/ Send(p) \/ Receive(p)
              \/ SendLine(p) \/ SendEnd(p) \/ ReceiveLine(p) \/ TypeLine(p) \/ WriteLine(p)
              \/ ReadLine(p)
    <3> USE DEF Works, Standing, Calls, Uses
    <3>1. CASE Post(p)           BY <3>1 DEF Group, Post, Puts
    <3>2. CASE Take(p)           BY <3>2 DEF Group, Take, Gets
    <3>3. CASE WriteArgument(p)  BY <3>3 DEF Group, WriteArgument, Puts
    <3>4. CASE Send(p)           BY <3>4 DEF Group, Send, Puts, TimedPut
    <3>5. CASE Receive(p)        BY <3>5 DEF Group, Receive, Gets
    <3>6. CASE SendLine(p)       BY <3>6 DEF Group, SendLine, Puts, TimedPut
    <3>7. CASE SendEnd(p)        BY <3>7 DEF Group, SendEnd, Puts, TimedPut
    <3>8. CASE ReceiveLine(p)
      <4>1. Return({p}) \/ Return({})
        BY <3>8 DEF ReceiveLine
      <4>2. Return({p}) \/ UNCHANGED at
        BY <1>0, <4>1 DEF Return, Types
      <4> QED BY <3>8, <4>2 DEF Group, ReceiveLine, Gets
    <3>9. CASE WriteLine(p)      BY <3>9 DEF Group, WriteLine, Puts
    <3>10. CASE ReadLine(p)      BY <3>10 DEF Group, ReadLine, Gets
    <3>11. CASE TypeLine(p)      BY <3>11 DEF Group, TypeLine
    <3> QED BY <2>16, <3>1, <3>2, <3>3, <3>4, <3>5, <3>6, <3>7, <3>8, <3>9, <3>10, <3>11
  <2>17. CASE QuitWriting(p) \/ ReadEnd(p)
    BY <2>17 DEF Group, QuitWriting, ReadEnd, Goes, Calls, Standing
  <2> HIDE <1>s
  <2> QED BY <1>1, <2>1, <2>2, <2>3, <2>4, <2>5, <2>6, <2>7, <2>8, <2>9, <2>10, <2>11,
             <2>12, <2>13, <2>14, <2>15, <2>16, <2>17 DEF Process
<1>2. ASSUME NEW p \in Procs, CallFails(p) PROVE IsCut({p})
  BY <1>2 DEF CallFails, IsCut, Ends, Calls
<1>3. ASSUME NEW i \in Invocations, Interrupt(i)
      PROVE  \E ps \in SUBSET Procs : IsCut(ps)
  <2>1. IsCut({p \in {Parent(i), Child(i)} : status[p] = "running"})
    BY <1>3 DEF Interrupt, IsCut, Ends
  <2>2. Parent(i) \in Procs /\ Child(i) \in Procs
    BY ProcFacts
  <2> QED BY <2>1, <2>2
<1> QED BY <1>1, <1>2, <1>3 DEF Next

-----------------------------------------------------------------------------
(* Types, births and descriptors from step to step.                           *)

Messages == Invocations \cup {END}

(* A sequence of at most one element that is not empty.                       *)
LEMMA ShortSeq ==
    ASSUME NEW S, NEW s \in Seq(S), s # <<>>, Len(s) <= 1
    PROVE  Len(s) = 1
<1>1. Len(s) \in Nat /\ DOMAIN s = 1 .. Len(s)
  OBVIOUS
<1>2. Len(s) # 0
  <2>1. SUFFICES ASSUME Len(s) = 0 PROVE FALSE
    OBVIOUS
  <2>2. s = <<>>
    BY <2>1
  <2> QED BY <2>2
<1> QED BY <1>1, <1>2

(* A sequence with one element more is not empty.                             *)
LEMMA LongerSeq ==
    ASSUME NEW S, NEW s \in Seq(S), NEW e \in S
    PROVE  Append(s, e) # <<>>
<1>1. Len(Append(s, e)) = Len(s) + 1 /\ Len(s) \in Nat
  OBVIOUS
<1> QED BY <1>1, Len(<<>>) = 0

(* A function on 1 .. n is a sequence of length n.                            *)
LEMMA FunctionIsSeq ==
    ASSUME NEW S, NEW n \in Nat, NEW g \in [1 .. n -> S]
    PROVE  g \in Seq(S) /\ Len(g) = n
<1>1. g \in Seq(S)
  OBVIOUS
<1> QED BY <1>1

(* An object gets another content.                                            *)
LEMMA Rewritten ==
    ASSUME objects \in Seq(Seq(Messages)), NEW o \in DOMAIN objects, NEW v \in Seq(Messages),
           objects' = [objects EXCEPT ![o] = v]
    PROVE  /\ objects' \in Seq(Seq(Messages)) /\ Len(objects') = Len(objects)
           /\ DOMAIN objects' = DOMAIN objects
           /\ \A x \in DOMAIN objects : objects'[x] = IF x = o THEN v ELSE objects[x]
<1>1. objects \in [1 .. Len(objects) -> Seq(Messages)] /\ Len(objects) \in Nat
  OBVIOUS
<1>2. objects' \in [1 .. Len(objects) -> Seq(Messages)]
  BY <1>1
<1>3. objects' \in Seq(Seq(Messages))
  BY <1>1, <1>2
<1>4. Len(objects') = Len(objects)
  BY <1>1, <1>2, <1>3
<1>5. DOMAIN objects' = DOMAIN objects
  OBVIOUS
<1>6. \A x \in DOMAIN objects : objects'[x] = IF x = o THEN v ELSE objects[x]
  OBVIOUS
<1> QED BY <1>3, <1>4, <1>5, <1>6

(* A new object comes last.                                                   *)
LEMMA Appended ==
    ASSUME objects \in Seq(Seq(Messages)), NEW v \in Seq(Messages),
           objects' = Append(objects, v)
    PROVE  /\ objects' \in Seq(Seq(Messages)) /\ Len(objects') = Len(objects) + 1
           /\ DOMAIN objects' = DOMAIN objects \cup {Len(objects) + 1}
           /\ \A x \in DOMAIN objects : objects'[x] = objects[x]
           /\ objects'[Len(objects) + 1] = v
<1>1. objects' \in Seq(Seq(Messages)) /\ Len(objects') = Len(objects) + 1
  OBVIOUS
<1>2. DOMAIN objects = 1 .. Len(objects) /\ Len(objects) \in Nat
  OBVIOUS
<1>3. DOMAIN objects' = 1 .. Len(objects) + 1
  BY <1>1
<1>4. DOMAIN objects' = DOMAIN objects \cup {Len(objects) + 1}
  BY <1>2, <1>3
<1>5. \A x \in DOMAIN objects : objects'[x] = objects[x]
  BY <1>2
<1>6. objects'[Len(objects) + 1] = v
  BY <1>2
<1> QED BY <1>1, <1>4, <1>5, <1>6

(* Closing empties fifos and touches nothing else.                            *)
LEMMA EmptiedFacts ==
    ASSUME objects \in Seq(Seq(Messages)), NEW f
    PROVE  /\ Emptied(f) \in Seq(Seq(Messages)) /\ Len(Emptied(f)) = Len(objects)
           /\ DOMAIN Emptied(f) = DOMAIN objects
           /\ \A o \in DOMAIN objects :
                 \/ Emptied(f)[o] = objects[o]
                 \/ /\ Emptied(f)[o] = <<>>
                    /\ \E p \in Procs, n \in {"fifo"} \cap Names : fd[p][n] = o
<1> DEFINE g == Emptied(f)
<1>0. Len(objects) \in Nat /\ DOMAIN objects = 1 .. Len(objects)
  OBVIOUS
<1>1. /\ g = [o \in 1 .. Len(objects) |-> g[o]]
      /\ \A o \in DOMAIN objects :
                 \/ g[o] = objects[o]
                 \/ /\ g[o] = <<>>
                    /\ \E p \in Procs, n \in {"fifo"} \cap Names : fd[p][n] = o
  BY <1>0 DEF Emptied
<1> HIDE DEF g
<1>2. \A o \in 1 .. Len(objects) : objects[o] \in Seq(Messages)
  OBVIOUS
<1>3. <<>> \in Seq(Messages)
  OBVIOUS
<1>4. \A o \in 1 .. Len(objects) : g[o] \in Seq(Messages)
  BY <1>0, <1>1, <1>2, <1>3
<1>5. g \in [1 .. Len(objects) -> Seq(Messages)]
  BY <1>1, <1>4
<1>6. g \in Seq(Seq(Messages)) /\ Len(g) = Len(objects)
  BY <1>0, <1>5, FunctionIsSeq
<1> QED BY <1>0, <1>1, <1>5, <1>6 DEF g

(* Using what is open changes one object, by one message.                     *)
LEMMA WorkedOn ==
    ASSUME LInv, NEW p \in Procs, Works(p)
    PROVE  LET o == Obj(p)
           IN  /\ o \in DOMAIN objects /\ DOMAIN objects' = DOMAIN objects
               /\ Len(objects') = Len(objects) /\ objects' \in Seq(Seq(Messages))
               /\ \A x \in DOMAIN objects : x # o => objects'[x] = objects[x]
               /\ \/ objects'[o] = objects[o] /\ UNCHANGED got
                     /\ Step(p).do \notin {"take", "post"}
                  \/ /\ \E m \in {p[1], END} : objects'[o] = Append(objects[o], m)
                     /\ Step(p).do # "take" /\ UNCHANGED got
                     /\ Step(p).do \in {"post", "writeArgument"} \/ Len(objects[o]) < Capacity
                  \/ /\ objects[o] # <<>> /\ objects'[o] = Tail(objects[o])
                     /\ Step(p).do # "post"
                     /\ got' = [got EXCEPT ![p] = @ \cup ({Head(objects[o])} \ {END})]
                  \/ objects'[o] = <<>> /\ Step(p).do = "sem_init" /\ UNCHANGED got
<1> DEFINE o == Obj(p)
<1>1. Calls(p, Step(p).do) /\ Uses(Step(p))
  <2>1. status[p] = "running" /\ at[p] \in DOMAIN Script(p)
    BY DEF Works, Standing
  <2>2. at[p] <= Len(Script(p))
    BY <2>1, ScriptFacts DEF LInv, Types
  <2> QED BY <2>1, <2>2 DEF Works, Calls
<1>2. o \in DOMAIN objects
  BY <1>1, UsedIsOpen
<1>3. objects \in Seq(Seq(Messages)) /\ objects[o] \in Seq(Messages)
  BY <1>2 DEF LInv, Types, Messages
<1>4. p[1] \in Messages /\ END \in Messages
  BY ProcFacts DEF Messages
<1>5. CASE Step(p).do \notin {"take", "post"} /\ UNCHANGED <<objects, got>>
  BY <1>2, <1>3, <1>5
<1>6. CASE Puts(p)
  <2>1. PICK m \in {p[1], END} : objects' = [objects EXCEPT ![o] = Append(objects[o], m)]
    BY <1>6 DEF Puts, Put
  <2>2. Append(objects[o], m) \in Seq(Messages)
    BY <1>3, <1>4
  <2> QED BY <1>2, <1>3, <1>6, <2>1, <2>2, Rewritten DEF Puts, Holds
<1>7. CASE Gets(p)
  <2>1. objects' = [objects EXCEPT ![o] = Tail(objects[o])] /\ objects[o] # <<>>
    BY <1>7 DEF Gets, Get, Holds
  <2>2. Tail(objects[o]) \in Seq(Messages)
    BY <1>3, <2>1
  <2> QED BY <1>2, <1>3, <1>7, <2>1, <2>2, Rewritten DEF Gets, Get, Holds
<1>8. CASE Resets(p)
  <2>1. <<>> \in Seq(Messages)
    OBVIOUS
  <2> QED BY <1>2, <1>3, <1>8, <2>1, Rewritten DEF Resets
<1> QED BY <1>5, <1>6, <1>7, <1>8 DEF Works

(* Returning moves a process one call further.                                *)
LEMMA Returned ==
    ASSUME Types, UNCHANGED scenario, NEW ps, Return(ps),
           \A q \in Procs : q \in ps => at[q] \in DOMAIN Script(q)
    PROVE  /\ at' \in [Procs -> Nat]
           /\ \A q \in Procs : /\ at'[q] = IF q \in ps THEN at[q] + 1 ELSE at[q]
                               /\ at'[q] \in 1 .. Len(Script(q)') + 1
<1>1. \A q \in Procs : Script(q)' = Script(q)
  BY DEF Script
<1>2. \A q \in Procs : /\ at[q] \in Nat /\ at[q] \in 1 .. Len(Script(q)) + 1
                       /\ at'[q] = IF q \in ps THEN at[q] + 1 ELSE at[q]
  BY DEF Types, Return
<1>3. \A q \in Procs : Len(Script(q)) \in Nat /\ DOMAIN Script(q) = 1 .. Len(Script(q))
  BY ScriptFacts DEF Types
<1>4. at' = [q \in Procs |-> at'[q]]
  BY DEF Return
<1>5. \A q \in Procs : at'[q] \in Nat /\ at'[q] \in 1 .. Len(Script(q)) + 1
  BY <1>2, <1>3
<1> QED BY <1>1, <1>2, <1>4, <1>5

(* More objects, and one entry set to one of them.                            *)
LEMMA Pointed ==
    ASSUME NEW k \in Nat, NEW m \in Nat, k <= m, NEW o \in 0 .. m, NEW p, NEW n
    PROVE  /\ \A g \in [Names -> 0 .. k] : /\ g \in [Names -> 0 .. m]
                                          /\ [g EXCEPT ![n] = o] \in [Names -> 0 .. m]
           /\ \A g \in [Procs -> [Names -> 0 .. k]] :
                 /\ g \in [Procs -> [Names -> 0 .. m]]
                 /\ [g EXCEPT ![p][n] = o] \in [Procs -> [Names -> 0 .. m]]
<1>1. \A x \in 0 .. k : x \in 0 .. m
  OBVIOUS
<1> DEFINE K == 0 .. k
           M == 0 .. m
<1>2. \A x \in K : x \in M
  BY <1>1
<1>3. o \in M
  OBVIOUS
<1> HIDE DEF K, M
<1>4. \A g \in [Names -> K] : g \in [Names -> M] /\ [g EXCEPT ![n] = o] \in [Names -> M]
  BY <1>2, <1>3
<1>5. ASSUME NEW g \in [Procs -> [Names -> K]]
      PROVE  /\ g \in [Procs -> [Names -> M]]
             /\ [g EXCEPT ![p][n] = o] \in [Procs -> [Names -> M]]
  <2>1. \A q \in Procs : g[q] \in [Names -> M] /\ [g[q] EXCEPT ![n] = o] \in [Names -> M]
    BY <1>4
  <2> QED BY <2>1
<1> QED BY <1>4, <1>5 DEF K, M

(* Types are kept.                                                            *)
LEMMA TypesKept == LInv /\ [Next]_vars => Types'
<1> SUFFICES ASSUME LInv, [Next]_vars PROVE Types'
  OBVIOUS
<1>0. Types
  BY DEF LInv
<1>s. ASSUME UNCHANGED <<scenario, at>>
      PROVE  \A q \in Procs : at'[q] \in 1 .. Len(Script(q)') + 1
  BY <1>0, <1>s DEF Types, Script
<1>d. Len(objects) \in Nat /\ DOMAIN objects = 1 .. Len(objects)
  BY <1>0 DEF Types
<1>e. ASSUME NEW m \in Nat, Len(objects) <= m, NEW o \in 0 .. m, NEW p, NEW n
      PROVE  /\ bound \in [Names -> 0 .. m] /\ [bound EXCEPT ![n] = o] \in [Names -> 0 .. m]
             /\ fd \in [Procs -> [Names -> 0 .. m]]
             /\ [fd EXCEPT ![p][n] = o] \in [Procs -> [Names -> 0 .. m]]
  <2>1. bound \in [Names -> 0 .. Len(objects)] /\ fd \in [Procs -> [Names -> 0 .. Len(objects)]]
    BY <1>0 DEF Types
  <2> QED BY <1>d, <1>e, <2>1, Pointed
<1>f. Len(objects) + 1 \in Nat /\ Len(objects) <= Len(objects) + 1 /\ Len(objects) <= Len(objects)
      /\ Len(objects) + 1 \in 0 .. Len(objects) + 1 /\ 0 \in 0 .. Len(objects)
  BY <1>d
<1>g. /\ bound \in [Names -> 0 .. Len(objects) + 1]
      /\ fd \in [Procs -> [Names -> 0 .. Len(objects) + 1]]
      /\ \A n : [bound EXCEPT ![n] = Len(objects) + 1] \in [Names -> 0 .. Len(objects) + 1]
      /\ \A p, n : [fd EXCEPT ![p][n] = Len(objects) + 1] \in [Procs -> [Names -> 0 .. Len(objects) + 1]]
  BY <1>e, <1>f
<1>h. ASSUME NEW p, NEW n
      PROVE  /\ [bound EXCEPT ![n] = 0] \in [Names -> 0 .. Len(objects)]
             /\ [fd EXCEPT ![p][n] = 0] \in [Procs -> [Names -> 0 .. Len(objects)]]
  BY <1>d, <1>e, <1>f
<1>1. ASSUME NEW p \in Procs, Goes(p) PROVE Types'
  BY <1>0, <1>1, Returned DEF Goes, Standing, Types
<1>2. ASSUME NEW p \in Procs, Works(p) PROVE Types'
  <2>1. /\ at' \in [Procs -> Nat]
        /\ \A q \in Procs : at'[q] \in 1 .. Len(Script(q)') + 1
    BY <1>0, <1>s, <1>2, Returned DEF Works, Standing, Types
  <2>2. objects' \in Seq(Seq(Invocations \cup {END})) /\ Len(objects') = Len(objects)
    BY <1>2, WorkedOn DEF Messages
  <2>3. got' \in [Procs -> SUBSET Invocations]
    <3>1. CASE UNCHANGED got
      BY <1>0, <3>1 DEF Types
    <3>2. CASE Gets(p)
      <4>1. /\ Obj(p) \in DOMAIN objects /\ objects[Obj(p)] # <<>>
            /\ got' = [got EXCEPT ![p] = @ \cup ({Head(objects[Obj(p)])} \ {END})]
        BY <1>2, <3>2, WorkedOn DEF Gets, Get, Holds
      <4>2. objects[Obj(p)] \in Seq(Invocations \cup {END})
        BY <1>0, <4>1 DEF Types
      <4>3. Head(objects[Obj(p)]) \in Invocations \cup {END}
        BY <4>1, <4>2
      <4> QED BY <1>0, <4>1, <4>3 DEF Types
    <3> QED BY <1>2, <3>1, <3>2 DEF Works, Puts, Resets
  <2>4. lines' \in [Procs -> 0 .. MaxLines]
    <3>1. CASE UNCHANGED lines
      BY <1>0, <3>1 DEF Types
    <3>2. CASE lines[p] < MaxLines /\ lines' = [lines EXCEPT ![p] = @ + 1]
      <4>1. lines \in [Procs -> 0 .. MaxLines] /\ MaxLines \in Nat
        BY <1>0, BoundAssumption DEF Types
      <4>2. lines[p] + 1 \in 0 .. MaxLines
        BY <3>2, <4>1
      <4> QED BY <3>2, <4>1, <4>2
    <3> QED BY <1>2, <3>1, <3>2 DEF Works
  <2>5. UNCHANGED <<scenario, status, fd, bound, cuts>>
    BY <1>2 DEF Works
  <2>6. typed' \in [Procs -> BOOLEAN]
    BY <1>0, <1>2 DEF Works, Types
  <2> QED BY <1>0, <2>1, <2>2, <2>3, <2>4, <2>5, <2>6 DEF Types
<1>3. ASSUME NEW p \in Procs, OpensObject(p) PROVE Types'
  <2>1. PICK ps \in SUBSET {q \in Procs : Calls(q, "awaitWriter")} : Return({p} \cup ps)
    BY <1>3 DEF OpensObject
  <2>2. \A q \in Procs : q \in {p} \cup ps => at[q] \in DOMAIN Script(q)
    BY <1>0, <1>3, CallFacts DEF OpensObject, Standing
  <2>3. UNCHANGED <<scenario, status, lines, typed, got, cuts>>
    BY <1>3 DEF OpensObject
  <2>4. /\ at' \in [Procs -> Nat]
        /\ \A q \in Procs : at'[q] \in 1 .. Len(Script(q)') + 1
    BY <1>0, <2>1, <2>2, <2>3, Returned
  <2>5. CASE OpensNew(p)
    <3>1. PICK v \in {<<>>, Initial(N(p))} : objects' = Append(objects, v)
      BY <2>5 DEF OpensNew
    <3>2. v \in Seq(Messages)
      <4>1. <<>> \in Seq(Messages) /\ <<END>> \in Seq(Messages)
        BY DEF Messages
      <4> QED BY <4>1 DEF Initial
    <3>3. objects' \in Seq(Seq(Invocations \cup {END})) /\ Len(objects') = Len(objects) + 1
      BY <1>0, <3>1, <3>2, Appended DEF Types, Messages
    <3>4. fd' \in [Procs -> [Names -> 0 .. Len(objects')]]
      <4>1. fd' = [fd EXCEPT ![p][N(p)] = Len(objects) + 1]
        BY <2>5 DEF OpensNew, Open
      <4>2. fd' \in [Procs -> [Names -> 0 .. Len(objects) + 1]]
        BY <1>g, <4>1
      <4> QED BY <3>3, <4>2
    <3>5. bound' \in [Names -> 0 .. Len(objects')]
      <4>1. \/ bound' = bound
            \/ bound' = [bound EXCEPT ![N(p)] = Len(objects) + 1]
        BY <2>5 DEF OpensNew
      <4>2. CASE bound' = bound
        BY <1>g, <3>3, <4>2
      <4>3. CASE bound' = [bound EXCEPT ![N(p)] = Len(objects) + 1]
        <5>1. [bound EXCEPT ![N(p)] = Len(objects) + 1] \in [Names -> 0 .. Len(objects) + 1]
          BY <1>g
        <5> QED BY <3>3, <4>3, <5>1
      <4> QED BY <4>1, <4>2, <4>3
    <3> QED BY <1>0, <2>3, <2>4, <3>3, <3>4, <3>5 DEF Types
  <2>6. CASE OpensOld(p)
    <3>1. N(p) \in Names
      <4>1. Calls(p, Step(p).do)
        BY <1>0, <1>3, ScriptFacts DEF OpensObject, Standing, Calls, Types
      <4> QED BY <1>0, <4>1, CallFacts
    <3>2. fd' \in [Procs -> [Names -> 0 .. Len(objects')]]
      BY <1>0, <2>6, <3>1 DEF OpensOld, Open, Types
    <3> QED BY <1>0, <2>3, <2>4, <2>6, <3>2 DEF OpensOld, Types
  <2> QED BY <1>3, <2>5, <2>6 DEF OpensObject
<1>4. ASSUME NEW ps, Ends(ps), cuts' \in 0 .. MaxCuts PROVE Types'
  <2>1. PICK how \in {"done", "failed", "cut"} : Leave(ps, how)
    BY <1>4 DEF Ends
  <2>2. UNCHANGED <<scenario, at, lines, typed, got, bound>>
    BY <1>4 DEF Ends
  <2>3. objects' \in Seq(Seq(Invocations \cup {END})) /\ Len(objects') = Len(objects)
    BY <1>0, <2>1, EmptiedFacts DEF Leave, Types, Messages
  <2>4. fd' \in [Procs -> [Names -> 0 .. Len(objects)]]
    BY <1>0, <1>d, <2>1 DEF Leave, Types, Nothing
  <2>5. status' \in [Procs -> {"new", "running", "done", "failed", "cut"}]
    BY <1>0, <2>1 DEF Leave, Types
  <2> QED BY <1>0, <1>4, <1>s, <2>2, <2>3, <2>4, <2>5 DEF Types
<1>5. ASSUME NEW p \in Procs, NEW op, Calls(p, op), Return({p}), UNCHANGED scenario
      PROVE  /\ at' \in [Procs -> Nat]
             /\ \A q \in Procs : at'[q] \in 1 .. Len(Script(q)') + 1
             /\ N(p) \in Names
  BY <1>0, <1>5, CallFacts, Returned
<1>6. ASSUME NEW p \in Procs, Mkfifo(p) PROVE Types'
  <2>1. /\ at' \in [Procs -> Nat]
        /\ \A q \in Procs : at'[q] \in 1 .. Len(Script(q)') + 1
    BY <1>5, <1>6 DEF Mkfifo
  <2>2. <<>> \in Seq(Messages)
    OBVIOUS
  <2>3. objects' \in Seq(Seq(Invocations \cup {END})) /\ Len(objects') = Len(objects) + 1
    BY <1>0, <1>6, <2>2, Appended DEF Mkfifo, Types, Messages
  <2>4. bound' \in [Names -> 0 .. Len(objects')] /\ fd' \in [Procs -> [Names -> 0 .. Len(objects')]]
    <3>1. bound' = [bound EXCEPT ![N(p)] = Len(objects) + 1] /\ fd' = fd
      BY <1>6 DEF Mkfifo
    <3>2. /\ bound' \in [Names -> 0 .. Len(objects) + 1]
          /\ fd' \in [Procs -> [Names -> 0 .. Len(objects) + 1]]
      BY <1>g, <3>1
    <3> QED BY <2>3, <3>2
  <2> QED BY <1>0, <1>6, <2>1, <2>3, <2>4 DEF Mkfifo, Types
<1>7. ASSUME NEW p \in Procs, Close(p) PROVE Types'
  <2>1. /\ at' \in [Procs -> Nat]
        /\ \A q \in Procs : at'[q] \in 1 .. Len(Script(q)') + 1
    BY <1>5, <1>7 DEF Close
  <2>2. objects' \in Seq(Seq(Invocations \cup {END})) /\ Len(objects') = Len(objects)
    BY <1>0, <1>7, EmptiedFacts DEF Close, Types, Messages
  <2>3. fd' \in [Procs -> [Names -> 0 .. Len(objects)]]
    BY <1>h, <1>7 DEF Close, Open
  <2> QED BY <1>0, <1>7, <2>1, <2>2, <2>3 DEF Close, Types
<1>8. ASSUME NEW p \in Procs, Unlink(p) PROVE Types'
  <2>1. /\ at' \in [Procs -> Nat]
        /\ \A q \in Procs : at'[q] \in 1 .. Len(Script(q)') + 1
    BY <1>5, <1>8 DEF Unlink
  <2>2. bound' \in [Names -> 0 .. Len(objects)]
    BY <1>h, <1>8 DEF Unlink
  <2> QED BY <1>0, <1>8, <2>1, <2>2 DEF Unlink, Types
<1>9. ASSUME NEW p \in Procs, Fork(p) PROVE Types'
  <2>1. /\ at' \in [Procs -> Nat]
        /\ \A q \in Procs : at'[q] \in 1 .. Len(Script(q)') + 1
    BY <1>5, <1>9 DEF Fork
  <2>2. status' \in [Procs -> {"new", "running", "done", "failed", "cut"}]
    BY <1>0, <1>9 DEF Fork, Types
  <2>3. fd' \in [Procs -> [Names -> 0 .. Len(objects)]]
    BY <1>0, <1>9 DEF Fork, Types
  <2> QED BY <1>0, <1>9, <2>1, <2>2, <2>3 DEF Fork, Types
<1>10. ASSUME NEW i \in Invocations, Start(i) PROVE Types'
  BY <1>0, <1>10, <1>s DEF Start, Types
<1>11. CASE UNCHANGED vars
  BY <1>0, <1>11, <1>s DEF Types, vars, pvars
<1>12. ASSUME NEW p \in Procs, Quits(p) PROVE Types'
  BY <1>0, <1>4, <1>12 DEF Quits, Types
<1>13. ASSUME NEW ps, IsCut(ps) PROVE Types'
  BY <1>0, <1>4, <1>13, BoundAssumption DEF IsCut, Types
<1> QED BY <1>1, <1>2, <1>3, <1>6, <1>7, <1>8, <1>9, <1>10, <1>11, <1>12, <1>13, Grouped DEF Group

(* Places and calls.                                                          *)
LEMMA PlaceFacts ==
    ASSUME Types, NEW p \in Procs
    PROVE  /\ at[p] \in Nat \ {0} /\ DOMAIN Script(p) \subseteq Nat \ {0}
           /\ \A k \in DOMAIN Script(p) : Script(p)[k].on \in Names
<1>1. at[p] \in Nat /\ at[p] >= 1
  BY DEF Types
<1>2. Script(p) \in Seq(Call)
  BY ScriptFacts DEF Types
<1>3. \A k \in DOMAIN Script(p) : k \in Nat \ {0} /\ Script(p)[k] \in Call
  BY <1>2
<1> QED BY <1>1, <1>3 DEF Call

(* What the processes that run may change: each stays where it is and keeps   *)
(* what it has open, or returns from one call, which may open or close.       *)
LEMMA LocalKept ==
    ASSUME LInv, UNCHANGED <<scenario, status>>,
           \A q \in Procs : status[q] # "running" => fd'[q] = fd[q],
           \A q \in Procs :
              \/ /\ at'[q] = at[q]
                 /\ \A n \in Names : fd[q][n] # 0 => fd'[q][n] # 0
              \/ /\ Standing(q) /\ at'[q] = at[q] + 1
                 /\ \A n \in Names : /\ ~Closes(Script(q)[at[q]], n)
                                     /\ Opens(Script(q)[at[q]], n) \/ fd[q][n] # 0
                                     => fd'[q][n] # 0
    PROVE  BirthInv' /\ OpenInv'
<1>s. \A q : Script(q)' = Script(q)
  BY DEF Script
<1>o. \A q : (Over(q)' <=> Over(q)) /\ (Standing(q) => ~Over(q)) /\ (Over(q) => status[q] # "running")
  BY DEF Over, Standing
<1>t. \A q \in Procs : at[q] \in Nat \ {0} /\ at'[q] \in Nat /\ at'[q] >= at[q]
  BY PlaceFacts DEF LInv
<1>1. BirthInv'
  <2>1. \A p \in Procs : Over(p)' => fd'[p] = Nothing
    BY <1>o DEF LInv, BirthInv
  <2>2. \A p \in Procs : status'[p] = "new" => at'[p] = 1
    BY DEF LInv, BirthInv, Standing
  <2>3. ASSUME NEW i \in Invocations, status'[Child(i)] # "new"
        PROVE  /\ Started(i)'
               /\ \E f \in DOMAIN Script(Parent(i))' :
                     f < at'[Parent(i)] /\ Script(Parent(i))'[f].do = "fork"
    <3>1. Started(i) /\ Parent(i) \in Procs
      BY <2>3, ProcFacts DEF LInv, BirthInv
    <3>2. PICK f \in DOMAIN Script(Parent(i)) :
                     f < at[Parent(i)] /\ Script(Parent(i))[f].do = "fork"
      BY <2>3 DEF LInv, BirthInv
    <3>3. f \in Nat
      BY <3>1, ScriptFacts DEF LInv, Types
    <3> QED BY <1>s, <1>t, <3>1, <3>2, <3>3 DEF Started
  <2> QED BY <2>1, <2>2, <2>3 DEF BirthInv, Nothing
<1>2. ASSUME NEW i \in Invocations, status[Parent(i)] = "running", NEW n \in Names,
             OpenAt(Script(Parent(i)), at'[Parent(i)], n)
      PROVE  fd'[Parent(i)][n] # 0
  <2> DEFINE q == Parent(i)
  <2>0. q \in Procs
    BY ProcFacts
  <2>1. OpenAt(Script(q), at[q], n) => fd[q][n] # 0
    BY <1>2 DEF LInv, OpenInv
  <2>2. CASE at'[q] = at[q]
    <3>1. \A m \in Names : fd[q][m] # 0 => fd'[q][m] # 0
      BY <1>t, <2>0, <2>2
    <3> QED BY <1>2, <2>1, <2>2, <3>1
  <2>3. CASE at'[q] # at[q]
    <3>0. /\ at'[q] = at[q] + 1
          /\ \A m \in Names : /\ ~Closes(Script(q)[at[q]], m)
                              /\ Opens(Script(q)[at[q]], m) \/ fd[q][m] # 0
                              => fd'[q][m] # 0
      BY <2>0, <2>3
    <3>1. ~Closes(Script(q)[at[q]], n) /\ (Opens(Script(q)[at[q]], n) \/ OpenAt(Script(q), at[q], n))
      BY <1>2, <1>t, <2>0, <3>0, OpenNext
    <3>2. ~Closes(Script(q)[at[q]], n) /\ (Opens(Script(q)[at[q]], n) \/ fd[q][n] # 0)
      BY <2>1, <3>1
    <3>3. n \in Names
      BY <1>2
    <3> HIDE DEF q
    <3>4. fd'[q][n] # 0
      BY <3>0, <3>2, <3>3
    <3> QED BY <3>4 DEF q
  <2> QED BY <2>0, <2>2, <2>3
<1>3. ASSUME NEW i \in Invocations, status[Child(i)] = "running", NEW k \in DOMAIN Script(Child(i))
      PROVE  fd'[Child(i)][Script(Child(i))[k].on] # 0
  <2> DEFINE q == Child(i)
             n == Script(Child(i))[k].on
  <2>0. q \in Procs
    BY ProcFacts
  <2>1. n \in Names /\ fd[q][n] # 0
    BY <1>3, <2>0, PlaceFacts DEF LInv, OpenInv
  <2>2. Standing(q) => ~Closes(Script(q)[at[q]], n)
    BY PairFacts DEF Standing, Closes, LInv, Types
  <2> HIDE DEF n, q
  <2>3. fd'[q][n] # 0
    BY <2>0, <2>1, <2>2
  <2> QED BY <2>3 DEF n, q
<1>4. OpenInv'
  BY <1>2, <1>3, <1>s DEF OpenInv
<1> QED BY <1>1, <1>4

(* Those that end have nothing open any more.                                 *)
LEMMA EndsKept ==
    ASSUME LInv, NEW ps \in SUBSET Procs, Ends(ps)
    PROVE  BirthInv' /\ OpenInv'
<1>s. \A q : Script(q)' = Script(q)
  BY DEF Script, Ends
<1>1. PICK how \in {"done", "failed", "cut"} : Leave(ps, how)
  BY DEF Ends
<1>2. /\ \A q \in Procs : status'[q] = IF q \in ps THEN how ELSE status[q]
      /\ \A q \in Procs : fd'[q] = IF q \in ps THEN Nothing ELSE fd[q]
      /\ \A q \in ps : status[q] = "running"
      /\ UNCHANGED at
  BY <1>1 DEF Leave, Ends
<1>3. BirthInv'
  <2>1. \A p \in Procs : Over(p)' => fd'[p] = Nothing
    BY <1>2 DEF LInv, BirthInv, Over
  <2>2. \A p \in Procs : status'[p] = "new" => at'[p] = 1
    BY <1>2 DEF LInv, BirthInv
  <2>3. ASSUME NEW i \in Invocations, status'[Child(i)] # "new"
        PROVE  /\ Started(i)'
               /\ \E f \in DOMAIN Script(Parent(i))' :
                     f < at'[Parent(i)] /\ Script(Parent(i))'[f].do = "fork"
    <3>1. status[Child(i)] # "new" /\ Parent(i) \in Procs
      BY <1>2, <2>3, ProcFacts
    <3> QED BY <1>2, <1>s, <3>1 DEF LInv, BirthInv, Started
  <2> QED BY <2>1, <2>2, <2>3 DEF BirthInv, Nothing
<1>4. \A q \in Procs : status'[q] = "running" => status[q] = "running" /\ fd'[q] = fd[q]
  BY <1>2
<1>5. OpenInv'
  BY <1>2, <1>4, <1>s, ProcFacts DEF OpenInv, LInv
<1> QED BY <1>3, <1>5

(* The child inherits what is open at the fork, and that is all it uses.      *)
LEMMA ForkKept ==
    ASSUME LInv, NEW p \in Procs, Fork(p)
    PROVE  /\ BirthInv' /\ OpenInv'
           /\ p = Parent(p[1]) /\ status[Child(p[1])] = "new"
<1> DEFINE i == p[1]
           c == Child(i)
<1>s. \A q : Script(q)' = Script(q)
  BY DEF Script, Fork
<1>0. /\ Types /\ i \in Invocations /\ c \in Procs /\ Parent(i) \in Procs /\ Parent(i) # c
      /\ \A j \in Invocations : (Parent(j) = Parent(i) => j = i) /\ (Child(j) = c => j = i) /\ Parent(j) # c
                                 /\ Child(j) # Parent(i)
  BY ProcFacts DEF LInv
<1>1. Standing(p) /\ Script(p)[at[p]].do = "fork"
  BY <1>0, CallFacts DEF Fork, Standing
<1>2. p = Parent(i)
  <2>1. p = Child(i) => Script(p)[at[p]].do \in {"take", "post", "receive"}
    BY <1>0, <1>1, PairFacts DEF Standing, Types
  <2> QED BY <1>1, <2>1, ProcFacts
<1>3. status[c] = "new"
  <2>1. ASSUME status[c] # "new" PROVE FALSE
    <3>1. PICK f \in DOMAIN Script(p) : f < at[p] /\ Script(p)[f].do = "fork"
      BY <1>0, <1>2, <2>1 DEF LInv, BirthInv
    <3>2. f = at[p]
      BY <1>0, <1>1, <1>2, <3>1, PairFacts DEF Standing, Types
    <3> QED BY <1>0, <3>1, <3>2 DEF Types
  <2> QED BY <2>1
<1>4. /\ status' = [status EXCEPT ![c] = "running"]
      /\ fd' = [fd EXCEPT ![c] = fd[p]]
      /\ \A q \in Procs : at'[q] = IF q = p THEN at[q] + 1 ELSE at[q]
  BY DEF Fork, Return
<1>5. /\ \A q \in Procs : q # c => status'[q] = status[q] /\ fd'[q] = fd[q]
      /\ status'[c] = "running" /\ fd'[c] = fd[p] /\ status[p] = "running"
  BY <1>0, <1>1, <1>4 DEF Types, Standing
<1> HIDE DEF c, i
<1>6. BirthInv'
  <2>1. \A q \in Procs : Over(q)' => fd'[q] = Nothing
    <3>1. \A q \in Procs : Over(q)' => q # c /\ Over(q)
      BY <1>5 DEF Over
    <3> QED BY <1>5, <3>1 DEF LInv, BirthInv
  <2>2. \A q \in Procs : status'[q] = "new" => at'[q] = 1
    BY <1>0, <1>4, <1>5 DEF LInv, BirthInv
  <2>3. ASSUME NEW j \in Invocations, status'[Child(j)] # "new"
        PROVE  /\ Started(j)'
               /\ \E f \in DOMAIN Script(Parent(j))' :
                     f < at'[Parent(j)] /\ Script(Parent(j))'[f].do = "fork"
    <3>0. Parent(j) \in Procs /\ Child(j) \in Procs
      BY ProcFacts
    <3>1. CASE j = i
      <4>1. at[p] \in DOMAIN Script(p) /\ at[p] < at'[p] /\ Script(p)[at[p]].do = "fork"
        BY <1>0, <1>1, <1>4 DEF Standing, Types
      <4>2. status'[p] # "new"
        BY <1>0, <1>2, <1>5
      <4> QED BY <1>2, <1>s, <3>1, <4>1, <4>2 DEF Started
    <3>2. CASE j # i
      <4>1. Child(j) # c /\ Parent(j) # p /\ Parent(j) # c
        BY <1>0, <1>2, <3>2
      <4>2. status[Child(j)] # "new" /\ status'[Parent(j)] = status[Parent(j)] /\ at'[Parent(j)] = at[Parent(j)]
        BY <1>4, <1>5, <2>3, <3>0, <4>1
      <4> QED BY <1>s, <4>2 DEF LInv, BirthInv, Started
    <3> QED BY <3>1, <3>2
  <2> QED BY <2>1, <2>2, <2>3 DEF BirthInv, Nothing
<1>7. ASSUME NEW j \in Invocations, status'[Parent(j)] = "running", NEW n \in Names,
             OpenAt(Script(Parent(j)), at'[Parent(j)], n)
      PROVE  fd'[Parent(j)][n] # 0
  <2>0. Parent(j) \in Procs /\ Parent(j) # c
    BY <1>0, ProcFacts
  <2>1. status[Parent(j)] = "running" /\ fd'[Parent(j)] = fd[Parent(j)]
    BY <1>5, <1>7, <2>0
  <2>2. OpenAt(Script(Parent(j)), at[Parent(j)], n)
    <3>1. CASE Parent(j) = p
      <4>1. at[p] \in Nat \ {0} /\ at'[p] = at[p] + 1
        BY <1>0, <1>4 DEF Types
      <4>2. ~Opens(Script(p)[at[p]], n)
        BY <1>1 DEF Opens
      <4> QED BY <1>7, <3>1, <4>1, <4>2, OpenNext
    <3>2. CASE Parent(j) # p
      BY <1>4, <1>7, <2>0, <3>2
    <3> QED BY <3>1, <3>2
  <2> QED BY <2>1, <2>2 DEF LInv, OpenInv
<1>8. ASSUME NEW j \in Invocations, status'[Child(j)] = "running", NEW k \in DOMAIN Script(Child(j))
      PROVE  fd'[Child(j)][Script(Child(j))[k].on] # 0
  <2>0. Child(j) \in Procs
    BY ProcFacts
  <2>1. CASE j = i
    <3>1. Child(j) = c
      BY <2>1 DEF c
    <3>2. Script(c)[k].on \in Names
      BY <1>0, <1>8, <3>1, PlaceFacts
    <3>3. OpenAt(Script(p), at[p], Script(c)[k].on)
      BY <1>0, <1>1, <1>2, <1>8, <3>1, PairFacts DEF Standing, Types, c
    <3>4. fd[p][Script(c)[k].on] # 0
      BY <1>0, <1>2, <1>5, <3>2, <3>3 DEF LInv, OpenInv
    <3> QED BY <1>5, <3>1, <3>4
  <2>2. CASE j # i
    <3>1. Child(j) # c
      BY <1>0, <2>2
    <3>2. status[Child(j)] = "running" /\ fd'[Child(j)] = fd[Child(j)]
      BY <1>5, <1>8, <2>0, <3>1
    <3> QED BY <1>8, <3>2 DEF LInv, OpenInv
  <2> QED BY <2>1, <2>2
<1>9. OpenInv'
  BY <1>7, <1>8, <1>s DEF OpenInv
<1> QED BY <1>2, <1>3, <1>6, <1>9 DEF c, i

(* So all of it is inductive.                                                 *)
LEMMA LInvInit == Init => LInv
<1> SUFFICES ASSUME Init PROVE LInv
  OBVIOUS
<1>1. Types
  <2>1. \A p \in Procs : at[p] \in 1 .. Len(Script(p)) + 1 /\ at[p] \in Nat
    <3> TAKE p \in Procs
    <3>1. Len(Script(p)) \in Nat
      BY ScriptFacts DEF Init
    <3> QED BY <3>1 DEF Init
  <2>2. objects = <<>> /\ Len(objects) = 0 /\ objects \in Seq(Seq(Invocations \cup {END}))
    BY DEF Init
  <2> QED BY <2>1, <2>2, BoundAssumption DEF Init, Types, Nothing
<1>2. BirthInv /\ OpenInv
  BY ProcFacts DEF Init, BirthInv, OpenInv
<1> QED BY <1>1, <1>2 DEF LInv

LEMMA LInvKept == LInv /\ [Next]_vars => LInv'
<1> SUFFICES ASSUME LInv, [Next]_vars PROVE BirthInv' /\ OpenInv'
  BY TypesKept DEF LInv
<1>0. Types
  BY DEF LInv
<1>s. \A q \in Procs : Standing(q) => status[q] = "running"
  BY DEF Standing
<1>1. ASSUME NEW p \in Procs, Standing(p), Return({p}) \/ UNCHANGED at,
             Step(p).do # "close", ~Opens(Step(p), N(p)), UNCHANGED <<scenario, status, fd>>
      PROVE  BirthInv' /\ OpenInv'
  <2>1. \A n : ~Opens(Script(p)[at[p]], n)
    BY <1>1 DEF Opens, Step, N
  <2>2. \A q \in Procs : at'[q] = at[q] \/ (q = p /\ at'[q] = at[q] + 1)
    BY <1>1 DEF Return
  <2> QED BY <1>1, <2>1, <2>2, LocalKept
<1>2. ASSUME NEW p \in Procs, Goes(p) PROVE BirthInv' /\ OpenInv'
  BY <1>1, <1>2 DEF Goes, Opens
<1>3. ASSUME NEW p \in Procs, Works(p) PROVE BirthInv' /\ OpenInv'
  BY <1>1, <1>3 DEF Works, Opens, Uses
<1>4. ASSUME NEW p \in Procs, OpensObject(p) PROVE BirthInv' /\ OpenInv'
  <2>1. PICK ps \in SUBSET {q \in Procs : Calls(q, "awaitWriter")} : Return({p} \cup ps)
    BY <1>4 DEF OpensObject
  <2>2. Standing(p) /\ Step(p).do \in {"create", "pipe", "openRdwr", "openRdonly"}
    BY <1>4 DEF OpensObject, Opens
  <2>3. PICK o : o # 0 /\ Open(p, o)
    <3>1. Len(objects) + 1 # 0
      BY <1>0 DEF Types
    <3> QED BY <1>4, <3>1 DEF OpensObject, OpensNew, OpensOld
  <2>4. N(p) \in Names /\ N(p) = Script(p)[at[p]].on /\ Step(p) = Script(p)[at[p]]
    BY <1>0, <2>2, PlaceFacts DEF N, Step, Standing
  <2>5. \A q \in Procs, n \in Names : fd'[q][n] = IF q = p /\ n = N(p) THEN o ELSE fd[q][n]
    BY <1>0, <2>3, <2>4 DEF Open, Types
  <2>6. \A q \in ps : Standing(q) /\ Script(q)[at[q]].do = "awaitWriter"
    BY <1>0, CallFacts DEF Standing
  <2>7. ASSUME NEW q \in Procs
        PROVE  \/ /\ at'[q] = at[q]
                  /\ \A n \in Names : fd[q][n] # 0 => fd'[q][n] # 0
               \/ /\ Standing(q) /\ at'[q] = at[q] + 1
                  /\ \A n \in Names : /\ ~Closes(Script(q)[at[q]], n)
                                      /\ Opens(Script(q)[at[q]], n) \/ fd[q][n] # 0
                                      => fd'[q][n] # 0
    <3>1. CASE q = p
      <4>1. at'[q] = at[q] + 1
        BY <2>1, <3>1 DEF Return
      <4>2. \A n \in Names : Opens(Script(q)[at[q]], n) => n = N(p)
        BY <2>4, <3>1 DEF Opens
      <4> QED BY <2>2, <2>3, <2>5, <3>1, <4>1, <4>2
    <3>2. CASE q # p /\ q \in ps
      <4>1. at'[q] = at[q] + 1
        BY <2>1, <3>2 DEF Return
      <4>2. \A n \in Names : ~Opens(Script(q)[at[q]], n)
        BY <2>6, <3>2 DEF Opens
      <4> QED BY <2>5, <2>6, <3>2, <4>1, <4>2
    <3>3. CASE q # p /\ q \notin ps
      <4>1. at'[q] = at[q]
        BY <2>1, <3>3 DEF Return
      <4> QED BY <2>5, <3>3, <4>1
    <3> QED BY <3>1, <3>2, <3>3
  <2>8. \A q \in Procs : status[q] # "running" => fd'[q] = fd[q]
    BY <2>2, <2>3 DEF Open, Standing
  <2>9. UNCHANGED <<scenario, status>>
    BY <1>4 DEF OpensObject
  <2> QED BY <2>7, <2>8, <2>9, LocalKept
<1>5. ASSUME NEW p \in Procs, Mkfifo(p) \/ Unlink(p) PROVE BirthInv' /\ OpenInv'
  <2>1. Standing(p) /\ Step(p).do \in {"mkfifo", "unlink", "unlinkOrFail"}
    BY <1>0, <1>5, CallFacts DEF Mkfifo, Unlink, Standing
  <2> QED BY <1>1, <1>5, <2>1 DEF Mkfifo, Unlink, Opens
<1>6. ASSUME NEW p \in Procs, Close(p) PROVE BirthInv' /\ OpenInv'
  <2>1. Standing(p) /\ Step(p).do = "close" /\ N(p) \in Names
        /\ N(p) = Script(p)[at[p]].on /\ Step(p) = Script(p)[at[p]]
    BY <1>0, <1>6, CallFacts DEF Close, Standing
  <2>2. \A q \in Procs, n \in Names : fd'[q][n] = IF q = p /\ n = N(p) THEN 0 ELSE fd[q][n]
    BY <1>0, <1>6, <2>1 DEF Close, Open, Types
  <2>3. \A q \in Procs : at'[q] = IF q = p THEN at[q] + 1 ELSE at[q]
    BY <1>6 DEF Close, Return
  <2>4. \A n \in Names : /\ Closes(Script(p)[at[p]], n) <=> n = N(p)
                         /\ ~Opens(Script(p)[at[p]], n)
    BY <2>1 DEF Closes, Opens
  <2>5. ASSUME NEW q \in Procs
        PROVE  \/ /\ at'[q] = at[q]
                  /\ \A n \in Names : fd[q][n] # 0 => fd'[q][n] # 0
               \/ /\ Standing(q) /\ at'[q] = at[q] + 1
                  /\ \A n \in Names : /\ ~Closes(Script(q)[at[q]], n)
                                      /\ Opens(Script(q)[at[q]], n) \/ fd[q][n] # 0
                                      => fd'[q][n] # 0
    BY <2>1, <2>2, <2>3, <2>4
  <2>6. \A q \in Procs : status[q] # "running" => fd'[q] = fd[q]
    BY <1>6, <2>1 DEF Close, Open, Standing
  <2>7. UNCHANGED <<scenario, status>>
    BY <1>6 DEF Close
  <2> QED BY <2>5, <2>6, <2>7, LocalKept
<1>7. ASSUME NEW p \in Procs, Fork(p) PROVE BirthInv' /\ OpenInv'
  BY <1>7, ForkKept
<1>8. ASSUME NEW i \in Invocations, Start(i) PROVE BirthInv' /\ OpenInv'
  <2> DEFINE p == Parent(i)
  <2>0. /\ p \in Procs /\ status[p] = "new" /\ at[p] = 1
        /\ status' = [status EXCEPT ![p] = "running"] /\ UNCHANGED <<scenario, at, fd>>
        /\ \A j \in Invocations : Parent(j) \in Procs /\ Child(j) \in Procs /\ Child(j) # p
    BY <1>8, ProcFacts DEF Start, LInv, BirthInv
  <2> HIDE DEF p
  <2>1. \A q \in Procs : status'[q] = IF q = p THEN "running" ELSE status[q]
    BY <1>0, <2>0 DEF Types
  <2>2. \A q : Script(q)' = Script(q)
    BY <2>0 DEF Script
  <2>3. BirthInv'
    <3>1. \A q \in Procs : Over(q)' => fd'[q] = Nothing
      BY <2>0, <2>1 DEF LInv, BirthInv, Over
    <3>2. \A q \in Procs : status'[q] = "new" => at'[q] = 1
      BY <2>0, <2>1 DEF LInv, BirthInv
    <3>3. ASSUME NEW j \in Invocations, status'[Child(j)] # "new"
          PROVE  /\ Started(j)'
                 /\ \E f \in DOMAIN Script(Parent(j))' :
                       f < at'[Parent(j)] /\ Script(Parent(j))'[f].do = "fork"
      BY <2>0, <2>1, <2>2, <3>3 DEF LInv, BirthInv, Started
    <3> QED BY <3>1, <3>2, <3>3 DEF BirthInv, Nothing
  <2>4. \A s, n : ~OpenAt(s, 1, n)
    BY DEF OpenAt
  <2>5. OpenInv'
    BY <2>0, <2>1, <2>2, <2>4 DEF LInv, OpenInv
  <2> QED BY <2>3, <2>5
<1>9. ASSUME NEW ps \in SUBSET Procs, Ends(ps) PROVE BirthInv' /\ OpenInv'
  BY <1>9, EndsKept
<1>10. CASE UNCHANGED vars
  BY <1>10, LocalKept DEF vars, pvars
<1>11. ASSUME NEW p \in Procs, Quits(p) PROVE BirthInv' /\ OpenInv'
  BY <1>9, <1>11 DEF Quits
<1>12. ASSUME NEW ps \in SUBSET Procs, IsCut(ps) PROVE BirthInv' /\ OpenInv'
  BY <1>9, <1>12 DEF IsCut
<1> QED BY <1>2, <1>3, <1>4, <1>5, <1>6, <1>7, <1>8, <1>10, <1>11, <1>12, Grouped DEF Group

-----------------------------------------------------------------------------
(* What a step does to one process, one name, one object.                     *)

(* q returns from the call it stands at, which it made itself in this step    *)
(* unless it had waited for a writer.                                         *)
Advances(q) ==
    /\ Standing(q) /\ status'[q] = "running" /\ at'[q] = at[q] + 1
    /\ Step(q).do \in {"take", "post"} => Works(q)
    /\ Step(q).do = "create" => OpensObject(q)
    /\ Step(q).do = "mkfifo" => Mkfifo(q)
    /\ Step(q).do \in {"unlink", "unlinkOrFail"} => Unlink(q)

LEMMA ProcessStep ==
    ASSUME LInv, [Next]_vars
    PROVE  /\ UNCHANGED scenario /\ cuts \in Nat /\ (cuts' = cuts \/ cuts' = cuts + 1)
           /\ \A q \in Procs :
                 \/ status'[q] = status[q] /\ at'[q] = at[q]
                 \/ Advances(q)
                 \/ /\ status[q] = "running" /\ status'[q] \in {"done", "failed", "cut"}
                    /\ Quits(q) \/ cuts' = cuts + 1
                 \/ /\ status[q] = "new" /\ status'[q] = "running" /\ at'[q] = at[q]
                    /\ \/ Start(q[1]) /\ q = Parent(q[1])
                       \/ Fork(Parent(q[1])) /\ q = Child(q[1])
<1>0. Types /\ cuts \in Nat
  BY BoundAssumption DEF LInv, Types
<1> DEFINE Moves(q) ==
                 \/ status'[q] = status[q] /\ at'[q] = at[q]
                 \/ Advances(q)
                 \/ /\ status[q] = "running" /\ status'[q] \in {"done", "failed", "cut"}
                    /\ Quits(q) \/ cuts' = cuts + 1
                 \/ /\ status[q] = "new" /\ status'[q] = "running" /\ at'[q] = at[q]
                    /\ \/ Start(q[1]) /\ q = Parent(q[1])
                       \/ Fork(Parent(q[1])) /\ q = Child(q[1])
           All == UNCHANGED scenario /\ (cuts' = cuts \/ cuts' = cuts + 1) /\ \A q \in Procs : Moves(q)
<1>1. ASSUME NEW p \in Procs, Standing(p), Return({p}) \/ UNCHANGED at, UNCHANGED <<scenario, status, cuts>>,
             Return({p}) => Advances(p)
      PROVE  All
  <2>1. \A q \in Procs : q # p => at'[q] = at[q]
    BY <1>1 DEF Return
  <2>2. at'[p] = at[p] \/ Advances(p)
    BY <1>1
  <2> QED BY <1>1, <2>1, <2>2
<1>2. ASSUME NEW p \in Procs, Standing(p), Return({p}), UNCHANGED status
      PROVE  status'[p] = "running" /\ at'[p] = at[p] + 1
  BY <1>2 DEF Return, Standing
<1>3. ASSUME NEW p \in Procs, Goes(p) PROVE All
  BY <1>1, <1>2, <1>3 DEF Goes, Advances
<1>4. ASSUME NEW p \in Procs, Works(p) PROVE All
  <2>1. Standing(p) /\ UNCHANGED <<scenario, status, cuts>> /\ (Return({p}) \/ UNCHANGED at)
    BY <1>4 DEF Works
  <2>2. Return({p}) => Advances(p)
    BY <1>2, <1>4, <2>1 DEF Works, Advances, Uses
  <2> QED BY <1>1, <2>1, <2>2
<1>5. ASSUME NEW p \in Procs, OpensObject(p) PROVE All
  <2>1. PICK ps \in SUBSET {q \in Procs : Calls(q, "awaitWriter")} : Return({p} \cup ps)
    BY <1>5 DEF OpensObject
  <2>2. \A q \in ps : Standing(q) /\ Step(q).do = "awaitWriter" /\ q \in Procs
    BY <1>0, CallFacts DEF Standing
  <2>3. Standing(p) /\ UNCHANGED <<scenario, status, cuts>>
        /\ Step(p).do \in {"create", "pipe", "openRdwr", "openRdonly"}
    BY <1>5 DEF OpensObject, Opens
  <2>4. Advances(p)
    <3>1. status'[p] = "running" /\ at'[p] = at[p] + 1
      BY <2>1, <2>3 DEF Return, Standing
    <3> QED BY <1>5, <2>3, <3>1 DEF Advances
  <2>5. \A q \in ps : Advances(q)
    <3> TAKE q \in ps
    <3>1. status'[q] = "running" /\ at'[q] = at[q] + 1
      BY <2>1, <2>2, <2>3 DEF Return, Standing
    <3> QED BY <2>2, <3>1 DEF Advances
  <2>6. \A q \in Procs : q # p /\ q \notin ps => at'[q] = at[q]
    BY <2>1 DEF Return
  <2> QED BY <2>3, <2>4, <2>5, <2>6
<1>6. ASSUME NEW p \in Procs, Mkfifo(p) \/ Close(p) \/ Unlink(p) PROVE All
  <2>1. /\ Standing(p) /\ UNCHANGED <<scenario, status, cuts>> /\ Return({p})
    BY <1>0, <1>6, CallFacts DEF Mkfifo, Close, Unlink, Standing
  <2>2. \/ Mkfifo(p) /\ Step(p).do = "mkfifo"
        \/ Close(p) /\ Step(p).do = "close"
        \/ Unlink(p) /\ Step(p).do \in {"unlink", "unlinkOrFail"}
    BY <1>6 DEF Mkfifo, Close, Unlink, Calls
  <2>3. Advances(p)
    BY <1>2, <2>1, <2>2 DEF Advances
  <2> QED BY <1>1, <2>1, <2>3
<1>7. ASSUME NEW p \in Procs, Fork(p) PROVE All
  <2> DEFINE c == Child(p[1])
  <2>0. c \in Procs /\ c[1] = p[1] /\ p = Parent(p[1]) /\ p # c /\ status[c] = "new"
    BY <1>7, ForkKept, ProcFacts
  <2>1. Standing(p) /\ Step(p).do = "fork" /\ UNCHANGED <<scenario, cuts>> /\ Return({p})
        /\ status' = [status EXCEPT ![c] = "running"]
    BY <1>0, <1>7, CallFacts DEF Fork, Standing
  <2>2. c = Child(c[1]) /\ Fork(Parent(c[1]))
    BY <1>7, <2>0
  <2> HIDE DEF c
  <2>3. Moves(c)
    <3>1. status'[c] = "running" /\ at'[c] = at[c]
      BY <1>0, <2>0, <2>1 DEF Return, Types
    <3> QED BY <2>0, <2>2, <3>1
  <2>4. Moves(p)
    <3>1. status'[p] = "running" /\ at'[p] = at[p] + 1
      BY <1>0, <2>0, <2>1 DEF Return, Types, Standing
    <3> QED BY <2>1, <3>1 DEF Advances
  <2>5. \A q \in Procs : q # c /\ q # p => status'[q] = status[q] /\ at'[q] = at[q]
    BY <1>0, <2>1 DEF Return, Types
  <2> QED BY <2>1, <2>3, <2>4, <2>5
<1>8. ASSUME NEW i \in Invocations, Start(i) PROVE All
  <2> DEFINE p == Parent(i)
  <2>1. p \in Procs /\ p[1] = i /\ status[p] = "new" /\ status' = [status EXCEPT ![p] = "running"]
        /\ UNCHANGED <<scenario, cuts, at>>
    BY <1>8, ProcFacts DEF Start
  <2>2. p = Parent(p[1]) /\ Start(p[1])
    BY <1>8, <2>1
  <2> HIDE DEF p
  <2>3. \A q \in Procs : status'[q] = IF q = p THEN "running" ELSE status[q]
    BY <1>0, <2>1 DEF Types
  <2> QED BY <2>1, <2>2, <2>3
<1>9. ASSUME NEW ps \in SUBSET Procs, Ends(ps), cuts' = cuts \/ cuts' = cuts + 1,
             cuts' = cuts => \A p \in ps : Quits(p)
      PROVE  All
  <2>1. PICK how \in {"done", "failed", "cut"} : Leave(ps, how)
    BY <1>9 DEF Ends
  <2>2. UNCHANGED <<scenario, at>> /\ \A p \in ps : status[p] = "running"
    BY <1>9 DEF Ends
  <2>3. \A q \in Procs : status'[q] = IF q \in ps THEN how ELSE status[q]
    BY <2>1 DEF Leave
  <2> QED BY <1>9, <2>1, <2>2, <2>3
<1>10. ASSUME NEW p \in Procs, Quits(p) PROVE All
  BY <1>9, <1>10 DEF Quits
<1>11. ASSUME NEW ps \in SUBSET Procs, IsCut(ps) PROVE All
  BY <1>0, <1>9, <1>11 DEF IsCut
<1>12. ASSUME UNCHANGED vars PROVE All
  BY <1>12 DEF vars, pvars
<1>13. All
  <2> HIDE DEF All
  <2> QED BY <1>3, <1>4, <1>5, <1>6, <1>7, <1>8, <1>10, <1>11, <1>12, Grouped DEF Group
<1> QED BY <1>0, <1>13

(* A name gets an object from a process that makes it, and loses it to one    *)
(* that unlinks it.                                                           *)
LEMMA NameStep ==
    ASSUME LInv, [Next]_vars, NEW n \in Names
    PROVE  \/ bound'[n] = bound[n]
           \/ bound'[n] = 0 /\ \E p \in Procs : Unlink(p) /\ N(p) = n
           \/ bound[n] = 0 /\ \E p \in Procs : Makes(Step(p), n) /\ Advances(p)
<1>0. Types
  BY DEF LInv
<1>1. ASSUME NEW p \in Procs, Standing(p), at'[p] = at[p] + 1, UNCHANGED status
      PROVE  Advances(p)
  <2>1. at'[p] # at[p] /\ status'[p] = "running" /\ status[p] = "running"
    BY <1>0, <1>1 DEF Types, Standing
  <2> QED BY <2>1, ProcessStep
<1>2. CASE UNCHANGED bound
  BY <1>2
<1>3. ASSUME NEW p \in Procs, OpensObject(p)
      PROVE  UNCHANGED bound \/ (bound[n] = 0 /\ Makes(Step(p), n) /\ Advances(p)) \/ bound'[n] = bound[n]
  <2>1. PICK ps \in SUBSET {q \in Procs : Calls(q, "awaitWriter")} : Return({p} \cup ps)
    BY <1>3 DEF OpensObject
  <2>2. Standing(p) /\ at'[p] = at[p] + 1 /\ UNCHANGED status
    BY <1>3, <2>1 DEF OpensObject, Return
  <2>3. CASE Step(p).do = "create" /\ bound[N(p)] = 0 /\ bound' = [bound EXCEPT ![N(p)] = Len(objects) + 1]
    BY <1>0, <1>1, <2>2, <2>3 DEF Types, Makes, N
  <2> QED BY <1>3, <2>3 DEF OpensObject, OpensNew, OpensOld
<1>4. ASSUME NEW p \in Procs, Mkfifo(p)
      PROVE  (bound[n] = 0 /\ Makes(Step(p), n) /\ Advances(p)) \/ bound'[n] = bound[n]
  <2>1. Standing(p) /\ at'[p] = at[p] + 1 /\ UNCHANGED status /\ Step(p).do = "mkfifo"
    BY <1>0, <1>4, CallFacts DEF Mkfifo, Return, Standing
  <2> QED BY <1>0, <1>1, <1>4, <2>1 DEF Mkfifo, Types, Makes, N
<1>5. ASSUME NEW p \in Procs, Unlink(p)
      PROVE  bound'[n] = bound[n] \/ (bound'[n] = 0 /\ N(p) = n)
  BY <1>0, <1>5 DEF Unlink, Types
<1>6. ASSUME NEW p \in Procs, Goes(p) \/ Works(p) \/ Quits(p) \/ Close(p) \/ Fork(p) PROVE UNCHANGED bound
  BY <1>6 DEF Goes, Works, Quits, Ends, Close, Fork
<1>7. ASSUME NEW ps, IsCut(ps) PROVE UNCHANGED bound
  BY <1>7 DEF IsCut, Ends
<1>8. ASSUME NEW i, Start(i) PROVE UNCHANGED bound
  BY <1>8 DEF Start
<1>9. ASSUME UNCHANGED vars PROVE UNCHANGED bound
  BY <1>9 DEF vars
<1> QED BY <1>2, <1>3, <1>4, <1>5, <1>6, <1>7, <1>8, <1>9, Grouped DEF Group

(* An object is never used under a name it was not used under before; a new   *)
(* one is used under one name and holds what the call puts there. Contents    *)
(* change when someone works on them, and fifos are emptied.                  *)
LEMMA ObjectStep ==
    ASSUME LInv, [Next]_vars
    PROVE  /\ DOMAIN objects \subseteq DOMAIN objects'
           /\ \A o \in DOMAIN objects :
                 /\ \A n \in Names : Used(o, n)' => Used(o, n)
                 /\ \/ objects'[o] = objects[o]
                    \/ objects'[o] = <<>> /\ \E n \in {"fifo"} \cap Names : Used(o, n)
                    \/ \E p \in Procs : Works(p) /\ o = Obj(p)
           /\ \A o \in DOMAIN objects' \ DOMAIN objects : \E n \in Names :
                 /\ \A m \in Names : Used(o, m)' => m = n
                 /\ objects'[o] \in {<<>>, Initial(n)}
                 /\ n = "bin" => objects'[o] = Initial(n)
<1>0. Types /\ Len(objects) \in Nat /\ DOMAIN objects = 1 .. Len(objects)
      /\ objects \in Seq(Seq(Messages))
  BY DEF LInv, Types, Messages
<1> DEFINE WillUse(o, n) == bound'[n] = o \/ \E p \in Procs : fd'[p][n] = o
           Old == \A o \in DOMAIN objects, n \in Names : Used(o, n)' => Used(o, n)
           Same == /\ DOMAIN objects' = DOMAIN objects
                   /\ \A o \in DOMAIN objects :
                         \/ objects'[o] = objects[o]
                         \/ objects'[o] = <<>> /\ \E n \in {"fifo"} \cap Names : Used(o, n)
                         \/ \E p \in Procs : Works(p) /\ o = Obj(p)
           More == /\ DOMAIN objects' = DOMAIN objects \cup {Len(objects) + 1}
                   /\ \A o \in DOMAIN objects : objects'[o] = objects[o]
                   /\ \E n \in Names :
                        /\ \A m \in Names : WillUse(Len(objects) + 1, m) => m = n
                        /\ objects'[Len(objects) + 1] \in {<<>>, Initial(n)}
                        /\ n = "bin" => objects'[Len(objects) + 1] = Initial(n)
<1>1. ASSUME \A n \in Names : bound'[n] = bound[n] \/ bound'[n] \notin DOMAIN objects,
             \A p \in Procs, n \in Names :
                \/ fd'[p][n] = bound[n] \/ fd'[p][n] \notin DOMAIN objects
                \/ \E q \in Procs : fd'[p][n] = fd[q][n]
      PROVE  Old
  BY <1>1 DEF Used
<1>2. \A o \in DOMAIN objects : o # 0
  BY <1>0
<1>b. \A p \in Procs : at[p] \in DOMAIN Script(p) /\ N(p) = "bin" => Step(p).do \notin {"pipe", "mkfifo"}
  BY <1>0, ScriptFacts DEF Types, UsesRight, Step, N
<1>3. ASSUME NEW p \in Procs, Goes(p) \/ Works(p) PROVE Old /\ Same
  <2>1. UNCHANGED <<fd, bound>>
    BY <1>3 DEF Goes, Works
  <2>2. Old
    BY <2>1 DEF Used
  <2>3. Same
    <3>1. CASE Goes(p)
      BY <3>1 DEF Goes
    <3>2. CASE Works(p)
      BY <3>2, WorkedOn
    <3> QED BY <1>3, <3>1, <3>2
  <2> QED BY <2>2, <2>3
<1>4. ASSUME NEW p \in Procs, OpensObject(p) PROVE Old /\ (Same \/ More)
  <2>1. N(p) \in Names
    BY <1>0, <1>4, PlaceFacts DEF OpensObject, Standing, N, Step
  <2>2. CASE OpensNew(p)
    <3> DEFINE k == Len(objects) + 1
    <3>1. k \notin DOMAIN objects /\ \A x \in 0 .. Len(objects) : x # k
      BY <1>0
    <3>2. PICK v \in {<<>>, Initial(N(p))} : /\ objects' = Append(objects, v)
                                             /\ Step(p).do = "create" => v = Initial(N(p))
      BY <2>2 DEF OpensNew
    <3>10. N(p) = "bin" => v = Initial(N(p))
      BY <1>4, <1>b, <2>2, <3>2 DEF OpensObject, OpensNew, Standing
    <3>3. v \in Seq(Messages)
      <4>1. <<>> \in Seq(Messages) /\ <<END>> \in Seq(Messages)
        BY DEF Messages
      <4> QED BY <4>1 DEF Initial
    <3>4. /\ DOMAIN objects' = DOMAIN objects \cup {k} /\ objects'[k] = v
          /\ \A o \in DOMAIN objects : objects'[o] = objects[o]
      BY <1>0, <3>2, <3>3, Appended
    <3>5. \A q \in Procs, n \in Names : fd'[q][n] = IF q = p /\ n = N(p) THEN k ELSE fd[q][n]
      BY <1>0, <2>1, <2>2 DEF OpensNew, Open, Types
    <3>6. \A n \in Names : bound'[n] = bound[n] \/ (n = N(p) /\ bound'[n] = k)
      BY <1>0, <2>2 DEF OpensNew, Types
    <3>7. \A q \in Procs, n \in Names : fd[q][n] # k /\ bound[n] # k
      BY <1>0, <3>1 DEF Types
    <3> HIDE DEF k
    <3>8. Old
      BY <1>1, <3>1, <3>5, <3>6
    <3>9. \A m \in Names : WillUse(k, m) => m = N(p)
      BY <3>5, <3>6, <3>7
    <3> QED BY <2>1, <3>2, <3>4, <3>8, <3>9, <3>10 DEF k
  <2>3. CASE OpensOld(p)
    <3>1. \A q \in Procs, n \in Names :
             fd'[q][n] = IF q = p /\ n = N(p) THEN bound[n] ELSE fd[q][n]
      BY <1>0, <2>1, <2>3 DEF OpensOld, Open, Types
    <3>2. UNCHANGED <<bound, objects>>
      BY <2>3 DEF OpensOld
    <3> QED BY <1>1, <3>1, <3>2
  <2> QED BY <1>4, <2>2, <2>3 DEF OpensObject
<1>5. ASSUME NEW p \in Procs, Mkfifo(p) PROVE Old /\ More
  <2> DEFINE k == Len(objects) + 1
  <2>1. N(p) \in Names
    BY <1>0, <1>5, CallFacts DEF Mkfifo
  <2>2. k \notin DOMAIN objects /\ \A x \in 0 .. Len(objects) : x # k
    BY <1>0
  <2>3. <<>> \in Seq(Messages)
    OBVIOUS
  <2>4. /\ DOMAIN objects' = DOMAIN objects \cup {k} /\ objects'[k] = <<>>
        /\ \A o \in DOMAIN objects : objects'[o] = objects[o]
    BY <1>0, <1>5, <2>3, Appended DEF Mkfifo
  <2>5. \A n \in Names : bound'[n] = IF n = N(p) THEN k ELSE bound[n]
    BY <1>0, <1>5 DEF Mkfifo, Types
  <2>6. \A q \in Procs, n \in Names : fd[q][n] # k /\ bound[n] # k /\ fd'[q][n] = fd[q][n]
    BY <1>0, <1>5, <2>2 DEF Types, Mkfifo
  <2> HIDE DEF k
  <2>7. Old
    BY <1>1, <2>2, <2>5, <2>6
  <2>8. \A m \in Names : WillUse(k, m) => m = N(p)
    BY <2>5, <2>6
  <2>9. N(p) # "bin"
    BY <1>0, <1>5, <1>b, CallFacts DEF Mkfifo
  <2> QED BY <2>1, <2>4, <2>7, <2>8, <2>9 DEF k
<1>6. ASSUME NEW f, objects' = Emptied(f) PROVE Same
  <2>1. DOMAIN objects' = DOMAIN objects
    BY <1>0, <1>6, EmptiedFacts
  <2>2. \A o \in DOMAIN objects :
           \/ objects'[o] = objects[o]
           \/ /\ objects'[o] = <<>>
              /\ \E p \in Procs, n \in {"fifo"} \cap Names : fd[p][n] = o
    BY <1>0, <1>6, EmptiedFacts
  <2> QED BY <2>1, <2>2 DEF Used
<1>7. ASSUME NEW p \in Procs, Close(p) PROVE Old /\ Same
  <2>1. N(p) \in Names
    BY <1>0, <1>7, CallFacts DEF Close
  <2>2. \A q \in Procs, n \in Names : fd'[q][n] = IF q = p /\ n = N(p) THEN 0 ELSE fd[q][n]
    BY <1>0, <1>7, <2>1 DEF Close, Open, Types
  <2>3. UNCHANGED bound
    BY <1>7 DEF Close
  <2>4. Old
    BY <1>1, <1>2, <2>2, <2>3
  <2>5. Same
    BY <1>6, <1>7 DEF Close
  <2> QED BY <2>4, <2>5
<1>8. ASSUME NEW p \in Procs, Unlink(p) PROVE Old /\ Same
  <2>1. \A n \in Names : bound'[n] = bound[n] \/ bound'[n] = 0
    BY <1>0, <1>8 DEF Unlink, Types
  <2>2. UNCHANGED <<fd, objects>>
    BY <1>8 DEF Unlink
  <2> QED BY <1>1, <1>2, <2>1, <2>2
<1>9. ASSUME NEW p \in Procs, Fork(p) PROVE Old /\ Same
  <2>1. \A q \in Procs, n \in Names : fd'[q][n] = fd[q][n] \/ fd'[q][n] = fd[p][n]
    BY <1>0, <1>9 DEF Fork, Types
  <2>2. UNCHANGED <<bound, objects>>
    BY <1>9 DEF Fork
  <2> QED BY <1>1, <2>1, <2>2
<1>10. ASSUME NEW ps, Ends(ps) PROVE Old /\ Same
  <2>1. PICK how \in {"done", "failed", "cut"} : Leave(ps, how)
    BY <1>10 DEF Ends
  <2>2. \A q \in Procs, n \in Names : fd'[q][n] = fd[q][n] \/ fd'[q][n] = 0
    BY <2>1 DEF Leave, Nothing
  <2>3. UNCHANGED bound
    BY <1>10 DEF Ends
  <2>4. Old
    BY <1>1, <1>2, <2>2, <2>3
  <2>5. Same
    BY <1>6, <2>1 DEF Leave
  <2> QED BY <2>4, <2>5
<1>11. ASSUME UNCHANGED <<fd, bound, objects>> PROVE Old /\ Same
  BY <1>11 DEF Used
<1>12. Old /\ (Same \/ More)
  <2>1. ASSUME NEW p \in Procs, Quits(p) PROVE Old /\ Same
    BY <1>10, <2>1 DEF Quits
  <2>2. ASSUME NEW ps, IsCut(ps) PROVE Old /\ Same
    BY <1>10, <2>2 DEF IsCut
  <2>3. ASSUME NEW i, Start(i) PROVE Old /\ Same
    BY <1>11, <2>3 DEF Start
  <2>4. ASSUME UNCHANGED vars PROVE Old /\ Same
    BY <1>11, <2>4 DEF vars, pvars
  <2> HIDE DEF Old, Same, More
  <2> QED BY <1>3, <1>4, <1>5, <1>7, <1>8, <1>9, <2>1, <2>2, <2>3, <2>4, Grouped DEF Group
<1>13. \A o, m : Used(o, m)' <=> WillUse(o, m)
  BY DEF Used
<1> HIDE DEF WillUse
<1> QED BY <1>12, <1>13

-----------------------------------------------------------------------------
(* Queues, fifos and the binary semaphore.                                    *)

(* No object is used under two names.                                         *)
NameInv == \A o \in DOMAIN objects, n, m \in Names : Used(o, n) /\ Used(o, m) => n = m

(* No queue or fifo holds more than it may.                                   *)
RoomInv == \A o \in DOMAIN objects, n \in {"mq", "fifo"} \cap Names :
              Used(o, n) => Len(objects[o]) <= Capacity

(* The binary semaphore is 0 while someone is inside, 1 at most otherwise.    *)
BinInv ==
    \A o \in DOMAIN objects : "bin" \in Names /\ Used(o, "bin") =>
        /\ Len(objects[o]) <= 1
        /\ Inside(o) # {} => objects[o] = <<>>
        /\ \A p, q \in Inside(o) : p = q

LEMMA NamesApart == LInv /\ NameInv /\ [Next]_vars => NameInv'
<1> SUFFICES ASSUME LInv, NameInv, [Next]_vars, NEW o \in DOMAIN objects', NEW n \in Names,
                    NEW m \in Names, Used(o, n)', Used(o, m)'
             PROVE  n = m
  BY DEF NameInv
<1>1. CASE o \in DOMAIN objects
  <2>1. Used(o, n) /\ Used(o, m)
    BY <1>1, ObjectStep
  <2> QED BY <1>1, <2>1 DEF NameInv
<1>2. CASE o \notin DOMAIN objects
  <2>1. PICK k \in Names : \A l \in Names : Used(o, l)' => l = k
    BY <1>2, ObjectStep
  <2> QED BY <2>1
<1> QED BY <1>1, <1>2

(* What p works on is its object under one name, in the way of its script.    *)
LEMMA WorkingAt ==
    ASSUME LInv, NameInv, NEW p \in Procs, Works(p)
    PROVE  /\ N(p) \in Names /\ Obj(p) \in DOMAIN objects /\ Used(Obj(p), N(p))
           /\ Step(p) = Script(p)[at[p]] /\ N(p) = Step(p).on
           /\ \A n \in Names : Used(Obj(p), n) => n = N(p)
           /\ N(p) = "bin" => Step(p).do \in {"take", "post"}
           /\ N(p) \in {"mq", "fifo"} => Step(p).do \notin {"post", "writeArgument"}
           /\ Step(p).do \in {"take", "post"} => at'[p] = at[p] + 1
<1>1. Standing(p) /\ Uses(Step(p)) /\ Step(p) = Script(p)[at[p]] /\ N(p) = Step(p).on
  BY DEF Works, Step, N
<1>2. N(p) \in Names
  BY <1>1, PlaceFacts DEF LInv, Standing
<1>3. Obj(p) \in DOMAIN objects
  BY WorkedOn
<1>4. Used(Obj(p), N(p))
  BY DEF Used, Obj
<1>5. UsesRight(Script(p))
  BY ScriptFacts DEF LInv, Types
<1>6. /\ N(p) = "bin" => Step(p).do \in {"take", "post"}
      /\ N(p) \in {"mq", "fifo"} => Step(p).do \notin {"post", "writeArgument"}
  BY <1>1, <1>5 DEF UsesRight, Standing
<1>7. Step(p).do \in {"take", "post"} => at'[p] = at[p] + 1
  BY DEF Works, Return
<1> QED BY <1>1, <1>2, <1>3, <1>4, <1>6, <1>7 DEF NameInv

LEMMA RoomKept == LInv /\ NameInv /\ RoomInv /\ [Next]_vars => RoomInv'
<1> SUFFICES ASSUME LInv, NameInv, RoomInv, [Next]_vars, NEW o \in DOMAIN objects',
                    NEW n \in {"mq", "fifo"} \cap Names, Used(o, n)'
             PROVE  Len(objects'[o]) <= Capacity
  BY DEF RoomInv
<1>0. Len(<<>>) <= Capacity /\ Capacity \in Nat
  BY BoundAssumption
<1>1. CASE o \in DOMAIN objects
  <2>1. Used(o, n) /\ Len(objects[o]) <= Capacity /\ objects[o] \in Seq(Messages)
    BY <1>1, ObjectStep DEF RoomInv, LInv, Types, Messages
  <2>2. CASE objects'[o] = objects[o] \/ objects'[o] = <<>>
    BY <1>0, <2>1, <2>2
  <2>3. ASSUME NEW p \in Procs, Works(p), o = Obj(p) PROVE Len(objects'[o]) <= Capacity
    <3>1. N(p) = n
      BY <2>1, <2>3, WorkingAt
    <3>2. Step(p).do \notin {"post", "writeArgument"}
      BY <2>3, <3>1, WorkingAt
    <3>3. \/ objects'[o] = objects[o] \/ objects'[o] = <<>>
          \/ objects[o] # <<>> /\ objects'[o] = Tail(objects[o])
          \/ Len(objects[o]) < Capacity /\ \E m : objects'[o] = Append(objects[o], m)
      BY <2>3, <3>2, WorkedOn
    <3>4. ASSUME objects[o] # <<>>, objects'[o] = Tail(objects[o]) PROVE Len(objects'[o]) <= Capacity
      BY <1>0, <2>1, <3>4
    <3>5. ASSUME NEW m, Len(objects[o]) < Capacity, objects'[o] = Append(objects[o], m)
          PROVE  Len(objects'[o]) <= Capacity
      BY <1>0, <2>1, <3>5
    <3> QED BY <1>0, <2>1, <3>3, <3>4, <3>5
  <2> QED BY <1>1, <2>2, <2>3, ObjectStep
<1>2. CASE o \notin DOMAIN objects
  <2>1. objects'[o] \in {<<>>, Initial(n)}
    BY <1>2, ObjectStep
  <2>2. Initial(n) = <<>>
    BY DEF Initial
  <2> QED BY <1>0, <2>1, <2>2
<1> QED BY <1>1, <1>2

(* A semaphore cannot be closed under a process that is inside.               *)
LEMMA StaysOpen ==
    ASSUME LInv, [Next]_vars, NEW q \in Procs, "bin" \in Names, Calls(q, "post"), N(q) = "bin",
           status'[q] = status[q], at'[q] = at[q]
    PROVE  fd'[q]["bin"] = fd[q]["bin"]
<1>0. Types
  BY DEF LInv
<1>1. Step(q).do = "post" /\ Step(q).on = "bin" /\ status[q] = "running" /\ status'[q] = "running"
  BY DEF Calls, N
<1>2. ASSUME NEW p \in Procs, OpensObject(p) PROVE fd'[q]["bin"] = fd[q]["bin"]
  <2>1. p # q
    BY <1>1, <1>2 DEF OpensObject, Opens
  <2> QED BY <1>0, <1>2, <2>1 DEF OpensObject, OpensNew, OpensOld, Open, Types
<1>3. ASSUME NEW p \in Procs, Close(p) PROVE fd'[q]["bin"] = fd[q]["bin"]
  <2>1. p # q
    BY <1>1, <1>3 DEF Close, Calls
  <2> QED BY <1>0, <1>3, <2>1 DEF Close, Open, Types
<1>4. ASSUME NEW p \in Procs, Fork(p) PROVE fd'[q]["bin"] = fd[q]["bin"]
  <2>1. Child(p[1]) # q
    BY <1>1, <1>4, ForkKept
  <2> QED BY <1>0, <1>4, <2>1 DEF Fork, Types
<1>5. ASSUME NEW ps, Ends(ps) PROVE fd'[q]["bin"] = fd[q]["bin"]
  <2>1. PICK how \in {"done", "failed", "cut"} : Leave(ps, how)
    BY <1>5 DEF Ends
  <2>2. q \notin ps
    BY <1>0, <1>1, <2>1 DEF Leave
  <2> QED BY <1>0, <2>1, <2>2 DEF Leave
<1>6. ASSUME NEW p \in Procs, Goes(p) \/ Works(p) \/ Mkfifo(p) \/ Unlink(p)
      PROVE  fd'[q]["bin"] = fd[q]["bin"]
  BY <1>6 DEF Goes, Works, Mkfifo, Unlink
<1>7. ASSUME NEW p, Quits(p) PROVE fd'[q]["bin"] = fd[q]["bin"]
  BY <1>5, <1>7 DEF Quits
<1>8. ASSUME NEW ps, IsCut(ps) PROVE fd'[q]["bin"] = fd[q]["bin"]
  BY <1>5, <1>8 DEF IsCut
<1>9. ASSUME NEW i, Start(i) PROVE fd'[q]["bin"] = fd[q]["bin"]
  BY <1>9 DEF Start
<1>10. ASSUME UNCHANGED vars PROVE fd'[q]["bin"] = fd[q]["bin"]
  BY <1>10 DEF vars, pvars
<1> QED BY <1>2, <1>3, <1>4, <1>6, <1>7, <1>8, <1>9, <1>10, Grouped DEF Group

(* Who is inside after a step was inside and has not moved, or has just taken *)
(* the semaphore.                                                             *)
LEMMA InsideStep ==
    ASSUME LInv, NameInv, [Next]_vars, NEW o, NEW q \in Inside(o)'
    PROVE  \/ q \in Inside(o) /\ at'[q] = at[q]
           \/ Works(q) /\ Step(q).do = "take" /\ N(q) = "bin" /\ Obj(q) = o
<1>0. Types /\ q \in Procs /\ Types'
  BY LInvKept DEF Inside, LInv
<1>s. Script(q)' = Script(q)
  BY ProcessStep DEF Script
<1>1. /\ status'[q] = "running" /\ at'[q] <= Len(Script(q)) /\ Script(q)[at'[q]].do = "post"
      /\ Script(q)[at'[q]].on = "bin" /\ fd'[q]["bin"] = o
  BY <1>s DEF Inside, Calls, Step, N, Obj
<1>2. at'[q] \in DOMAIN Script(q) /\ Script(q)[at'[q]] \in Call
  <2>1. at'[q] \in Nat \ {0}
    BY <1>0 DEF Types
  <2> QED BY <1>0, <1>1, <2>1, ScriptFacts DEF Types
<1>3. /\ at'[q] > 1 /\ Script(q)[at'[q] - 1].do = "take" /\ Script(q)[at'[q] - 1].on = "bin"
  <2>1. UsesRight(Script(q))
    BY <1>0, ScriptFacts DEF Types
  <2> QED BY <1>1, <1>2, <2>1 DEF UsesRight, Uses
<1>4. at[q] \in Nat \ {0}
  BY <1>0, PlaceFacts
<1>5. CASE status'[q] = status[q] /\ at'[q] = at[q]
  <2>1. Calls(q, "post") /\ N(q) = "bin"
    BY <1>1, <1>5 DEF Calls, Step, N
  <2>2. "bin" \in Names
    BY <1>1, <1>2 DEF Call
  <2>3. fd'[q]["bin"] = fd[q]["bin"]
    BY <1>0, <1>1, <1>5, <2>1, <2>2, StaysOpen
  <2>4. q \in Inside(o)
    BY <1>0, <1>1, <2>1, <2>3 DEF Inside, Obj
  <2> QED BY <1>5, <2>4
<1>6. CASE Advances(q)
  <2>1. at'[q] - 1 = at[q]
    BY <1>4, <1>6 DEF Advances
  <2>2. Step(q).do = "take" /\ N(q) = "bin"
    BY <1>3, <2>1 DEF Step, N
  <2>3. Works(q)
    BY <1>6, <2>2 DEF Advances
  <2>4. Obj(q) = o
    BY <1>1, <2>2, <2>3 DEF Works, Obj
  <2> QED BY <2>2, <2>3, <2>4
<1>7. CASE status[q] = "new" /\ at'[q] = at[q]
  <2>1. at[q] = 1
    BY <1>0, <1>7 DEF LInv, BirthInv
  <2> QED BY <1>3, <1>7, <2>1
<1> QED BY <1>0, <1>1, <1>5, <1>6, <1>7, ProcessStep

LEMMA BinKept == LInv /\ NameInv /\ BinInv /\ [Next]_vars => BinInv'
<1> SUFFICES ASSUME LInv, NameInv, BinInv, [Next]_vars, NEW o \in DOMAIN objects',
                    "bin" \in Names, Used(o, "bin")'
             PROVE  /\ Len(objects'[o]) <= 1
                    /\ Inside(o)' # {} => objects'[o] = <<>>
                    /\ \A p, q \in Inside(o)' : p = q
  BY DEF BinInv
<1>1. CASE o \in DOMAIN objects
  <2>1. Used(o, "bin")
    BY <1>1, ObjectStep
  <2>2. /\ Len(objects[o]) <= 1
        /\ Inside(o) # {} => objects[o] = <<>>
        /\ \A p, q \in Inside(o) : p = q
        /\ objects[o] \in Seq(Messages)
    BY <1>1, <2>1 DEF BinInv, LInv, Types, Messages
  <2>3. ASSUME NEW p \in Procs, Works(p), o = Obj(p)
        PROVE  /\ Len(objects'[o]) <= 1
               /\ Inside(o)' # {} => objects'[o] = <<>>
               /\ \A q, r \in Inside(o)' : q = r
    <3>1. N(p) = "bin" /\ Step(p).do \in {"take", "post"} /\ at'[p] = at[p] + 1
      BY <2>1, <2>3, WorkingAt
    <3>2. \A q \in Inside(o)' : Works(q) => q = p
      <4> TAKE q \in Inside(o)'
      <4>1. HAVE Works(q)
      <4>2. q \in Procs
        BY DEF Inside
      <4>3. ASSUME q # p PROVE at'[q] = at[q]
        BY <2>3, <4>2, <4>3 DEF Works, Return
      <4>4. CASE q \in Inside(o) /\ at'[q] = at[q]
        <5>1. Step(q).do = "post"
          BY <4>4 DEF Inside, Calls
        <5>2. at'[q] = at[q] + 1 /\ at[q] \in Nat
          BY <4>1, <4>2, <5>1, WorkingAt DEF LInv, Types
        <5> QED BY <4>4, <5>2
      <4>5. CASE Step(q).do = "take"
        <5>1. at'[q] = at[q] + 1 /\ at[q] \in Nat
          BY <4>1, <4>2, <4>5, WorkingAt DEF LInv, Types
        <5> QED BY <4>3, <5>1
      <4> QED BY <4>4, <4>5, InsideStep
    <3>3. CASE Step(p).do = "take"
      <4>1. objects[o] # <<>> /\ objects'[o] = Tail(objects[o])
        BY <2>3, <3>3, WorkedOn
      <4>2. objects'[o] = <<>> /\ Len(objects'[o]) <= 1
        BY <2>2, <4>1
      <4>3. \A q \in Inside(o)' : q = p
        BY <2>2, <3>2, <4>1, InsideStep
      <4> QED BY <4>2, <4>3
    <3>4. CASE Step(p).do = "post"
      <4>1. \E m : objects'[o] = Append(objects[o], m)
        BY <2>3, <3>4, WorkedOn
      <4>2. p \in Inside(o)
        <5>1. Standing(p) /\ at[p] <= Len(Script(p))
          BY <2>3, ScriptFacts DEF Works, Standing, LInv, Types
        <5> QED BY <2>3, <3>1, <3>4, <5>1 DEF Inside, Calls, Standing
      <4>3. objects[o] = <<>> /\ Len(objects'[o]) <= 1
        BY <2>2, <4>1, <4>2
      <4>4. Inside(o)' = {}
        <5>1. SUFFICES ASSUME NEW q \in Inside(o)' PROVE FALSE
          OBVIOUS
        <5>2. CASE q \in Inside(o) /\ at'[q] = at[q]
          <6>1. q = p /\ at[p] \in Nat
            BY <2>2, <4>2, <5>2 DEF LInv, Types
          <6> QED BY <3>1, <5>2, <6>1
        <5>3. CASE Works(q) /\ Step(q).do = "take"
          BY <3>2, <3>4, <5>3
        <5> QED BY <5>2, <5>3, InsideStep
      <4> QED BY <4>3, <4>4
    <3> QED BY <3>1, <3>3, <3>4
  <2>4. CASE ~\E p \in Procs : Works(p) /\ o = Obj(p)
    <3>1. objects'[o] = objects[o]
      <4>1. \A n \in {"fifo"} \cap Names : ~Used(o, n)
        BY <1>1, <2>1 DEF NameInv
      <4> QED BY <1>1, <2>4, <4>1, ObjectStep
    <3>2. \A q \in Inside(o)' : q \in Inside(o)
      <4> TAKE q \in Inside(o)'
      <4>1. q \in Procs
        BY DEF Inside
      <4> QED BY <2>4, <4>1, InsideStep
    <3> QED BY <2>2, <3>1, <3>2
  <2> QED BY <2>3, <2>4
<1>2. CASE o \notin DOMAIN objects
  <2>1. objects'[o] \in {<<>>, Initial("bin")}
    BY <1>2, ObjectStep
  <2>2. Len(objects'[o]) <= 1
    <3>1. objects'[o] = <<>> \/ objects'[o] = <<END>>
      BY <2>1 DEF Initial
    <3>2. Len(<<>>) <= 1 /\ Len(<<END>>) <= 1
      OBVIOUS
    <3> QED BY <3>1, <3>2
  <2>3. Inside(o)' = {}
    <3>1. SUFFICES ASSUME NEW q \in Inside(o)' PROVE FALSE
      OBVIOUS
    <3>2. CASE q \in Inside(o)
      <4>1. /\ q \in Procs /\ Calls(q, "post") /\ Obj(q) = o
        BY <3>2 DEF Inside
      <4>2. Uses(Step(q))
        BY <4>1 DEF Calls, Uses
      <4> QED BY <1>2, <4>1, <4>2, UsedIsOpen
    <3>3. CASE Works(q) /\ Obj(q) = o
      BY <1>2, <3>3, WorkedOn DEF Inside
    <3> QED BY <3>2, <3>3, InsideStep
  <2> QED BY <2>2, <2>3
<1> QED BY <1>1, <1>2

(* Who is inside stays there, unless it posts or is cut off.                  *)
LEMMA InsideStays ==
    ASSUME LInv, [Next]_vars, cuts' = cuts, NEW o, NEW q \in Inside(o)
    PROVE  \/ q \in Inside(o)'
           \/ Works(q) /\ Step(q).do = "post" /\ Obj(q) = o
<1>0. /\ Types /\ q \in Procs /\ Calls(q, "post") /\ N(q) = "bin" /\ Obj(q) = o
      /\ Step(q).do = "post" /\ status[q] = "running" /\ at[q] <= Len(Script(q)) /\ at[q] \in Nat
  BY DEF Inside, LInv, Types, Calls
<1>s. Script(q)' = Script(q)
  BY ProcessStep DEF Script
<1>1. CASE status'[q] = status[q] /\ at'[q] = at[q]
  <2>1. "bin" \in Names
    BY <1>0, CallFacts
  <2>2. fd'[q]["bin"] = fd[q]["bin"]
    BY <1>0, <1>1, <2>1, StaysOpen
  <2>3. Calls(q, "post")' /\ N(q)' = "bin"
    BY <1>0, <1>1, <1>s DEF Calls, Step, N
  <2>4. Obj(q)' = o
    BY <1>0, <2>2, <2>3 DEF Obj
  <2> QED BY <1>0, <2>3, <2>4 DEF Inside
<1>2. CASE Advances(q)
  BY <1>0, <1>2 DEF Advances
<1>3. ~Quits(q)
  BY <1>0 DEF Quits, GivesUp
<1>4. cuts' # cuts + 1
  BY ProcessStep
<1> QED BY <1>0, <1>1, <1>2, <1>3, <1>4, ProcessStep

(* Without an interruption the one of a binary semaphore is in it, or with    *)
(* the process inside.                                                        *)
TokenInv ==
    cuts = 0 => \A o \in DOMAIN objects :
        "bin" \in Names /\ Used(o, "bin") => Inside(o) # {} \/ objects[o] # <<>>

(* sem_wait takes it inside, sem_post puts it back.                           *)
LEMMA TokenKept == LInv /\ NameInv /\ TokenInv /\ [Next]_vars => TokenInv'
<1> SUFFICES ASSUME LInv, NameInv, TokenInv, [Next]_vars, cuts' = 0, NEW o \in DOMAIN objects',
                    "bin" \in Names, Used(o, "bin")', objects'[o] = <<>>
             PROVE  Inside(o)' # {}
  BY DEF TokenInv
<1>0. cuts = 0 /\ cuts' = cuts /\ Types
  BY ProcessStep DEF LInv
<1>1. o \in DOMAIN objects /\ Used(o, "bin") /\ objects[o] \in Seq(Messages)
  <2>1. CASE o \notin DOMAIN objects
    <3>1. objects'[o] = Initial("bin")
      BY <2>1, ObjectStep
    <3> QED BY <3>1 DEF Initial
  <2>2. CASE o \in DOMAIN objects
    BY <1>0, <2>2, ObjectStep DEF Types, Messages
  <2> QED BY <2>1, <2>2
<1>2. ASSUME NEW p \in Procs, Works(p), Obj(p) = o
      PROVE  Step(p).do = "take" /\ N(p) = "bin"
  <2>1. N(p) = "bin" /\ Step(p).do \in {"take", "post"}
    BY <1>1, <1>2, WorkingAt
  <2>2. Step(p).do # "post"
    <3>1. SUFFICES ASSUME Step(p).do = "post" PROVE FALSE
      OBVIOUS
    <3>2. PICK m \in {p[1], END} : objects'[o] = Append(objects[o], m)
      BY <1>2, <3>1, WorkedOn
    <3>3. m \in Messages
      BY ProcFacts DEF Messages
    <3>4. Append(objects[o], m) # <<>>
      BY <1>1, <3>3, LongerSeq
    <3> QED BY <3>2, <3>4
  <2> QED BY <2>1, <2>2
<1>3. CASE \E q \in Inside(o) : TRUE
  <2>1. PICK q \in Inside(o) : TRUE
    BY <1>3
  <2>2. q \in Procs
    BY DEF Inside
  <2> QED BY <1>0, <1>2, <2>1, <2>2, InsideStays
<1>4. CASE Inside(o) = {}
  <2>1. objects[o] # <<>>
    BY <1>0, <1>1, <1>4 DEF TokenInv
  <2>2. PICK p \in Procs : Works(p) /\ Obj(p) = o
    <3>1. \A n \in {"fifo"} \cap Names : ~Used(o, n)
      BY <1>1 DEF NameInv
    <3> QED BY <1>1, <2>1, <3>1, ObjectStep
  <2>3. Step(p).do = "take" /\ N(p) = "bin"
    BY <1>2, <2>2
  <2>4. /\ at[p] \in DOMAIN Script(p) /\ status'[p] = "running" /\ at'[p] = at[p] + 1
        /\ fd' = fd /\ UNCHANGED scenario
    BY <2>2, <2>3, WorkingAt DEF Works, Standing
  <2>5. /\ at[p] < Len(Script(p)) /\ Script(p)[at[p] + 1].do = "post"
        /\ Script(p)[at[p] + 1].on = "bin"
    BY <1>0, <2>3, <2>4, ScriptFacts DEF Types, UsesRight, Step, N
  <2>6. at'[p] <= Len(Script(p)) /\ Script(p)' = Script(p)
    <3>1. at[p] \in Nat /\ Len(Script(p)) \in Nat
      BY <1>0, ScriptFacts DEF Types
    <3>2. at'[p] <= Len(Script(p))
      BY <2>4, <2>5, <3>1
    <3> QED BY <2>4, <3>2 DEF Script
  <2>7. Calls(p, "post")' /\ N(p)' = "bin"
    BY <2>4, <2>5, <2>6 DEF Calls, Step, N
  <2>8. Obj(p)' = o
    BY <2>2, <2>3, <2>4, <2>7 DEF Obj
  <2> QED BY <2>7, <2>8 DEF Inside
<1> QED BY <1>3, <1>4

-----------------------------------------------------------------------------
(* Names, and who still has to remove them.                                   *)

(* Without overlap a run starts when all the earlier ones are over.           *)
SerialInv ==
    ~scenario.overlap => \A i, j \in Invocations : Started(i) /\ j < i => RunOver(j)

(* q has made name n and has its unlink still before it.                      *)
Obliged(q, n) ==
    /\ status[q] = "running" /\ q[2] = "parent"
    /\ \E j, l \in DOMAIN Script(q) : /\ j < at[q] /\ at[q] <= l
                                      /\ Makes(Script(q)[j], n) /\ Unlinks(Script(q)[l], n)

(* As long as nothing was cut off, someone is obliged for every name in the   *)
(* system, except for "full" when runs overlap.                               *)
KeepInv ==
    cuts = 0 => \A n \in Names :
        bound[n] # 0 /\ (n # "full" \/ ~scenario.overlap) => \E q \in Procs : Obliged(q, n)

(* Without overlap nobody else removes the name first.                        *)
SoloInv ==
    ~scenario.overlap /\ cuts = 0 => \A q \in Procs, n \in Names : Obliged(q, n) => bound[n] # 0

LEMMA RunStep ==
    ASSUME LInv, [Next]_vars, NEW i \in Invocations
    PROVE  /\ RunOver(i) => RunOver(i)'
           /\ Started(i) => Started(i)'
           /\ Started(i)' => Started(i) \/ Start(i)
<1>0. /\ Parent(i) \in Procs /\ Child(i) \in Procs /\ Parent(i)[1] = i /\ Child(i)[1] = i
      /\ Parent(i) # Child(i)
  BY ProcFacts
<1>1. Started(i) => Started(i)'
  BY <1>0, ProcessStep DEF Started, Advances
<1>2. Started(i)' => Started(i) \/ Start(i)
  BY <1>0, ProcessStep DEF Started, Advances, Standing
<1>3. ASSUME RunOver(i) PROVE RunOver(i)'
  <2>1. status[Parent(i)] \in {"done", "failed", "cut"} /\ status[Child(i)] # "running"
    BY <1>3 DEF RunOver, Over
  <2>2. status'[Parent(i)] = status[Parent(i)]
    BY <1>0, <2>1, ProcessStep DEF Advances, Standing
  <2>3. ~Fork(Parent(i)) /\ Child(i) # Parent(Child(i)[1])
    BY <1>0, <2>1 DEF Fork, Calls
  <2>4. status'[Child(i)] = status[Child(i)]
    BY <1>0, <2>1, <2>3, ProcessStep DEF Advances, Standing
  <2> QED BY <1>3, <2>2, <2>4 DEF RunOver, Over
<1> QED BY <1>1, <1>2, <1>3

LEMMA SerialKept == LInv /\ SerialInv /\ [Next]_vars => SerialInv'
<1> SUFFICES ASSUME LInv, SerialInv, [Next]_vars, ~scenario'.overlap
             PROVE  \A i, j \in Invocations : Started(i)' /\ j < i => RunOver(j)'
  BY DEF SerialInv
<1> TAKE i, j \in Invocations
<1> HAVE Started(i)' /\ j < i
<1>0. ~scenario.overlap
  BY ProcessStep
<1>1. CASE Started(i)
  BY <1>0, <1>1, RunStep DEF SerialInv
<1>2. CASE Start(i)
  BY <1>0, <1>2, RunStep DEF Start
<1> QED BY <1>1, <1>2, RunStep

(* Who runs belongs to a run that has started and is not over, and without    *)
(* overlap there is one such run.                                             *)
LEMMA RunsAlone ==
    ASSUME LInv
    PROVE  /\ \A p \in Procs : status[p] = "running" => Started(p[1]) /\ ~RunOver(p[1])
           /\ SerialInv /\ ~scenario.overlap =>
                 \A i, j \in Invocations :
                    Started(i) /\ Started(j) /\ ~RunOver(i) /\ ~RunOver(j) => i = j
<1>1. ASSUME NEW p \in Procs, status[p] = "running" PROVE Started(p[1]) /\ ~RunOver(p[1])
  <2>1. p[1] \in Invocations /\ (p = Parent(p[1]) \/ p = Child(p[1]))
    BY ProcFacts
  <2>2. Started(p[1])
    BY <1>1, <2>1 DEF LInv, BirthInv, Started
  <2>3. ~RunOver(p[1])
    BY <1>1, <2>1 DEF RunOver, Over
  <2> QED BY <2>2, <2>3
<1>2. \A i, j \in Invocations : i < j \/ j < i \/ i = j
  BY BoundAssumption DEF Invocations
<1> QED BY <1>1, <1>2 DEF SerialInv

(* A parent's script, made and unlinked once.                                 *)
LEMMA TidyFacts ==
    ASSUME Types, NEW q \in Procs, q[2] = "parent", NEW n \in Names
    PROVE  LET s == Script(q)
           IN  /\ \A j, k \in DOMAIN s : Makes(s[j], n) /\ Makes(s[k], n) => j = k
               /\ \A j, k \in DOMAIN s : Unlinks(s[j], n) /\ Unlinks(s[k], n) => j = k
               /\ \A j \in DOMAIN s : Makes(s[j], n) => \E l \in DOMAIN s : j < l /\ Unlinks(s[l], n)
               /\ \A j, l, k \in DOMAIN s :
                     Makes(s[j], n) /\ Unlinks(s[l], n) /\ j < k /\ k < l /\ MayGiveUp(s[k]) =>
                       \/ s[k].on = n
                       \/ /\ n = "full" /\ s[k].do = "unlinkOrFail"
                          /\ \E i \in DOMAIN s : i < k /\ Makes(s[i], s[k].on)
<1> DEFINE s == Script(q)
<1>1. Tidy(s)
  BY ScriptFacts DEF Types
<1>2. DOMAIN s = 1 .. Len(s) /\ Len(s) \in Nat
  BY ScriptFacts DEF Types
<1> HIDE DEF s
<1>3. /\ \A j, k \in DOMAIN s : Makes(s[j], n) /\ Makes(s[k], n) => j = k
      /\ \A j, k \in DOMAIN s : Unlinks(s[j], n) /\ Unlinks(s[k], n) => j = k
      /\ \A j \in DOMAIN s : Makes(s[j], n) => \E l \in DOMAIN s : j < l /\ Unlinks(s[l], n)
  BY <1>1 DEF Tidy
<1>4. ASSUME NEW j \in DOMAIN s, NEW l \in DOMAIN s, NEW k \in DOMAIN s,
             Makes(s[j], n), Unlinks(s[l], n), j < k, k < l, MayGiveUp(s[k])
      PROVE  \/ s[k].on = n
             \/ /\ n = "full" /\ s[k].do = "unlinkOrFail"
                /\ \E i \in DOMAIN s : i < k /\ Makes(s[i], s[k].on)
  <2>1. PICK m \in DOMAIN s :
                 /\ j < m /\ Unlinks(s[m], n)
                 /\ \A x \in j + 1 .. m - 1 : MayGiveUp(s[x]) =>
                       \/ s[x].on = n
                       \/ /\ n = "full" /\ s[x].do = "unlinkOrFail"
                          /\ \E i \in 1 .. x - 1 : Makes(s[i], s[x].on)
    BY <1>1, <1>4 DEF Tidy
  <2>2. m = l
    BY <1>3, <1>4, <2>1
  <2>3. k \in j + 1 .. m - 1
    BY <1>2, <1>4, <2>2
  <2>4. \A i \in 1 .. k - 1 : i \in DOMAIN s /\ i < k
    BY <1>2, <1>4
  <2> QED BY <1>4, <2>1, <2>3, <2>4
<1> QED BY <1>3, <1>4 DEF s

(* An obliged process stays so unless it unlinks, is cut off, or gives up,    *)
(* and that only because the name is gone, or another one it made too.        *)
LEMMA ObligedStep ==
    ASSUME LInv, [Next]_vars, cuts' = 0, NEW q \in Procs, NEW n \in Names, Obliged(q, n)
    PROVE  \/ Obliged(q, n)'
           \/ Unlink(q) /\ N(q) = n /\ bound'[n] = 0
           \/ bound[n] = 0
           \/ n = "full" /\ \E x \in Names : Obliged(q, x) /\ bound[x] = 0
<1>0. Types /\ at[q] \in Nat /\ DOMAIN Script(q) \subseteq Nat
  BY PlaceFacts DEF LInv
<1>s. Script(q)' = Script(q) /\ cuts = 0 /\ cuts' # cuts + 1
  BY ProcessStep DEF Script
<1>1. status[q] = "running" /\ q[2] = "parent"
  BY DEF Obliged
<1>2. PICK j, l \in DOMAIN Script(q) : /\ j < at[q] /\ at[q] <= l
                                       /\ Makes(Script(q)[j], n) /\ Unlinks(Script(q)[l], n)
  BY DEF Obliged
<1>3. CASE status'[q] = status[q] /\ at'[q] = at[q]
  BY <1>1, <1>2, <1>3, <1>s DEF Obliged
<1>4. CASE Advances(q)
  <2>1. status'[q] = "running" /\ at'[q] = at[q] + 1
    BY <1>4 DEF Advances
  <2>2. CASE at[q] # l
    <3>1. j < at'[q] /\ at'[q] <= l
      BY <1>0, <1>2, <2>1, <2>2
    <3> QED BY <1>1, <1>2, <1>s, <2>1, <3>1 DEF Obliged
  <2>3. CASE at[q] = l
    <3>1. Unlink(q) /\ N(q) = n
      BY <1>2, <1>4, <2>3 DEF Advances, Unlinks, Step, N
    <3>2. bound'[n] = 0
      BY <1>0, <3>1 DEF Unlink, Types
    <3> QED BY <3>1, <3>2
  <2> QED BY <2>2, <2>3
<1>5. CASE Quits(q)
  <2> DEFINE k == at[q]
             x == N(q)
  <2>1. k <= Len(Script(q))
    <3>1. l <= Len(Script(q)) /\ Len(Script(q)) \in Nat
      BY <1>0, <1>2, ScriptFacts DEF Types
    <3> QED BY <1>0, <1>2, <3>1
  <2>2. GivesUp(q)
    <3>1. Len(Script(q)) \in Nat
      BY <1>0, ScriptFacts DEF Types
    <3> QED BY <1>0, <1>5, <2>1, <3>1 DEF Quits
  <2>3. /\ k \in DOMAIN Script(q) /\ Step(q) = Script(q)[k] /\ x = Script(q)[k].on /\ x \in Names
        /\ MayGiveUp(Script(q)[k])
        /\ Step(q).do = "mkfifo" \/ bound[x] = 0
    BY <1>0, <2>2, PlaceFacts DEF GivesUp, Step, N, MayGiveUp
  <2>4. CASE x = n
    <3>1. Step(q).do = "mkfifo" => Makes(Script(q)[k], n)
      BY <2>3, <2>4 DEF Makes
    <3>2. k # j
      BY <1>0, <1>2
    <3> QED BY <1>0, <1>1, <1>2, <2>3, <2>4, <3>1, <3>2, TidyFacts
  <2>5. CASE x # n
    <3>1. k # l
      BY <1>2, <2>3, <2>5 DEF Unlinks
    <3>2. j < k /\ k < l
      BY <1>0, <1>2, <3>1
    <3>3. /\ n = "full" /\ Script(q)[k].do = "unlinkOrFail"
          /\ \E i \in DOMAIN Script(q) : i < k /\ Makes(Script(q)[i], x)
      BY <1>0, <1>1, <1>2, <2>3, <2>5, <3>2, TidyFacts
    <3>4. Unlinks(Script(q)[k], x) /\ bound[x] = 0
      BY <2>3, <3>3 DEF Unlinks
    <3>5. Obliged(q, x)
      BY <1>0, <1>1, <2>3, <3>3, <3>4 DEF Obliged
    <3> QED BY <2>3, <3>3, <3>4, <3>5
  <2> QED BY <2>4, <2>5
<1> QED BY <1>s, <1>1, <1>3, <1>4, <1>5, ProcessStep

(* Who makes a name is obliged to remove it.                                  *)
LEMMA ObligedByMaking ==
    ASSUME LInv, [Next]_vars, NEW p \in Procs, NEW n \in Names, Makes(Step(p), n), Advances(p)
    PROVE  Obliged(p, n)'
<1>0. Types /\ at[p] \in Nat /\ at[p] \in DOMAIN Script(p) /\ DOMAIN Script(p) \subseteq Nat
      /\ status'[p] = "running" /\ at'[p] = at[p] + 1
  BY PlaceFacts DEF LInv, Advances, Standing
<1>s. Script(p)' = Script(p)
  BY ProcessStep DEF Script
<1>1. Makes(Script(p)[at[p]], n)
  BY DEF Step
<1>2. p[2] = "parent"
  <2>1. p = Child(p[1]) => Script(p)[at[p]].do \in {"take", "post", "receive"}
    BY <1>0, ProcFacts, PairFacts DEF Types
  <2> QED BY <1>1, <2>1, ProcFacts DEF Makes
<1>3. PICK l \in DOMAIN Script(p) : at[p] < l /\ Unlinks(Script(p)[l], n)
  BY <1>0, <1>1, <1>2, TidyFacts
<1>4. at[p] < at'[p] /\ at'[p] <= l
  BY <1>0, <1>3
<1> QED BY <1>0, <1>1, <1>2, <1>3, <1>4, <1>s DEF Obliged

(* Nobody else is.                                                            *)
LEMMA ObligedBefore ==
    ASSUME LInv, [Next]_vars, NEW q \in Procs, NEW n \in Names, Obliged(q, n)'
    PROVE  \/ Obliged(q, n) /\ (at'[q] = at[q] \/ Advances(q))
           \/ Makes(Step(q), n) /\ Advances(q)
<1>0. Types /\ at[q] \in Nat \ {0} /\ DOMAIN Script(q) \subseteq Nat \ {0}
  BY PlaceFacts DEF LInv
<1>s. Script(q)' = Script(q)
  BY ProcessStep DEF Script
<1>1. PICK j, l \in DOMAIN Script(q) : /\ j < at'[q] /\ at'[q] <= l
                                       /\ Makes(Script(q)[j], n) /\ Unlinks(Script(q)[l], n)
  BY <1>s DEF Obliged
<1>2. status'[q] = "running" /\ q[2] = "parent"
  BY DEF Obliged
<1>3. CASE status'[q] = status[q] /\ at'[q] = at[q]
  BY <1>1, <1>2, <1>3 DEF Obliged
<1>4. CASE Advances(q)
  <2>1. at'[q] = at[q] + 1 /\ status[q] = "running"
    BY <1>4 DEF Advances, Standing
  <2>2. CASE j = at[q]
    BY <1>1, <1>4, <2>2 DEF Step
  <2>3. CASE j # at[q]
    <3>1. j < at[q] /\ at[q] <= l
      BY <1>0, <1>1, <2>1, <2>3
    <3> QED BY <1>1, <1>2, <1>4, <2>1, <3>1 DEF Obliged
  <2> QED BY <2>2, <2>3
<1>5. CASE status[q] = "new" /\ at'[q] = at[q]
  <2>1. at[q] = 1
    BY <1>0, <1>5 DEF LInv, BirthInv
  <2> QED BY <1>0, <1>1, <1>5, <2>1
<1> QED BY <1>2, <1>3, <1>4, <1>5, ProcessStep

LEMMA KeepKept == LInv /\ SoloInv /\ KeepInv /\ [Next]_vars => KeepInv'
<1> SUFFICES ASSUME LInv, SoloInv, KeepInv, [Next]_vars, cuts' = 0, NEW n \in Names,
                    bound'[n] # 0, n # "full" \/ ~scenario'.overlap
             PROVE  \E q \in Procs : Obliged(q, n)'
  BY DEF KeepInv
<1>0. cuts = 0 /\ scenario' = scenario
  BY ProcessStep
<1>1. CASE bound[n] = 0
  <2>1. PICK p \in Procs : Makes(Step(p), n) /\ Advances(p)
    BY <1>1, NameStep
  <2> QED BY <2>1, ObligedByMaking
<1>2. CASE bound[n] # 0
  <2>1. PICK q \in Procs : Obliged(q, n)
    BY <1>0, <1>2 DEF KeepInv
  <2>2. \A x \in Names : n = "full" /\ Obliged(q, x) => bound[x] # 0
    BY <1>0 DEF SoloInv
  <2>3. Obliged(q, n)'
    BY <1>2, <2>1, <2>2, ObligedStep
  <2> QED BY <2>3
<1> QED BY <1>1, <1>2

LEMMA SoloKept == LInv /\ SerialInv /\ SoloInv /\ [Next]_vars => SoloInv'
<1> SUFFICES ASSUME LInv, SerialInv, SoloInv, [Next]_vars, ~scenario'.overlap, cuts' = 0,
                    NEW q \in Procs, NEW n \in Names, Obliged(q, n)'
             PROVE  bound'[n] # 0
  BY DEF SoloInv
<1>0. cuts = 0 /\ ~scenario.overlap /\ Types /\ Len(objects) + 1 # 0 /\ Script(q)' = Script(q)
  BY ProcessStep DEF LInv, Types, Script
<1>1. CASE Makes(Step(q), n) /\ Advances(q)
  <2>1. N(q) = n /\ Step(q).do \in {"create", "mkfifo"}
    BY <1>1 DEF Makes, N
  <2>2. CASE OpensObject(q) /\ Step(q).do = "create"
    BY <1>0, <2>1, <2>2 DEF OpensObject, OpensNew, OpensOld, Types
  <2>3. CASE Mkfifo(q)
    BY <1>0, <2>1, <2>3 DEF Mkfifo, Types
  <2> QED BY <1>1, <2>1, <2>2, <2>3 DEF Advances
<1>2. CASE Obliged(q, n) /\ (at'[q] = at[q] \/ Advances(q))
  <2>1. bound[n] # 0
    BY <1>0, <1>2 DEF SoloInv
  <2>2. ASSUME NEW p \in Procs, Unlink(p), N(p) = n PROVE FALSE
    <3>1. /\ Standing(p) /\ Unlinks(Script(p)[at[p]], n) /\ at'[p] = at[p] + 1
      BY <1>0, <2>2, CallFacts DEF Unlink, Calls, Unlinks, Standing, Return
    <3>2. status[p] = "running" /\ status[q] = "running" /\ q[2] = "parent"
      BY <1>2, <3>1 DEF Obliged, Standing
    <3>3. p[2] = "parent"
      <4>1. p = Child(p[1]) => Script(p)[at[p]].do \in {"take", "post", "receive"}
        BY <1>0, <3>1, ProcFacts, PairFacts DEF Types, Standing
      <4> QED BY <3>1, <4>1, ProcFacts DEF Unlinks
    <3>4. p = q
      <4>1. p[1] = q[1]
        BY <1>0, <3>2, ProcFacts, RunsAlone
      <4> QED BY <3>2, <3>3, <4>1, ProcFacts
    <3>5. PICK l \in DOMAIN Script(q) : at'[q] <= l /\ Unlinks(Script(q)[l], n)
      BY <1>0 DEF Obliged
    <3>6. l = at[q]
      BY <1>0, <3>1, <3>2, <3>4, <3>5, TidyFacts DEF Standing
    <3> QED BY <1>0, <3>1, <3>4, <3>5, <3>6 DEF Types
  <2> QED BY <2>1, <2>2, NameStep
<1> QED BY <1>1, <1>2, ObligedBefore

-----------------------------------------------------------------------------
(* What is received.                                                          *)

(* Without overlap and cuts, while a run is on, everything in use holds       *)
(* messages of this run only.                                                 *)
OwnInv ==
    ~scenario.overlap /\ cuts = 0 =>
        /\ \A p \in Procs : got[p] \subseteq {p[1]}
        /\ \A i \in Invocations : Started(i) /\ ~RunOver(i) =>
              \A o \in DOMAIN objects, n \in Names : Used(o, n) =>
                  \A k \in DOMAIN objects[o] : objects[o][k] \in {i, END}

(* When a run starts nothing is in use.                                       *)
LEMMA StartsClean ==
    ASSUME LInv, SerialInv, KeepInv, ~scenario.overlap, cuts = 0,
           NEW i \in Invocations, ~Started(i), Start(i)
    PROVE  \A o \in DOMAIN objects, n \in Names : ~Used(o, n)
<1>0. /\ Parent(i) \in Procs /\ status[Parent(i)] = "new" /\ Types
  BY ProcFacts DEF Started, LInv
<1>1. ASSUME NEW j \in Invocations PROVE Over(Parent(j)) /\ Over(Child(j))
  <2>1. CASE j < i
    BY <1>1, <2>1 DEF Start, RunOver
  <2>2. CASE ~(j < i)
    <3>1. status[Parent(j)] = "new"
      <4>1. CASE j = i
        BY <1>0, <4>1
      <4>2. CASE i < j
        <5>1. ~RunOver(i)
          BY <1>0 DEF RunOver
        <5> QED BY <1>1, <4>2, <5>1 DEF SerialInv, Started
      <4>3. j = i \/ i < j
        BY <1>1, <2>2, BoundAssumption DEF Invocations
      <4> QED BY <4>1, <4>2, <4>3
    <3>2. status[Child(j)] = "new"
      BY <1>1, <3>1 DEF LInv, BirthInv, Started
    <3> QED BY <3>1, <3>2 DEF Over
  <2> QED BY <2>1, <2>2
<1>2. \A p \in Procs : Over(p)
  BY <1>1, ProcFacts
<1>3. \A p \in Procs : fd[p] = Nothing
  BY <1>2 DEF LInv, BirthInv
<1>4. \A n \in Names : bound[n] = 0
  <2>1. \A q \in Procs, n \in Names : ~Obliged(q, n)
    BY <1>2 DEF Obliged, Over
  <2> QED BY <2>1 DEF KeepInv
<1>5. \A o \in DOMAIN objects : o # 0
  BY <1>0 DEF Types
<1> QED BY <1>3, <1>4, <1>5 DEF Used, Nothing

LEMMA OwnKept == LInv /\ NameInv /\ SerialInv /\ KeepInv /\ OwnInv /\ [Next]_vars => OwnInv'
<1> SUFFICES ASSUME LInv, NameInv, SerialInv, KeepInv, OwnInv, [Next]_vars,
                    ~scenario'.overlap, cuts' = 0
             PROVE  /\ \A p \in Procs : got'[p] \subseteq {p[1]}
                    /\ \A i \in Invocations : Started(i)' /\ ~RunOver(i)' =>
                          \A o \in DOMAIN objects', n \in Names : Used(o, n)' =>
                              \A k \in DOMAIN objects'[o] : objects'[o][k] \in {i, END}
  BY DEF OwnInv
<1>0. ~scenario.overlap /\ cuts = 0 /\ Types
  BY ProcessStep DEF LInv
<1>1. ASSUME NEW p \in Procs, Works(p)
      PROVE  /\ p[1] \in Invocations /\ Started(p[1]) /\ ~RunOver(p[1])
             /\ objects[Obj(p)] \in Seq(Messages)
             /\ \A k \in DOMAIN objects[Obj(p)] : objects[Obj(p)][k] \in {p[1], END}
  <2>1. p[1] \in Invocations /\ Started(p[1]) /\ ~RunOver(p[1])
    BY <1>1, ProcFacts, RunsAlone DEF Works, Standing
  <2>2. Obj(p) \in DOMAIN objects /\ N(p) \in Names /\ Used(Obj(p), N(p))
    BY <1>1, WorkingAt
  <2>3. objects[Obj(p)] \in Seq(Messages)
    BY <1>0, <2>2 DEF Types, Messages
  <2> QED BY <1>0, <2>1, <2>2, <2>3 DEF OwnInv
<1>2. ASSUME NEW p \in Procs PROVE got'[p] \subseteq {p[1]}
  <2>1. got[p] \subseteq {p[1]}
    BY <1>0 DEF OwnInv
  <2>2. ASSUME NEW q \in Procs, Works(q) PROVE got'[p] \subseteq {p[1]}
    <3>1. CASE UNCHANGED got
      BY <2>1, <3>1
    <3>2. CASE ~UNCHANGED got
      <4>1. /\ objects[Obj(q)] # <<>>
            /\ got' = [got EXCEPT ![q] = @ \cup ({Head(objects[Obj(q)])} \ {END})]
        BY <2>2, <3>2, WorkedOn
      <4>2. Head(objects[Obj(q)]) \in {q[1], END}
        <5>1. 1 \in DOMAIN objects[Obj(q)] /\ Head(objects[Obj(q)]) = objects[Obj(q)][1]
          BY <1>1, <2>2, <4>1
        <5> QED BY <1>1, <2>2, <5>1
      <4>3. got'[p] = IF p = q THEN got[q] \cup ({Head(objects[Obj(q)])} \ {END}) ELSE got[p]
        BY <1>0, <4>1 DEF Types
      <4> QED BY <2>1, <4>2, <4>3
    <3> QED BY <3>1, <3>2
  <2>3. ASSUME UNCHANGED got PROVE got'[p] \subseteq {p[1]}
    BY <2>1, <2>3
  <2>4. ASSUME NEW q, \/ Goes(q) \/ OpensObject(q) \/ Quits(q) \/ Mkfifo(q) \/ Close(q)
                      \/ Unlink(q) \/ Fork(q)
        PROVE  UNCHANGED got
    BY <2>4 DEF Goes, OpensObject, Quits, Ends, Mkfifo, Close, Unlink, Fork
  <2>5. ASSUME NEW ps, IsCut(ps) PROVE UNCHANGED got
    BY <2>5 DEF IsCut, Ends
  <2>6. ASSUME NEW i, Start(i) PROVE UNCHANGED got
    BY <2>6 DEF Start
  <2>7. ASSUME UNCHANGED vars PROVE UNCHANGED got
    BY <2>7 DEF vars, pvars
  <2> QED BY <2>2, <2>3, <2>4, <2>5, <2>6, <2>7, Grouped DEF Group
<1>3. ASSUME NEW i \in Invocations, Started(i)', ~RunOver(i)', NEW o \in DOMAIN objects',
             NEW n \in Names, Used(o, n)', NEW k \in DOMAIN objects'[o]
      PROVE  objects'[o][k] \in {i, END}
  <2>1. CASE o \notin DOMAIN objects
    <3>1. PICK m \in Names : objects'[o] \in {<<>>, Initial(m)}
      BY <1>3, <2>1, ObjectStep
    <3>2. objects'[o] = <<>> \/ objects'[o] = <<END>>
      BY <3>1 DEF Initial
    <3>3. objects'[o] = <<END>>
      BY <1>3, <3>2
    <3> QED BY <1>3, <3>3
  <2>2. CASE o \in DOMAIN objects /\ Started(i)
    <3>0. ~RunOver(i)
      BY <1>3, RunStep
    <3>1. Used(o, n) /\ objects[o] \in Seq(Messages) /\ \A x \in DOMAIN objects[o] : objects[o][x] \in {i, END}
      BY <1>0, <1>3, <2>2, <3>0, ObjectStep DEF OwnInv, Types, Messages
    <3>2. CASE objects'[o] = objects[o] \/ objects'[o] = <<>>
      BY <1>3, <3>1, <3>2
    <3>3. ASSUME NEW p \in Procs, Works(p), o = Obj(p) PROVE objects'[o][k] \in {i, END}
      <4>1. p[1] = i
        BY <1>0, <1>1, <2>2, <3>0, <3>3, RunsAlone
      <4>2. CASE \E m \in {p[1], END} : objects'[o] = Append(objects[o], m)
        BY <1>3, <3>1, <4>1, <4>2
      <4>3. CASE objects[o] # <<>> /\ objects'[o] = Tail(objects[o])
        <5>1. k + 1 \in DOMAIN objects[o] /\ objects'[o][k] = objects[o][k + 1]
          BY <1>3, <3>1, <4>3
        <5> QED BY <3>1, <5>1
      <4> QED BY <3>2, <3>3, <4>2, <4>3, WorkedOn
    <3> QED BY <2>2, <3>2, <3>3, ObjectStep
  <2>3. CASE o \in DOMAIN objects /\ ~Started(i)
    <3>1. Start(i)
      BY <1>3, <2>3, RunStep
    <3>2. ~Used(o, n)
      BY <1>0, <2>3, <3>1, StartsClean
    <3> QED BY <1>3, <2>3, <3>2, ObjectStep
  <2> QED BY <2>1, <2>2, <2>3
<1> QED BY <1>2, <1>3

-----------------------------------------------------------------------------
(* The inductive invariant and what it says.                                  *)
IInv == /\ LInv /\ NameInv /\ RoomInv /\ BinInv /\ TokenInv
        /\ SerialInv /\ SoloInv /\ KeepInv /\ OwnInv

LEMMA IInvInit == Init => IInv
<1> SUFFICES ASSUME Init PROVE IInv
  OBVIOUS
<1>1. LInv
  BY LInvInit
<1>2. NameInv /\ RoomInv /\ BinInv /\ TokenInv
  BY DEF Init, NameInv, RoomInv, BinInv, TokenInv
<1>3. \A q \in Procs : status[q] = "new" /\ got[q] = {}
  BY DEF Init
<1>4. SerialInv /\ OwnInv
  BY <1>3, ProcFacts DEF SerialInv, OwnInv, Started
<1>5. \A n \in Names : bound[n] = 0
  BY DEF Init, Nothing
<1>6. SoloInv /\ KeepInv
  BY <1>3, <1>5 DEF SoloInv, KeepInv, Obliged
<1> QED BY <1>1, <1>2, <1>4, <1>6 DEF IInv

LEMMA IInvKept == IInv /\ [Next]_vars => IInv'
  BY LInvKept, NamesApart, RoomKept, BinKept, TokenKept, SerialKept, SoloKept, KeepKept, OwnKept DEF IInv

LEMMA IInvSays == IInv => TypeOK /\ OneInside /\ FromOwnRun /\ NoNameLeft
<1> SUFFICES ASSUME IInv PROVE TypeOK /\ OneInside /\ FromOwnRun /\ NoNameLeft
  OBVIOUS
<1>0. LInv /\ Types
  BY DEF IInv, LInv
<1>1. TypeOK
  BY <1>0 DEF IInv, Types, RoomInv, TypeOK
<1>2. OneInside
  <2>1. ASSUME NEW o \in DOMAIN objects, NEW p \in Inside(o)
        PROVE  Cardinality(Inside(o)) + Len(objects[o]) = 1
    <3>1. p \in Procs /\ Calls(p, "post") /\ N(p) = "bin" /\ Obj(p) = o
      BY DEF Inside
    <3>2. "bin" \in Names /\ Used(o, "bin")
      BY <1>0, <3>1, CallFacts DEF Used, Obj
    <3>3. objects[o] = <<>> /\ Inside(o) = {p}
      BY <3>2 DEF IInv, BinInv
    <3>4. Cardinality({p}) = 1 /\ Len(<<>>) = 0
      BY FS_Singleton
    <3> QED BY <3>3, <3>4
  <2>2. ASSUME NEW o \in DOMAIN objects, Inside(o) = {}, cuts = 0, "bin" \in Names, Used(o, "bin")
        PROVE  Cardinality(Inside(o)) + Len(objects[o]) = 1
    <3>1. Len(objects[o]) <= 1 /\ objects[o] # <<>> /\ objects[o] \in Seq(Messages)
      BY <1>0, <2>2 DEF IInv, BinInv, TokenInv, Types, Messages
    <3>2. Len(objects[o]) = 1
      BY <3>1, ShortSeq
    <3> QED BY <2>2, <3>2, FS_EmptySet
  <2> QED BY <2>1, <2>2 DEF OneInside
<1>3. FromOwnRun
  BY DEF IInv, OwnInv, FromOwnRun
<1>4. NoNameLeft
  BY DEF IInv, KeepInv, Obliged, NoNameLeft, Over
<1> QED BY <1>1, <1>2, <1>3, <1>4

LEMMA Always == Spec => []IInv
<1>1. Init => IInv  BY IInvInit
<1>2. IInv /\ [Next]_vars => IInv'  BY IInvKept
<1> QED BY <1>1, <1>2, PTL DEF Spec

(* Every variable keeps its type, and no message queue or fifo ever holds     *)
(* more than it may, whichever programs run and however they overlap.         *)
THEOREM Typed == Spec => []TypeOK
  BY Always, IInvSays, PTL

(* At most one process that has the same binary semaphore open is between     *)
(* sem_wait and sem_post: also when runs overlap, unlink the name under one   *)
(* another, or are interrupted inside. Without an interruption the one is     *)
(* never lost: sem_wait returns when nobody is inside.                        *)
THEOREM OneAtATime == Spec => []OneInside
  BY Always, IInvSays, PTL

(* Without overlap and without interruption no process receives anything an   *)
(* earlier run has left: the queue it opens is a new one.                     *)
THEOREM OwnMessages == Spec => []FromOwnRun
  BY Always, IInvSays, PTL

(* When all runs are over and none was cut off no name is left in the system, *)
(* except the second of the two counting semaphores' names when runs overlap. *)
THEOREM NamesGone == Spec => []NoNameLeft
  BY Always, IInvSays, PTL
====
