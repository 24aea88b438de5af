---- MODULE Studies ----
(* Eight small programs of the repository that have nothing in common but     *)
(* their size. A behaviour is one of them, run on its own.                    *)
EXTENDS SemHandoff, CharRing, SharedInput, Cancel, UdpEcho, ChatPair, EchoServer,
        DaemonClient

VARIABLE study

studyvars == <<study, vars, rvars, sivars, cavars, uvars, chvars, evars, dcvars>>

Studied == {"handoff", "ring", "input", "cancel", "udp", "chat", "echo", "dialog"}

(* The initial choices of a program that is not run are fixed.                *)
StudiesInit ==
    /\ study \in Studied
    /\ Init /\ RingInit /\ SharedInit /\ CancelInit /\ UdpInit /\ ChatInit /\ EchoInit
    /\ DialogInit
    /\ study # "input" => \A t \in Roses : ans[t] = Other
    /\ study # "cancel" => script = "exit"
    /\ study # "echo" => ecur = CHOOSE k \in Clients : TRUE

Others(s) ==
    /\ study = s
    /\ UNCHANGED study
    /\ s # "handoff" => UNCHANGED vars
    /\ s # "ring" => UNCHANGED rvars
    /\ s # "input" => UNCHANGED sivars
    /\ s # "cancel" => UNCHANGED cavars
    /\ s # "udp" => UNCHANGED uvars
    /\ s # "chat" => UNCHANGED chvars
    /\ s # "echo" => UNCHANGED evars
    /\ s # "dialog" => UNCHANGED dcvars

Handoff(A) == Others("handoff") /\ A
Ring(A) == Others("ring") /\ A
Input(A) == Others("input") /\ A
Canceling(A) == Others("cancel") /\ A
Udp(A) == Others("udp") /\ A
Chat(A) == Others("chat") /\ A
Echo(A) == Others("echo") /\ A
Dialog(A) == Others("dialog") /\ A

StudiesNext ==
    \/ Handoff(Next) \/ Ring(RingNext) \/ Input(SharedNext) \/ Canceling(CancelNext)
    \/ Udp(UdpNext) \/ Chat(ChatNext) \/ Echo(EchoNext) \/ Dialog(DialogNext)

(* Every process and thread that can run does, while nothing is expected of   *)
(* the users; a socket that is closed or readable wakes whoever waits for it, *)
(* and an asynchronous cancellation is delivered.                             *)
StudiesSpec ==
    /\ StudiesInit /\ [][StudiesNext]_studyvars
    /\ WF_studyvars(Handoff(Producer)) /\ WF_studyvars(Handoff(Consumer))
    /\ WF_studyvars(Handoff(MainJoins))
    /\ WF_studyvars(Ring(Store)) /\ WF_studyvars(Ring(thread2_func))
    /\ \A t \in Roses : WF_studyvars(Input(FgetsLine(t))) /\ WF_studyvars(Input(Test(t)))
    /\ WF_studyvars(Input(JoinRoses))
    /\ WF_studyvars(Canceling(cancel_thread)) /\ WF_studyvars(Canceling(CancelAnywhere))
    /\ WF_studyvars(Canceling(cancel_main))
    /\ WF_studyvars(Udp(udp_server))
    /\ \A k \in UdpClients : WF_studyvars(Udp(RecvfromServer(k)))
    /\ WF_studyvars(Chat(AcceptClient))
    /\ \A e \in Ends : WF_studyvars(Chat(Hear(e))) /\ WF_studyvars(Chat(CloseBoth(e)))
    /\ WF_studyvars(Echo(echo_server))
    /\ \A k \in Clients : WF_studyvars(Echo(echo_reader(k)))
    /\ WF_studyvars(Dialog(DialogRecv)) /\ WF_studyvars(Dialog(handle_client))

-----------------------------------------------------------------------------
(* Types of the variables.                                                    *)
StudiesTypeOK ==
    /\ study \in Studied
    /\ TypeOK /\ RingTypeOK /\ SharedTypeOK /\ CancelTypeOK
    /\ UdpTypeOK /\ ChatTypeOK /\ EchoTypeOK /\ DialogTypeOK

(* The programs that close a connection cut off nothing that was to arrive:   *)
(* ChatComplete, EchoedInFull and FirstLineAnswered.                          *)
NothingCut == ChatComplete /\ EchoedInFull /\ FirstLineAnswered

(* Whoever waits for an answer over the network gets it or the end of the     *)
(* connection, with the exceptions named in UdpAnswered, ChatEnds, TurnComes  *)
(* and DialogEnds.                                                            *)
Answered ==
    /\ study = "udp" => UdpAnswered
    /\ study = "chat" => ChatEnds
    /\ study = "echo" => TurnComes
    /\ study = "dialog" => DialogEnds

(* The programs with two threads do what main waits for: all rounds of the    *)
(* hand-over complete, what is typed is printed, the second rose leaves, a    *)
(* cancelled thread ends (Completes, RingDrains, LastOneServed and CancelEnds,*)
(* with their exceptions).                                                    *)
ThreadsEnd ==
    /\ study = "handoff" => Completes
    /\ study = "ring" => RingDrains
    /\ study = "input" => LastOneServed
    /\ study = "cancel" => CancelEnds
====
