---- MODULE IpcPrograms ----
(* The scripts of the programs NamedObjects runs, one per file; loops of      *)
(* fixed length are shortened to two rounds (bound).                          *)
EXTENDS NamedObjects

AllNames == {"bin", "empty", "full", "count", "mq", "fifo", "pipe"}

Do(ops, n) == [k \in DOMAIN ops |-> [do |-> ops[k], on |-> n]]
Alone(script) == [parent |-> script, child |-> <<>>]

NamedSemBinProcess ==
    [parent |-> Do(<<"create", "fork", "take", "post", "waitpid", "unlinkOrFail">>, "bin"),
     child |-> Do(<<"take", "post">>, "bin")]

(* shared_data is not shared between the processes: only the order is.        *)
producer_process == Do(<<"take">>, "empty") \o Do(<<"post">>, "full")
consumer_process == Do(<<"take">>, "full") \o Do(<<"post">>, "empty")
NamedSemProducerConsumer ==
    [parent |-> Do(<<"create">>, "empty") \o Do(<<"create", "fork">>, "full")
                \o producer_process \o producer_process
                \o Do(<<"waitpid", "unlinkOrFail">>, "empty") \o Do(<<"unlinkOrFail">>, "full"),
     child |-> consumer_process \o consumer_process]

UnnamedSemCountProcess ==
    [parent |-> Do(<<"create", "sem_init", "fork", "take", "waitpid", "unlink">>, "count"),
     child |-> Do(<<"post">>, "count")]

FatherSonMq ==
    [parent |-> Do(<<"create", "fork", "send", "send", "waitpid", "unlink">>, "mq"),
     child |-> Do(<<"receive", "receive">>, "mq")]

Product == Alone(Do(<<"create", "sendLines", "unlink">>, "mq"))
Consumer == Alone(Do(<<"create", "receiveLines", "unlink">>, "mq"))

FifoPipeWrite == Alone(Do(<<"mkfifo", "openRdwr", "writeLines", "close", "unlinkOrFail">>, "fifo"))
FifoPipeRead ==
    Alone(Do(<<"openRdonly", "awaitWriter", "readLines", "close", "unlinkOrFail">>, "fifo"))

UnnamedPipe ==
    [parent |-> Do(<<"pipe", "fork", "writeArgument", "waitpid">>, "pipe"),
     child |-> Do(<<"take">>, "pipe")]

InTurn(runs) == [runs |-> runs, overlap |-> FALSE]
Together(runs) == [runs |-> runs, overlap |-> TRUE]

AllScenarios ==
    {Together(<<NamedSemBinProcess, NamedSemBinProcess>>),
     InTurn(<<NamedSemProducerConsumer, NamedSemProducerConsumer>>),
     Together(<<NamedSemProducerConsumer, NamedSemProducerConsumer>>),
     InTurn(<<UnnamedSemCountProcess, UnnamedSemCountProcess>>),
     InTurn(<<FatherSonMq, FatherSonMq>>),
     Together(<<FatherSonMq, FatherSonMq>>),
     Together(<<Product, Consumer, Product>>),
     Together(<<Consumer, Product, Consumer>>),
     Together(<<FifoPipeWrite, FifoPipeRead, FifoPipeWrite>>),
     InTurn(<<UnnamedPipe>>)}
====
