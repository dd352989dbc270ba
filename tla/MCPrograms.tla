----------------------------- MODULE MCPrograms -----------------------------
(***************************************************************************)
(* The user programs, for TLC: the network library, the HTTP parser on one *)
(* of its connections, the producers and consumers, and the sorts.  They   *)
(* share nothing; the first step of a behaviour has chosen one of them,    *)
(* and the others keep their first state.                                  *)
(***************************************************************************)
EXTENDS Reactor

CONSTANTS INIT_BUFFER_SIZE, Consumer, NUM, MaxMade, Key, MaxLen

VARIABLES
    which,
    sent, split, wire, buffer, request, pc, answers, parserFault,
    program, made, taken, producer, consumer, head, queue, sem, in, out, listFault,
    algorithm, given, arr, done

\* Up to three requests, of which only the last may end the connection.
Requests ==
    LET r == [version : {"1.0", "1.1"}, connection : {"", "close", "Keep-Alive"}]
    IN {q \in BoundedSeq(r, 3) : \A i \in 1..(Len(q) - 1) : q[i].connection # "close"}

Parser == INSTANCE HttpConnection WITH Splits <- {TRUE, FALSE}, input <- buffer, fault <- parserFault
List == INSTANCE Threads WITH Programs <- {"cond", "sem"}, fault <- listFault
Sorts == INSTANCE Sorting WITH input <- given

parserVars == <<sent, split, wire, buffer, request, pc, answers, parserFault>>
listVars == <<program, made, taken, producer, consumer, head, queue, sem, in, out, listFault>>
sortsVars == <<algorithm, given, arr, done>>

mcvars == <<which, vars, parserVars, listVars, sortsVars>>

ReactorIdle == setting = [dispatcher |-> "poll", threads |-> 0, server |-> "http"]
ParserIdle == sent = <<>> /\ split = FALSE
ListIdle == program = "sem"
SortsIdle == algorithm = "merge" /\ given = <<>>

MCInit ==
    /\ which \in {"reactor", "parser", "list", "sorts"}
    /\ which # "reactor" => ReactorIdle
    /\ which # "parser" => ParserIdle
    /\ which # "list" => ListIdle
    /\ which # "sorts" => SortsIdle
    /\ Init /\ Parser!Init /\ List!Init /\ Sorts!Init

Others(c) ==
    /\ UNCHANGED which
    /\ c # "reactor" => UNCHANGED vars
    /\ c # "parser" => UNCHANGED parserVars
    /\ c # "list" => UNCHANGED listVars
    /\ c # "sorts" => UNCHANGED sortsVars

ReactorThread(l) == which = "reactor" /\ Thread(l) /\ Others("reactor")

MCNext ==
    \/ \E l \in Loop : ReactorThread(l)
    \/ which = "reactor" /\ Clients /\ Others("reactor")
    \/ which = "parser" /\ Parser!Next /\ Others("parser")
    \/ which = "list" /\ List!Next /\ Others("list")
    \/ which = "sorts" /\ Sorts!Sort /\ Others("sorts")

\* The fairness of Reactor, which is that of the threads.
MCSpec == MCInit /\ [][MCNext]_mcvars /\ \A l \in Loop : WF_mcvars(ReactorThread(l))

\* http_server.c: an answer belongs to its request (HttpConnection).
AnswersInOrder == Parser!AnswersInOrder

\* The producer and consumer programs: taken once, never from an empty list
\* (Threads).
TakenOnce == List!TakenOnce

\* algApp/sort: a sorted permutation, stable where the docs say so (Sorting).
SortsInput == Sorts!SortsInput
=============================================================================
