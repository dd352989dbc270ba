------------------------------ MODULE Threads ------------------------------
(***************************************************************************)
(* The producer and consumer programs of SystemProgramming: with a mutex   *)
(* and a condition variable (conditionVar_product_consumer.c, and          *)
(* cond_produce_mutli_consumer.c with several consumers), and with two     *)
(* semaphores around a ring (sem_product_consumer.c).  Messages are        *)
(* numbered in the order they are made.  A critical section is one step,   *)
(* since the mutex keeps everybody else out of it.                         *)
(***************************************************************************)
EXTENDS Naturals, Sequences

CONSTANTS
    Programs,       \* "cond", "sem"
    Consumer,       \* the consumer threads of "cond"; "sem" has one
    NUM,            \* slots of the ring
    MaxMade         \* bound: the messages a producer makes

VARIABLES
    program,
    made,           \* messages made so far
    taken,          \* what the consumers have printed, in order
    producer,       \* pc of the producer
    consumer,       \* [Consumer -> pc]
    head,           \* "cond": the list, first message first
    queue,          \* "sem": the ring, 0 for an empty slot
    sem,            \* "sem": the values of blank_number and product_number
    in, out,        \* "sem": the two local i
    fault           \* whether a consumer followed a null head

cond == <<head, fault>>
ring == <<queue, sem, in, out>>
vars == <<program, made, taken, producer, consumer, cond, ring>>

Init ==
    /\ program \in Programs
    /\ made = 0 /\ taken = <<>>
    /\ producer = "make"
    /\ consumer = [c \in Consumer |-> "lock"]
    /\ head = <<>> /\ fault = FALSE
    /\ queue = [i \in 0..(NUM - 1) |-> 0]
    /\ sem = [blank |-> NUM, product |-> 0]
    /\ in = 0 /\ out = 0

-----------------------------------------------------------------------------
(* The condition variable.                                                 *)

\* malloc, then the message is put in front of the list under the mutex.
Produce ==
    /\ program = "cond" /\ producer = "make" /\ made < MaxMade
    /\ made' = made + 1
    /\ head' = <<made + 1>> \o head
    /\ producer' = "signal"
    /\ UNCHANGED <<program, taken, consumer, fault, ring>>

Waiting == {c \in Consumer : consumer[c] = "wait"}

\* pthread_cond_signal, after the unlock; nobody may be waiting.
Signal ==
    /\ program = "cond" /\ producer = "signal"
    /\ producer' = "make"
    /\ IF Waiting = {} THEN UNCHANGED consumer
       ELSE \E c \in Waiting : consumer' = [consumer EXCEPT ![c] = "woken"]
    /\ UNCHANGED <<program, made, taken, cond, ring>>

\* pthread_cond_wait may return without a signal.
Spurious(c) ==
    /\ consumer[c] = "wait"
    /\ consumer' = [consumer EXCEPT ![c] = "woken"]
    /\ UNCHANGED <<program, made, taken, producer, cond, ring>>

\* mp = head; head = mp->next; after the unlock it is printed and freed.
Take(c) ==
    /\ IF head = <<>>
       THEN fault' = TRUE /\ UNCHANGED <<head, taken>>
       ELSE head' = Tail(head) /\ taken' = Append(taken, Head(head)) /\ UNCHANGED fault
    /\ consumer' = [consumer EXCEPT ![c] = "lock"]

\* Mutant: if in place of while.
TakesWhenWoken(c) ==
    /\ program = "cond" /\ consumer[c] \in {"lock", "woken"}
    /\ IF head = <<>> /\ consumer[c] = "lock"
       THEN consumer' = [consumer EXCEPT ![c] = "wait"] /\ UNCHANGED <<taken, cond>>
       ELSE Take(c)
    /\ UNCHANGED <<program, made, producer, ring>>

\* With the mutex, first or again after the wait: while (head == NULL) wait.
Consume(c) ==
    /\ program = "cond" /\ consumer[c] \in {"lock", "woken"}
    /\ IF head = <<>>
       THEN consumer' = [consumer EXCEPT ![c] = "wait"] /\ UNCHANGED <<taken, cond>>
       ELSE Take(c)
    /\ UNCHANGED <<program, made, producer, ring>>

-----------------------------------------------------------------------------
(* The semaphores.                                                         *)

SemWaitBlank ==
    /\ program = "sem" /\ producer = "make" /\ made < MaxMade
    /\ sem.blank > 0
    /\ sem' = [sem EXCEPT !.blank = @ - 1]
    /\ producer' = "put"
    /\ UNCHANGED <<program, made, taken, consumer, cond, queue, in, out>>

Put ==
    /\ producer = "put"
    /\ made' = made + 1
    /\ queue' = [queue EXCEPT ![in] = made + 1]
    /\ producer' = "post"
    /\ UNCHANGED <<program, taken, consumer, cond, sem, in, out>>

PostProduct ==
    /\ producer = "post"
    /\ sem' = [sem EXCEPT !.product = @ + 1]
    /\ in' = (in + 1) % NUM
    /\ producer' = "make"
    /\ UNCHANGED <<program, made, taken, consumer, cond, queue, out>>

First == CHOOSE c \in Consumer : TRUE

SemWaitProduct ==
    /\ program = "sem" /\ consumer[First] = "lock"
    /\ sem.product > 0
    /\ sem' = [sem EXCEPT !.product = @ - 1]
    /\ consumer' = [consumer EXCEPT ![First] = "get"]
    /\ UNCHANGED <<program, made, taken, producer, cond, queue, in, out>>

Get ==
    /\ consumer[First] = "get"
    /\ taken' = Append(taken, queue[out])
    /\ consumer' = [consumer EXCEPT ![First] = "clear"]
    /\ UNCHANGED <<program, made, producer, cond, ring>>

Clear ==
    /\ consumer[First] = "clear"
    /\ queue' = [queue EXCEPT ![out] = 0]
    /\ consumer' = [consumer EXCEPT ![First] = "post"]
    /\ UNCHANGED <<program, made, taken, producer, cond, sem, in, out>>

PostBlank ==
    /\ consumer[First] = "post"
    /\ sem' = [sem EXCEPT !.blank = @ + 1]
    /\ out' = (out + 1) % NUM
    /\ consumer' = [consumer EXCEPT ![First] = "lock"]
    /\ UNCHANGED <<program, made, taken, producer, cond, queue, in>>

Next ==
    \/ Produce \/ Signal \/ SemWaitBlank \/ Put \/ PostProduct
    \/ SemWaitProduct \/ Get \/ Clear \/ PostBlank
    \/ \E c \in Consumer : Spurious(c) \/ Consume(c)

Spec == Init /\ [][Next]_vars

-----------------------------------------------------------------------------
\* What is consumed has been produced, and is consumed once; through the ring
\* also in the order it was produced.  Nobody takes from an empty list: with
\* several consumers the wait has to be in a while, as the comment at
\* cond_produce_mutli_consumer.c:49 says.
TakenOnce ==
    /\ ~fault
    /\ \A i, j \in 1..Len(taken) : taken[i] = taken[j] => i = j
    /\ \A i \in 1..Len(taken) : taken[i] \in 1..made
    /\ program = "sem" => \A i \in 1..Len(taken) : taken[i] = i
=============================================================================
