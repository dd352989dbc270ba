------------------------------ MODULE MCWaiting ------------------------------
(***************************************************************************)
(* Sleeping and what is built on it, for TLC: the queue of sleep_on, pipes *)
(* and terminals.                                                          *)
(* They share nothing here; a behaviour is that of one of them, and the    *)
(* others keep their first state.                                          *)
(***************************************************************************)
EXTENDS Pipe

CONSTANTS
    Task, NULL,         \* WaitQueue
    TtyWriter, TTY_SIZE, MARGIN, ROOM, STARTUP, MaxTyped, MaxCalls,
    TtyReader, Uart     \* numbers of the reader of a terminal and of the UART

\* What the theorems about sleep_on assume of its constants.
ASSUME NullOutside == NULL \notin Task

VARIABLES
    which,
    p, tmp, state, at, released,
    kind, icanon, time, tty, signal, rd, wr, cr_flag, ier, left, typed, read

Text == {<<"a", "a", "nl">>, <<"a", "a", "a", "a">>, <<"nl">>}

Waits == INSTANCE WaitQueue WITH pc <- at
Ttys == INSTANCE Tty WITH Proc <- TtyWriter, SIZE <- TTY_SIZE,
            Kinds <- {"edit", "read", "serial", "console"}, got <- read

queueVars == <<p, tmp, state, at, released>>
ttyVars == <<kind, icanon, time, tty, signal, rd, wr, cr_flag, ier, left, typed, read>>

mcvars == <<which, queueVars, vars, ttyVars>>

MCInit ==
    /\ which \in {"queue", "pipe", "tty"}
    /\ which # "pipe" => faults = {}
    /\ which # "tty" => kind = "console"
    /\ Waits!Init /\ Init /\ Ttys!Init

Only(c) ==
    /\ which = c
    /\ UNCHANGED which
    /\ c # "queue" => UNCHANGED queueVars
    /\ c # "pipe" => UNCHANGED vars
    /\ c # "tty" => UNCHANGED ttyVars

MCNext ==
    \/ Only("queue") /\ Waits!Next
    \/ Only("pipe") /\ Next
    \/ Only("tty") /\ Ttys!Next

\* The fairness of the components.  Their actors are numbers, so that one
\* condition per number will do: a behaviour is that of one component.
Acts(i) ==
    \/ Only("queue") /\ i \in Task /\ Waits!Resume(i)
    \/ Only("pipe") /\ i \in Proc /\ Kernel(i)
    \/ Only("tty") /\ \/ i \in TtyWriter /\ Ttys!tty_write(i)
                      \/ i = TtyReader /\ Ttys!tty_read
                      \/ i = Uart /\ Ttys!write_char

MCFairness ==
    \A i \in Task \cup Proc \cup TtyWriter \cup {TtyReader, Uart} : WF_mcvars(Acts(i))

MCSpec == MCInit /\ [][MCNext]_mcvars /\ MCFairness

-----------------------------------------------------------------------------
\* sleep_on and wake_up implement WaitSet, its liveness included (WaitQueue).
ImplementsWaitSet == Waits!ImplementsWaitSet

\* secondary.data counts the lines of the secondary queue (Tty).
DataIsLines == Ttys!DataIsLines

\* tty_read delivers what arrived, once and in order (Tty).
ReadInOrder == Ttys!ReadInOrder

\* tty_read and tty_write return (Tty).
CallsReturn == Ttys!CallsReturn
=============================================================================
