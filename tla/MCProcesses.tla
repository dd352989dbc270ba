---------------------------- MODULE MCProcesses ----------------------------
(***************************************************************************)
(* Scheduling, the life of processes, and the queue of                     *)
(* interruptible_sleep_on, for TLC.  They share nothing here; a behaviour  *)
(* is that of one of them, and the others keep their first state.          *)
(***************************************************************************)
EXTENDS Process

CONSTANTS NR, Priority, MaxPriority, MaxAlarm, Alarmed, Niced,   \* Scheduler
          Sleeper, NULL                                          \* InterruptibleQueue

\* What the theorems about the scheduler assume of its constants.
ASSUME SchedulerBounds ==
    /\ NR \in Nat \ {0}
    /\ MaxPriority \in Nat /\ Priority \in 1..MaxPriority
    /\ MaxAlarm \in Nat

VARIABLES which, current, state, counter, priority, mode, signal, alarm,
          p, tmp, istate, pc, isignal

schedulerVars == <<current, state, counter, priority, mode, signal, alarm>>
queueVars == <<p, tmp, istate, pc, isignal>>
mcvars == <<which, schedulerVars, vars, queueVars>>

SomeActs ==
    {[Default EXCEPT !.handler = "catch", !.mask = {9}],
     [Default EXCEPT !.handler = "catch", !.oneshot = TRUE, !.nomask = TRUE],
     [Default EXCEPT !.handler = "ign"]}
SomeCalls ==
    {[make |-> {"fork", "exit", "wait", "setpgid"}, send |-> {}, root |-> FALSE],
     [make |-> {"fork", "exit", "wait", "mask"}, send |-> {}, root |-> FALSE],
     [make |-> {"sigaction", "kill", "pause"}, send |-> {1, 17}, root |-> TRUE],
     [make |-> {"fork", "exit", "wait", "setsid", "pause"}, send |-> {}, root |-> FALSE],
     [make |-> {"fork", "kill"}, send |-> {9}, root |-> FALSE]}

Sched == INSTANCE Scheduler
Queue == INSTANCE InterruptibleQueue
             WITH Task <- Sleeper, state <- istate, signal <- isignal

MCInit ==
    /\ which \in {"scheduler", "life", "queue"}
    /\ which # "life" => calls = [make |-> {"fork", "kill"}, send |-> {9}, root |-> FALSE]
    /\ Sched!Init /\ Init /\ Queue!Init

Only(c) ==
    /\ which = c
    /\ UNCHANGED which
    /\ c # "scheduler" => UNCHANGED schedulerVars
    /\ c # "life" => UNCHANGED vars
    /\ c # "queue" => UNCHANGED queueVars

MCNext ==
    \/ Only("scheduler") /\ Sched!Next
    \/ Only("life") /\ Next
    \/ Only("queue") /\ Queue!Next

\* The fairness of Scheduler (the clock, and whoever is in the kernel), of
\* Process (each task in the kernel, and the loop of init) and of
\* InterruptibleQueue (its tasks, and the idle task), by number.
Acts(i) ==
    \/ Only("scheduler") /\ i = 1 /\ Sched!Tick
    \/ Only("scheduler") /\ i = 2 /\ Sched!GetsOn
    \/ Only("life") /\ i < NR_TASKS /\ Kernel(i)
    \/ Only("life") /\ i = NR_TASKS /\ InitLoop
    \/ Only("queue") /\ i \in Sleeper /\ Queue!Resume(i)
    \/ Only("queue") /\ i = NR_TASKS /\ Queue!Schedule

MCSpec == MCInit /\ [][MCNext]_mcvars /\ \A i \in 1..NR_TASKS : WF_mcvars(Acts(i))

-----------------------------------------------------------------------------
\* In the behaviours of the scheduler no runnable task starves (Scheduler).
SchedulerServes == which = "scheduler" => Sched!NoStarvation

\* An alarm ends an interruptible sleep (Scheduler).
AlarmWakes == Sched!AlarmWakes

\* interruptible_sleep_on: a queue whose tasks all have signals empties
\* (InterruptibleQueue).
SignalledGroupLeaves == Queue!SignalledGroupLeaves
=============================================================================
