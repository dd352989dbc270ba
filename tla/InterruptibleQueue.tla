------------------------- MODULE InterruptibleQueue -------------------------
(***************************************************************************)
(* interruptible_sleep_on and wake_up of kernel/sched.c on the wait queue  *)
(* of a tty queue, with the signal scan of schedule().                     *)
(*                                                                         *)
(* A signal may wake a sleeper in the middle of the list.  Such a task     *)
(* makes the head of the queue runnable and goes back to sleep, in the     *)
(* hope that the chain of tmp pointers reaches it again from the head.     *)
(***************************************************************************)
EXTENDS Naturals, FiniteSets

CONSTANTS Task, NULL

VARIABLES p,       \* the queue: the last task that went to sleep, or NULL
          tmp,     \* the local variable of each interruptible_sleep_on frame
          state,   \* task_struct.state
          pc,      \* "out", or "in" while inside interruptible_sleep_on
          signal   \* tasks with a pending signal that is not blocked

vars == <<p, tmp, state, pc, signal>>

RUNNING == "TASK_RUNNING"
INTERRUPTIBLE == "TASK_INTERRUPTIBLE"

Inside == {t \in Task : pc[t] = "in"}

Init ==
    /\ p = NULL
    /\ tmp = [t \in Task |-> NULL]
    /\ state = [t \in Task |-> RUNNING]
    /\ pc = [t \in Task |-> "out"]
    /\ signal = {}

\* Mutant: the scan of schedule() that wakes signalled tasks is missing.
SignalScanSkipped(st) == st

\* The first loop of schedule(): task states st after the signal scan.
SignalScan(st) ==
    [t \in Task |-> IF t \in signal /\ st[t] = INTERRUPTIBLE
                    THEN RUNNING ELSE st[t]]

\* interruptible_sleep_on up to schedule(); its callers in tty_io.c do not
\* sleep while they have a signal.
SleepOn(t) ==
    /\ pc[t] = "out" /\ t \notin signal
    /\ tmp' = [tmp EXCEPT ![t] = p]
    /\ p' = t
    /\ state' = SignalScan([state EXCEPT ![t] = INTERRUPTIBLE])
    /\ pc' = [pc EXCEPT ![t] = "in"]
    /\ UNCHANGED signal

\* "goto repeat": somebody else is at the head, wake it and sleep again.
Repeat(t) ==
    /\ pc[t] = "in" /\ state[t] = RUNNING
    /\ p # NULL /\ p # t
    /\ state' = SignalScan([state EXCEPT ![p] = RUNNING, ![t] = INTERRUPTIBLE])
    /\ UNCHANGED <<p, tmp, pc, signal>>

\* The return from interruptible_sleep_on.
Leave(t) ==
    /\ pc[t] = "in" /\ state[t] = RUNNING
    /\ p = NULL \/ p = t
    /\ p' = NULL
    /\ state' = IF tmp[t] # NULL
                THEN [state EXCEPT ![tmp[t]] = RUNNING] ELSE state
    /\ tmp' = [tmp EXCEPT ![t] = NULL]
    /\ pc' = [pc EXCEPT ![t] = "out"]
    /\ UNCHANGED signal

\* wake_up(&p), from copy_to_cooked in a keyboard or serial interrupt.
WakeUp ==
    /\ p # NULL
    /\ state' = [state EXCEPT ![p] = RUNNING]
    /\ p' = NULL
    /\ UNCHANGED <<tmp, pc, signal>>

\* A signal is posted; do_signal takes it when the task is back in user mode.
PostSignal(t) ==
    /\ t \notin signal
    /\ signal' = signal \cup {t}
    /\ UNCHANGED <<p, tmp, state, pc>>

DoSignal(t) ==
    /\ t \in signal /\ pc[t] = "out"
    /\ signal' = signal \ {t}
    /\ UNCHANGED <<p, tmp, state, pc>>

\* schedule() called by any other task, the idle task included.
Schedule ==
    /\ state # SignalScan(state)
    /\ state' = SignalScan(state)
    /\ UNCHANGED <<p, tmp, pc, signal>>

Resume(t) == Repeat(t) \/ Leave(t)

Next ==
    \/ WakeUp
    \/ Schedule
    \/ \E t \in Task : SleepOn(t) \/ Resume(t) \/ PostSignal(t) \/ DoSignal(t)

\* The idle task calls schedule() for ever, and schedule() runs every runnable
\* task sooner or later.
Fairness ==
    /\ WF_vars(Schedule)
    /\ \A t \in Task : WF_vars(Resume(t))

Spec == Init /\ [][Next]_vars /\ Fairness
-----------------------------------------------------------------------------
\* If every task on the queue has a signal (an interrupt character sends one to
\* the whole process group), the queue empties unless new sleepers arrive.
SignalledGroupLeaves ==
    (Inside # {} /\ Inside \subseteq signal)
        ~> (Inside = {} \/ ~(Inside \subseteq signal))

=============================================================================
